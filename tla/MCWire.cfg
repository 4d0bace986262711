CONSTANTS
  i1 = i1
  i2 = i2
  i3 = i3
  None = None
  Ids <- IdsValue
  Outputs = {"A"}
  Clients <- ClientsValue
  MaxSurfaces = 2
  MaxRegions = 1
  MaxDamage = 1
  MaxCallbacks = 2
  MaxPool = 2
  MaxTotal = 3
  MaxInput = 1
SPECIFICATION Spec
SYMMETRY Symmetry
INVARIANTS
    TablesAgree
    RolesAgree
    
CHECK_DEADLOCK FALSE
