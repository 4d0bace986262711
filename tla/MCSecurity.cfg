CONSTANTS
    a1 = a1
    s1 = s1
    s2 = s2
    Nothing = Nothing
    Apps = {a1}
    Surfaces = {s1, s2}
    BrowserValues <- MCBrowserValues
    AgeValues <- MCAgeValues
    MarkerValues <- MCMarkerValues
    MaxGrants = 2
    MaxOverrides = 1
SYMMETRY Symmetry
SPECIFICATION SecuritySpec

    
    
PROPERTIES
    GivenGrantIsEnough
