SPECIFICATION DeliverySpec
CONSTANTS
    Profiles <- MCProfiles
    Components <- MCComponents
    Values <- MCValues
    None = None
    MaxCachedStates = 1
    CrashLoop = 3
    MaxGenerations = 2
    MaxSequence = 3

    
PROPERTIES
    CacheNeverRegresses
