SPECIFICATION SystemsSpec
CONSTANTS
    Guests = {g1, g2}
    HubPorts = {1, 2}
    MaxFaults = 1
    MaxEnds = 2
    MaxSwaps = 2
    MaxWrites = 1
    MaxBlocks = 1
    MaxHitches = 1
INVARIANTS
    SystemsTypeOK
    
    NoneLeft
    RowsOfItsHub
PROPERTIES
    
    HubReleases
    Noticed
    
CHECK_DEADLOCK FALSE
