SPECIFICATION Spec
CONSTANTS
    Ids <- MCIds
    NodePath <- MCNodePath
    OtherPaths <- MCOtherPaths
    Listed <- MCListed
    Ciphers <- MCCiphers
    Layouts <- MCLayouts
    MaxIssued = 3
INVARIANTS
    
    OnlyLayoutsLost
    
PROPERTIES
    GenerateOnlyAdds
