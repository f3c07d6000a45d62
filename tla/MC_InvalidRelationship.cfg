CONSTANTS
    NodeKinds <- MCNodeKinds
    AttrNames <- MCAttrNames
    NeighborNames <- MCNeighborNames
    SplitName <- MCSplitName
    Admissible <- InvalidRelationship
    MaxRefs <- MCMaxRefs
INIT Init
NEXT Next
INVARIANTS
    FromRealisesWhere
