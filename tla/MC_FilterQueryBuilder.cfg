CONSTANTS
    NodeKinds <- MCNodeKinds
    AttrNames <- MCAttrNames
    NeighborNames <- MCNeighborNames
    SplitName <- MCSplitName
    Admissible <- ResolverAdmits
    MaxRefs <- MCMaxRefs
INIT Init
NEXT Next
INVARIANTS
    TypeOK
    AliasesDistinct
    SameConceptSameAlias
    FromRealisesWhere
PROPERTY
    RegistryRefined
