CONSTANTS
    MaxCount <- MCMaxCount
    MaxCalls <- MCMaxCalls
    Specs <- MCSpecs
SPECIFICATION Spec
INVARIANTS
    TypeOK
    NodesTypedOwnKind
    InsertedPrefix
