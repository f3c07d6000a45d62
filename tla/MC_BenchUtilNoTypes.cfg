CONSTANTS
    MaxCount <- MCMaxCount
    MaxCalls <- MCMaxCalls
    Specs <- MCSpecs
SPECIFICATION Spec
INVARIANT
    InsertReturnsStatus
