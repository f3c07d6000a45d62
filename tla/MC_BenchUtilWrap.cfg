CONSTANTS
    MaxCount <- MCMaxCountWrap
    MaxCalls <- MCMaxCallsWrap
    Specs <- MCSpecs
SPECIFICATION Spec
INVARIANTS
    TypesRoundRobin
