\* Spec 4.5 dispatch rule, structure parameters included.
CONSTANTS
    ParamNames <- MCParamNames
    AnyLabel = AnyLabel
    AllLabel = AllLabel
    Queries <- MCQueries
    QueryTrue = "QueryTrue"
    NoneVal = NoneVal
    MaxParams = 2
SPECIFICATION Spec

INVARIANT DispatchRule
