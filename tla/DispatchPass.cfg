\* to_scenario over every request with lists of up to two parameters.
CONSTANTS
    ParamNames <- MCParamNames
    AnyLabel = AnyLabel
    AllLabel = AllLabel
    Queries <- MCQueries
    QueryTrue = "QueryTrue"
    NoneVal = NoneVal
    MaxParams = 2
SPECIFICATION Spec
INVARIANT ScenarioParameters
