-------------------------- MODULE MCScenarioDispatch --------------------------
EXTENDS ScenarioDispatchChecks

MCParamNames == {"beta", "gamma"}

MCQueries == {"QueryTrue", "QueryLE"}

=============================================================================
