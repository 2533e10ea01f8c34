--------------------------- MODULE ScenarioDispatch ---------------------------
(***************************************************************************)
(* FunmanWorkUnit.to_scenario of funman/server/query.py: a request is     *)
(* turned into a Consistency or a ParameterSynthesis scenario.  A labeled *)
(* parameter of the request is a record [name, label]; its bounds are     *)
(* copied unchanged and left out.  A Python list is a sequence, None a   *)
(* model value.                                                            *)
(***************************************************************************)
EXTENDS Naturals, Sequences

CONSTANTS
    ParamNames,  \* names of parameters
    AnyLabel,    \* LABEL_ANY
    AllLabel,    \* LABEL_ALL, a parameter to synthesize
    Queries,     \* the queries a request may carry
    QueryTrue,   \* QueryTrue()
    NoneVal      \* Python None

ASSUME DispatchAssumption ==
    /\ AnyLabel # AllLabel
    /\ QueryTrue \in Queries
    /\ NoneVal \notin Queries

Labels == {AnyLabel, AllLabel}

LabeledParameter == [name : ParamNames, label : Labels]

\* A parameter of a scenario: a ModelParameter or a StructureParameter.
ScenarioParameter == [cls : {"model", "structure"}, name : ParamNames,
                      label : Labels]

\* ModelParameter(name=..., ub=..., lb=..., label=...) of each element.
ToModelParameters(ps) ==
    [k \in 1..Len(ps) |-> [cls |-> "model", name |-> ps[k].name,
                           label |-> ps[k].label]]

\* Mutant: structure parameters copied as ModelParameters.
ToStructureParametersAsModel(ps) ==
    [k \in 1..Len(ps) |-> [cls |-> "model", name |-> ps[k].name,
                           label |-> ps[k].label]]

\* StructureParameter(name=..., ...) of each element.
ToStructureParameters(ps) ==
    [k \in 1..Len(ps) |-> [cls |-> "structure", name |-> ps[k].name,
                           label |-> ps[k].label]]

\* to_scenario(request, model).  The result records the scenario class,
\* its query and its parameters.  "raised" is the EnsembleModel
\* exception; isEnsemble is isinstance(self.model, EnsembleModel).
ToScenario(request, isEnsemble) ==
    LET query == IF request.query # NoneVal THEN request.query ELSE QueryTrue
        modelPs == IF request.parameters # NoneVal
                     THEN ToModelParameters(request.parameters) ELSE <<>>
        structPs == IF request.structure_parameters # NoneVal
                      THEN ToStructureParameters(request.structure_parameters)
                      ELSE <<>>
        parameters == modelPs \o structPs
        consistency ==
            \/ request.parameters = NoneVal
            \/ \A k \in 1..Len(request.parameters) :
                   request.parameters[k].label = AnyLabel
    IN  [kind |-> CASE consistency -> "consistency"
                    [] isEnsemble -> "raised"
                    [] OTHER -> "synthesis",
         query |-> query,
         parameters |-> parameters]

=============================================================================
