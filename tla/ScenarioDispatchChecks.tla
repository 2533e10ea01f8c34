------------------------ MODULE ScenarioDispatchChecks ------------------------
(***************************************************************************)
(* A client filling in a FunmanWorkRequest: query, parameters and         *)
(* structure_parameters are each None or set (the parameter lists to any  *)
(* list of at most MaxParams labeled parameters).  Every request shape is *)
(* reached, and the properties judge the scenario to_scenario builds.     *)
(* FunmanWorkUnit.model is a union that does not include EnsembleModel,   *)
(* so a work unit's model is never an ensemble.                           *)
(***************************************************************************)
EXTENDS ScenarioDispatch

CONSTANT MaxParams  \* the longest parameter list a request carries

ASSUME MaxParamsAssumption == MaxParams \in Nat

VARIABLE request

ParamLists == UNION {[1..n -> LabeledParameter] : n \in 0..MaxParams}

\* None is not a list: a request field that is None is told apart from
\* every parameter list it could hold.
ASSUME NoneAssumption == NoneVal \notin ParamLists

Request == [query : Queries \cup {NoneVal},
            parameters : ParamLists \cup {NoneVal},
            structure_parameters : ParamLists \cup {NoneVal}]

TypeOK == request \in Request

\* FunmanWorkRequest(): every field None.
Init == request = [query |-> NoneVal, parameters |-> NoneVal,
                   structure_parameters |-> NoneVal]

SetQuery(q) == request' = [request EXCEPT !.query = q]

SetParameters(ps) == request' = [request EXCEPT !.parameters = ps]

SetStructureParameters(ps) ==
    request' = [request EXCEPT !.structure_parameters = ps]

Next ==
    \/ \E q \in Queries \cup {NoneVal} : SetQuery(q)
    \/ \E ps \in ParamLists \cup {NoneVal} : SetParameters(ps)
    \/ \E ps \in ParamLists \cup {NoneVal} : SetStructureParameters(ps)

Spec == Init /\ [][Next]_request

Scenario == ToScenario(request, FALSE)

\* A request list, None read as empty.
ListOf(ps) == IF ps = NoneVal THEN <<>> ELSE ps

-----------------------------------------------------------------------------

\* to_scenario hands the scenario every parameter of the request, the
\* model parameters first and then the structure parameters, each with
\* its name, its label and the class of its origin, and a request that
\* marks a model parameter for synthesis gets a ParameterSynthesis
\* scenario.  Copying a structure parameter as a model parameter, or
\* dropping either list, breaks it.
ScenarioParameters ==
    LET mps == ListOf(request.parameters)
        sps == ListOf(request.structure_parameters)
        ps == Scenario.parameters
    IN  /\ Len(ps) = Len(mps) + Len(sps)
        /\ \A k \in 1..Len(mps) :
               ps[k] = [cls |-> "model", name |-> mps[k].name,
                        label |-> mps[k].label]
        /\ \A k \in 1..Len(sps) :
               ps[Len(mps) + k] = [cls |-> "structure", name |-> sps[k].name,
                                   label |-> sps[k].label]
        /\ (\E k \in 1..Len(mps) : mps[k].label = AllLabel)
               => Scenario.kind = "synthesis"

\* Spec 4.5: the parameter list is built from the model parameters and
\* the structure parameters, and the scenario is a Consistency one exactly
\* when every parameter of that list is labeled ANY.  to_scenario looks
\* at request.parameters alone, so a structure parameter marked for
\* synthesis is dropped into a Consistency check.
DispatchRule ==
    Scenario.kind = "consistency" <=>
        \A k \in 1..Len(Scenario.parameters) :
            Scenario.parameters[k].label = AnyLabel

=============================================================================
