------------------------ MODULE ScenarioDispatchProofs ------------------------
(***************************************************************************)
(* Proofs about FunmanWorkUnit.to_scenario (ScenarioDispatch): for every  *)
(* request a client can fill in, of any length, the scenario carries the  *)
(* model parameters and then the structure parameters, each converted     *)
(* with its class, and a model parameter labeled ALL forces a             *)
(* ParameterSynthesis scenario.  The concatenation facts come from        *)
(* SequenceTheorems.                                                       *)
(***************************************************************************)
EXTENDS ScenarioDispatchChecks, SequenceTheorems, TLAPS

\* A request parameter list is a finite sequence of labeled parameters.
LEMMA ParamListIsSeq ==
    ASSUME NEW ps \in ParamLists
    PROVE  /\ ps \in Seq(LabeledParameter)
           /\ Len(ps) \in Nat
           /\ \A k \in 1..Len(ps) : ps[k] \in LabeledParameter
<1>1. PICK n \in 0..MaxParams : ps \in [1..n -> LabeledParameter]
  BY DEF ParamLists
<1>2. n \in Nat
  BY MaxParamsAssumption
<1>3. ps \in Seq(LabeledParameter)
  BY <1>1, <1>2
<1>4. Len(ps) = n
  BY <1>1, <1>2, <1>3
<1>5. QED
  BY <1>1, <1>2, <1>3, <1>4

\* ListOf of a request field is a finite sequence of labeled parameters.
LEMMA ListOfIsSeq ==
    ASSUME NEW ps \in ParamLists \cup {NoneVal}
    PROVE  /\ ListOf(ps) \in Seq(LabeledParameter)
           /\ \A k \in 1..Len(ListOf(ps)) : ListOf(ps)[k] \in LabeledParameter
<1>1. CASE ps = NoneVal
  BY <1>1, EmptySeq DEF ListOf
<1>2. CASE ps \in ParamLists
  <2>1. ps # NoneVal
    BY <1>2, NoneAssumption
  <2>2. QED
    BY <1>2, <2>1, ParamListIsSeq DEF ListOf
<1>3. QED
  BY <1>1, <1>2

\* Every client step keeps the request a request the work request model
\* accepts.
THEOREM DispatchTypeCorrect == Spec => []TypeOK
<1>1. Init => TypeOK
  BY DEF Init, TypeOK, Request
<1>2. TypeOK /\ [Next]_request => TypeOK'
  BY DEF TypeOK, Request, Next, SetQuery, SetParameters,
         SetStructureParameters
<1>3. QED
  BY <1>1, <1>2, PTL DEF Spec

\* Converting a list keeps its length and converts each element in place,
\* with the class of the list it came from.
LEMMA ConvertedLists ==
    ASSUME NEW ps \in Seq(LabeledParameter)
    PROVE  /\ ToModelParameters(ps) \in Seq(ScenarioParameter)
           /\ ToStructureParameters(ps) \in Seq(ScenarioParameter)
           /\ Len(ToModelParameters(ps)) = Len(ps)
           /\ Len(ToStructureParameters(ps)) = Len(ps)
<1>1. Len(ps) \in Nat /\ \A k \in 1..Len(ps) : ps[k] \in LabeledParameter
  BY LenProperties, ElementOfSeq
<1>2. ToModelParameters(ps) \in [1..Len(ps) -> ScenarioParameter]
  BY <1>1 DEF ToModelParameters, ScenarioParameter, LabeledParameter
<1>3. ToStructureParameters(ps) \in [1..Len(ps) -> ScenarioParameter]
  BY <1>1 DEF ToStructureParameters, ScenarioParameter, LabeledParameter
<1>4. QED
  BY <1>1, <1>2, <1>3

\* to_scenario builds its parameter list from ListOf of the two request
\* fields, None giving the empty list.
LEMMA ScenarioList ==
    ASSUME TypeOK
    PROVE  Scenario.parameters =
               ToModelParameters(ListOf(request.parameters))
               \o ToStructureParameters(ListOf(request.structure_parameters))
<1>1. ToModelParameters(<<>>) = <<>> /\ ToStructureParameters(<<>>) = <<>>
  BY DEF ToModelParameters, ToStructureParameters
<1>2. (IF request.parameters # NoneVal
         THEN ToModelParameters(request.parameters) ELSE <<>>)
      = ToModelParameters(ListOf(request.parameters))
  BY <1>1 DEF ListOf
<1>3. (IF request.structure_parameters # NoneVal
         THEN ToStructureParameters(request.structure_parameters) ELSE <<>>)
      = ToStructureParameters(ListOf(request.structure_parameters))
  BY <1>1 DEF ListOf
<1>4. QED
  BY <1>2, <1>3 DEF Scenario, ToScenario

\* to_scenario loses, reorders and reclassifies no parameter, and a model
\* parameter labeled ALL makes the scenario a ParameterSynthesis one: for
\* every request a client can fill in, of any length.
THEOREM ScenarioParametersHold == Spec => []ScenarioParameters
<1>1. TypeOK => ScenarioParameters
  <2>1. SUFFICES ASSUME TypeOK PROVE ScenarioParameters
    OBVIOUS
  <2> DEFINE mps == ListOf(request.parameters)
             sps == ListOf(request.structure_parameters)
             M == ToModelParameters(mps)
             S == ToStructureParameters(sps)
  <2>2. /\ mps \in Seq(LabeledParameter)
        /\ sps \in Seq(LabeledParameter)
    BY <2>1, ListOfIsSeq DEF TypeOK, Request
  <2>3. /\ M \in Seq(ScenarioParameter) /\ Len(M) = Len(mps)
        /\ S \in Seq(ScenarioParameter) /\ Len(S) = Len(sps)
        /\ Len(mps) \in Nat /\ Len(sps) \in Nat
    BY <2>2, ConvertedLists, LenProperties
  <2>4. Scenario.parameters = M \o S
    BY <2>1, ScenarioList
  <2>5. /\ Len(M \o S) = Len(mps) + Len(sps)
        /\ \A i \in 1..Len(mps) + Len(sps) :
               (M \o S)[i] = IF i <= Len(mps) THEN M[i] ELSE S[i - Len(mps)]
    <3>1. /\ M \o S \in Seq(ScenarioParameter)
          /\ Len(M \o S) = Len(M) + Len(S)
          /\ \A i \in 1 .. Len(M) + Len(S) :
                 (M \o S)[i] = IF i <= Len(M) THEN M[i] ELSE S[i - Len(M)]
      BY <2>3, ConcatProperties, Zenon
    <3>2. QED
      BY <2>3, <3>1
  <2>6. \A k \in 1..Len(mps) :
            Scenario.parameters[k] = [cls |-> "model", name |-> mps[k].name,
                                      label |-> mps[k].label]
    BY <2>3, <2>4, <2>5 DEF ToModelParameters
  <2>7. \A k \in 1..Len(sps) :
            Scenario.parameters[Len(mps) + k] =
                [cls |-> "structure", name |-> sps[k].name,
                 label |-> sps[k].label]
    BY <2>3, <2>4, <2>5 DEF ToStructureParameters
  <2>8. (\E k \in 1..Len(mps) : mps[k].label = AllLabel)
            => Scenario.kind = "synthesis"
    <3>1. SUFFICES ASSUME NEW k \in 1..Len(mps), mps[k].label = AllLabel
                   PROVE  Scenario.kind = "synthesis"
      OBVIOUS
    <3>2. request.parameters # NoneVal
      BY <3>1 DEF ListOf
    <3>3. mps = request.parameters
      BY <3>2 DEF ListOf
    <3>4. ~(\A j \in 1..Len(request.parameters) :
               request.parameters[j].label = AnyLabel)
      <4>1. k \in 1..Len(request.parameters)
            /\ request.parameters[k].label = AllLabel
        BY <3>1, <3>3
      <4>2. QED
        BY <4>1, DispatchAssumption
    <3>5. QED
      BY <3>2, <3>4 DEF Scenario, ToScenario
  <2>9. QED
    BY <2>4, <2>5, <2>6, <2>7, <2>8 DEF ScenarioParameters
<1>2. QED
  BY <1>1, DispatchTypeCorrect, PTL

=============================================================================
