----------------------------- MODULE ResultsAtomic -----------------------------
(***************************************************************************)
(* What FunmanResults promises its writers (spec 4.4 and 5): each call of *)
(* update_parameter_space, finalize_result and finalize_result_as_error  *)
(* takes effect as one step.  There are no threads and no program         *)
(* counters, only the aggregator's fields.                                 *)
(***************************************************************************)
EXTENDS Naturals, TLAPS

CONSTANTS PSpaces, None, LabeledVolume, SearchVolume, ReprVolume, Unit

VARIABLES finalized, done, error, parameter_space, progress

vars == <<finalized, done, error, parameter_space, progress>>

\* The coverage ratios of spec 4.4, 0 when the divisor volume is 0.
SearchCoverage(p) ==
    IF SearchVolume = 0 THEN 0 ELSE (LabeledVolume[p] * Unit) \div SearchVolume

ReprCoverage ==
    IF ReprVolume = 0 THEN 0 ELSE (SearchVolume * Unit) \div ReprVolume

\* The progress record after a ParameterSpace p is reported.
ProgressOf(p) == [progress |-> SearchCoverage(p),
                  coverage_of_search_space |-> SearchCoverage(p),
                  coverage_of_representable_space |-> ReprCoverage]

Init ==
    /\ finalized = FALSE
    /\ done = FALSE
    /\ error = FALSE
    /\ parameter_space = None
    /\ progress = [progress |-> 0, coverage_of_search_space |-> 0,
                   coverage_of_representable_space |-> 0]

\* A progress report: the space and its coverage, whether or not the
\* result is final.
Update(p) ==
    /\ parameter_space' = p
    /\ progress' = ProgressOf(p)
    /\ UNCHANGED <<finalized, done, error>>

\* The success path: a result with a space is stored and done with
\* progress 1.0; a result without one only marks the aggregator final
\* (the call then fails).
Finalize(r) ==
    /\ ~finalized
    /\ finalized' = TRUE
    /\ IF r = None
         THEN UNCHANGED <<done, parameter_space, progress>>
         ELSE /\ parameter_space' = r
              /\ progress' = [ProgressOf(r) EXCEPT !.progress = Unit]
              /\ done' = TRUE
    /\ UNCHANGED error

\* The error path: final, failed and done, with progress 1.0.
FinalizeError ==
    /\ ~finalized
    /\ finalized' = TRUE
    /\ error' = TRUE
    /\ done' = TRUE
    /\ progress' = [progress EXCEPT !.progress = Unit]
    /\ UNCHANGED parameter_space

Next ==
    \/ \E p \in PSpaces : Update(p)
    \/ \E r \in PSpaces \cup {None} : Finalize(r)
    \/ FinalizeError

Spec == Init /\ [][Next]_vars

-----------------------------------------------------------------------------
(* The consistency an atomic aggregator keeps: both coverage fields are   *)
(* those of the stored space, progress is the search coverage until the   *)
(* result is done, an error result is done and a done result final.      *)

Consistent ==
    /\ parameter_space # None =>
          /\ progress.coverage_of_search_space = SearchCoverage(parameter_space)
          /\ progress.coverage_of_representable_space = ReprCoverage
    /\ ~done => progress.progress = progress.coverage_of_search_space
    /\ error => done
    /\ done => finalized

\* Calls that each take effect as one step keep the aggregator consistent:
\* an update writes all three progress fields of its space at once, and
\* both finalize calls set done only together with finalized.
THEOREM ConsistentInvariant == Spec => []Consistent
<1>1. Init => Consistent
  BY DEF Init, Consistent
<1>2. Consistent /\ [Next]_vars => Consistent'
  <2> SUFFICES ASSUME Consistent, [Next]_vars PROVE Consistent'
    OBVIOUS
  <2>1. ASSUME NEW p \in PSpaces, Update(p) PROVE Consistent'
    BY <2>1 DEF Update, ProgressOf, Consistent
  <2>2. ASSUME NEW r \in PSpaces \cup {None}, Finalize(r) PROVE Consistent'
    <3>1. CASE r = None
      BY <2>2, <3>1 DEF Finalize, Consistent
    <3>2. CASE r # None
      BY <2>2, <3>2 DEF Finalize, ProgressOf, Consistent
    <3>3. QED
      BY <3>1, <3>2
  <2>3. ASSUME FinalizeError PROVE Consistent'
    BY <2>3 DEF FinalizeError, Consistent
  <2>4. CASE UNCHANGED vars
    BY <2>4 DEF vars, Consistent
  <2>5. QED
    BY <2>1, <2>2, <2>3, <2>4 DEF Next
<1>3. QED
  BY <1>1, <1>2, PTL DEF Spec

=============================================================================
