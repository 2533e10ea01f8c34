---------------------------- MODULE FunmanResults ----------------------------
(***************************************************************************)
(* FunmanResults of funman/server/query.py: the aggregator of one         *)
(* request, written by the threads that run its scenario.  Each Python    *)
(* statement that writes a field of the aggregator is one step, so a      *)
(* concurrent reader (a status poller) can observe every state between    *)
(* two steps, and two writers interleave at statement granularity.       *)
(*                                                                         *)
(* The writers follow the scenario runner's protocol (spec 4.4, 5, 7):    *)
(* report progress with update_parameter_space any number of times, then  *)
(* finalize_result; when that raises, or when the search itself fails,    *)
(* call finalize_result_as_error.  With Serialize each call is made       *)
(* holding one lock, the discipline spec section 5 asks of concurrent     *)
(* writers.  The runner is not among the files under src/: its protocol  *)
(* is modelled from the spec.                                              *)
(***************************************************************************)
EXTENDS Naturals

CONSTANTS
    Threads,        \* the threads writing the aggregator
    PSpaces,        \* the ParameterSpace values the search reports
    None,           \* Python None
    NoThread,       \* nobody holds the lock
    LabeledVolume,  \* ParameterSpace.labeled_volume() of each value
    SearchVolume,   \* scenario.search_space_volume()
    ReprVolume,     \* scenario.representable_space_volume()
    Unit,           \* the float 1.0, in the fixed-point unit of progress
    MaxUpdates,     \* bound on the progress reports of one thread
    Serialize       \* callers hold one lock around every call

ASSUME ResultsAssumption ==
    /\ Threads # {}
    /\ None \notin PSpaces
    /\ NoThread \notin Threads
    /\ LabeledVolume \in [PSpaces -> Nat]
    /\ SearchVolume \in Nat
    /\ ReprVolume \in Nat
    /\ Unit \in Nat \ {0}
    /\ MaxUpdates \in Nat
    /\ Serialize \in BOOLEAN

VARIABLES
    finalized,        \* _finalized
    done,             \* done
    error,            \* error
    parameter_space,  \* parameter_space
    progress,         \* the FunmanProgress record
    pc,               \* the statement each thread executes next
    arg,              \* the ParameterSpace argument of the thread's call
    ret,              \* where update_parameter_space returns to
    updates,          \* progress reports made by each thread
    holder,           \* holder of the callers' lock
    terminals         \* history: terminal transitions taken so far

vars == <<finalized, done, error, parameter_space, progress, pc, arg, ret,
          updates, holder, terminals>>

Labels == {"idle", "u_progress", "u_search", "u_repr", "f_mark", "f_extract",
           "f_done", "f_progress", "e_call", "e_mark", "e_error", "e_done",
           "e_progress", "end"}

\* coverage_of_search_space as computed in update_parameter_space:
\* float(labeled_volume / search_volume), 0 when search_volume is 0.
CoverageOfSearchSpace(p) ==
    IF SearchVolume = 0 THEN 0 ELSE (LabeledVolume[p] * Unit) \div SearchVolume

\* coverage_of_representable_space: search_volume / repr_volume, or 0.
CoverageOfReprSpace ==
    IF ReprVolume = 0 THEN 0 ELSE (SearchVolume * Unit) \div ReprVolume

Progress == [progress : Nat, coverage_of_search_space : Nat,
             coverage_of_representable_space : Nat]

\* A thread is inside a call to the aggregator.
InCall(t) == pc[t] \notin {"idle", "e_call", "end"}

\* Entering a call takes the lock when callers serialize; an exception
\* or a return leaves the with-block and frees it.
CanEnter == ~Serialize \/ holder = NoThread

Enter(t) == holder' = IF Serialize THEN t ELSE holder

Leave == holder' = NoThread

Goto(t, l) == pc' = [pc EXCEPT ![t] = l]

TypeOK ==
    /\ finalized \in BOOLEAN
    /\ done \in BOOLEAN
    /\ error \in BOOLEAN
    /\ parameter_space \in PSpaces \cup {None}
    /\ progress \in Progress
    /\ pc \in [Threads -> Labels]
    /\ arg \in [Threads -> PSpaces \cup {None}]
    /\ ret \in [Threads -> {"idle", "f_done"}]
    /\ updates \in [Threads -> 0..MaxUpdates]
    /\ holder \in Threads \cup {NoThread}
    /\ terminals \in Nat

\* FunmanResults(id=..., model=..., request=...): the field defaults.
Init ==
    /\ finalized = FALSE
    /\ done = FALSE
    /\ error = FALSE
    /\ parameter_space = None
    /\ progress = [progress |-> 0, coverage_of_search_space |-> 0,
                   coverage_of_representable_space |-> 0]
    /\ pc = [t \in Threads |-> "idle"]
    /\ arg = [t \in Threads |-> None]
    /\ ret = [t \in Threads |-> "idle"]
    /\ updates = [t \in Threads |-> 0]
    /\ holder = NoThread
    /\ terminals = 0

-----------------------------------------------------------------------------
(* update_parameter_space(scenario, results)                               *)

\* The search reports a ParameterSpace: the call starts, stores it
\* (self.parameter_space = results) and computes the ratios in locals.
CallUpdate(t, p) ==
    /\ pc[t] = "idle"
    /\ updates[t] < MaxUpdates
    /\ CanEnter
    /\ Enter(t)
    /\ parameter_space' = p
    /\ arg' = [arg EXCEPT ![t] = p]
    /\ ret' = [ret EXCEPT ![t] = "idle"]
    /\ updates' = [updates EXCEPT ![t] = @ + 1]
    /\ Goto(t, "u_progress")
    /\ UNCHANGED <<finalized, done, error, progress, terminals>>

\* self.progress.progress = coverage_of_search_space
SetProgress(t) ==
    /\ pc[t] = "u_progress"
    /\ progress' = [progress EXCEPT !.progress = CoverageOfSearchSpace(arg[t])]
    /\ Goto(t, "u_search")
    /\ UNCHANGED <<finalized, done, error, parameter_space, arg, ret, updates,
                   holder, terminals>>

\* Mutant: the coverage_of_search_space assignment is lost.
SetSearchCoverageDropped(t) ==
    /\ pc[t] = "u_search"
    /\ Goto(t, "u_repr")
    /\ UNCHANGED <<finalized, done, error, parameter_space, progress, arg, ret,
                   updates, holder, terminals>>

\* self.progress.coverage_of_search_space = coverage_of_search_space
SetSearchCoverage(t) ==
    /\ pc[t] = "u_search"
    /\ progress' = [progress EXCEPT !.coverage_of_search_space =
                                        CoverageOfSearchSpace(arg[t])]
    /\ Goto(t, "u_repr")
    /\ UNCHANGED <<finalized, done, error, parameter_space, arg, ret, updates,
                   holder, terminals>>

\* self.progress.coverage_of_representable_space = ...; return to the
\* caller: the runner's loop (leaving the lock) or finalize_result.
SetReprCoverage(t) ==
    /\ pc[t] = "u_repr"
    /\ progress' = [progress EXCEPT !.coverage_of_representable_space =
                                        CoverageOfReprSpace]
    /\ Goto(t, ret[t])
    /\ IF ret[t] = "idle" THEN Leave ELSE UNCHANGED holder
    /\ UNCHANGED <<finalized, done, error, parameter_space, arg, ret, updates,
                   terminals>>

-----------------------------------------------------------------------------
(* finalize_result(scenario, result)                                       *)

\* The search returns a result r (its parameter_space, possibly None);
\* "if self._finalized: raise", the exception reaching the runner, whose
\* handler goes on to finalize_result_as_error.
CallFinalize(t, r) ==
    /\ pc[t] = "idle"
    /\ CanEnter
    /\ IF finalized
         THEN Goto(t, "e_call") /\ UNCHANGED <<holder, arg>>
         ELSE Goto(t, "f_mark") /\ Enter(t) /\ arg' = [arg EXCEPT ![t] = r]
    /\ UNCHANGED <<finalized, done, error, parameter_space, progress, ret,
                   updates, terminals>>

\* self._finalized = True
MarkFinalized(t) ==
    /\ pc[t] = "f_mark"
    /\ finalized' = TRUE
    /\ terminals' = terminals + 1
    /\ Goto(t, "f_extract")
    /\ UNCHANGED <<done, error, parameter_space, progress, arg, ret, updates,
                   holder>>

\* ps = result.parameter_space; "if ps is None: raise"; otherwise
\* self.update_parameter_space(scenario, ps) starts by storing it.
ExtractSpace(t) ==
    /\ pc[t] = "f_extract"
    /\ IF arg[t] = None
         THEN /\ Goto(t, "e_call")
              /\ Leave
              /\ UNCHANGED <<parameter_space, ret>>
         ELSE /\ Goto(t, "u_progress")
              /\ parameter_space' = arg[t]
              /\ ret' = [ret EXCEPT ![t] = "f_done"]
              /\ UNCHANGED holder
    /\ UNCHANGED <<finalized, done, error, progress, arg, updates, terminals>>

\* self.done = True
SetDone(t) ==
    /\ pc[t] = "f_done"
    /\ done' = TRUE
    /\ Goto(t, "f_progress")
    /\ UNCHANGED <<finalized, error, parameter_space, progress, arg, ret,
                   updates, holder, terminals>>

\* self.progress.progress = 1.0; finalize_result returns.
SetFinalProgress(t) ==
    /\ pc[t] = "f_progress"
    /\ progress' = [progress EXCEPT !.progress = Unit]
    /\ Goto(t, "end")
    /\ Leave
    /\ UNCHANGED <<finalized, done, error, parameter_space, arg, ret, updates,
                   terminals>>

-----------------------------------------------------------------------------
(* finalize_result_as_error()                                              *)

\* Mutant: finalize_result_as_error without its already-finalized check.
CallFinalizeErrorUnguarded(t) ==
    /\ pc[t] \in {"idle", "e_call"}
    /\ CanEnter
    /\ Goto(t, "e_mark") /\ Enter(t)
    /\ UNCHANGED <<finalized, done, error, parameter_space, progress, arg, ret,
                   updates, terminals>>

\* Called by the runner when the search failed or finalize_result raised:
\* "if self._finalized: raise", after which the runner gives up.
CallFinalizeError(t) ==
    /\ pc[t] \in {"idle", "e_call"}
    /\ CanEnter
    /\ IF finalized
         THEN Goto(t, "end") /\ UNCHANGED holder
         ELSE Goto(t, "e_mark") /\ Enter(t)
    /\ UNCHANGED <<finalized, done, error, parameter_space, progress, arg, ret,
                   updates, terminals>>

\* self._finalized = True
MarkFinalizedError(t) ==
    /\ pc[t] = "e_mark"
    /\ finalized' = TRUE
    /\ terminals' = terminals + 1
    /\ Goto(t, "e_error")
    /\ UNCHANGED <<done, error, parameter_space, progress, arg, ret, updates,
                   holder>>

\* self.error = True
SetError(t) ==
    /\ pc[t] = "e_error"
    /\ error' = TRUE
    /\ Goto(t, "e_done")
    /\ UNCHANGED <<finalized, done, parameter_space, progress, arg, ret,
                   updates, holder, terminals>>

\* self.done = True
SetDoneError(t) ==
    /\ pc[t] = "e_done"
    /\ done' = TRUE
    /\ Goto(t, "e_progress")
    /\ UNCHANGED <<finalized, error, parameter_space, progress, arg, ret,
                   updates, holder, terminals>>

\* self.progress.progress = 1.0; the call returns.
SetFinalProgressError(t) ==
    /\ pc[t] = "e_progress"
    /\ progress' = [progress EXCEPT !.progress = Unit]
    /\ Goto(t, "end")
    /\ Leave
    /\ UNCHANGED <<finalized, done, error, parameter_space, arg, ret, updates,
                   terminals>>

-----------------------------------------------------------------------------

Step(t) ==
    \/ \E p \in PSpaces : CallUpdate(t, p)
    \/ SetProgress(t)
    \/ SetSearchCoverage(t)
    \/ SetReprCoverage(t)
    \/ \E r \in PSpaces \cup {None} : CallFinalize(t, r)
    \/ MarkFinalized(t)
    \/ ExtractSpace(t)
    \/ SetDone(t)
    \/ SetFinalProgress(t)
    \/ CallFinalizeError(t)
    \/ MarkFinalizedError(t)
    \/ SetError(t)
    \/ SetDoneError(t)
    \/ SetFinalProgressError(t)

Next == \E t \in Threads : Step(t)

Spec == Init /\ [][Next]_vars

\* Every thread, once it runs, keeps running: none of these statements
\* blocks, and a thread waiting for the lock waits on a holder that is
\* itself inside a call that runs to its return.
FairSpec == Spec /\ \A t \in Threads : WF_vars(Step(t))

-----------------------------------------------------------------------------
(* Properties.                                                             *)

\* No thread is inside a call: the states a reader sees between calls.
Quiescent == \A t \in Threads : ~InCall(t)

\* Between calls the aggregator is self-consistent: both coverage fields
\* are those of the stored parameter space, progress equals the search
\* coverage until the result is done, an error result is done and a done
\* result is finalized.  Two update_parameter_space calls whose
\* statements interleave leave the coverage of one space beside the other.
QuiescentConsistent ==
    Quiescent =>
        /\ parameter_space # None =>
              /\ progress.coverage_of_search_space =
                     CoverageOfSearchSpace(parameter_space)
              /\ progress.coverage_of_representable_space = CoverageOfReprSpace
        /\ ~done => progress.progress = progress.coverage_of_search_space
        /\ error => done
        /\ done => finalized

\* finalize_result and finalize_result_as_error together make at most one
\* terminal transition: the _finalized check turns every later call into
\* the "already finalized" exception.
AtMostOneTerminal == terminals <= 1


\* The inductive strengthening of AtMostOneTerminal (with TypeOK) for serialized
\* callers: a thread inside a call holds the lock, a thread about to set
\* _finalized saw it unset and nobody can have set it since, and the
\* terminal transitions taken are exactly one once _finalized is set.
TerminalInductive ==
    /\ Serialize => \A t \in Threads : InCall(t) => holder = t
    /\ Serialize => \A t \in Threads :
                        pc[t] \in {"f_mark", "e_mark"} => ~finalized
    /\ terminals = IF finalized THEN 1 ELSE 0

\* A finished result keeps its verdict: once done is set, no later call
\* clears done or _finalized or flips error.  A finalize_result_as_error
\* that slips past the _finalized check after a successful
\* finalize_result turns a done success into an error.
VerdictStable ==
    [][done => done' /\ finalized' /\ error' = error]_vars

\* The invariant behind VerdictStable, for serialized callers: a done
\* result is finalized, and an error call between its _finalized check
\* and its write of error never finds the result done.
VerdictInductive ==
    /\ done => finalized
    /\ \A t \in Threads : pc[t] \in {"e_mark", "e_error"} => ~done

\* Spec section 5: a reader of progress, done, error and is_final() sees
\* the state before or after a call, never a torn one: is_final() is
\* done, a done result has progress 1.0, an unfinished one the search
\* coverage.
SnapshotConsistent ==
    /\ finalized = done
    /\ done => progress.progress = Unit
    /\ ~done => progress.progress = progress.coverage_of_search_space

\* Spec section 4.4: a done result reports progress 1.0 whenever no call
\* is running.
DoneMeansComplete == Quiescent /\ done => progress.progress = Unit

\* Spec section 7: a failing finalize path is reported through the error
\* flag, so every run of the request eventually ends with done set.
EventuallyDone == <>done

-----------------------------------------------------------------------------
(* Refinement of ResultsAtomic.  With Serialize, the state of the         *)
(* aggregator seen as atomic calls is the present state with the lock     *)
(* holder's call run to its return: every statement a call executes       *)
(* writes a value fixed by the call's argument, so its remaining writes   *)
(* are known when it enters.  The entering step is then the abstract      *)
(* call and the other statements are stutters.                            *)

\* The holder's call still has to write the coverage of its space.
UpdatePending(t) ==
    \/ pc[t] \in {"u_progress", "u_search", "u_repr"}
    \/ pc[t] \in {"f_mark", "f_extract"} /\ arg[t] # None

\* The holder's call still ends with done and progress 1.0.
DonePending(t) ==
    \/ pc[t] \in {"u_progress", "u_search", "u_repr"} /\ ret[t] = "f_done"
    \/ pc[t] \in {"f_mark", "f_extract"} /\ arg[t] # None
    \/ pc[t] \in {"f_done", "f_progress", "e_mark", "e_error", "e_done",
                  "e_progress"}

Busy == holder # NoThread

\* The inductive invariant behind AtomicSpec, for serialized callers: the
\* lock holder is inside a call, and the writes a call has made so far
\* are those its completion assumes: a thread computing coverage stored
\* its own space, a thread past a progress write wrote its space's
\* coverage, a finalize past its mark left the aggregator final, and an
\* error call past a write of done or error made it.
AtomicInductive ==
    Serialize =>
        /\ Busy => holder \in Threads /\ InCall(holder)
        /\ \A t \in Threads :
            /\ pc[t] \in {"u_progress", "u_search", "u_repr"} =>
                   parameter_space = arg[t]
            /\ pc[t] \in {"u_search", "u_repr"} =>
                   progress.progress = CoverageOfSearchSpace(arg[t])
            /\ pc[t] = "u_repr" =>
                   progress.coverage_of_search_space =
                       CoverageOfSearchSpace(arg[t])
            /\ \/ pc[t] \in {"f_extract", "f_done", "f_progress", "e_error",
                             "e_done", "e_progress"}
               \/ pc[t] \in {"u_progress", "u_search", "u_repr"}
                  /\ ret[t] = "f_done"
               => finalized
            /\ pc[t] \in {"f_progress", "e_progress"} => done
            /\ pc[t] \in {"e_done", "e_progress"} => error

CompletedProgress ==
    LET base == IF Busy /\ UpdatePending(holder)
                  THEN [progress |-> CoverageOfSearchSpace(arg[holder]),
                        coverage_of_search_space |->
                            CoverageOfSearchSpace(arg[holder]),
                        coverage_of_representable_space |->
                            CoverageOfReprSpace]
                  ELSE progress
    IN  IF Busy /\ DonePending(holder)
          THEN [base EXCEPT !.progress = Unit] ELSE base

CompletedFinalized == finalized \/ (Busy /\ pc[holder] \in {"f_mark", "e_mark"})

CompletedDone == done \/ (Busy /\ DonePending(holder))

CompletedError == error \/ (Busy /\ pc[holder] \in {"e_mark", "e_error"})

CompletedSpace ==
    IF Busy /\ UpdatePending(holder) THEN arg[holder] ELSE parameter_space

Atomic == INSTANCE ResultsAtomic WITH
    finalized <- CompletedFinalized,
    done <- CompletedDone,
    error <- CompletedError,
    parameter_space <- CompletedSpace,
    progress <- CompletedProgress

\* Spec 5: concurrent writers serialized by one lock make the aggregator
\* behave as if each call of update_parameter_space, finalize_result and
\* finalize_result_as_error were one step: the writes of every call,
\* taken together, are an atomic call of ResultsAtomic.
AtomicSpec == Atomic!Spec

=============================================================================
