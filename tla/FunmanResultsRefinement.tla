---------------------- MODULE FunmanResultsRefinement ----------------------
(***************************************************************************)
(* Proof that serialized writers of FunmanResults implement ResultsAtomic *)
(* under the refinement mapping of FunmanResults (the lock holder's call  *)
(* run to its return), for every set of threads, spaces and volumes.     *)
(***************************************************************************)
EXTENDS FunmanResultsProofs

\* With the lock, a thread inside a call is the only one: every other
\* thread is idle, waiting to report after an exception, or finished.
LEMMA OthersOut ==
    ASSUME Serialize, TerminalInductive, NEW t \in Threads, InCall(t),
           NEW u \in Threads, u # t
    PROVE  pc[u] \in {"idle", "e_call", "end"}
BY DEF TerminalInductive, InCall

\* One step of serialized callers keeps AtomicInductive.
LEMMA AtomicStep ==
    ASSUME Serialize, TypeInv, TypeInv', TerminalInductive, AtomicInductive,
           [Next]_vars
    PROVE  AtomicInductive'
<1>0. TypeOK /\ TypeOK'
  BY DEF TypeInv
<1> USE <1>0, ResultsAssumption DEF AtomicInductive, Goto, TypeOK, Busy
<1>1. ASSUME NEW t \in Threads, NEW p \in PSpaces, CallUpdate(t, p)
      PROVE AtomicInductive'
  <2>1. \A u \in Threads : pc[u] \in {"idle", "e_call", "end"}
    BY <1>1, EnterAlone DEF CallUpdate, CanEnter, InCall
  <2>2. QED
    BY <1>1, <2>1 DEF CallUpdate, CanEnter, Enter, InCall
<1>2. ASSUME NEW t \in Threads, SetProgress(t) PROVE AtomicInductive'
  <2>1. \A u \in Threads \ {t} : pc[u] \in {"idle", "e_call", "end"}
    BY <1>2, OthersOut DEF SetProgress, InCall
  <2>2. QED
    BY <1>2, <2>1 DEF SetProgress, InCall
<1>3. ASSUME NEW t \in Threads, SetSearchCoverage(t)
      PROVE AtomicInductive'
  <2>1. \A u \in Threads \ {t} : pc[u] \in {"idle", "e_call", "end"}
    BY <1>3, OthersOut DEF SetSearchCoverage, InCall
  <2>2. QED
    BY <1>3, <2>1 DEF SetSearchCoverage, InCall
<1>4. ASSUME NEW t \in Threads, SetReprCoverage(t)
      PROVE AtomicInductive'
  <2>1. \A u \in Threads \ {t} : pc[u] \in {"idle", "e_call", "end"}
    BY <1>4, OthersOut DEF SetReprCoverage, InCall
  <2>2. QED
    BY <1>4, <2>1 DEF SetReprCoverage, InCall, Leave
<1>5. ASSUME NEW t \in Threads, NEW r \in PSpaces \cup {None},
             CallFinalize(t, r)
      PROVE AtomicInductive'
  <2>1. \A u \in Threads : pc[u] \in {"idle", "e_call", "end"}
    BY <1>5, EnterAlone DEF CallFinalize, CanEnter, InCall
  <2>2. QED
    BY <1>5, <2>1 DEF CallFinalize, CanEnter, Enter, InCall
<1>6. ASSUME NEW t \in Threads, MarkFinalized(t) PROVE AtomicInductive'
  <2>1. \A u \in Threads \ {t} : pc[u] \in {"idle", "e_call", "end"}
    BY <1>6, OthersOut DEF MarkFinalized, InCall
  <2>2. QED
    BY <1>6, <2>1 DEF MarkFinalized, InCall
<1>7. ASSUME NEW t \in Threads, ExtractSpace(t) PROVE AtomicInductive'
  <2>1. \A u \in Threads \ {t} : pc[u] \in {"idle", "e_call", "end"}
    BY <1>7, OthersOut DEF ExtractSpace, InCall
  <2>2. QED
    BY <1>7, <2>1 DEF ExtractSpace, InCall, Leave
<1>8. ASSUME NEW t \in Threads, SetDone(t) PROVE AtomicInductive'
  <2>1. \A u \in Threads \ {t} : pc[u] \in {"idle", "e_call", "end"}
    BY <1>8, OthersOut DEF SetDone, InCall
  <2>2. QED
    BY <1>8, <2>1 DEF SetDone, InCall
<1>9. ASSUME NEW t \in Threads, SetFinalProgress(t)
      PROVE AtomicInductive'
  <2>1. \A u \in Threads \ {t} : pc[u] \in {"idle", "e_call", "end"}
    BY <1>9, OthersOut DEF SetFinalProgress, InCall
  <2>2. QED
    BY <1>9, <2>1 DEF SetFinalProgress, InCall, Leave
<1>10. ASSUME NEW t \in Threads, CallFinalizeError(t)
       PROVE AtomicInductive'
  <2>1. \A u \in Threads : pc[u] \in {"idle", "e_call", "end"}
    BY <1>10, EnterAlone DEF CallFinalizeError, CanEnter, InCall
  <2>2. QED
    BY <1>10, <2>1 DEF CallFinalizeError, CanEnter, Enter, InCall
<1>11. ASSUME NEW t \in Threads, MarkFinalizedError(t)
       PROVE AtomicInductive'
  <2>1. \A u \in Threads \ {t} : pc[u] \in {"idle", "e_call", "end"}
    BY <1>11, OthersOut DEF MarkFinalizedError, InCall
  <2>2. QED
    BY <1>11, <2>1 DEF MarkFinalizedError, InCall
<1>12. ASSUME NEW t \in Threads, SetError(t) PROVE AtomicInductive'
  <2>1. \A u \in Threads \ {t} : pc[u] \in {"idle", "e_call", "end"}
    BY <1>12, OthersOut DEF SetError, InCall
  <2>2. QED
    BY <1>12, <2>1 DEF SetError, InCall
<1>13. ASSUME NEW t \in Threads, SetDoneError(t) PROVE AtomicInductive'
  <2>1. \A u \in Threads \ {t} : pc[u] \in {"idle", "e_call", "end"}
    BY <1>13, OthersOut DEF SetDoneError, InCall
  <2>2. QED
    BY <1>13, <2>1 DEF SetDoneError, InCall
<1>14. ASSUME NEW t \in Threads, SetFinalProgressError(t)
       PROVE AtomicInductive'
  <2>1. \A u \in Threads \ {t} : pc[u] \in {"idle", "e_call", "end"}
    BY <1>14, OthersOut DEF SetFinalProgressError, InCall
  <2>2. QED
    BY <1>14, <2>1 DEF SetFinalProgressError, InCall, Leave
<1>15. CASE UNCHANGED vars
  BY <1>15 DEF vars, InCall
<1>16. QED
  BY <1>1, <1>2, <1>3, <1>4, <1>5, <1>6, <1>7, <1>8, <1>9, <1>10, <1>11,
     <1>12, <1>13, <1>14, <1>15 DEF Next, Step

\* The refinement mapping of the initial state is the initial state of
\* ResultsAtomic.
LEMMA AtomicInit == Init => Atomic!Init
BY ResultsAssumption DEF Init, Atomic!Init, CompletedFinalized, CompletedDone,
                         CompletedError, CompletedSpace, CompletedProgress, Busy

\* Every step of serialized callers is a call of ResultsAtomic (the step
\* entering the call) or leaves the mapped state unchanged.
LEMMA AtomicNext ==
    ASSUME Serialize, TypeInv, TerminalInductive, AtomicInductive, [Next]_vars
    PROVE  [Atomic!Next]_Atomic!vars
<1>0. TypeOK
  BY DEF TypeInv
<1> USE <1>0, ResultsAssumption DEF TypeOK, Progress, Goto, Busy
<1>1. ASSUME NEW t \in Threads, NEW p \in PSpaces, CallUpdate(t, p)
      PROVE Atomic!Update(p)
  <2>1. holder = NoThread /\ holder' = t
    BY <1>1 DEF CallUpdate, CanEnter, Enter
  <2>2. QED
    BY <1>1, <2>1 DEF CallUpdate, Atomic!Update, Atomic!ProgressOf,
       Atomic!SearchCoverage, Atomic!ReprCoverage, CoverageOfSearchSpace,
       CoverageOfReprSpace, CompletedFinalized, CompletedDone, CompletedError, CompletedSpace,
       CompletedProgress, UpdatePending, DonePending
<1>2. ASSUME NEW t \in Threads, SetProgress(t) PROVE UNCHANGED Atomic!vars
  <2>1. holder = t
    BY <1>2 DEF SetProgress, TerminalInductive, InCall
  <2>2. QED
    BY <1>2, <2>1 DEF SetProgress, Atomic!vars, AtomicInductive,
       CompletedFinalized, CompletedDone, CompletedError, CompletedSpace,
       CompletedProgress, UpdatePending, DonePending
<1>3. ASSUME NEW t \in Threads, SetSearchCoverage(t) PROVE UNCHANGED Atomic!vars
  <2>1. holder = t
    BY <1>3 DEF SetSearchCoverage, TerminalInductive, InCall
  <2>2. QED
    BY <1>3, <2>1 DEF SetSearchCoverage, Atomic!vars, AtomicInductive,
       CompletedFinalized, CompletedDone, CompletedError, CompletedSpace,
       CompletedProgress, UpdatePending, DonePending
<1>4. ASSUME NEW t \in Threads, SetReprCoverage(t) PROVE UNCHANGED Atomic!vars
  <2>1. holder = t
    BY <1>4 DEF SetReprCoverage, TerminalInductive, InCall
  <2>2. QED
    BY <1>4, <2>1 DEF SetReprCoverage, Atomic!vars, AtomicInductive, Leave,
       CompletedFinalized, CompletedDone, CompletedError, CompletedSpace,
       CompletedProgress, UpdatePending, DonePending
<1>5. ASSUME NEW t \in Threads, MarkFinalized(t) PROVE UNCHANGED Atomic!vars
  <2>1. holder = t
    BY <1>5 DEF MarkFinalized, TerminalInductive, InCall
  <2>2. QED
    BY <1>5, <2>1 DEF MarkFinalized, Atomic!vars, AtomicInductive,
       CompletedFinalized, CompletedDone, CompletedError, CompletedSpace,
       CompletedProgress, UpdatePending, DonePending
<1>6. ASSUME NEW t \in Threads, ExtractSpace(t) PROVE UNCHANGED Atomic!vars
  <2>1. holder = t
    BY <1>6 DEF ExtractSpace, TerminalInductive, InCall
  <2>2. QED
    BY <1>6, <2>1 DEF ExtractSpace, Atomic!vars, AtomicInductive, Leave,
       CompletedFinalized, CompletedDone, CompletedError, CompletedSpace,
       CompletedProgress, UpdatePending, DonePending
<1>7. ASSUME NEW t \in Threads, SetDone(t) PROVE UNCHANGED Atomic!vars
  <2>1. holder = t
    BY <1>7 DEF SetDone, TerminalInductive, InCall
  <2>2. QED
    BY <1>7, <2>1 DEF SetDone, Atomic!vars, AtomicInductive,
       CompletedFinalized, CompletedDone, CompletedError, CompletedSpace,
       CompletedProgress, UpdatePending, DonePending
<1>8. ASSUME NEW t \in Threads, SetFinalProgress(t) PROVE UNCHANGED Atomic!vars
  <2>1. holder = t
    BY <1>8 DEF SetFinalProgress, TerminalInductive, InCall
  <2>2. QED
    BY <1>8, <2>1 DEF SetFinalProgress, Atomic!vars, AtomicInductive, Leave,
       CompletedFinalized, CompletedDone, CompletedError, CompletedSpace,
       CompletedProgress, UpdatePending, DonePending
<1>9. ASSUME NEW t \in Threads, MarkFinalizedError(t) PROVE UNCHANGED Atomic!vars
  <2>1. holder = t
    BY <1>9 DEF MarkFinalizedError, TerminalInductive, InCall
  <2>2. QED
    BY <1>9, <2>1 DEF MarkFinalizedError, Atomic!vars, AtomicInductive,
       CompletedFinalized, CompletedDone, CompletedError, CompletedSpace,
       CompletedProgress, UpdatePending, DonePending
<1>10. ASSUME NEW t \in Threads, SetError(t) PROVE UNCHANGED Atomic!vars
  <2>1. holder = t
    BY <1>10 DEF SetError, TerminalInductive, InCall
  <2>2. QED
    BY <1>10, <2>1 DEF SetError, Atomic!vars, AtomicInductive,
       CompletedFinalized, CompletedDone, CompletedError, CompletedSpace,
       CompletedProgress, UpdatePending, DonePending
<1>11. ASSUME NEW t \in Threads, SetDoneError(t) PROVE UNCHANGED Atomic!vars
  <2>1. holder = t
    BY <1>11 DEF SetDoneError, TerminalInductive, InCall
  <2>2. QED
    BY <1>11, <2>1 DEF SetDoneError, Atomic!vars, AtomicInductive,
       CompletedFinalized, CompletedDone, CompletedError, CompletedSpace,
       CompletedProgress, UpdatePending, DonePending
<1>12. ASSUME NEW t \in Threads, SetFinalProgressError(t) PROVE UNCHANGED Atomic!vars
  <2>1. holder = t
    BY <1>12 DEF SetFinalProgressError, TerminalInductive, InCall
  <2>2. QED
    BY <1>12, <2>1 DEF SetFinalProgressError, Atomic!vars, AtomicInductive, Leave,
       CompletedFinalized, CompletedDone, CompletedError, CompletedSpace,
       CompletedProgress, UpdatePending, DonePending
<1>13. ASSUME NEW t \in Threads, NEW r \in PSpaces \cup {None},
             CallFinalize(t, r)
      PROVE [Atomic!Next]_Atomic!vars
  <2>1. holder = NoThread
    BY <1>13 DEF CallFinalize, CanEnter
  <2>2. CASE finalized
    BY <1>13, <2>1, <2>2 DEF CallFinalize, Atomic!vars, CompletedFinalized, CompletedDone, CompletedError, CompletedSpace,
       CompletedProgress, UpdatePending, DonePending
  <2>3. CASE ~finalized
    <3>1. Atomic!Finalize(r)
      BY <1>13, <2>1, <2>3 DEF CallFinalize, Enter, Atomic!Finalize,
         Atomic!ProgressOf, Atomic!SearchCoverage, Atomic!ReprCoverage,
         CoverageOfSearchSpace, CoverageOfReprSpace, CompletedFinalized, CompletedDone, CompletedError, CompletedSpace,
       CompletedProgress, UpdatePending, DonePending
    <3>2. QED
      BY <3>1 DEF Atomic!Next
  <2>4. QED
    BY <2>2, <2>3
<1>14. ASSUME NEW t \in Threads, CallFinalizeError(t)
       PROVE [Atomic!Next]_Atomic!vars
  <2>1. holder = NoThread
    BY <1>14 DEF CallFinalizeError, CanEnter
  <2>2. CASE finalized
    BY <1>14, <2>1, <2>2 DEF CallFinalizeError, Atomic!vars, CompletedFinalized, CompletedDone, CompletedError, CompletedSpace,
       CompletedProgress, UpdatePending, DonePending
  <2>3. CASE ~finalized
    <3>1. Atomic!FinalizeError
      BY <1>14, <2>1, <2>3 DEF CallFinalizeError, Enter,
         Atomic!FinalizeError, CompletedFinalized, CompletedDone, CompletedError, CompletedSpace,
       CompletedProgress, UpdatePending, DonePending
    <3>2. QED
      BY <3>1 DEF Atomic!Next
  <2>4. QED
    BY <2>2, <2>3
<1>15. CASE UNCHANGED vars
  BY <1>15 DEF vars, Atomic!vars, CompletedFinalized, CompletedDone, CompletedError, CompletedSpace,
       CompletedProgress, UpdatePending, DonePending
<1>16. QED
  BY <1>1, <1>2, <1>3, <1>4, <1>5, <1>6, <1>7, <1>8, <1>9, <1>10, <1>11,
     <1>12, <1>13, <1>14, <1>15 DEF Next, Step, Atomic!Next

\* AtomicInductive, the invariant the refinement rests on, holds in every
\* state of serialized callers, together with the type invariant and
\* TerminalInductive on which its proof relies.
THEOREM AtomicInvariant ==
    Serialize => (Spec => [](TypeInv /\ TerminalInductive /\ AtomicInductive))
<1> SUFFICES ASSUME Serialize
             PROVE  Spec => [](TypeInv /\ TerminalInductive /\ AtomicInductive)
  OBVIOUS
<1>1. Init => TerminalInductive /\ AtomicInductive
  BY ResultsAssumption DEF Init, TerminalInductive, AtomicInductive, InCall,
                           Busy
<1>2. TypeInv /\ TypeInv' /\ TerminalInductive /\ AtomicInductive /\ [Next]_vars
        => TerminalInductive' /\ AtomicInductive'
  BY TerminalStep, AtomicStep
<1>3. QED
  BY <1>1, <1>2, TypeCorrect, PTL DEF Spec

\* AtomicSpec: with callers holding one lock around every call, the
\* statements of update_parameter_space, finalize_result and
\* finalize_result_as_error implement ResultsAtomic, in which each call
\* is one step.
THEOREM Refinement == Serialize => (Spec => AtomicSpec)
<1> SUFFICES ASSUME Serialize PROVE Spec => Atomic!Spec
  BY DEF AtomicSpec
<1>1. Init => Atomic!Init
  BY AtomicInit
<1>2. TypeInv /\ TerminalInductive /\ AtomicInductive /\ [Next]_vars
        => [Atomic!Next]_Atomic!vars
  BY AtomicNext
<1>3. QED
  BY <1>1, <1>2, AtomicInvariant, PTL DEF Spec, Atomic!Spec


\* QuiescentConsistent: with callers holding one lock, a reader that finds
\* no call of update_parameter_space, finalize_result or
\* finalize_result_as_error in progress sees the coverage of the stored
\* space, progress equal to that coverage until done, and error and done
\* only on a finalized result.  Between calls the lock is free, so the
\* completed state is the present one, and ResultsAtomic keeps it
\* consistent.
THEOREM QuiescentInvariant == Serialize => (Spec => []QuiescentConsistent)
<1> SUFFICES ASSUME Serialize PROVE Spec => []QuiescentConsistent
  OBVIOUS
<1>1. Spec => []Atomic!Consistent
  BY Refinement, Atomic!ConsistentInvariant, PTL DEF AtomicSpec
<1>2. TypeInv /\ AtomicInductive /\ Atomic!Consistent => QuiescentConsistent
  <2> SUFFICES ASSUME TypeInv, AtomicInductive, Atomic!Consistent, Quiescent
               PROVE  QuiescentConsistent
    BY DEF QuiescentConsistent
  <2>1. ~Busy
    BY DEF AtomicInductive, Quiescent, Busy
  <2>2. CompletedProgress = progress
    BY <2>1, Zenon DEF CompletedProgress
  <2>3. /\ CompletedSpace = parameter_space
        /\ CompletedDone = done
        /\ CompletedError = error
        /\ CompletedFinalized = finalized
    BY <2>1 DEF CompletedSpace, CompletedDone, CompletedError,
                CompletedFinalized, TypeInv, TypeOK
  <2>4. QED
    BY <2>2, <2>3 DEF Atomic!Consistent, Atomic!SearchCoverage, Atomic!ReprCoverage,
                CoverageOfSearchSpace, CoverageOfReprSpace, QuiescentConsistent
<1>3. QED
  BY <1>1, <1>2, AtomicInvariant, PTL

\* The only writes of done come from the lock holder, so a thread setting
\* done is the only thread inside a call.
LEMMA DoneWriterAlone ==
    ASSUME Serialize, TerminalInductive, NEW t \in Threads, InCall(t),
           NEW u \in Threads, InCall(u)
    PROVE  u = t
BY DEF TerminalInductive

\* One step of serialized callers keeps VerdictInductive and, from a done
\* state, leaves done, _finalized and error as they were.
LEMMA VerdictStep ==
    ASSUME Serialize, TypeInv, TerminalInductive, AtomicInductive,
           VerdictInductive, [Next]_vars
    PROVE  /\ VerdictInductive'
           /\ done => done' /\ finalized' /\ error' = error
<1> USE ResultsAssumption DEF VerdictInductive, Goto, TypeInv, TypeOK
<1>1. ASSUME NEW t \in Threads, NEW p \in PSpaces, CallUpdate(t, p)
      PROVE  VerdictInductive' /\ (done => done' /\ finalized' /\ error' = error)
  BY <1>1 DEF CallUpdate
<1>2. ASSUME NEW t \in Threads, SetProgress(t) PROVE VerdictInductive'
        /\ (done => done' /\ finalized' /\ error' = error)
  BY <1>2 DEF SetProgress
<1>3. ASSUME NEW t \in Threads, SetSearchCoverage(t) PROVE VerdictInductive'
        /\ (done => done' /\ finalized' /\ error' = error)
  BY <1>3 DEF SetSearchCoverage
<1>4. ASSUME NEW t \in Threads, SetReprCoverage(t) PROVE VerdictInductive'
        /\ (done => done' /\ finalized' /\ error' = error)
  BY <1>4 DEF SetReprCoverage, Leave
<1>5. ASSUME NEW t \in Threads, NEW r \in PSpaces \cup {None},
             CallFinalize(t, r)
      PROVE  VerdictInductive' /\ (done => done' /\ finalized' /\ error' = error)
  BY <1>5 DEF CallFinalize, Enter
<1>6. ASSUME NEW t \in Threads, MarkFinalized(t) PROVE VerdictInductive'
        /\ (done => done' /\ finalized' /\ error' = error)
  BY <1>6 DEF MarkFinalized
<1>7. ASSUME NEW t \in Threads, ExtractSpace(t) PROVE VerdictInductive'
        /\ (done => done' /\ finalized' /\ error' = error)
  BY <1>7 DEF ExtractSpace, Leave
<1>8. ASSUME NEW t \in Threads, SetDone(t) PROVE VerdictInductive'
        /\ (done => done' /\ finalized' /\ error' = error)
  <2>1. finalized
    BY <1>8 DEF SetDone, AtomicInductive
  <2>2. \A u \in Threads : pc[u] \notin {"e_mark", "e_error"}
    BY <1>8, DoneWriterAlone DEF SetDone, InCall
  <2>3. QED
    BY <1>8, <2>1, <2>2 DEF SetDone
<1>9. ASSUME NEW t \in Threads, SetFinalProgress(t) PROVE VerdictInductive'
        /\ (done => done' /\ finalized' /\ error' = error)
  BY <1>9 DEF SetFinalProgress, Leave
<1>10. ASSUME NEW t \in Threads, CallFinalizeError(t) PROVE VerdictInductive'
         /\ (done => done' /\ finalized' /\ error' = error)
  BY <1>10 DEF CallFinalizeError, Enter
<1>11. ASSUME NEW t \in Threads, MarkFinalizedError(t) PROVE VerdictInductive'
         /\ (done => done' /\ finalized' /\ error' = error)
  BY <1>11 DEF MarkFinalizedError
<1>12. ASSUME NEW t \in Threads, SetError(t) PROVE VerdictInductive'
         /\ (done => done' /\ finalized' /\ error' = error)
  BY <1>12 DEF SetError
<1>13. ASSUME NEW t \in Threads, SetDoneError(t) PROVE VerdictInductive'
         /\ (done => done' /\ finalized' /\ error' = error)
  <2>1. finalized
    BY <1>13 DEF SetDoneError, AtomicInductive
  <2>2. \A u \in Threads \ {t} : pc[u] \notin {"e_mark", "e_error"}
    BY <1>13, DoneWriterAlone DEF SetDoneError, InCall
  <2>3. QED
    BY <1>13, <2>1, <2>2 DEF SetDoneError
<1>14. ASSUME NEW t \in Threads, SetFinalProgressError(t)
       PROVE  VerdictInductive' /\ (done => done' /\ finalized' /\ error' = error)
  BY <1>14 DEF SetFinalProgressError, Leave
<1>15. CASE UNCHANGED vars
  BY <1>15 DEF vars
<1>16. QED
  BY <1>1, <1>2, <1>3, <1>4, <1>5, <1>6, <1>7, <1>8, <1>9, <1>10, <1>11,
     <1>12, <1>13, <1>14, <1>15 DEF Next, Step

\* VerdictInductive: with callers holding one lock, a done result is
\* finalized and no finalize_result_as_error between its _finalized check
\* and its write of error finds the result done.
THEOREM VerdictInvariant == Serialize => (Spec => []VerdictInductive)
<1> SUFFICES ASSUME Serialize PROVE Spec => []VerdictInductive
  OBVIOUS
<1>1. Init => VerdictInductive
  BY DEF Init, VerdictInductive
<1>2. TypeInv /\ TerminalInductive /\ AtomicInductive /\ VerdictInductive
        /\ [Next]_vars => VerdictInductive'
  BY VerdictStep
<1>3. QED
  BY <1>1, <1>2, AtomicInvariant, PTL DEF Spec

\* VerdictStable: with callers holding one lock, once finalize_result or
\* finalize_result_as_error has set done, no later call clears done or
\* _finalized or changes error; the _finalized check turns every late
\* finalize call into the "already finalized" exception.
THEOREM VerdictFixed == Serialize => (Spec => VerdictStable)
<1> SUFFICES ASSUME Serialize PROVE Spec => VerdictStable
  OBVIOUS
<1>1. TypeInv /\ TerminalInductive /\ AtomicInductive /\ VerdictInductive
        /\ [Next]_vars => [done => done' /\ finalized' /\ error' = error]_vars
  BY VerdictStep
<1>2. QED
  BY <1>1, AtomicInvariant, VerdictInvariant, PTL DEF Spec, VerdictStable

=============================================================================
