------------------------- MODULE FunmanResultsProofs -------------------------
(***************************************************************************)
(* Proofs about the FunmanResults aggregator, for every set of threads,   *)
(* parameter spaces, volumes and bounds.                                  *)
(***************************************************************************)
EXTENDS FunmanResults, TLAPS

\* The type invariant, with the one fact about arguments it needs: a
\* thread computing coverage holds a ParameterSpace, never None.
TypeInv ==
    /\ TypeOK
    /\ \A t \in Threads : pc[t] \in {"u_progress", "u_search"} => arg[t] \in PSpaces

\* The coverage of a reported ParameterSpace is a natural number.
LEMMA CoverageType ==
    ASSUME NEW p \in PSpaces
    PROVE  CoverageOfSearchSpace(p) \in Nat /\ CoverageOfReprSpace \in Nat
BY ResultsAssumption DEF CoverageOfSearchSpace, CoverageOfReprSpace

\* Every state of every behaviour is well typed.
THEOREM TypeCorrect == Spec => []TypeInv
<1>1. Init => TypeInv
  <2> SUFFICES ASSUME Init PROVE TypeInv
    OBVIOUS
  <2>1. progress \in Progress
    BY DEF Init, Progress
  <2>2. pc \in [Threads -> Labels] /\ arg \in [Threads -> PSpaces \cup {None}]
    BY DEF Init, Labels
  <2>3. \A t \in Threads : pc[t] \in {"u_progress", "u_search"} => arg[t] \in PSpaces
    BY DEF Init
  <2>4. /\ finalized \in BOOLEAN /\ done \in BOOLEAN /\ error \in BOOLEAN
        /\ parameter_space \in PSpaces \cup {None} /\ terminals \in Nat
    BY DEF Init
  <2>5. /\ updates \in [Threads -> 0..MaxUpdates]
        /\ holder \in Threads \cup {NoThread}
        /\ ret \in [Threads -> {"idle", "f_done"}]
    BY ResultsAssumption DEF Init
  <2>6. QED
    BY <2>1, <2>2, <2>3, <2>4, <2>5 DEF TypeInv, TypeOK
<1>2. TypeInv /\ [Next]_vars => TypeInv'
  <2> SUFFICES ASSUME TypeInv, [Next]_vars PROVE TypeInv'
    OBVIOUS
  <2> USE DEF TypeInv
  <2>1. ASSUME NEW t \in Threads, NEW p \in PSpaces, CallUpdate(t, p)
        PROVE TypeInv'
    BY <2>1, ResultsAssumption DEF CallUpdate, TypeOK, Labels, Goto, Enter
  <2>2. ASSUME NEW t \in Threads, SetProgress(t) PROVE TypeInv'
    BY <2>2, CoverageType DEF SetProgress, TypeOK, Labels, Goto, Progress
  <2>3. ASSUME NEW t \in Threads, SetSearchCoverage(t) PROVE TypeInv'
    BY <2>3, CoverageType DEF SetSearchCoverage, TypeOK, Labels, Goto,
                              Progress
  <2>4. ASSUME NEW t \in Threads, SetReprCoverage(t) PROVE TypeInv'
    BY <2>4, ResultsAssumption DEF SetReprCoverage, TypeOK, Labels, Goto,
                                   Progress, CoverageOfReprSpace, Leave
  <2>5. ASSUME NEW t \in Threads, NEW r \in PSpaces \cup {None},
               CallFinalize(t, r)
        PROVE TypeInv'
    BY <2>5 DEF CallFinalize, TypeOK, Labels, Goto, Enter
  <2>6. ASSUME NEW t \in Threads, MarkFinalized(t) PROVE TypeInv'
    BY <2>6 DEF MarkFinalized, TypeOK, Labels, Goto
  <2>7. ASSUME NEW t \in Threads, ExtractSpace(t) PROVE TypeInv'
    BY <2>7 DEF ExtractSpace, TypeOK, Labels, Goto, Leave
  <2>8. ASSUME NEW t \in Threads, SetDone(t) PROVE TypeInv'
    BY <2>8 DEF SetDone, TypeOK, Labels, Goto
  <2>9. ASSUME NEW t \in Threads, SetFinalProgress(t) PROVE TypeInv'
    BY <2>9, ResultsAssumption DEF SetFinalProgress, TypeOK, Labels, Goto,
                                   Progress, Leave
  <2>10. ASSUME NEW t \in Threads, CallFinalizeError(t) PROVE TypeInv'
    BY <2>10 DEF CallFinalizeError, TypeOK, Labels, Goto, Enter
  <2>11. ASSUME NEW t \in Threads, MarkFinalizedError(t) PROVE TypeInv'
    BY <2>11 DEF MarkFinalizedError, TypeOK, Labels, Goto
  <2>12. ASSUME NEW t \in Threads, SetError(t) PROVE TypeInv'
    BY <2>12 DEF SetError, TypeOK, Labels, Goto
  <2>13. ASSUME NEW t \in Threads, SetDoneError(t) PROVE TypeInv'
    BY <2>13 DEF SetDoneError, TypeOK, Labels, Goto
  <2>14. ASSUME NEW t \in Threads, SetFinalProgressError(t) PROVE TypeInv'
    BY <2>14, ResultsAssumption DEF SetFinalProgressError, TypeOK, Labels,
                                    Goto, Progress, Leave
  <2>15. CASE UNCHANGED vars
    BY <2>15 DEF vars, TypeOK
  <2>16. QED
    BY <2>1, <2>2, <2>3, <2>4, <2>5, <2>6, <2>7, <2>8, <2>9, <2>10, <2>11,
       <2>12, <2>13, <2>14, <2>15 DEF Next, Step
<1>3. QED
  BY <1>1, <1>2, PTL DEF Spec

-----------------------------------------------------------------------------
(* With callers serializing their calls, the _finalized check makes at     *)
(* most one terminal transition, for any number of threads.              *)

\* The serialized discipline: a thread that enters a call finds nobody
\* inside one, since every thread inside a call holds the lock.
LEMMA EnterAlone ==
    ASSUME TerminalInductive, Serialize, holder = NoThread,
           NEW u \in Threads
    PROVE  ~InCall(u)
BY ResultsAssumption DEF TerminalInductive

\* One step of serialized callers keeps TerminalInductive.
LEMMA TerminalStep ==
    ASSUME Serialize, TypeInv, TypeInv', TerminalInductive, [Next]_vars
    PROVE  TerminalInductive'
<1>0. TypeOK /\ TypeOK'
  BY DEF TypeInv
<1> USE <1>0, ResultsAssumption DEF TerminalInductive, InCall, Goto, TypeOK
<1>1. ASSUME NEW t \in Threads, NEW p \in PSpaces, CallUpdate(t, p)
      PROVE TerminalInductive'
  BY <1>1, EnterAlone DEF CallUpdate, CanEnter, Enter
<1>2. ASSUME NEW t \in Threads, SetProgress(t) PROVE TerminalInductive'
  BY <1>2 DEF SetProgress
<1>3. ASSUME NEW t \in Threads, SetSearchCoverage(t)
      PROVE TerminalInductive'
  BY <1>3 DEF SetSearchCoverage
<1>4. ASSUME NEW t \in Threads, SetReprCoverage(t)
      PROVE TerminalInductive'
  BY <1>4 DEF SetReprCoverage, Leave
<1>5. ASSUME NEW t \in Threads, NEW r \in PSpaces \cup {None},
             CallFinalize(t, r)
      PROVE TerminalInductive'
  BY <1>5, EnterAlone DEF CallFinalize, CanEnter, Enter
<1>6. ASSUME NEW t \in Threads, MarkFinalized(t)
      PROVE TerminalInductive'
  BY <1>6 DEF MarkFinalized
<1>7. ASSUME NEW t \in Threads, ExtractSpace(t) PROVE TerminalInductive'
  BY <1>7 DEF ExtractSpace, Leave
<1>8. ASSUME NEW t \in Threads, SetDone(t) PROVE TerminalInductive'
  BY <1>8 DEF SetDone
<1>9. ASSUME NEW t \in Threads, SetFinalProgress(t)
      PROVE TerminalInductive'
  BY <1>9 DEF SetFinalProgress, Leave
<1>10. ASSUME NEW t \in Threads, CallFinalizeError(t)
       PROVE TerminalInductive'
  BY <1>10, EnterAlone DEF CallFinalizeError, CanEnter, Enter
<1>11. ASSUME NEW t \in Threads, MarkFinalizedError(t)
       PROVE TerminalInductive'
  BY <1>11 DEF MarkFinalizedError
<1>12. ASSUME NEW t \in Threads, SetError(t) PROVE TerminalInductive'
  BY <1>12 DEF SetError
<1>13. ASSUME NEW t \in Threads, SetDoneError(t)
       PROVE TerminalInductive'
  BY <1>13 DEF SetDoneError
<1>14. ASSUME NEW t \in Threads, SetFinalProgressError(t)
       PROVE TerminalInductive'
  BY <1>14 DEF SetFinalProgressError, Leave
<1>15. CASE UNCHANGED vars
  BY <1>15 DEF vars
<1>16. QED
  BY <1>1, <1>2, <1>3, <1>4, <1>5, <1>6, <1>7, <1>8, <1>9, <1>10, <1>11,
     <1>12, <1>13, <1>14, <1>15 DEF Next, Step

\* TerminalInductive: with callers holding one lock around every call, a
\* thread inside a call is the lock holder, a thread about to set
\* _finalized finds it unset, and one terminal transition has been made
\* exactly when _finalized is set.
THEOREM TerminalInvariant == Serialize => (Spec => []TerminalInductive)
<1> SUFFICES ASSUME Serialize PROVE Spec => []TerminalInductive
  OBVIOUS
<1>1. Init => TerminalInductive
  BY ResultsAssumption DEF Init, TerminalInductive, InCall
<1>2. TypeInv /\ TypeInv' /\ TerminalInductive /\ [Next]_vars
        => TerminalInductive'
  BY TerminalStep
<1>3. QED
  BY <1>1, <1>2, TypeCorrect, PTL DEF Spec

\* AtMostOneTerminal: callers that hold one lock around every call to
\* finalize_result and finalize_result_as_error never make two terminal
\* transitions.
THEOREM TerminalOnce == Serialize => (Spec => []AtMostOneTerminal)
<1> SUFFICES ASSUME Serialize PROVE Spec => []AtMostOneTerminal
  OBVIOUS
<1>1. TerminalInductive => AtMostOneTerminal
  BY DEF TerminalInductive, AtMostOneTerminal
<1>2. QED
  BY <1>1, TerminalInvariant, PTL

=============================================================================
