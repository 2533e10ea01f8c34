------------------------- MODULE SymbolSeriesChecks -------------------------
(***************************************************************************)
(* A caller of symbol_timeseries (dataframe, plotting the points of a     *)
(* ParameterSpace): the point the solver returned gains and loses symbol  *)
(* assignments and the set of requested variables grows and shrinks, so  *)
(* every point over CandidateSymbols and every request over Requestable   *)
(* is reached.  The properties compare the extracted series with the     *)
(* point.                                                                  *)
(***************************************************************************)
EXTENDS SymbolSeries

CONSTANTS
    CandidateSymbols,  \* the symbol names a point may assign
    Requestable        \* the variable names a caller may ask for

ASSUME HarnessAssumption ==
    /\ CandidateSymbols \subseteq {s \in Seq(Atoms) : Len(s) >= 2}
    /\ Requestable \subseteq {v \in Seq(Atoms) : Len(v) >= 1}

VARIABLES point, variables

vars == <<point, variables>>

TypeOK ==
    /\ DOMAIN point \subseteq CandidateSymbols
    /\ \A s \in DOMAIN point : point[s] \in Numbers \cup {Huge}
    /\ variables \subseteq Requestable

Init == point = [s \in {} |-> Huge] /\ variables = {}

\* The solver's model assigns x to symbol s (or changes its value).
Assign(s, x) ==
    /\ point' = [y \in DOMAIN point \cup {s} |->
                    IF y = s THEN x ELSE point[y]]
    /\ UNCHANGED variables

\* The point has no value for s.
Unassign(s) ==
    /\ s \in DOMAIN point
    /\ point' = [y \in DOMAIN point \ {s} |-> point[y]]
    /\ UNCHANGED variables

Request(v) == variables' = variables \cup {v} /\ UNCHANGED point

Unrequest(v) == v \in variables /\ variables' = variables \ {v}
                /\ UNCHANGED point

Next ==
    \/ \E s \in CandidateSymbols, x \in Numbers \cup {Huge} : Assign(s, x)
    \/ \E s \in CandidateSymbols : Unassign(s)
    \/ \E v \in Requestable : Request(v)
    \/ \E v \in Requestable : Unrequest(v)

Spec == Init /\ [][Next]_vars

Result == SymbolTimeseries(point, variables)

\* The symbol "<v>_<d>" of a name and a digit segment.
Sym(v, d) == Append(v, d)

-----------------------------------------------------------------------------
(* Property that holds.                                                    *)

\* symbol_timeseries, when it returns, places every value where it
\* belongs: each value the point assigns to "<v>_<t>" for a requested v
\* and a digit t sits at index int(t) of v's series, and every slot of
\* every series that is not None holds the value of the symbol of its own
\* name and timepoint.  Splitting at the wrong underscore, an index off
\* by one or a value from another symbol breaks it.
SeriesFaithful ==
    ~Result.raised =>
        /\ \A v \in variables, d \in Digits :
               Sym(v, d) \in DOMAIN point =>
                   /\ v \in DOMAIN Result.values
                   /\ DigitVal[d] \in Result.index
                   /\ Result.values[v][DigitVal[d]] = point[Sym(v, d)]
        /\ \A n \in DOMAIN Result.values, i \in Result.index :
               Result.values[n][i] # NoValue =>
                   \E d \in Digits :
                       /\ DigitVal[d] = i
                       /\ Sym(n, d) \in DOMAIN point
                       /\ point[Sym(n, d)] = Result.values[n][i]

-----------------------------------------------------------------------------
(* Properties the spec states that the code breaks.                        *)

\* Spec 6 (symbol naming): a symbol that is not "<variable>_<timepoint>"
\* for a requested variable is ignored, so the series are keyed by
\* requested variables only.  _symbols tests f"{v}_" in var, a substring
\* test, so a requested "S" also extracts "RS_1" under the key "RS".
SeriesOnlyRequested ==
    ~Result.raised => DOMAIN Result.values \subseteq variables

\* Spec 7: symbols that do not match are skipped and extraction
\* does not abort.  symbol_timeseries takes max() of an empty list, a
\* ValueError, when no requested variable has a symbol in the point.
ExtractionTotal == variables # {} => ~Result.raised

\* Spec 7: an overflow while converting one timepoint's value is caught,
\* logged and the slot left empty; extraction of the other timepoints
\* continues.  The handler's l.warning(e) raises NameError, since l is
\* not defined in query.py, so one overflowing value of a requested
\* variable aborts the whole extraction.
OverflowRecovered ==
    (\E v \in variables, s \in DOMAIN point :
        Matches(v, s) /\ point[s] = Huge) => ~Result.raised

=============================================================================
