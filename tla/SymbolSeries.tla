---------------------------- MODULE SymbolSeries ----------------------------
(***************************************************************************)
(* Symbol extraction of FunmanResults (funman/server/query.py): from the  *)
(* assignment a solver returned (a Point's values, symbol name -> number) *)
(* build, for the requested state variables, dense timeseries indexed by  *)
(* timepoint.                                                             *)
(*                                                                         *)
(* A symbol name is "<variable>_<timepoint>", where the variable name may *)
(* itself contain underscores ("timer_t_3").  A name is modelled as the   *)
(* sequence of its underscore-free segments, so "timer_t_3" is            *)
(* <<"timer", "t", "3">>: joining with "_" is injective on such           *)
(* sequences, rsplit("_", 1) is Front/Last, and a substring test of the   *)
(* form "v_" in s is decided by the segments and by which segment ends    *)
(* with which (the constant EndsIn).                                       *)
(***************************************************************************)
EXTENDS Naturals, Sequences, FiniteSetsExt, SequencesExt

CONSTANTS
    Atoms,     \* the underscore-free, non-empty segments of names
    Digits,    \* the segments for which str.isdigit() holds
    DigitVal,  \* int(k) of a digit segment
    EndsIn,    \* pairs <<x, y>>: segment y ends with x, x # y
    Numbers,   \* the values a solver assigns, float() of which is exact
    Huge,      \* a value float() raises OverflowError on
    NoValue    \* None, the filler of a slot with no value

ASSUME SymbolAssumption ==
    /\ Digits \subseteq Atoms
    /\ DigitVal \in [Digits -> Nat]
    \* the encoder writes a timepoint as str(int), so no two digit strings
    \* denote the same number
    /\ \A d1, d2 \in Digits : DigitVal[d1] = DigitVal[d2] => d1 = d2
    /\ EndsIn \subseteq Atoms \X Atoms
    /\ Huge \notin Numbers
    /\ NoValue \notin Numbers \cup {Huge}

\* The segment y ends with the segment x.
EndsWith(x, y) == x = y \/ <<x, y>> \in EndsIn

\* str.isdigit() of a timepoint: a single digit segment.
IsDigit(tp) == Len(tp) = 1 /\ tp[1] \in Digits

\* f"{v}_" in s: the first segment of v ends some segment s[j] that is
\* not the last, and the other segments of v follow it and are followed
\* by an underscore.
Matches(v, s) ==
    \E j \in 1..(Len(s) - Len(v)) :
        /\ EndsWith(v[1], s[j])
        /\ \A k \in 2..Len(v) : v[k] = s[j + k - 1]

\* Mutant: symbol.split("_", 1), splitting at the first underscore.
SplitSymbolFirst(s) == <<<<s[1]>>, Tail(s)>>

\* _split_symbol: symbol.rsplit("_", 1), the name and the timepoint.
SplitSymbol(s) == <<Front(s), <<Last(s)>>>>

\* _symbols(point, variables): every symbol of the point in which some
\* requested "v_" occurs, grouped by the name before its last underscore
\* and keyed by its timepoint.  Segments are non-empty, so the timepoint
\* is never "" and "if timepoint:" always holds.
Symbols(point, variables) ==
    LET matched == {s \in DOMAIN point : \E v \in variables : Matches(v, s)}
        names == {SplitSymbol(s)[1] : s \in matched}
        Of(n) == {s \in matched : SplitSymbol(s)[1] = n}
    IN  [n \in names |->
            [tp \in {SplitSymbol(s)[2] : s \in Of(n)} |->
                CHOOSE s \in Of(n) : SplitSymbol(s)[2] = tp]]

\* symbol_values raises: float() of an extracted symbol's value raises
\* OverflowError, and its handler calls l.warning(e), but no l is defined
\* or imported in query.py, so the handler raises NameError and the
\* whole extraction aborts.
ValuesRaise(point, variables) ==
    LET syms == Symbols(point, variables)
    IN  \E n \in DOMAIN syms : \E tp \in DOMAIN syms[n] :
            point[syms[n][tp]] = Huge

\* symbol_values when it returns: float(value) of every extracted symbol.
SymbolValues(point, variables) ==
    LET syms == Symbols(point, variables)
    IN  [n \in DOMAIN syms |->
            [tp \in DOMAIN syms[n] |-> point[syms[n][tp]]]]

\* The largest digit timepoint of one series, or 0: the inner
\* max([int(k) for k in tps.keys() if k.isdigit()] + [0]).
MaxDigit(tps) ==
    Max({DigitVal[tp[1]] : tp \in {k \in DOMAIN tps : IsDigit(k)}} \cup {0})

\* An exception out of symbol_timeseries: no index and no series.
Raised(e) == [raised |-> TRUE, exception |-> e, index |-> {}, values |-> <<>>]

\* symbol_timeseries: the NameError of symbol_values (called first), or
\* the ValueError of the outer max() of an empty list when no symbol
\* matched.  Otherwise index is range(0, max_t + 1) and each series a
\* list of that length holding vals[int(t)] = v for its digit
\* timepoints, None elsewhere.
SymbolTimeseries(point, variables) ==
    LET series == SymbolValues(point, variables)
    IN  IF ValuesRaise(point, variables) THEN Raised("NameError")
        ELSE IF DOMAIN series = {} THEN Raised("ValueError")
        ELSE LET maxT == Max({MaxDigit(series[n]) : n \in DOMAIN series})
                 At(n, i) == {tp \in DOMAIN series[n] :
                                  IsDigit(tp) /\ DigitVal[tp[1]] = i}
             IN  [raised |-> FALSE,
                  exception |-> "none",
                  index |-> 0..maxT,
                  values |->
                      [n \in DOMAIN series |->
                          [i \in 0..maxT |->
                              IF At(n, i) = {} THEN NoValue
                              ELSE series[n][CHOOSE tp \in At(n, i) : TRUE]]]]

=============================================================================
