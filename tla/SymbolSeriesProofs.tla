-------------------------- MODULE SymbolSeriesProofs --------------------------
(***************************************************************************)
(* Proofs about symbol_timeseries (SymbolSeries) for every set of names,  *)
(* digits and values.                                                      *)
(*                                                                         *)
(* symbol_timeseries takes max() of sets of timepoints, a CHOOSE that      *)
(* names an element only when a largest one exists.  Every such set is    *)
(* the image of a set of symbols of the point, and a point gains or loses *)
(* one symbol per step, so that every natural-valued function on a set of *)
(* its symbols attains a maximum is an invariant of the caller: the       *)
(* finiteness that a largest timepoint needs comes from the history of   *)
(* the point, not from an induction over sets.                            *)
(***************************************************************************)
EXTENDS SymbolSeriesChecks, TLAPS

\* A set of numbers with a largest element.
HasMax(S) == \E m \in S : \A y \in S : y <= m

\* Every natural-valued function on a non-empty set of the point's
\* symbols attains a largest value.
MaxClosed ==
    \A T \in SUBSET DOMAIN point :
        \A g \in [T -> Nat] :
            T # {} => HasMax({g[t] : t \in T})

\* Every state of the caller has a well-typed point and request.
THEOREM SeriesTypeCorrect == Spec => []TypeOK
<1>1. Init => TypeOK
  BY DEF Init, TypeOK
<1>2. TypeOK /\ [Next]_vars => TypeOK'
  BY DEF TypeOK, Next, vars, Assign, Unassign, Request, Unrequest
<1>3. QED
  BY <1>1, <1>2, PTL DEF Spec

\* One more symbol keeps every function on the point's symbols bounded
\* above by one of its values: compare the new value with the largest of
\* the others.
LEMMA MaxClosedAssign ==
    ASSUME MaxClosed, NEW s, NEW x, point' = [y \in DOMAIN point \cup {s} |->
                                              IF y = s THEN x ELSE point[y]]
    PROVE  MaxClosed'
<1>1. SUFFICES ASSUME NEW T \in SUBSET (DOMAIN point \cup {s}),
                      NEW g \in [T -> Nat], T # {}
               PROVE  HasMax({g[t] : t \in T})
  BY DEF MaxClosed
<1>2. CASE s \notin T
  <2>1. T \in SUBSET DOMAIN point
    BY <1>2
  <2>2. QED
    BY <1>1, <2>1 DEF MaxClosed
<1>3. CASE T = {s}
  BY <1>3 DEF HasMax
<1>4. CASE s \in T /\ T # {s}
  <2> DEFINE U == T \ {s}
             h == [t \in U |-> g[t]]
  <2>1. U \in SUBSET DOMAIN point /\ U # {} /\ h \in [U -> Nat]
    BY <1>4
  <2>2. PICK m \in {h[t] : t \in U} : \A y \in {h[t] : t \in U} : y <= m
    BY <2>1 DEF MaxClosed, HasMax
  <2>3. m \in {g[t] : t \in T} /\ m \in Nat
      /\ \A t \in U : g[t] <= m
    BY <2>2
  <2>4. QED
    BY <1>4, <2>3 DEF HasMax
<1>5. QED
  BY <1>2, <1>3, <1>4

\* Every reachable point keeps MaxClosed.
THEOREM MaxClosedInvariant == Spec => []MaxClosed
<1>1. Init => MaxClosed
  BY DEF Init, MaxClosed
<1>2. MaxClosed /\ [Next]_vars => MaxClosed'
  <2> SUFFICES ASSUME MaxClosed, [Next]_vars PROVE MaxClosed'
    OBVIOUS
  <2>1. ASSUME NEW s \in CandidateSymbols, NEW x \in Numbers \cup {Huge},
               Assign(s, x)
        PROVE  MaxClosed'
    BY <2>1, MaxClosedAssign DEF Assign
  <2>2. ASSUME NEW s \in CandidateSymbols, Unassign(s) PROVE MaxClosed'
    BY <2>2 DEF Unassign, MaxClosed
  <2>3. CASE UNCHANGED point
    BY <2>3 DEF MaxClosed
  <2>4. QED
    BY <2>1, <2>2, <2>3 DEF Next, Request, Unrequest, vars
<1>3. QED
  BY <1>1, <1>2, PTL DEF Spec

\* Max of a set of naturals with a largest element is that element.
LEMMA MaxOf ==
    ASSUME NEW S \in SUBSET Nat, HasMax(S)
    PROVE  Max(S) \in S /\ \A y \in S : y <= Max(S)
BY DEF HasMax, Max

\* The image of a function on the point's symbols, with 0 added as the
\* code's "+ [0]" does, has a largest element.
LEMMA ImageMax ==
    ASSUME MaxClosed, NEW T \in SUBSET DOMAIN point, NEW g \in [T -> Nat]
    PROVE  HasMax({g[t] : t \in T} \cup {0})
<1>1. CASE T = {}
  BY <1>1 DEF HasMax
<1>2. CASE T # {}
  <2>1. PICK m \in {g[t] : t \in T} : \A y \in {g[t] : t \in T} : y <= m
    BY <1>2 DEF MaxClosed, HasMax
  <2>2. QED
    BY <2>1 DEF HasMax
<1>3. QED
  BY <1>1, <1>2

\* rsplit("_", 1) of "<v>_<d>" gives back v and d.
LEMMA SplitAppend ==
    ASSUME NEW v \in Seq(Atoms), NEW d \in Atoms
    PROVE  Front(Append(v, d)) = v /\ Last(Append(v, d)) = d
BY DEF Front, Last

\* A name joined again from its rsplit("_", 1) is the name itself.
LEMMA AppendSplit ==
    ASSUME NEW s \in Seq(Atoms), Len(s) >= 1
    PROVE  /\ s = Append(Front(s), Last(s))
           /\ Front(s) \in Seq(Atoms)
           /\ Last(s) \in Atoms
BY DEF Front, Last

\* "<v>_" occurs in "<v>_<d>": the substring test of _symbols selects
\* every symbol of a requested variable.
LEMMA MatchesOwn ==
    ASSUME NEW v \in Seq(Atoms), Len(v) >= 1, NEW d \in Atoms
    PROVE  Matches(v, Append(v, d))
<1>1. 1 \in 1..(Len(Append(v, d)) - Len(v))
  OBVIOUS
<1>2. EndsWith(v[1], Append(v, d)[1])
  BY DEF EndsWith
<1>3. \A k \in 2..Len(v) : v[k] = Append(v, d)[1 + k - 1]
  OBVIOUS
<1>4. QED
  BY <1>1, <1>2, <1>3 DEF Matches

\* The symbols _symbols selects, its grouping and symbol_values' series,
\* for the present point and request.
Matched == {s \in DOMAIN point : \E v \in variables : Matches(v, s)}

Syms == Symbols(point, variables)

Series == SymbolValues(point, variables)

\* Every symbol of the point is a name of at least two segments.
LEMMA SymbolShape ==
    ASSUME TypeOK, NEW s \in DOMAIN point
    PROVE  /\ s \in Seq(Atoms) /\ Len(s) >= 2
           /\ s = Append(Front(s), Last(s))
           /\ Front(s) \in Seq(Atoms) /\ Last(s) \in Atoms
<1>1. s \in Seq(Atoms) /\ Len(s) >= 2
  BY HarnessAssumption DEF TypeOK
<1>2. QED
  BY <1>1, AppendSplit

\* _symbols groups the selected symbols by name and keys each group by
\* timepoint: the entry for name n and timepoint tp is the symbol
\* "<n>_<tp>", and every selected symbol is found under its own name and
\* timepoint.
LEMMA SymsShape ==
    ASSUME TypeOK
    PROVE  /\ DOMAIN Syms = {Front(s) : s \in Matched}
           /\ \A n \in DOMAIN Syms : \A tp \in DOMAIN Syms[n] :
                  /\ Syms[n][tp] \in Matched
                  /\ Front(Syms[n][tp]) = n
                  /\ tp = <<Last(Syms[n][tp])>>
           /\ \A s \in Matched :
                  /\ <<Last(s)>> \in DOMAIN Syms[Front(s)]
                  /\ Syms[Front(s)][<<Last(s)>>] = s
<1>1. DOMAIN Syms = {Front(s) : s \in Matched}
  BY DEF Syms, Symbols, Matched, SplitSymbol
<1>2. ASSUME NEW n \in DOMAIN Syms, NEW tp \in DOMAIN Syms[n]
      PROVE  /\ Syms[n][tp] \in Matched
             /\ Front(Syms[n][tp]) = n
             /\ tp = <<Last(Syms[n][tp])>>
  <2>1. \E s \in Matched : Front(s) = n /\ <<Last(s)>> = tp
    BY <1>2 DEF Syms, Symbols, Matched, SplitSymbol
  <2>2. Syms[n][tp] = CHOOSE s \in Matched : Front(s) = n /\ <<Last(s)>> = tp
    BY <1>2 DEF Syms, Symbols, Matched, SplitSymbol
  <2>3. QED
    BY <2>1, <2>2
<1>3. ASSUME NEW s \in Matched
      PROVE  /\ <<Last(s)>> \in DOMAIN Syms[Front(s)]
             /\ Syms[Front(s)][<<Last(s)>>] = s
  <2>1. Front(s) \in DOMAIN Syms
    BY <1>1
  <2>2. <<Last(s)>> \in DOMAIN Syms[Front(s)]
    BY DEF Syms, Symbols, Matched, SplitSymbol
  <2>3. /\ Syms[Front(s)][<<Last(s)>>] \in Matched
        /\ Front(Syms[Front(s)][<<Last(s)>>]) = Front(s)
        /\ <<Last(s)>> = <<Last(Syms[Front(s)][<<Last(s)>>])>>
    BY <1>2, <2>1, <2>2
  <2>4. \A u, w \in Matched : Front(u) = Front(w) /\ Last(u) = Last(w) => u = w
    BY SymbolShape DEF Matched
  <2>5. QED
    BY <2>2, <2>3, <2>4
<1>4. QED
  BY <1>1, <1>2, <1>3

\* symbol_values, when it returns, keeps the grouping of _symbols and
\* the value of every timepoint.
LEMMA SeriesShape ==
    ASSUME TypeOK
    PROVE  /\ DOMAIN Series = DOMAIN Syms
           /\ \A n \in DOMAIN Series : DOMAIN Series[n] = DOMAIN Syms[n]
           /\ \A n \in DOMAIN Series : \A tp \in DOMAIN Series[n] :
                  Series[n][tp] = point[Syms[n][tp]]
BY DEF Series, SymbolValues, Syms

\* The digit timepoints of one series, read by symbol_timeseries.
DigitKeys(n) == {k \in DOMAIN Series[n] : IsDigit(k)}

\* The inner max() of symbol_timeseries is a natural number at least as
\* large as every digit timepoint of its series.
LEMMA MaxDigitBound ==
    ASSUME TypeOK, MaxClosed, NEW n \in DOMAIN Series
    PROVE  /\ MaxDigit(Series[n]) \in Nat
           /\ \A tp \in DigitKeys(n) : DigitVal[tp[1]] <= MaxDigit(Series[n])
<1> DEFINE D == {DigitVal[tp[1]] : tp \in DigitKeys(n)} \cup {0}
           T == {Syms[n][tp] : tp \in DigitKeys(n)}
           g == [s \in T |-> DigitVal[Last(s)]]
<1>1. n \in DOMAIN Syms
      /\ \A tp \in DigitKeys(n) : /\ tp \in DOMAIN Syms[n]
                                  /\ Syms[n][tp] \in DOMAIN point
                                  /\ tp = <<Last(Syms[n][tp])>>
                                  /\ tp[1] \in Digits
  BY SeriesShape, SymsShape DEF DigitKeys, IsDigit, Matched
<1>2. T \in SUBSET DOMAIN point /\ g \in [T -> Nat]
  BY <1>1, SymbolAssumption
<1>3. PICK m \in {g[t] : t \in T} \cup {0} :
          \A y \in {g[t] : t \in T} \cup {0} : y <= m
  BY <1>2, ImageMax DEF HasMax
<1>4. \A tp \in DigitKeys(n) : DigitVal[tp[1]] = g[Syms[n][tp]]
  BY <1>1
<1>5. D \subseteq Nat
  BY <1>1, SymbolAssumption
<1>6. HasMax(D)
  <2>1. m \in D
    <3>1. CASE m = 0
      BY <3>1
    <3>2. CASE m # 0
      <4>1. PICK t \in T : m = g[t]
        BY <1>3, <3>2
      <4>2. PICK tp \in DigitKeys(n) : t = Syms[n][tp]
        OBVIOUS
      <4>3. m = DigitVal[tp[1]]
        BY <4>1, <4>2, <1>4
      <4>4. QED
        BY <4>2, <4>3
    <3>3. QED
      BY <3>1, <3>2
  <2>2. \A y \in D : y <= m
    BY <1>3, <1>4
  <2>3. QED
    BY <2>1, <2>2 DEF HasMax
<1>7. QED
  BY <1>5, <1>6, MaxOf DEF MaxDigit, DigitKeys

\* The outer max_t of symbol_timeseries, and the digit timepoints of one
\* series that land at index i.
MaxT == Max({MaxDigit(Series[n]) : n \in DOMAIN Series})
AtD(n, i) == {tp \in DOMAIN Series[n] : IsDigit(tp) /\ DigitVal[tp[1]] = i}

\* The timepoint whose value vals[int(t)] = v leaves at index i, and the
\* list built for series n.
PickAt(n, i) == CHOOSE tp \in AtD(n, i) : TRUE
Row(n) == [i \in 0..MaxT |->
              IF AtD(n, i) = {} THEN NoValue ELSE Series[n][PickAt(n, i)]]

\* symbol_timeseries returns: no extracted value overflows (no NameError)
\* and some symbol matched (no ValueError).
Returns == ~ValuesRaise(point, variables) /\ DOMAIN Series # {}

\* symbol_timeseries raises exactly when it does not return as above;
\* otherwise it returns range(0, max_t + 1) and one list per series.
LEMMA ResultShape ==
    /\ Result.raised <=> ~Returns
    /\ Returns =>
           Result = [raised |-> FALSE,
                     exception |-> "none",
                     index |-> 0..MaxT,
                     values |-> [n \in DOMAIN Series |-> Row(n)]]
BY DEF Result, SymbolTimeseries, Series, MaxT, AtD, Row, PickAt, Returns,
       Raised

\* The outer max() is a natural number at least as large as the inner
\* max() of every series.
LEMMA MaxTBound ==
    ASSUME TypeOK, MaxClosed, DOMAIN Series # {}
    PROVE  /\ MaxT \in Nat
           /\ \A n \in DOMAIN Series : MaxDigit(Series[n]) <= MaxT
<1> DEFINE MD == {MaxDigit(Series[n]) : n \in DOMAIN Series}
           g == [s \in Matched |-> MaxDigit(Series[Front(s)])]
<1>1. DOMAIN Series = {Front(s) : s \in Matched}
  BY SeriesShape, SymsShape
<1>2. Matched # {} /\ Matched \in SUBSET DOMAIN point
  BY <1>1 DEF Matched
<1>3. \A n \in DOMAIN Series : MaxDigit(Series[n]) \in Nat
  BY MaxDigitBound
<1>4. g \in [Matched -> Nat]
  BY <1>1, <1>3
<1>5. PICK m \in {g[t] : t \in Matched} : \A y \in {g[t] : t \in Matched} : y <= m
  BY <1>2, <1>4 DEF MaxClosed, HasMax
<1>6. HasMax(MD)
  <2>1. m \in MD
    BY <1>1, <1>5
  <2>2. \A y \in MD : y <= m
    <3>1. SUFFICES ASSUME NEW n \in DOMAIN Series PROVE MaxDigit(Series[n]) <= m
      OBVIOUS
    <3>2. PICK s \in Matched : n = Front(s)
      BY <1>1
    <3>3. g[s] = MaxDigit(Series[n])
      BY <3>2
    <3>4. QED
      BY <1>5, <3>3
  <2>3. QED
    BY <2>1, <2>2 DEF HasMax
<1>7. MD \subseteq Nat
  BY <1>3
<1>8. QED
  BY <1>6, <1>7, MaxOf DEF MaxT

\* A digit timepoint of a series lands at the index of its digit and at
\* no other: int() is injective on digit strings.
LEMMA AtDigit ==
    ASSUME TypeOK, NEW n \in DOMAIN Series, NEW d \in Digits,
           <<d>> \in DOMAIN Series[n]
    PROVE  AtD(n, DigitVal[d]) = {<<d>>}
<1>1. <<d>> \in AtD(n, DigitVal[d])
  BY DEF AtD, IsDigit
<1>2. ASSUME NEW tp \in AtD(n, DigitVal[d]) PROVE tp = <<d>>
  <2>1. n \in DOMAIN Syms /\ tp \in DOMAIN Syms[n]
    BY SeriesShape DEF AtD
  <2>2. tp = <<Last(Syms[n][tp])>>
    BY <2>1, SymsShape
  <2>3. tp[1] \in Digits /\ DigitVal[tp[1]] = DigitVal[d]
    BY DEF AtD, IsDigit
  <2>4. tp[1] = d
    BY <2>3, SymbolAssumption
  <2>5. QED
    BY <2>2, <2>4
<1>3. QED
  BY <1>1, <1>2

\* No value is lost: when symbol_timeseries returns, a requested variable
\* v with a value at the digit timepoint d is a series of the result,
\* d's index lies in range(0, max_t + 1), and the series holds that
\* value there.
LEMMA FaithfulComplete ==
    ASSUME TypeOK, MaxClosed, ~Result.raised,
           NEW v \in variables, NEW d \in Digits,
           Sym(v, d) \in DOMAIN point
    PROVE  /\ v \in DOMAIN Result.values
           /\ DigitVal[d] \in Result.index
           /\ Result.values[v][DigitVal[d]] = point[Sym(v, d)]
<1> DEFINE s == Append(v, d)
<1>1. v \in Seq(Atoms) /\ Len(v) >= 1 /\ d \in Atoms
  BY HarnessAssumption, SymbolAssumption DEF TypeOK
<1>2. s \in Matched
  BY <1>1, MatchesOwn DEF Matched, Sym
<1>3. Front(s) = v /\ Last(s) = d
  BY <1>1, SplitAppend
<1>4. v \in DOMAIN Syms /\ <<d>> \in DOMAIN Syms[v] /\ Syms[v][<<d>>] = s
  BY <1>2, <1>3, SymsShape
<1>5. v \in DOMAIN Series /\ <<d>> \in DOMAIN Series[v]
      /\ Series[v][<<d>>] = point[s]
  <2>1. v \in DOMAIN Series
    BY <1>4, SeriesShape
  <2>2. <<d>> \in DOMAIN Series[v]
    BY <1>4, <2>1, SeriesShape
  <2>3. QED
    BY <1>4, <2>1, <2>2, SeriesShape
<1>6. Returns /\ DOMAIN Series # {}
  BY ResultShape DEF Returns
<1>7. DigitVal[d] \in 0..MaxT
  <2>1. <<d>> \in DigitKeys(v)
    BY <1>5 DEF DigitKeys, IsDigit
  <2>2. DigitVal[d] <= MaxDigit(Series[v]) /\ MaxDigit(Series[v]) <= MaxT
    BY <1>5, <1>6, <2>1, MaxDigitBound, MaxTBound
  <2>3. DigitVal[d] \in Nat /\ MaxT \in Nat /\ MaxDigit(Series[v]) \in Nat
    BY <1>5, <1>6, MaxTBound, MaxDigitBound, SymbolAssumption
  <2>4. QED
    BY <2>2, <2>3
<1>8. PickAt(v, DigitVal[d]) = <<d>>
  BY <1>5, AtDigit DEF PickAt
<1>9. Result.index = 0..MaxT /\ DOMAIN Result.values = DOMAIN Series
  BY <1>6, ResultShape
<1>10. Result.values[v][DigitVal[d]] = Series[v][<<d>>]
  <2>1. AtD(v, DigitVal[d]) # {}
    BY <1>5, AtDigit
  <2>2. Result.values[v] = Row(v)
    BY <1>5, <1>6, ResultShape
  <2>3. Row(v)[DigitVal[d]] = Series[v][PickAt(v, DigitVal[d])]
    BY <1>7, <2>1 DEF Row
  <2>4. QED
    BY <1>8, <2>2, <2>3
<1>11. QED
  BY <1>5, <1>7, <1>9, <1>10 DEF Sym

\* Nothing is invented: a value other than None at index i of series n is
\* the float value of the symbol n_d of the point, for a digit d with
\* int(d) = i.
LEMMA FaithfulSound ==
    ASSUME TypeOK, ~Result.raised,
           NEW n \in DOMAIN Result.values, NEW i \in Result.index,
           Result.values[n][i] # NoValue
    PROVE  \E d \in Digits : /\ DigitVal[d] = i
                             /\ Sym(n, d) \in DOMAIN point
                             /\ point[Sym(n, d)] = Result.values[n][i]
<1>1. Returns /\ n \in DOMAIN Series /\ i \in 0..MaxT
  <2>1. Returns /\ DOMAIN Series # {}
    BY ResultShape DEF Returns
  <2>2. Result.index = 0..MaxT /\ DOMAIN Result.values = DOMAIN Series
    BY <2>1, ResultShape
  <2>3. QED
    BY <2>1, <2>2
<1>2. Result.values[n] = Row(n)
  BY <1>1, ResultShape
<1>3. AtD(n, i) # {}
  BY <1>1, <1>2 DEF Row
<1>4. PICK tc \in AtD(n, i) : Result.values[n][i] = Series[n][tc]
  <2>1. PickAt(n, i) \in AtD(n, i)
    BY <1>3 DEF PickAt
  <2>2. Result.values[n][i] = Series[n][PickAt(n, i)]
    BY <1>1, <1>2, <1>3 DEF Row
  <2>3. QED
    BY <2>1, <2>2
<1> DEFINE sc == Syms[n][tc]
<1>5. tc \in DOMAIN Syms[n] /\ n \in DOMAIN Syms /\ Series[n][tc] = point[sc]
  BY <1>1, <1>4, SeriesShape DEF AtD
<1>6. sc \in Matched /\ Front(sc) = n /\ tc = <<Last(sc)>>
  BY <1>5, SymsShape
<1>7. tc[1] \in Digits /\ DigitVal[tc[1]] = i /\ tc[1] = Last(sc)
  <2>1. tc[1] \in Digits /\ DigitVal[tc[1]] = i
    BY <1>4 DEF AtD, IsDigit
  <2>2. tc[1] = Last(sc)
    <3>1. tc = <<Last(sc)>>
      BY <1>6
    <3>2. <<Last(sc)>>[1] = Last(sc)
      OBVIOUS
    <3>3. QED
      BY <3>1, <3>2
  <2>3. QED
    BY <2>1, <2>2
<1>8. sc = Append(n, tc[1]) /\ sc \in DOMAIN point
  BY <1>6, <1>7, SymbolShape DEF Matched
<1>9. QED
  BY <1>4, <1>5, <1>7, <1>8 DEF Sym

\* symbol_timeseries is faithful to the point it reads, in every state of
\* any sequence of assignments and requests, for every set of symbols,
\* digits and values: when it returns (no overflowing value turned into
\* a NameError by the handler, no ValueError of an empty max()), each
\* requested variable's value at digit timepoint d sits at index int(d)
\* of its series, and every value other than None is such a value.
THEOREM SeriesFaithfulHolds == Spec => []SeriesFaithful
<1>1. TypeOK /\ MaxClosed => SeriesFaithful
  <2>1. SUFFICES ASSUME TypeOK, MaxClosed, ~Result.raised
                 PROVE  SeriesFaithful
    BY DEF SeriesFaithful
  <2>2. \A v \in variables, d \in Digits :
            Sym(v, d) \in DOMAIN point =>
                /\ v \in DOMAIN Result.values
                /\ DigitVal[d] \in Result.index
                /\ Result.values[v][DigitVal[d]] = point[Sym(v, d)]
    BY <2>1, FaithfulComplete
  <2>3. \A n \in DOMAIN Result.values, i \in Result.index :
            Result.values[n][i] # NoValue =>
                \E d \in Digits :
                    /\ DigitVal[d] = i
                    /\ Sym(n, d) \in DOMAIN point
                    /\ point[Sym(n, d)] = Result.values[n][i]
    BY <2>1, FaithfulSound
  <2>4. QED
    BY <2>2, <2>3 DEF SeriesFaithful
<1>2. QED
  BY <1>1, SeriesTypeCorrect, MaxClosedInvariant, PTL

=============================================================================
