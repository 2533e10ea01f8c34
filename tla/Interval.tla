------------------------------ MODULE Interval ------------------------------
(***************************************************************************)
(* The Interval value type of funman/representation/interval.py: a range  *)
(* [lb, ub) or, when closed is set, [lb, ub], with sentinel bounds.       *)
(* Every method is a pure operator here; results the code returns as      *)
(* Python lists are sequences, and an absent result is the empty set or   *)
(* the empty sequence.  The cached width and the midpoint of sampled     *)
(* point groups are left out (see README).                                *)
(***************************************************************************)
EXTENDS Bounds

\* The Interval pydantic model: lb, ub and closed_upper_bound.
IntervalType == [lb : Bound, ub : Bound, closed : BOOLEAN]

\* Construction runs the check_interval validator: an interval whose
\* bounds are equal is made closed.
MkInterval(l, u, c) == [lb |-> l, ub |-> u, closed |-> c \/ l = u]

\* Interval.from_value: the closed point interval [v, v].
FromValue(v) == MkInterval(v, v, TRUE)

\* Mutant: disjointness decided with the strict comparator.
DisjointStrict(a, b) == Lt(a.ub, b.lb) \/ Gt(a.lb, b.ub)

\* Interval.disjoint
Disjoint(a, b) == Lte(a.ub, b.lb) \/ Gte(a.lb, b.ub)

IsPoint(a) == a.lb = a.ub /\ a.closed

IsUnbound(a) == a.lb = NegInf /\ a.ub = PosInf

IsFinite(a) == a.lb # NegInf /\ a.ub # PosInf

\* Interval.__eq__ compares the bounds only, never closed_upper_bound.
Eq(a, b) == a.lb = b.lb /\ a.ub = b.ub

\* Decimal(ub) - Decimal(lb), the value width() caches: infinite when a
\* bound is a sentinel.
Width(a) ==
    IF a.lb = NegInf \/ a.ub = PosInf THEN PosInf ELSE a.ub - a.lb

\* Interval.normalize(f): Interval(lb=div(lb, f), ub=div(lb, f)), built
\* through the validator, with closed_upper_bound left at its default.
Normalize(a, f) == MkInterval(Div(a.lb, f), Div(a.lb, f), FALSE)

Meets(a, b) == a.ub = b.lb \/ a.lb = b.ub

\* Mutant: the finite lower bounds compared strictly.
ContainsStrictLb(a, b) ==
    LET lhs == IF a.lb = NegInf \/ b.lb = NegInf
                 THEN a.lb = NegInf \/ b.lb # NegInf
                 ELSE a.lb < b.lb
        rhs == IF a.ub = PosInf \/ b.ub = PosInf
                 THEN b.ub # PosInf \/ a.ub = PosInf
                 ELSE b.ub <= a.ub
    IN  lhs /\ rhs

\* Interval.contains: sentinels are tested first, finite bounds with the
\* plain Python <=; closed_upper_bound is not consulted.
Contains(a, b) ==
    LET lhs == IF a.lb = NegInf \/ b.lb = NegInf
                 THEN a.lb = NegInf \/ b.lb # NegInf
                 ELSE a.lb <= b.lb
        rhs == IF a.ub = PosInf \/ b.ub = PosInf
                 THEN b.ub # PosInf \/ a.ub = PosInf
                 ELSE b.ub <= a.ub
    IN  lhs /\ rhs

\* Interval.contains_value
ContainsValue(a, v) ==
    /\ Gte(v, a.lb)
    /\ IF a.closed THEN Lte(v, a.ub) ELSE Lt(v, a.ub)

\* Mutant: the upper-bound cases lose their "beyond the other's lb" guard.
IntersectsNoEdgeGuard(a, b) ==
    \/ ContainsValue(a, b.lb)
    \/ ContainsValue(b, a.lb)
    \/ ContainsValue(a, b.ub)
    \/ ContainsValue(b, a.ub)

\* Interval.intersects
Intersects(a, b) ==
    \/ ContainsValue(a, b.lb)
    \/ ContainsValue(b, a.lb)
    \/ ContainsValue(a, b.ub) /\ Gt(b.ub, a.lb)
    \/ ContainsValue(b, a.ub) /\ Gt(a.ub, b.lb)

\* The <<minArray, maxArray>> ordering of Interval.intersection: by lower
\* bound, ties broken by the smaller upper bound.
IntersectionOrder(a, b) ==
    IF a.lb = b.lb
      THEN IF Lt(a.ub, b.ub) THEN <<a, b>> ELSE <<b, a>>
      ELSE IF Lt(a.lb, b.lb) THEN <<a, b>> ELSE <<b, a>>

\* Interval.intersection: self when equal, else the list
\* [maxArray.lb, minArray.ub] when minArray.ub > maxArray.lb, else [].
Intersection(a, b) ==
    IF Eq(a, b)
      THEN <<a.lb, a.ub>>
      ELSE LET lo == IntersectionOrder(a, b)[1]
               hi == IntersectionOrder(a, b)[2]
           IN  IF Gt(lo.ub, hi.lb) THEN <<hi.lb, lo.ub>> ELSE <<>>

\* Interval.subtract: at most one interval, decided on the lower bounds.
Subtract(a, b) ==
    IF Lt(a.lb, b.lb) THEN {MkInterval(a.lb, b.lb, FALSE)}
    ELSE IF Gt(a.lb, b.lb) THEN {MkInterval(b.ub, a.ub, FALSE)}
    ELSE {}

\* The <<minInterval, maxInterval>> ordering of Interval.union.  With equal
\* lower bounds the code tests lt(self.ub, other.lb), not other.ub.
UnionOrder(a, b) ==
    IF a.lb = b.lb
      THEN IF Lt(a.ub, b.lb) THEN <<a, b>> ELSE <<b, a>>
      ELSE IF Lt(a.lb, b.lb) THEN <<a, b>> ELSE <<b, a>>

\* Mutant: the two intervals are merged whether or not they overlap.
UnionAlwaysMerge(a, b) ==
    IF Eq(a, b)
      THEN <<a>>
      ELSE <<MkInterval(UnionOrder(a, b)[1].lb, UnionOrder(a, b)[2].ub, FALSE)>>

\* Interval.union: [self] when equal; one merged interval
\* [minInterval.lb, maxInterval.ub) when minInterval.ub >= maxInterval.lb;
\* otherwise both, ordered.  (The final elif is the negation of the
\* first test under the total order of Bounds, so no path returns None.)
Union(a, b) ==
    IF Eq(a, b)
      THEN <<a>>
      ELSE LET lo == UnionOrder(a, b)[1]
               hi == UnionOrder(a, b)[2]
           IN  IF Gte(lo.ub, hi.lb)
                 THEN <<MkInterval(lo.lb, hi.ub, FALSE)>>
                 ELSE <<lo, hi>>

\* Result of Interval.midpoint() without sample groups, as twice the
\* midpoint so that it stays an integer; raised marks the NameError of the
\* unimported BIG_NUMBER on the half-unbounded branches.
MidResult(raised, twice) == [raised |-> raised, twice |-> twice]

Midpoint(a) ==
    IF a.lb = NegInf /\ a.ub = PosInf THEN MidResult(FALSE, 0)
    ELSE IF a.lb = NegInf \/ a.ub = PosInf THEN MidResult(TRUE, 0)
    ELSE MidResult(FALSE, a.ub + a.lb)

=============================================================================
