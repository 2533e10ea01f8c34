--------------------------- MODULE IntervalChecks ---------------------------
(***************************************************************************)
(* A caller of the Interval algebra (the box-splitting search loop holds  *)
(* two intervals of one parameter and replaces either by any other).      *)
(* The properties compare each operation with the set of real numbers an *)
(* interval denotes.                                                       *)
(*                                                                         *)
(* Reference semantics.  With integer bounds, the reals an interval       *)
(* contains are fixed by the integers and half-integers it contains, so a *)
(* real r is represented by the integer s = 2r, and Samples holds the     *)
(* doubled integers and half-integers around every value of Vals.         *)
(***************************************************************************)
EXTENDS Interval

\* The samples stand for the reals only if some finite value is sampled.
ASSUME SamplesAssumption == Vals # {}

VARIABLES a, b

vars == <<a, b>>

\* The intervals the search loop builds for a parameter box: a finite
\* lower bound or NegInf, a finite upper bound or PosInf, lb <= ub, and
\* normalized by the constructor.
WellFormed ==
    { i \in IntervalType :
        /\ i.lb # PosInf
        /\ i.ub # NegInf
        /\ Lte(i.lb, i.ub)
        /\ i = MkInterval(i.lb, i.ub, i.closed) }

Samples == UNION { {2 * v - 1, 2 * v, 2 * v + 1} : v \in Vals }

\* The real s/2 lies in interval i.
Mem(i, s) ==
    /\ i.lb # PosInf
    /\ i.ub # NegInf
    /\ i.lb = NegInf \/ 2 * i.lb <= s
    /\ \/ i.ub = PosInf
       \/ i.closed /\ s <= 2 * i.ub
       \/ ~i.closed /\ s < 2 * i.ub

Overlap(x, y) == \E s \in Samples : Mem(x, s) /\ Mem(y, s)

SubsetOf(x, y) == \A s \in Samples : Mem(x, s) => Mem(y, s)

TypeOK == a \in WellFormed /\ b \in WellFormed

\* Both start as Interval(), the default [NEG_INFINITY, POS_INFINITY).
Init == a = MkInterval(NegInf, PosInf, FALSE) /\ b = a

ReplaceA == \E i \in WellFormed : a' = i /\ UNCHANGED b

ReplaceB == \E i \in WellFormed : b' = i /\ UNCHANGED a

Next == ReplaceA \/ ReplaceB

Spec == Init /\ [][Next]_vars

-----------------------------------------------------------------------------
(* Properties that hold.                                                   *)

\* intersects is exact: it answers TRUE iff the two intervals share a
\* real point, including at a shared closed edge and on the half-open edge
\* where one interval ends where the other starts.
IntersectsExact == Intersects(a, b) <=> Overlap(a, b)

\* union never adds a point: every real in an interval union returns lies
\* in one of its two arguments, so merging never swallows a gap.
UnionSound ==
    \A s \in Samples :
        (\E k \in DOMAIN Union(a, b) : Mem(Union(a, b)[k], s))
            => Mem(a, s) \/ Mem(b, s)

\* contains recognises every genuine inclusion: if every real of b lies in
\* a, contains(a, b) is TRUE, sentinels included.
ContainsComplete == SubsetOf(b, a) => Contains(a, b)

\* disjoint recognises every pair with no common point.
DisjointComplete == ~Overlap(a, b) => Disjoint(a, b)

-----------------------------------------------------------------------------
(* Properties the spec, a docstring or a test states, that the code breaks. *)

\* union covers both arguments (spec 4.2: the merged interval "spans both").
UnionComplete ==
    \A s \in Samples :
        Mem(a, s) \/ Mem(b, s)
            => \E k \in DOMAIN Union(a, b) : Mem(Union(a, b)[k], s)

\* Spec section 8: if a.contains(b) then a.intersection(b) equals b.
IntersectionOfContained ==
    Contains(a, b) => Intersection(a, b) = <<b.lb, b.ub>>

\* Docstring of subtract: the result is the part of self that does not
\* intersect b.
SubtractWithinSelf ==
    \A u \in Subtract(a, b) :
        \A s \in Samples : Mem(u, s) => Mem(a, s) /\ ~Mem(b, s)

\* disjoint is sound: two intervals it calls disjoint share no point.
DisjointSound == Disjoint(a, b) => ~Overlap(a, b)

\* Spec section 8: midpoint() of a non-point interval is a number inside
\* it ([3, PosInf) gives 3 + BIG_NUMBER).
MidpointInside ==
    ~IsPoint(a) =>
        /\ ~Midpoint(a).raised
        /\ Mem(a, Midpoint(a).twice)

=============================================================================
