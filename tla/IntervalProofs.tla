---------------------------- MODULE IntervalProofs ----------------------------
(***************************************************************************)
(* Proofs that the Interval operations the search loop relies on agree   *)
(* with the reals the intervals denote, for every set Vals of finite      *)
(* bounds.  An interval of WellFormed has a lower bound in Vals or NegInf *)
(* and an upper bound in Vals or PosInf; a real r is the sample 2r, and   *)
(* the witnesses below are the doubled bounds and the half-integers next  *)
(* to them.                                                                *)
(***************************************************************************)
EXTENDS IntervalChecks, TLAPS

\* The doubled value of a finite bound and its two neighbours are samples.
LEMMA SampleAt ==
    ASSUME NEW v \in Vals
    PROVE  2 * v - 1 \in Samples /\ 2 * v \in Samples /\ 2 * v + 1 \in Samples
BY DEF Samples

\* The sentinels are not finite values.
LEMMA SentinelsNotVals == NegInf \notin Vals /\ PosInf \notin Vals
BY BoundsAssumption

\* What WellFormed says of the bounds of an interval.
LEMMA WellFormedBounds ==
    ASSUME NEW i \in WellFormed
    PROVE  /\ i.lb \in Vals \cup {NegInf}
           /\ i.ub \in Vals \cup {PosInf}
           /\ i.lb \in Int \cup {NegInf}
           /\ i.ub \in Int \cup {PosInf}
           /\ i.closed \in BOOLEAN
           /\ i.lb \in Int /\ i.ub \in Int => i.lb <= i.ub
           /\ i.lb = i.ub => i.closed
<1>1. i \in IntervalType /\ i.lb # PosInf /\ i.ub # NegInf /\ Lte(i.lb, i.ub)
      /\ i = MkInterval(i.lb, i.ub, i.closed)
  BY DEF WellFormed
<1>2. i.lb \in Vals \cup {NegInf} /\ i.ub \in Vals \cup {PosInf}
      /\ i.closed \in BOOLEAN
  BY <1>1 DEF IntervalType, Bound
<1>3. i.lb \in Int \cup {NegInf}
  <2>1. CASE i.lb \in Vals
    BY <2>1, BoundsAssumption
  <2>2. QED
    BY <2>1, <1>2
<1>4. i.ub \in Int \cup {PosInf}
  <2>1. CASE i.ub \in Vals
    BY <2>1, BoundsAssumption
  <2>2. QED
    BY <2>1, <1>2
<1>5. i.lb \in Int /\ i.ub \in Int => i.lb <= i.ub
  <2> SUFFICES ASSUME i.lb \in Int, i.ub \in Int PROVE i.lb <= i.ub
    OBVIOUS
  <2>1. i.ub # PosInf /\ i.lb # NegInf
    BY BoundsAssumption
  <2>2. QED
    BY <1>1, <2>1 DEF Lte, Lt
<1>6. i.lb = i.ub => i.closed
  <2>1. i.closed = (i.closed \/ i.lb = i.ub)
    BY <1>1 DEF MkInterval
  <2>2. QED
    BY <2>1, <1>2
<1>7. QED
  BY <1>2, <1>3, <1>4, <1>5, <1>6

\* A sample strictly below the upper bound and not below the lower bound
\* lies in the interval, whether or not its upper bound is closed.
LEMMA MemIntro ==
    ASSUME NEW i \in WellFormed, NEW s \in Int,
           i.lb = NegInf \/ 2 * i.lb <= s,
           i.ub = PosInf \/ s < 2 * i.ub
    PROVE  Mem(i, s)
<1>1. /\ i.lb \in Int \cup {NegInf} /\ i.ub \in Int \cup {PosInf}
      /\ i.closed \in BOOLEAN
  BY WellFormedBounds
<1>2. i.lb # PosInf /\ i.ub # NegInf
  BY <1>1, BoundsAssumption
<1>3. CASE i.closed
  <2>1. i.ub = PosInf \/ s <= 2 * i.ub
    BY <1>1
  <2>2. QED
    BY <1>2, <1>3, <2>1 DEF Mem
<1>4. CASE ~i.closed
  BY <1>2, <1>4, BoundsAssumption DEF Mem
<1>5. QED
  BY <1>1, <1>3, <1>4

\* The doubled finite lower bound of an interval lies in it: its upper
\* bound is larger, or equal and then closed.
LEMMA LowerEdgeIn ==
    ASSUME NEW i \in WellFormed, i.lb \in Int
    PROVE  Mem(i, 2 * i.lb)
<1>1. /\ i.ub \in Int \cup {PosInf} /\ i.closed \in BOOLEAN
      /\ i.ub \in Int => i.lb <= i.ub
      /\ i.lb = i.ub => i.closed
  BY WellFormedBounds
<1>2. i.lb # PosInf /\ i.ub # NegInf /\ i.lb # NegInf
  BY <1>1, BoundsAssumption
<1>3. CASE i.ub = i.lb
  <2>1. i.closed
    BY <1>1, <1>3
  <2>2. QED
    BY <1>2, <1>3, <2>1 DEF Mem
<1>4. CASE i.ub # i.lb
  BY <1>1, <1>2, <1>4, MemIntro
<1>5. QED
  BY <1>3, <1>4

\* A sample in both intervals is an overlap.
LEMMA OverlapAt ==
    ASSUME NEW x, NEW y, NEW s \in Samples, Mem(x, s), Mem(y, s)
    PROVE  Overlap(x, y)
BY DEF Overlap

\* Two intervals unbounded below share a point: just below the smaller
\* finite upper bound, or any sample when both are unbounded.
LEMMA BothUnboundedBelow ==
    ASSUME NEW x \in WellFormed, NEW y \in WellFormed,
           x.lb = NegInf, y.lb = NegInf
    PROVE  Overlap(x, y)
<1>1. /\ x.ub \in Vals \cup {PosInf} /\ y.ub \in Vals \cup {PosInf}
      /\ x.ub \in Int \cup {PosInf} /\ y.ub \in Int \cup {PosInf}
  BY WellFormedBounds
<1>2. CASE x.ub = PosInf /\ y.ub = PosInf
  <2>1. PICK v \in Vals : TRUE
    BY SamplesAssumption
  <2>2. 2 * v \in Samples /\ v \in Int
    BY SampleAt, BoundsAssumption
  <2>3. Mem(x, 2 * v) /\ Mem(y, 2 * v)
    BY <1>2, <2>2, MemIntro
  <2>4. QED
    BY <2>2, <2>3, OverlapAt
<1>3. CASE x.ub \in Int /\ (y.ub = PosInf \/ (y.ub \in Int /\ x.ub <= y.ub))
  <2>0. x.ub \in Vals
    BY <1>1, <1>3, BoundsAssumption
  <2>1. 2 * x.ub - 1 \in Samples
    BY <2>0, SampleAt
  <2>2. Mem(x, 2 * x.ub - 1) /\ Mem(y, 2 * x.ub - 1)
    BY <1>3, MemIntro
  <2>3. QED
    BY <2>1, <2>2, OverlapAt
<1>4. CASE y.ub \in Int /\ (x.ub = PosInf \/ (x.ub \in Int /\ y.ub <= x.ub))
  <2>0. y.ub \in Vals
    BY <1>1, <1>4, BoundsAssumption
  <2>1. 2 * y.ub - 1 \in Samples
    BY <2>0, SampleAt
  <2>2. Mem(x, 2 * y.ub - 1) /\ Mem(y, 2 * y.ub - 1)
    BY <1>4, MemIntro
  <2>3. QED
    BY <2>1, <2>2, OverlapAt
<1>5. \/ x.ub = PosInf /\ y.ub = PosInf
      \/ x.ub \in Int /\ (y.ub = PosInf \/ (y.ub \in Int /\ x.ub <= y.ub))
      \/ y.ub \in Int /\ (x.ub = PosInf \/ (x.ub \in Int /\ y.ub <= x.ub))
  BY <1>1
<1>6. QED
  BY <1>2, <1>3, <1>4, <1>5

\* Samples are integers (doubled reals).
LEMMA SamplesInt == Samples \subseteq Int
BY BoundsAssumption DEF Samples

\* When neither interval ends before the other starts, the larger finite
\* lower bound lies in both.
LEMMA NotDisjointOverlap ==
    ASSUME NEW x \in WellFormed, NEW y \in WellFormed, ~Disjoint(x, y)
    PROVE  Overlap(x, y)
<1>1. /\ x.lb \in Int \cup {NegInf} /\ x.ub \in Int \cup {PosInf}
      /\ y.lb \in Int \cup {NegInf} /\ y.ub \in Int \cup {PosInf}
      /\ x.lb \in Vals \cup {NegInf} /\ y.lb \in Vals \cup {NegInf}
  BY WellFormedBounds
<1>2. /\ y.lb = NegInf \/ x.ub = PosInf \/ (x.ub \in Int /\ y.lb < x.ub)
      /\ x.lb = NegInf \/ y.ub = PosInf \/ (y.ub \in Int /\ x.lb < y.ub)
  BY <1>1, BoundsAssumption DEF Disjoint, Gte, Gt, Lte, Lt
<1>3. CASE x.lb = NegInf /\ y.lb = NegInf
  BY <1>3, BothUnboundedBelow
<1>4. CASE x.lb \in Int /\ (y.lb = NegInf \/ (y.lb \in Int /\ y.lb <= x.lb))
  <2>1. 2 * x.lb \in Samples
    BY <1>1, <1>4, SampleAt, BoundsAssumption
  <2>2. Mem(x, 2 * x.lb)
    BY <1>4, LowerEdgeIn
  <2>3. Mem(y, 2 * x.lb)
    BY <1>1, <1>2, <1>4, MemIntro, BoundsAssumption
  <2>4. QED
    BY <2>1, <2>2, <2>3, OverlapAt
<1>5. CASE y.lb \in Int /\ (x.lb = NegInf \/ (x.lb \in Int /\ x.lb <= y.lb))
  <2>1. 2 * y.lb \in Samples
    BY <1>1, <1>5, SampleAt, BoundsAssumption
  <2>2. Mem(y, 2 * y.lb)
    BY <1>5, LowerEdgeIn
  <2>3. Mem(x, 2 * y.lb)
    BY <1>1, <1>2, <1>5, MemIntro, BoundsAssumption
  <2>4. QED
    BY <2>1, <2>2, <2>3, OverlapAt
<1>6. QED
  BY <1>1, <1>3, <1>4, <1>5

\* A finite value v that contains_value places in x, and that lies in y,
\* is a common point.
LEMMA ValueInBoth ==
    ASSUME NEW x \in WellFormed, NEW y \in WellFormed, NEW v \in Vals,
           ContainsValue(x, v), Mem(y, 2 * v)
    PROVE  Overlap(x, y)
<1>1. /\ x.lb \in Int \cup {NegInf} /\ x.ub \in Int \cup {PosInf}
      /\ x.closed \in BOOLEAN /\ v \in Int
  BY WellFormedBounds, BoundsAssumption
<1>2. x.lb = NegInf \/ x.lb <= v
  BY <1>1, BoundsAssumption DEF ContainsValue, Gte, Gt, Lte, Lt
<1>3. Mem(x, 2 * v)
  <2>1. CASE x.closed
    <3>1. x.ub = PosInf \/ v <= x.ub
      BY <1>1, <2>1, BoundsAssumption DEF ContainsValue, Lte, Lt
    <3>2. QED
      BY <1>1, <1>2, <2>1, <3>1, BoundsAssumption DEF Mem
  <2>2. CASE ~x.closed
    <3>1. x.ub = PosInf \/ v < x.ub
      BY <1>1, <2>2, BoundsAssumption DEF ContainsValue, Lte, Lt
    <3>2. QED
      BY <1>1, <1>2, <3>1, MemIntro
  <2>3. QED
    BY <1>1, <2>1, <2>2
<1>4. 2 * v \in Samples
  BY SampleAt
<1>5. QED
  BY <1>3, <1>4, OverlapAt

\* contains_value(x, y.lb) means the two intervals share a point.
LEMMA LowerInOther ==
    ASSUME NEW x \in WellFormed, NEW y \in WellFormed, ContainsValue(x, y.lb)
    PROVE  Overlap(x, y)
<1>1. /\ x.lb \in Int \cup {NegInf} /\ y.lb \in Vals \cup {NegInf}
  BY WellFormedBounds
<1>2. CASE y.lb = NegInf
  <2>1. x.lb = NegInf
    BY <1>1, <1>2, BoundsAssumption DEF ContainsValue, Gte, Gt, Lte, Lt
  <2>2. QED
    BY <1>2, <2>1, BothUnboundedBelow
<1>3. CASE y.lb \in Vals
  <2>1. y.lb \in Int
    BY <1>3, BoundsAssumption
  <2>2. QED
    BY <1>3, <2>1, LowerEdgeIn, ValueInBoth
<1>4. QED
  BY <1>1, <1>2, <1>3

\* contains_value(x, y.ub) with y.ub above x.lb means the two intervals
\* share a point: y.ub itself when y is a point, else just below it.
LEMMA UpperInOther ==
    ASSUME NEW x \in WellFormed, NEW y \in WellFormed,
           ContainsValue(x, y.ub), Gt(y.ub, x.lb)
    PROVE  Overlap(x, y)
<1>1. /\ x.lb \in Int \cup {NegInf} /\ x.ub \in Int \cup {PosInf}
      /\ y.lb \in Int \cup {NegInf} /\ y.ub \in Int \cup {PosInf}
      /\ y.ub \in Vals \cup {PosInf} /\ x.closed \in BOOLEAN
      /\ y.lb \in Int /\ y.ub \in Int => y.lb <= y.ub
  BY WellFormedBounds
<1>2. CASE y.ub = PosInf
  <2>1. x.ub = PosInf
    BY <1>1, <1>2, BoundsAssumption DEF ContainsValue, Lte, Lt
  <2>2. ~Disjoint(x, y)
    BY <1>1, <1>2, <2>1, BoundsAssumption DEF Disjoint, Gte, Gt, Lte, Lt
  <2>3. QED
    BY <2>2, NotDisjointOverlap
<1>3. CASE y.ub \in Int /\ y.lb = y.ub
  <2>1. ContainsValue(x, y.lb)
    BY <1>3
  <2>2. QED
    BY <2>1, LowerInOther
<1>4. CASE y.ub \in Int /\ y.lb # y.ub
  <2>1. x.lb = NegInf \/ x.lb < y.ub
    BY <1>1, <1>4, BoundsAssumption DEF Gt, Lte, Lt
  <2>2. x.ub = PosInf \/ y.ub <= x.ub
    BY <1>1, <1>4, BoundsAssumption DEF ContainsValue, Lte, Lt
  <2>3. y.lb = NegInf \/ y.lb < y.ub
    BY <1>1, <1>4
  <2>4. Mem(x, 2 * y.ub - 1) /\ Mem(y, 2 * y.ub - 1)
    BY <1>1, <1>4, <2>1, <2>2, <2>3, MemIntro
  <2>5. 2 * y.ub - 1 \in Samples
    <3>1. y.ub \in Vals
      BY <1>1, <1>4, BoundsAssumption
    <3>2. QED
      BY <3>1, SampleAt
  <2>6. QED
    BY <2>4, <2>5, OverlapAt
<1>5. QED
  BY <1>1, <1>2, <1>3, <1>4

\* Every answer TRUE of intersects is backed by a common point.
LEMMA IntersectsOverlap ==
    ASSUME NEW x \in WellFormed, NEW y \in WellFormed, Intersects(x, y)
    PROVE  Overlap(x, y)
<1>1. Overlap(y, x) => Overlap(x, y)
  BY DEF Overlap
<1>2. QED
  BY <1>1, LowerInOther, UpperInOther DEF Intersects

\* When x and y share a point and y's lower bound is at least x's, that
\* lower bound passes contains_value(x, .): the first disjunct of
\* intersects.
LEMMA HigherLowerIn ==
    ASSUME NEW x \in WellFormed, NEW y \in WellFormed, NEW s \in Int,
           Mem(x, s), Mem(y, s),
           x.lb = NegInf \/ (y.lb \in Int /\ x.lb <= y.lb)
    PROVE  ContainsValue(x, y.lb)
<1>1. /\ x.lb \in Int \cup {NegInf} /\ x.ub \in Int \cup {PosInf}
      /\ y.lb \in Int \cup {NegInf} /\ x.closed \in BOOLEAN
  BY WellFormedBounds
<1>2. Gte(y.lb, x.lb)
  BY <1>1, BoundsAssumption DEF Gte, Gt, Lte, Lt
<1>3. y.lb = NegInf \/ 2 * y.lb <= s
  BY DEF Mem
<1>4. CASE x.closed
  <2>1. x.ub = PosInf \/ s <= 2 * x.ub
    BY <1>4 DEF Mem
  <2>2. Lte(y.lb, x.ub)
    BY <1>1, <1>3, <2>1, BoundsAssumption DEF Lte, Lt
  <2>3. QED
    BY <1>2, <1>4, <2>2 DEF ContainsValue
<1>5. CASE ~x.closed
  <2>1. x.ub = PosInf \/ s < 2 * x.ub
    BY <1>5 DEF Mem
  <2>2. Lt(y.lb, x.ub)
    BY <1>1, <1>3, <2>1, BoundsAssumption DEF Lt
  <2>3. QED
    BY <1>2, <1>5, <2>2 DEF ContainsValue
<1>6. QED
  BY <1>1, <1>4, <1>5

\* Every common point is seen by intersects: the higher of the two lower
\* bounds lies in the other interval.
LEMMA OverlapIntersects ==
    ASSUME NEW x \in WellFormed, NEW y \in WellFormed, Overlap(x, y)
    PROVE  Intersects(x, y)
<1>1. PICK s \in Samples : Mem(x, s) /\ Mem(y, s)
  BY DEF Overlap
<1>2. s \in Int
  BY SamplesInt
<1>3. /\ x.lb \in Int \cup {NegInf} /\ y.lb \in Int \cup {NegInf}
  BY WellFormedBounds
<1>4. CASE x.lb = NegInf \/ (y.lb \in Int /\ x.lb <= y.lb)
  BY <1>1, <1>2, <1>4, HigherLowerIn DEF Intersects
<1>5. CASE y.lb = NegInf \/ (x.lb \in Int /\ y.lb <= x.lb)
  BY <1>1, <1>2, <1>5, HigherLowerIn DEF Intersects
<1>6. QED
  BY <1>3, <1>4, <1>5

\* A sample of y that misses x refutes the inclusion of y in x.
LEMMA NotSubsetAt ==
    ASSUME NEW x, NEW y, NEW s \in Samples, Mem(y, s), ~Mem(x, s)
    PROVE  ~SubsetOf(y, x)
BY DEF SubsetOf

\* If every real of y lies in x, x's lower bound is no higher than y's:
\* the lhs test of contains.
LEMMA LowerContained ==
    ASSUME NEW x \in WellFormed, NEW y \in WellFormed, SubsetOf(y, x)
    PROVE  x.lb = NegInf \/ (y.lb \in Int /\ x.lb <= y.lb)
<1>1. /\ x.lb \in Vals \cup {NegInf} /\ x.lb \in Int \cup {NegInf}
      /\ y.lb \in Vals \cup {NegInf} /\ y.lb \in Int \cup {NegInf}
      /\ y.ub \in Vals \cup {PosInf} /\ y.ub \in Int \cup {PosInf}
      /\ y.lb \in Int /\ y.ub \in Int => y.lb <= y.ub
  BY WellFormedBounds
<1>2. SUFFICES ASSUME x.lb \in Int, ~(y.lb \in Int /\ x.lb <= y.lb)
               PROVE  FALSE
  BY <1>1
<1>3. x.lb \in Vals
  BY <1>1, <1>2, BoundsAssumption
<1>4. ASSUME NEW t \in Int, t < 2 * x.lb PROVE ~Mem(x, t)
  BY <1>2, <1>4, BoundsAssumption DEF Mem
<1>5. ASSUME NEW t \in Samples, Mem(y, t), t < 2 * x.lb PROVE FALSE
  <2>1. t \in Int
    BY SamplesInt
  <2>2. ~Mem(x, t)
    BY <1>5, <2>1, <1>4
  <2>3. QED
    BY <1>5, <2>2, NotSubsetAt
<1>6. 2 * x.lb - 1 \in Samples
  BY <1>3, SampleAt
<1>7. CASE y.lb = NegInf /\ y.ub = PosInf
  <2>1. Mem(y, 2 * x.lb - 1)
    BY <1>2, <1>7, BoundsAssumption DEF Mem
  <2>2. QED
    BY <1>2, <1>5, <1>6, <2>1
<1>8. CASE y.lb = NegInf /\ y.ub \in Int /\ y.ub <= x.lb
  <2>1. y.ub \in Vals
    BY <1>1, <1>8, BoundsAssumption
  <2>2. 2 * y.ub - 1 \in Samples
    BY <2>1, SampleAt
  <2>3. Mem(y, 2 * y.ub - 1)
    BY <1>8, MemIntro
  <2>4. QED
    BY <1>2, <1>5, <1>8, <2>2, <2>3
<1>9. CASE y.lb = NegInf /\ y.ub \in Int /\ x.lb < y.ub
  <2>1. Mem(y, 2 * x.lb - 1)
    BY <1>2, <1>9, MemIntro
  <2>2. QED
    BY <1>2, <1>5, <1>6, <2>1
<1>10. CASE y.lb \in Int
  <2>1. y.lb \in Vals
    BY <1>1, <1>10, BoundsAssumption
  <2>2. 2 * y.lb \in Samples
    BY <2>1, SampleAt
  <2>3. Mem(y, 2 * y.lb)
    BY <1>10, LowerEdgeIn
  <2>4. QED
    BY <1>2, <1>5, <1>10, <2>2, <2>3
<1>11. QED
  BY <1>1, <1>2, <1>7, <1>8, <1>9, <1>10

\* If every real of y lies in x, y's upper bound is no higher than x's:
\* the rhs test of contains.
LEMMA UpperContained ==
    ASSUME NEW x \in WellFormed, NEW y \in WellFormed, SubsetOf(y, x)
    PROVE  x.ub = PosInf \/ (y.ub \in Int /\ y.ub <= x.ub)
<1>1. /\ x.ub \in Vals \cup {PosInf} /\ x.ub \in Int \cup {PosInf}
      /\ y.lb \in Vals \cup {NegInf} /\ y.lb \in Int \cup {NegInf}
      /\ y.ub \in Vals \cup {PosInf} /\ y.ub \in Int \cup {PosInf}
      /\ y.lb \in Int /\ y.ub \in Int => y.lb <= y.ub
  BY WellFormedBounds
<1>2. SUFFICES ASSUME x.ub \in Int, ~(y.ub \in Int /\ y.ub <= x.ub)
               PROVE  FALSE
  BY <1>1
<1>3. x.ub \in Vals
  BY <1>1, <1>2, BoundsAssumption
<1>4. ASSUME NEW t \in Int, 2 * x.ub < t PROVE ~Mem(x, t)
  BY <1>2, <1>4, BoundsAssumption DEF Mem
<1>5. ASSUME NEW t \in Samples, Mem(y, t), 2 * x.ub < t PROVE FALSE
  <2>1. t \in Int
    BY SamplesInt
  <2>2. ~Mem(x, t)
    BY <1>5, <2>1, <1>4
  <2>3. QED
    BY <1>5, <2>2, NotSubsetAt
<1>6. 2 * x.ub + 1 \in Samples
  BY <1>3, SampleAt
<1>7. CASE y.ub = PosInf /\ y.lb = NegInf
  <2>1. Mem(y, 2 * x.ub + 1)
    BY <1>2, <1>7, BoundsAssumption DEF Mem
  <2>2. QED
    BY <1>2, <1>5, <1>6, <2>1
<1>8. CASE y.ub = PosInf /\ y.lb \in Int /\ y.lb <= x.ub
  <2>1. Mem(y, 2 * x.ub + 1)
    BY <1>2, <1>8, MemIntro
  <2>2. QED
    BY <1>2, <1>5, <1>6, <2>1
<1>9. CASE y.lb \in Int /\ x.ub < y.lb
  <2>1. y.lb \in Vals
    BY <1>1, <1>9, BoundsAssumption
  <2>2. 2 * y.lb \in Samples
    BY <2>1, SampleAt
  <2>3. Mem(y, 2 * y.lb)
    BY <1>9, LowerEdgeIn
  <2>4. QED
    BY <1>2, <1>5, <1>9, <2>2, <2>3
<1>10. CASE y.ub \in Int /\ y.lb = y.ub
  <2>1. y.lb \in Vals /\ y.lb \in Int
    BY <1>1, <1>10, BoundsAssumption
  <2>2. 2 * y.lb \in Samples
    BY <2>1, SampleAt
  <2>3. Mem(y, 2 * y.lb)
    BY <2>1, LowerEdgeIn
  <2>4. QED
    BY <1>2, <1>5, <1>10, <2>1, <2>2, <2>3
<1>11. CASE y.ub \in Int /\ y.lb # y.ub
  <2>1. y.ub \in Vals
    BY <1>1, <1>11, BoundsAssumption
  <2>2. 2 * y.ub - 1 \in Samples
    BY <2>1, SampleAt
  <2>3. y.lb = NegInf \/ y.lb < y.ub
    BY <1>1, <1>11
  <2>4. Mem(y, 2 * y.ub - 1)
    BY <1>1, <1>11, <2>3, MemIntro
  <2>5. QED
    BY <1>2, <1>5, <1>11, <2>2, <2>4
<1>12. QED
  BY <1>1, <1>2, <1>7, <1>8, <1>9, <1>10, <1>11

\* The interval union merges two overlapping or touching intervals into
\* [lo.lb, hi.ub), closed only when its bounds coincide; every real of the
\* merged interval lies in lo or in hi.
LEMMA MergedSound ==
    ASSUME NEW lo \in WellFormed, NEW hi \in WellFormed, NEW s \in Int,
           Gte(lo.ub, hi.lb), Mem(MkInterval(lo.lb, hi.ub, FALSE), s)
    PROVE  Mem(lo, s) \/ Mem(hi, s)
<1>1. /\ lo.lb \in Int \cup {NegInf} /\ lo.ub \in Int \cup {PosInf}
      /\ hi.lb \in Int \cup {NegInf} /\ hi.ub \in Int \cup {PosInf}
      /\ lo.closed \in BOOLEAN
      /\ lo.lb \in Int /\ lo.ub \in Int => lo.lb <= lo.ub
      /\ lo.lb = lo.ub => lo.closed
  BY WellFormedBounds
<1>2. /\ lo.lb = NegInf \/ 2 * lo.lb <= s
      /\ \/ hi.ub = PosInf
         \/ lo.lb = hi.ub /\ s <= 2 * hi.ub
         \/ lo.lb # hi.ub /\ s < 2 * hi.ub
  BY DEF Mem, MkInterval
<1>3. CASE Mem(lo, s)
  BY <1>3
<1>4. CASE ~Mem(lo, s)
  <2>1. /\ lo.ub \in Int
        /\ lo.closed => 2 * lo.ub < s
        /\ ~lo.closed => 2 * lo.ub <= s
    BY <1>1, <1>2, <1>4, BoundsAssumption DEF Mem
  <2>2. hi.lb = NegInf \/ 2 * hi.lb <= s
    BY <1>1, <2>1, BoundsAssumption DEF Gte, Gt, Lte, Lt
  <2>3. lo.lb # hi.ub
    <3>1. SUFFICES ASSUME lo.lb = hi.ub PROVE FALSE
      OBVIOUS
    <3>2. lo.lb \in Int /\ s = 2 * lo.lb
      BY <1>1, <1>2, <3>1, BoundsAssumption
    <3>3. lo.lb = lo.ub
      BY <1>1, <2>1, <3>2
    <3>4. QED
      BY <1>1, <2>1, <3>2, <3>3
  <2>4. hi.ub = PosInf \/ s < 2 * hi.ub
    BY <1>2, <2>3
  <2>5. QED
    BY <2>2, <2>4, MemIntro
<1>5. QED
  BY <1>3, <1>4

\* Interval() and every interval the search loop substitutes are well formed.
THEOREM ChecksTypeCorrect == Spec => []TypeOK
<1>1. Init => TypeOK
  <2>1. MkInterval(NegInf, PosInf, FALSE) \in WellFormed
    BY BoundsAssumption DEF WellFormed, MkInterval, IntervalType, Bound, Lte, Lt
  <2>2. QED
    BY <2>1 DEF Init, TypeOK
<1>2. TypeOK /\ [Next]_vars => TypeOK'
  BY DEF TypeOK, Next, ReplaceA, ReplaceB, vars
<1>3. QED
  BY <1>1, <1>2, PTL DEF Spec

\* DisjointComplete: whatever the finite bounds, Interval.disjoint answers
\* TRUE for every two intervals of the search that share no real point.
THEOREM DisjointCompleteHolds == Spec => []DisjointComplete
<1>1. TypeOK => DisjointComplete
  BY NotDisjointOverlap DEF TypeOK, DisjointComplete
<1>2. QED
  BY <1>1, ChecksTypeCorrect, PTL

\* intersects answers exactly when the two intervals share a real: the
\* search loop's overlap test neither misses nor invents a common point.
THEOREM IntersectsExactHolds == Spec => []IntersectsExact
<1>1. TypeOK => IntersectsExact
  BY IntersectsOverlap, OverlapIntersects DEF TypeOK, IntersectsExact
<1>2. QED
  BY <1>1, ChecksTypeCorrect, PTL

\* contains misses no inclusion: whenever every real of b lies in a, the
\* sentinel-aware lhs/rhs tests of Interval.contains both answer TRUE.
THEOREM ContainsCompleteHolds == Spec => []ContainsComplete
<1>1. TypeOK => ContainsComplete
  <2>1. SUFFICES ASSUME TypeOK, SubsetOf(b, a) PROVE Contains(a, b)
    BY DEF ContainsComplete
  <2>2. /\ a.lb = NegInf \/ (b.lb \in Int /\ a.lb <= b.lb)
        /\ a.ub = PosInf \/ (b.ub \in Int /\ b.ub <= a.ub)
    BY <2>1, LowerContained, UpperContained DEF TypeOK
  <2>3. QED
    BY <2>2, BoundsAssumption DEF Contains
<1>2. QED
  BY <1>1, ChecksTypeCorrect, PTL

\* union never adds a point: every real in an interval that union returns,
\* the merged [lo.lb, hi.ub) included, lies in one of its two arguments.
THEOREM UnionSoundHolds == Spec => []UnionSound
<1>1. TypeOK => UnionSound
  <2>1. SUFFICES ASSUME TypeOK, NEW s \in Samples,
                        NEW k \in DOMAIN Union(a, b), Mem(Union(a, b)[k], s)
                 PROVE  Mem(a, s) \/ Mem(b, s)
    BY DEF UnionSound
  <2>2. s \in Int
    BY SamplesInt
  <2>3. CASE Eq(a, b)
    <3>1. Union(a, b) = <<a>>
      BY <2>3 DEF Union
    <3>2. QED
      BY <2>1, <3>1
  <2>4. CASE ~Eq(a, b)
    <3> DEFINE lo == UnionOrder(a, b)[1]
               hi == UnionOrder(a, b)[2]
    <3>1. (lo = a /\ hi = b) \/ (lo = b /\ hi = a)
      BY DEF UnionOrder
    <3>2. lo \in WellFormed /\ hi \in WellFormed
      BY <2>1, <3>1 DEF TypeOK
    <3>3. CASE Gte(lo.ub, hi.lb)
      <4>1. Union(a, b) = <<MkInterval(lo.lb, hi.ub, FALSE)>>
        BY <2>4, <3>3 DEF Union
      <4>2. Mem(MkInterval(lo.lb, hi.ub, FALSE), s)
        <5>1. k = 1
          BY <2>1, <4>1
        <5>2. Union(a, b)[k] = MkInterval(lo.lb, hi.ub, FALSE)
          BY <4>1, <5>1
        <5>3. QED
          BY <2>1, <5>2, Zenon
      <4>3. QED
        BY <2>2, <3>1, <3>2, <3>3, <4>2, MergedSound
    <3>4. CASE ~Gte(lo.ub, hi.lb)
      <4>1. Union(a, b) = <<lo, hi>>
        BY <2>4, <3>4 DEF Union
      <4>2. Mem(lo, s) \/ Mem(hi, s)
        BY <2>1, <4>1
      <4>3. QED
        BY <3>1, <4>2
    <3>5. QED
      BY <3>3, <3>4
  <2>5. QED
    BY <2>3, <2>4
<1>2. QED
  BY <1>1, ChecksTypeCorrect, PTL

=============================================================================
