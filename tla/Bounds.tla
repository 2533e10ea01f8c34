------------------------------- MODULE Bounds -------------------------------
(***************************************************************************)
(* BoundedComparator: the sentinel-aware comparisons of funman's          *)
(* math_utils (lt, lte, gt, gte, div).  math_utils is not among the       *)
(* repository files under src/, so these operators are modelled from the  *)
(* contract of spec section 4.1: the two infinity sentinels are absorbing *)
(* extremes, every finite value lies strictly between them, and finite    *)
(* values are compared exactly.                                           *)
(*                                                                         *)
(* A bound is a finite value of Vals (integers stand for the exact        *)
(* decimals the code compares) or one of the sentinels NegInf, PosInf,    *)
(* which are model values so that TLC refuses any arithmetic on them.     *)
(***************************************************************************)
EXTENDS Integers

CONSTANTS
    NegInf,     \* funman.constants.NEG_INFINITY
    PosInf,     \* funman.constants.POS_INFINITY
    Vals        \* the finite bound values a run uses

ASSUME BoundsAssumption ==
    /\ NegInf \notin Int
    /\ PosInf \notin Int
    /\ NegInf # PosInf
    /\ Vals \subseteq Int

Bound == Vals \cup {NegInf, PosInf}

\* math_utils.lt: NegInf is below everything but itself, PosInf above
\* everything but itself, finite values compare exactly.
Lt(x, y) ==
    /\ x # y
    /\ \/ x = NegInf
       \/ /\ y # NegInf
          /\ x # PosInf
          /\ y = PosInf \/ x < y

Lte(x, y) == x = y \/ Lt(x, y)

Gt(x, y) == ~Lte(x, y)

Gte(x, y) == x = y \/ Gt(x, y)

\* math_utils.div(x, n) for a positive n: a sentinel is returned as it
\* is, a finite value divided exactly (integer division, exact on the
\* multiples of n that the runs use).
Div(x, n) == IF x \in {NegInf, PosInf} THEN x ELSE x \div n

=============================================================================
