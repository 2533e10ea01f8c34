---------------------------- MODULE IntervalCache ----------------------------
(***************************************************************************)
(* One Interval object over its lifetime: it is constructed, width() is  *)
(* called on it (filling cached_width on the first call) and normalize() *)
(* is called on it with a positive factor.  No code of the repository    *)
(* assigns lb or ub after construction, so the bounds never change.      *)
(***************************************************************************)
EXTENDS Interval

CONSTANTS
    Factors,  \* the positive normalization factors callers pass
    None      \* Python None, the initial cached_width

VARIABLES iv, cached

vars == <<iv, cached>>

\* The intervals the constructor and its validator produce.
Constructed ==
    {MkInterval(l, u, c) : l \in Vals \cup {NegInf}, u \in Vals \cup {PosInf},
                           c \in BOOLEAN}
        \cap {i \in IntervalType : Lte(i.lb, i.ub)}

TypeOK == iv \in IntervalType /\ cached \in Int \cup {PosInf, None}

Init == iv \in Constructed /\ cached = None

\* Interval(lb=..., ub=...): a new object, with no cached width.
Construct == iv' \in Constructed /\ cached' = None

\* width(normalize): "if self.cached_width is None" the width is computed
\* and stored; the normalized value returned is not kept.
WidthCall ==
    /\ cached' = IF cached = None THEN Width(iv) ELSE cached
    /\ UNCHANGED iv

Next ==
    \/ Construct
    \/ WidthCall

Spec == Init /\ [][Next]_vars

-----------------------------------------------------------------------------

\* Spec 4.2: normalize(f) rescales both bounds of the interval by f.
\* normalize divides lb twice, so the result is the point [lb/f, lb/f].
NormalizeScales ==
    \A f \in Factors :
        /\ Normalize(iv, f).lb = Div(iv.lb, f)
        /\ Normalize(iv, f).ub = Div(iv.ub, f)

=============================================================================
