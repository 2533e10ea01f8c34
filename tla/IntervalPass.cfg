CONSTANTS
    NegInf = NegInf
    PosInf = PosInf
    Vals <- MCVals
SPECIFICATION Spec
INVARIANT IntersectsExact
INVARIANT UnionSound
INVARIANT ContainsComplete
INVARIANT DisjointComplete
