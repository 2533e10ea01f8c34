CONSTANTS
    NegInf = NegInf
    PosInf = PosInf
    Vals <- MCVals
SPECIFICATION Spec
INVARIANT MidpointInside
