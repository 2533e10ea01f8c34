\* Spec 4.2: normalize(f) rescales both bounds.
CONSTANTS
    NegInf = NegInf
    PosInf = PosInf
    Vals <- MCEvenVals
    Factors <- MCFactors
    None = None
SPECIFICATION Spec
INVARIANT NormalizeScales
