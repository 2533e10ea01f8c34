\* Spec 6: the series are keyed by requested variables only.
CONSTANTS
    Atoms <- MCAtoms
    Digits <- MCDigits
    DigitVal <- MCDigitVal
    EndsIn <- MCEndsIn
    Numbers <- MCNumbers
    Huge = Huge
    NoValue = NoValue
    CandidateSymbols <- MCCandidateSymbols
    Requestable <- MCRequestable
SPECIFICATION Spec

INVARIANT SeriesOnlyRequested
