\* Spec 7: extraction does not abort when a requested variable has no symbol.
CONSTANTS
    Atoms <- MCAtoms
    Digits <- MCDigits
    DigitVal <- MCDigitVal
    EndsIn <- MCEndsIn
    Numbers <- MCNumbers
    Huge = Huge
    NoValue = NoValue
    CandidateSymbols <- MCCandidateSymbols
    Requestable <- MCRequestable
SPECIFICATION Spec

INVARIANT ExtractionTotal
