\* Spec 7: one overflowing value of a requested variable is logged and
\* skipped; the extraction of the other timepoints does not abort.
CONSTANTS
    Atoms <- MCAtoms
    Digits <- MCDigits
    DigitVal <- MCDigitVal
    EndsIn <- MCEndsIn
    Numbers <- MCNumbers
    Huge = Huge
    NoValue = NoValue
    CandidateSymbols <- MCCandidateSymbols
    Requestable <- MCRequestable
SPECIFICATION Spec
INVARIANT OverflowRecovered
