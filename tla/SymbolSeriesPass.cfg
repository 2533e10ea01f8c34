\* symbol_timeseries against the point it reads, over every point on six
\* candidate symbols and every request of three variables.
CONSTANTS
    Atoms <- MCAtoms
    Digits <- MCDigits
    DigitVal <- MCDigitVal
    EndsIn <- MCEndsIn
    Numbers <- MCNumbers
    Huge = Huge
    NoValue = NoValue
    CandidateSymbols <- MCCandidateSymbols
    Requestable <- MCRequestable
SPECIFICATION Spec
INVARIANT SeriesFaithful
