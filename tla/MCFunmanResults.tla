-------------------------- MODULE MCFunmanResults --------------------------
EXTENDS FunmanResults

CONSTANTS t1, t2, ps1, ps2

\* Two parameter spaces of different coverage (one full, one half), so a
\* stale coverage field is always visible.
MCPSpaces == {ps1, ps2}
MCLabeledVolume == [p \in MCPSpaces |-> IF p = ps1 THEN 2 ELSE 1]
MCSearchVolume == 2
MCReprVolume == 4
MCUnit == 2

MCTwoThreads == {t1, t2}
MCOneThread == {t1}

=============================================================================
