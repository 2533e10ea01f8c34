--------------------------- MODULE MCIntervalCache ---------------------------
EXTENDS IntervalCache

\* Even bounds, so that dividing them by 2 is exact.
MCEvenVals == {0, 2, 4}

MCFactors == {2}

=============================================================================
