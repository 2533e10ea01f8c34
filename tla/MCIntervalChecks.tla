-------------------------- MODULE MCIntervalChecks --------------------------
EXTENDS IntervalChecks

\* Three finite values: enough for nested, overlapping, touching and
\* disjoint pairs on both sides of every sentinel.
MCVals == 0..2

=============================================================================
