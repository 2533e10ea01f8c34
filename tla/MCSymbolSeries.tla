---------------------------- MODULE MCSymbolSeries ----------------------------
(***************************************************************************)
(* Names for model checking SymbolSeriesChecks.  The segments: state      *)
(* variables S, RS (which ends with S), I, and the time variable timer_t; *)
(* digit timepoints 0, 1, 2; a non-digit suffix "rate" (a parameter such *)
(* as "S_rate").                                                          *)
(***************************************************************************)
EXTENDS SymbolSeriesChecks

MCAtoms == {"S", "RS", "I", "timer", "t", "0", "1", "2", "rate"}

MCDigits == {"0", "1", "2"}

MCDigitVal == [d \in MCDigits |-> CASE d = "0" -> 0 [] d = "1" -> 1
                                       [] d = "2" -> 2]

MCEndsIn == {<<"S", "RS">>}

MCNumbers == {1, 2}

\* x_0 and x_2 with a gap at 1, a name ending in S, a name with an
\* underscore, and a non-digit suffix.
MCCandidateSymbols ==
    {<<"S", "0">>, <<"S", "2">>, <<"RS", "1">>, <<"timer", "t", "1">>,
     <<"S", "rate">>, <<"I", "0">>}

MCRequestable == {<<"S">>, <<"I">>, <<"timer", "t">>}

=============================================================================
