--------------------------- MODULE MCMeasurement ----------------------------
(* Instances of Measurement for TLC.                                       *)
EXTENDS Measurement

On(list, kind, bank, s) ==
  [todo |-> list, kind |-> kind, bank |-> bank, settings |-> s]

\* What main and the speed page call: at the start; the overlay, twice; the
\* benchmarks of the speed page, under Forbid; those of the command line; the
\* clock page, with each chip; a client of the probe clock.
MCScenarios ==
  {On(list, "NONE", 0, "cached") :
     list \in {<<"bus">>, <<"client">>, <<"cpu", "cpu">>,
               <<"overlay", "overlay hide", "overlay", "overlay hide">>,
               <<"forbid", "dhrystone", "flops", "memory", "cpu", "permit">>}}
  \cup {On(<<"rtc">>, kind, bank, "cached") : kind \in Kinds, bank \in {0, 1}}

\* One timer of each chip.
MCTimers == <<"CIAA", "CIAB">>

\* New Year's Eve of 1999, New Year, and the 30th of February.
MCDates == <<<<99, 12, 31>>, <<100, 1, 1>>, <<0, 2, 30>>>>

MCRates == {99, 100, 102}
MCValidRates == 100..200
MCDepths == {0, 1, 3, 9}
MCUnits == {1, 3}

\* Two settings in which the loop is cached; that it is not, which the code
\* treats alike whatever the reason, comes from its place in memory.
MCSettings == {"cached", "copyback"}
MCUncached == {}
=============================================================================
