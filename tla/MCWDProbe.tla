----------------------------- MODULE MCWDProbe -----------------------------
(* Instances of WDProbe for TLC.                                           *)
EXTENDS WDProbe

\* A clock that may stand still between two looks, or move.
MCTicks == {0, 1}

\* No usable pair, a rate that agrees with itself only.
MCRates == {0, 100, 103}
MCValidRates == 100..120

\* A chip that is not identified, one without and one with a queue tag.
MCTypes == {"unknown", "33C93", "33C93B"}

\* Every write sticks, or any one does not.
MCStuckSets == {{}} \cup {{r} : r \in Registers}
=============================================================================
