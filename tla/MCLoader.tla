------------------------------ MODULE MCLoader ------------------------------
(* Instances of Loader for TLC.                                            *)
EXTENDS Loader

CONSTANTS s1, s2, p1, p2, q1

MCSegments == {s1, s2}
MCLists == {p1, p2, q1}
MCSuitable == {p1, p2}
=============================================================================
