----------------------------- MODULE MCProgram -----------------------------
(* Instances of Program for TLC.                                           *)
EXTENDS Program

MCColours == 1..2
MCPens == {1, 2}
=============================================================================
