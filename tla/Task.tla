-------------------------------- MODULE Task --------------------------------
(***************************************************************************)
(* The one task the program runs in, as its routines see it: how far it    *)
(* is, and whether Forbid and Disable keep the other tasks and the         *)
(* interrupts out.  The modules of the routines extend this one and say    *)
(* only what happens to it and to their own variables.                     *)
(***************************************************************************)
EXTENDS Integers, Sequences

VARIABLES
  pc,        \* the label reached, "idle" between calls
  forbid,    \* how often Forbid() is in force: no other task runs
  disabled   \* Disable(), or SR 0x700: no interrupt and no other task runs

masks == <<forbid, disabled>>

Go(from, to) == pc = from /\ pc' = to

\* Other tasks, and the interrupts of other drivers.
TasksRun == forbid = 0 /\ ~disabled
InterruptsRun == ~disabled

Free == forbid = 0 /\ disabled = FALSE
=============================================================================
