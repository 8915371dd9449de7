---------------------------- MODULE MCDriveSpeed ----------------------------
(* Instances of DriveSpeed for TLC.                                    *)
EXTENDS DriveSpeed

Hard == [base |-> 4, blocks |-> 9, chs |-> TRUE, ordered |-> TRUE, track |-> 4,
         maxTransfer |-> 0, mask |-> FALSE, bufMem |-> "none"]

\* A hard disk; one that reaches past the 32-bit offset; one known only by its
\* block count, with a transfer limit and a mask; one whose limit is below a
\* block; a floppy; a disk of unknown size; one whose cylinders are reversed;
\* and one that asks for Chip memory and has fewer blocks than samples share.
MCDrives ==
  {Hard,
   [Hard EXCEPT !.base = 30, !.bufMem = "other"],
   [Hard EXCEPT !.chs = FALSE, !.blocks = 10, !.maxTransfer = 5, !.mask = TRUE],
   [Hard EXCEPT !.maxTransfer = 1],
   [Hard EXCEPT !.base = 0, !.blocks = 4],
   [Hard EXCEPT !.chs = FALSE, !.blocks = 0],
   [Hard EXCEPT !.ordered = FALSE, !.blocks = 0],
   [Hard EXCEPT !.blocks = 6, !.bufMem = "chip"]}

\* A partition of no more blocks than a floppy, beyond the 32-bit offset.
MCTinyFarDrive == {[Hard EXCEPT !.base = 40, !.blocks = 3]}

\* The times a request may take: below, at and above the limits.
MCDurations == {0, 1, 3}
=============================================================================
