------------------------------ MODULE Overlay -------------------------------
(***************************************************************************)
(* The status overlay of gui.c: a message over the middle of the window    *)
(* while something is measured.  The area below is kept in a bitmap, from  *)
(* graphics.library on V39 and otherwise plane by plane, and the pointer   *)
(* is replaced by a blank sprite in chip memory.  Every allocation may     *)
(* fail.                                                                   *)
(***************************************************************************)
EXTENDS Task

CONSTANTS
  Depths      \* the depths of the bitmap of the window

ASSUME OverlayAssumption == Depths \subseteq Nat

VARIABLES
  backup,     \* overlay_backup and blank_pointer
  memory      \* what the overlay has allocated: planes, a bitmap, the sprite

overlayVars == <<backup, memory>>

NoBackup == [valid |-> FALSE, depth |-> 0, allocated |-> FALSE, planes |-> {},
             pointer |-> FALSE]
OverlayInit ==
  /\ backup = NoBackup
  /\ memory = [planes |-> {}, bitmaps |-> 0, sprites |-> 0]
-----------------------------------------------------------------------------
\* free_overlay_backup: the bitmap as a whole, or the planes it has.
Unsaved == [backup EXCEPT !.valid = FALSE, !.depth = 0, !.allocated = FALSE,
                          !.planes = {}]
Freed == [memory EXCEPT
            !.bitmaps = @ - IF backup.allocated THEN 1 ELSE 0,
            !.planes = @ \ {p \in backup.planes :
                              ~backup.allocated /\ p < backup.depth}]

\* save_overlay_area, until it allocates: an earlier backup is freed.
\* v39: graphics.library has AllocBitMap.
ShowOverlay(depth, v39, fits) ==
  /\ pc = "overlay"
  /\ IF ~fits \/ depth = 0
     THEN pc' = "overlay shown" /\ UNCHANGED overlayVars
     ELSE /\ memory' = IF backup.valid THEN Freed ELSE memory
          /\ backup' = [Unsaved EXCEPT !.depth = depth]
          /\ pc' = IF v39 THEN "overlay bitmap"
                   ELSE IF depth > 8 THEN "overlay shown" ELSE "overlay planes"
  /\ UNCHANGED masks

AllocBitMap(ok) ==
  /\ Go("overlay bitmap", IF ok THEN "overlay pointer" ELSE "overlay shown")
  /\ backup' = [backup EXCEPT !.allocated = ok, !.valid = ok]
  /\ memory' = [memory EXCEPT !.bitmaps = @ + IF ok THEN 1 ELSE 0]
  /\ UNCHANGED masks

\* Mutant: when a plane is missing the others are forgotten.
BugMissingPlane == backup' = Unsaved /\ UNCHANGED memory

MissingPlane == backup' = Unsaved /\ memory' = Freed

\* One turn of the loop over the planes.
AllocPlane(ok) ==
  /\ pc = "overlay planes"
  /\ LET p == CHOOSE q \in 0..backup.depth - 1 :
                q \notin backup.planes /\ \A r \in 0..q - 1 : r \in backup.planes
     IN  IF ok
         THEN /\ memory' = [memory EXCEPT !.planes = @ \cup {p}]
              /\ backup' = [backup EXCEPT !.planes = @ \cup {p},
                                          !.valid = p = backup.depth - 1]
              /\ pc' = IF p = backup.depth - 1 THEN "overlay pointer" ELSE pc
         ELSE /\ MissingPlane /\ pc' = "overlay shown"
  /\ UNCHANGED masks

\* The blank pointer is optional, and allocated once.
Pointer(ok) ==
  /\ Go("overlay pointer", "overlay shown")
  /\ LET new == ok /\ ~backup.pointer
     IN  /\ backup' = [backup EXCEPT !.pointer = @ \/ new]
         /\ memory' = [memory EXCEPT !.sprites = @ + IF new THEN 1 ELSE 0]
  /\ UNCHANGED masks

\* hide_status_overlay: the pointer, then the area, if one was saved.
HideOverlay ==
  /\ Go("overlay hide", "overlay hidden")
  /\ backup' = [(IF backup.valid THEN Unsaved ELSE backup)
                EXCEPT !.pointer = FALSE]
  /\ memory' = [(IF backup.valid THEN Freed ELSE memory)
                EXCEPT !.sprites = @ - IF backup.pointer THEN 1 ELSE 0]
  /\ UNCHANGED masks

OverlayStep ==
  \/ \E depth \in Depths, v39, fits \in BOOLEAN : ShowOverlay(depth, v39, fits)
  \/ \E ok \in BOOLEAN : AllocBitMap(ok) \/ AllocPlane(ok) \/ Pointer(ok)
  \/ HideOverlay

\* Nothing of a hidden overlay stays allocated, whichever allocation failed
\* (gui.c 2432-2513 and 2606-2617).
OverlayFreed ==
  pc = "overlay hidden" =>
    memory.planes = {} /\ memory.bitmaps = 0 /\ memory.sprites = 0
=============================================================================
