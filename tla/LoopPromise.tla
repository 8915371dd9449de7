---------------------------- MODULE LoopPromise ----------------------------
(***************************************************************************)
(* What the rest of the program may count on of main_loop: while it runs   *)
(* the report, the requester and the one-second timer come and go as the   *)
(* user likes; when it returns the timer has been given back, no requester *)
(* is on the screen, and only the report may still be open, which main's   *)
(* cleanup closes (src/main.c 354-574, 1247-1418).  EventLoop implements   *)
(* this specification; Program is built on it.                             *)
(***************************************************************************)

VARIABLES
  phase,        \* "running" | "over"
  timer,        \* the timer's port, request and device are held
  request,      \* its request is out at the device
  report,       \* the report and its font are held
  backup        \* the screen under an overlay is saved

promised == <<phase, timer, request, report, backup>>

Init == /\ phase = "running" /\ timer = FALSE /\ request = FALSE
        /\ report = FALSE /\ backup = FALSE

\* A request is out only while there is a timer to answer it.
Work == /\ phase = "running" /\ phase' = "running"
        /\ timer' \in BOOLEAN /\ request' \in BOOLEAN
        /\ report' \in BOOLEAN /\ backup' \in BOOLEAN
        /\ request' => timer'

\* Before it returns the loop withdraws its request and frees the timer.
Leave == /\ phase = "running" /\ phase' = "over"
         /\ ~backup
         /\ timer' = FALSE /\ request' = FALSE
         /\ report' \in BOOLEAN /\ UNCHANGED backup

Next == Work \/ Leave

Spec == Init /\ [][Next]_promised
=============================================================================
