----------------------------- MODULE EventLoop -----------------------------
(***************************************************************************)
(* main_loop of the classic interface (src/main.c), the one-second refresh *)
(* of the clock page (src/clock.c) and the file name requester with its    *)
(* own nested loop (src/gui.c).                                            *)
(*                                                                         *)
(* Three actors: the program; Intuition, which queues messages at the      *)
(* window's port and raises the port's signal; and timer.device, which     *)
(* returns the clock request and raises the signal of its port.  A signal  *)
(* is one bit: Wait takes all it asked for at once, so what was queued     *)
(* behind it must be found by looking.                                     *)
(*                                                                         *)
(* What a message says is chosen when the program takes it, among what the *)
(* user can have done: the mouse alternates between pressed and released,  *)
(* and may be anywhere.  A handler is one step; only the requester waits.  *)
(***************************************************************************)
EXTENDS Views

CONSTANTS
  QueueLimit,   \* bound: messages waiting at once
  Posts,        \* bound: messages the user causes
  Breaks,       \* bound: CTRL-C signals sent
  Reports,      \* how many lines a new report may have; 0 when it fails
  Positions,    \* where a drag may take a list to
  FieldSize     \* MAX_FILENAME_LEN

ASSUME LoopAssumption ==
  /\ QueueLimit \in Nat \ {0} /\ Posts \in Nat /\ Breaks \in Nat
  /\ Reports \subseteq Nat /\ Positions \subseteq Nat
  /\ FieldSize \in Nat \ {0, 1}

VARIABLES
  pc,        \* where main_loop is
  custom,    \* use_custom_screen
  ui,        \* the record of Views
  queue,     \* messages waiting at the window's port
  posted,    \* messages and breaks caused so far
  broken,
  signals,   \* signal bits set for the task
  armed,     \* this turn waits for the clock signal too
  clock,     \* what clock.c holds, and where its request is
  mouse,     \* the button of the mouse, as far as messages have told
  pressed,   \* app->pressed_button
  corner,    \* close_corner_pressed
  field      \* the requester: length, cursor, pressed button, confirmed

user == <<posted, broken>>
input == <<mouse, pressed, corner>>
vars == <<pc, custom, ui, queue, posted, broken, signals, armed, clock, mouse,
          pressed, corner, field>>

NoClock == [open |-> FALSE, sent |-> "no"]
NoField == [length |-> 0, cursor |-> 0, button |-> None, answer |-> None]

Init ==
  /\ pc = "arm" /\ custom \in BOOLEAN
  /\ ui = InitialView
  /\ queue = 0 /\ posted = 0 /\ broken = 0
  /\ signals = {} /\ armed = FALSE /\ clock = NoClock
  /\ mouse = "up" /\ pressed = None /\ corner = FALSE
  /\ field = NoField

-----------------------------------------------------------------------------
(* The other actors.                                                       *)

\* Intuition queues a message and raises the signal of the window's port.
Post ==
  /\ pc # "over"
  /\ queue < QueueLimit /\ posted < Posts
  /\ queue' = queue + 1 /\ posted' = posted + 1
  /\ signals' = signals \cup {"window"}
  /\ UNCHANGED <<pc, custom, ui, broken, armed, clock, input, field>>

Break ==
  /\ pc # "over" /\ broken < Breaks
  /\ broken' = broken + 1
  /\ signals' = signals \cup {"break"}
  /\ UNCHANGED <<pc, custom, ui, queue, posted, armed, clock, input, field>>

\* The second is over.
Tick ==
  /\ clock.sent = "out"
  /\ clock' = [clock EXCEPT !.sent = "back"]
  /\ signals' = signals \cup {"clock"}
  /\ UNCHANGED <<pc, custom, ui, queue, user, armed, input, field>>

-----------------------------------------------------------------------------
(* The clock request.                                                      *)

ShowsClock == ui.view = "MAIN" /\ ui.hardware = "CLOCK"

\* cleanup_clock_refresh, and a version that does not wait for the request.
BugCleanup == [open |-> FALSE, sent |-> clock.sent]
Cleanup == NoClock

\* clock_refresh_signal opens the timer unless it is open, and sends the
\* request unless it is out.  A new port's signal bit starts clear.
Sent == IF clock.sent = "no" THEN "out" ELSE clock.sent

Arm(opened) ==
  /\ pc = "arm"
  /\ pc' = "wait"
  /\ clock' = IF ShowsClock /\ (clock.open \/ opened)
              THEN [open |-> TRUE, sent |-> Sent]
              ELSE Cleanup
  /\ armed' = clock'.open
  /\ signals' = IF ShowsClock /\ ~clock.open THEN signals \ {"clock"} ELSE signals
  /\ UNCHANGED <<custom, ui, queue, user, input, field>>

\* clock_refresh_ready takes the answer and has the page redrawn; a version
\* that only looks would not send the request again.
BugReady(woken) == clock
Ready(woken) == IF "clock" \in woken /\ clock.sent = "back"
                THEN [clock EXCEPT !.sent = "no"] ELSE clock

\* What Wait is asked for, and without CTRL-C.
BugAwaited == {"window"} \cup If(armed, {"clock"})
Awaited == {"window", "break"} \cup If(armed, {"clock"})

\* CTRL-C leaves at once; everything else goes on to the messages.
Wake ==
  /\ pc = "wait"
  /\ signals \cap Awaited # {}
  /\ signals' = signals \ Awaited
  /\ IF "break" \in signals
     THEN /\ pc' = "over" /\ clock' = Cleanup
          /\ ui' = [ui EXCEPT !.running = FALSE]
     ELSE /\ pc' = "drain" /\ clock' = Ready(signals)
          /\ UNCHANGED ui
  /\ UNCHANGED <<custom, queue, user, armed, input, field>>

-----------------------------------------------------------------------------
(* The messages, taken until there is none.                                *)

Take == pc = "drain" /\ queue > 0 /\ queue' = queue - 1

Stays == UNCHANGED <<custom, user, signals, armed, clock>>

\* The inner loop does not ask whether the program still runs; the outer does.
AfterDrain == IF ui.running THEN "arm" ELSE "over"

Drained ==
  /\ pc = "drain" /\ queue = 0
  /\ pc' = AfterDrain
  /\ clock' = IF ui.running THEN clock ELSE Cleanup
  /\ UNCHANGED <<custom, ui, queue, user, signals, armed, input, field>>

CloseWindow ==
  /\ Take /\ ~custom
  /\ ui' = [ui EXCEPT !.running = FALSE]
  /\ UNCHANGED <<pc, input, field>> /\ Stays

ScrollBars == {"SOFTWARE_SCROLLBAR", "REPORT_SCROLLBAR"}

PressCorner ==
  /\ Take /\ mouse = "up" /\ custom
  /\ mouse' = "down" /\ corner' = TRUE
  /\ UNCHANGED <<pc, ui, pressed, field>> /\ Stays

Press(b) ==
  /\ Take /\ mouse = "up"
  /\ b \in (ui.buttons \ ScrollBars) \cup {None}
  /\ mouse' = "down" /\ corner' = FALSE
  /\ pressed' = IF b = None THEN pressed ELSE b
  /\ UNCHANGED <<pc, ui, field>> /\ Stays

PressScrollBar(zone) ==
  /\ Take /\ mouse = "up"
  /\ ui.buttons \cap ScrollBars # {}
  /\ mouse' = "down" /\ corner' = FALSE
  /\ ui' = HandleScrollbar([ui EXCEPT !.dragging = FALSE], zone, 0)
  /\ UNCHANGED <<pc, pressed, field>> /\ Stays

ReleaseCorner(inside) ==
  /\ Take /\ mouse = "down" /\ corner
  /\ mouse' = "up" /\ corner' = FALSE
  /\ ui' = [ui EXCEPT !.dragging = FALSE, !.running = @ /\ ~inside]
  /\ UNCHANGED <<pc, pressed, field>> /\ Stays

\* Save in the report asks for a name first, when the screen can be saved.
Perform(b, u, x, saved, length) ==
  IF u.view = "REPORT" /\ b = "REPORT_SAVE" /\ saved
  THEN /\ pc' = "requester" /\ ui' = u
       /\ field' = [NoField EXCEPT !.length = length, !.cursor = length]
  ELSE /\ ui' = HandleButton(u, b, x)
       /\ UNCHANGED <<pc, field>>

\* A button acts when the mouse is released over it.
Release(hit, x, saved) ==
  /\ Take /\ mouse = "down" /\ ~corner
  /\ mouse' = "up" /\ pressed' = None
  /\ LET u == [ui EXCEPT !.dragging = FALSE]
     IN IF pressed # None /\ hit /\ pressed \in ui.buttons
        THEN Perform(pressed, u, x, saved, 1)
        ELSE ui' = u /\ UNCHANGED <<pc, field>>
  /\ UNCHANGED corner /\ Stays

Move(to) ==
  /\ Take
  /\ ui' = IF ui.dragging THEN HandleScrollbar(ui, "knob", to) ELSE ui
  /\ UNCHANGED <<pc, input, field>> /\ Stays

\* Cursor keys and the wheel.
RawKey(rows) ==
  /\ Take
  /\ ui' = IF ui.view = "REPORT" THEN ScrollReport(ui, rows)
           ELSE IF ui.view = "MAIN"
           THEN MainButton(ui, IF rows > 0 THEN "SOFTWARE_DOWN"
                               ELSE "SOFTWARE_UP", [lines |-> 0, media |-> FALSE])
           ELSE IF ui.view = "BOARDS"
           THEN BoardButton(ui, IF rows > 0 THEN "BOARD_NEXT" ELSE "BOARD_PREV")
           ELSE ui
  /\ UNCHANGED <<pc, input, field>> /\ Stays

KeyQ ==
  /\ Take
  /\ ui' = IF ui.view = "MAIN" THEN [ui EXCEPT !.running = FALSE]
           ELSE SwitchToView(ui, "MAIN")
  /\ UNCHANGED <<pc, input, field>> /\ Stays

\* M, D, B, S and P stand for buttons of the main view.
KeyButton(b, x) ==
  /\ Take /\ ui.view = "MAIN"
  /\ ui' = MainButton(ui, b, x)
  /\ UNCHANGED <<pc, input, field>> /\ Stays

KeySave(saved) ==
  /\ Take /\ ui.view = "REPORT"
  /\ Perform("REPORT_SAVE", ui, [lines |-> 0, media |-> FALSE], saved, 1)
  /\ UNCHANGED input /\ Stays

RefreshWindow ==
  /\ Take
  /\ ui' = Redraw(ui)
  /\ UNCHANGED <<pc, input, field>> /\ Stays

-----------------------------------------------------------------------------
(* The requester takes the same messages until it is answered, and then    *)
(* throws away those that wait behind the answer.                          *)

TakeNested == pc = "requester" /\ queue > 0 /\ queue' = queue - 1

NestedStays == UNCHANGED <<custom, ui, user, signals, armed, clock, pressed,
                           corner>>

RequesterMouse(b) ==
  /\ TakeNested
  /\ IF mouse = "up"
     THEN /\ mouse' = "down" /\ UNCHANGED pc
          /\ field' = [field EXCEPT !.button = IF b = None THEN @ ELSE b]
     ELSE /\ mouse' = "up"
          /\ IF b # None /\ field.button = b
             THEN pc' = "dismiss" /\ field' = [field EXCEPT !.answer = b]
             ELSE UNCHANGED pc /\ field' = [field EXCEPT !.button = None]
  /\ NestedStays

RequesterKey(b) ==
  /\ TakeNested
  /\ pc' = "dismiss" /\ field' = [field EXCEPT !.answer = b]
  /\ UNCHANGED mouse /\ NestedStays

\* A character is entered only where the terminator still fits behind it.
Fits(f) == f.length < FieldSize - 1

Edited(f, key) ==
  CASE key = "char" /\ Fits(f) ->
         [f EXCEPT !.length = @ + 1, !.cursor = @ + 1]
    [] key = "backspace" /\ f.cursor > 0 ->
         [f EXCEPT !.length = @ - 1, !.cursor = @ - 1]
    [] key = "delete" /\ f.cursor < f.length -> [f EXCEPT !.length = @ - 1]
    [] key = "left" /\ f.cursor > 0 -> [f EXCEPT !.cursor = @ - 1]
    [] key = "right" /\ f.cursor < f.length -> [f EXCEPT !.cursor = @ + 1]
    [] OTHER -> f

RequesterEdit(key) ==
  /\ TakeNested
  /\ field' = Edited(field, key)
  /\ UNCHANGED <<pc, mouse>> /\ NestedStays

\* A message behind the answer is replied and forgotten, whatever it said.
Discard(toggles) ==
  /\ pc = "dismiss" /\ queue > 0 /\ queue' = queue - 1
  /\ mouse' = IF toggles THEN (IF mouse = "up" THEN "down" ELSE "up") ELSE mouse
  /\ UNCHANGED <<pc, field>> /\ NestedStays

\* The screen comes back, and the report is saved or not.
Dismiss ==
  /\ pc = "dismiss" /\ queue = 0
  /\ pc' = "drain" /\ field' = NoField
  /\ UNCHANGED <<queue, mouse>> /\ NestedStays

-----------------------------------------------------------------------------
(* The specification.                                                      *)

Learned == [lines : Reports, media : BOOLEAN]
Keys == {"char", "backspace", "delete", "left", "right"}

Handle ==
  \/ CloseWindow \/ PressCorner \/ KeyQ \/ RefreshWindow
  \/ \E b \in ui.buttons \cup {None} : Press(b)
  \/ \E zone \in {"above", "knob", "below"} : PressScrollBar(zone)
  \/ \E inside \in BOOLEAN : ReleaseCorner(inside)
  \/ \E hit, saved \in BOOLEAN, x \in Learned : Release(hit, x, saved)
  \/ \E to \in Positions : Move(to)
  \/ \E rows \in {-1, 1} : RawKey(rows)
  \/ \E b \in {"MEMORY", "DRIVES", "BOARDS", "SPEED", "REPORT"}, x \in Learned :
        KeyButton(b, x)
  \/ \E saved \in BOOLEAN : KeySave(saved)

Requester ==
  \/ \E b \in {"ok", "cancel", None} : RequesterMouse(b)
  \/ \E b \in {"ok", "cancel"} : RequesterKey(b)
  \/ \E key \in Keys : RequesterEdit(key)
  \/ \E toggles \in BOOLEAN : Discard(toggles)
  \/ Dismiss

Turn ==
  \/ \E opened \in BOOLEAN : Arm(opened)
  \/ Wake \/ Handle \/ Drained \/ Requester

Next == Post \/ Break \/ Tick \/ Turn

\* The program runs when it is ready, and the timer answers.
Spec == Init /\ [][Next]_vars /\ WF_vars(Turn) /\ WF_vars(Tick)

-----------------------------------------------------------------------------
(* Properties.                                                             *)

\* Every position the drawing code indexes a list with lies inside that list,
\* whatever sequence of buttons, keys, drags and view changes led there, and
\* so does the cursor of the requester's field (gui.c 589-706, 2345-2431;
\* report_view.c 130-190; drives.c 1882-2012).  The report view has a report,
\* which it reads without a test, and no other view keeps one
\* (report_view.c 22-27, 34-52).
InRange ==
  /\ ui.view = "REPORT" <=> ui.report # None
  /\ ui.scroll \in 0..LastScroll(ui)
  /\ ui.page \in 0..(HardwarePages[ui.hardware] - 1)
  /\ ui.view = "MEMORY" => ui.region \in 0..AtLeast(Regions - 1, 0)
  /\ ui.view \in {"DRIVES", "SCSI"} =>
        ui.drive \in IF Drives = <<>> THEN {0} ELSE DOMAIN Drives
  /\ ui.drivePage \in 0..LastDrivePage
  /\ ui.boardScroll \in 0..LastBoardScroll
  /\ ui.view = "DETAILS" => ui.board \in 0..(Boards - 1)
  /\ ui.view = "REPORT" => ui.first \in 0..LastLine(ui)
  /\ field.cursor <= field.length /\ field.length < FieldSize

\* What the user can click is what the state allows, and the hardware panel
\* shows the current settings: no handler leaves the buttons or the cached
\* rows of an earlier state behind (gui.c 531-706, 1500-1520, 1604-1634,
\* 2224-2246).
PanelCurrent ==
  /\ ui.buttons = ButtonsOf(ui)
  /\ ui.view = "MAIN" =>
        ui.rows = Formatted(ui)

\* The task never sleeps on work: when it waits, a queued message has its
\* signal, and while it waits for the clock the request is out, or back with
\* its signal; no order of arrival between the looks loses a wake-up
\* (main.c 1258-1276, clock.c 152-187).
NoLostWakeup ==
  pc = "wait" =>
    /\ queue > 0 => "window" \in signals
    /\ armed => \/ clock.sent = "out"
                \/ clock.sent = "back" /\ "clock" \in signals

\* CTRL-C ends the program, unless the requester is waiting for its answer
\* (main.c 1264-1268; the nested loop of gui.c 2790-2791 does not look).
BreakEnds ==
  "break" \in signals ~> pc \in {"over", "requester"}

\* main_loop keeps LoopPromise: no timer, no request and no requester are
\* left when it returns, and the timer never disappears under its request.
Promise == INSTANCE LoopPromise WITH
  phase <- IF pc = "over" THEN "over" ELSE "running",
  timer <- clock.open,
  request <- clock.sent # "no",
  report <- ui.report # None,
  backup <- pc \in {"requester", "dismiss"}
KeepsPromise == Promise!Spec

\* A knob follows the mouse only while the button that grabbed it is held.
\* (gui.c 2343: "drag only when the knob itself was grabbed".)
DragHeld == ui.dragging /\ pc \in {"arm", "wait", "drain"} => mouse = "down"
=============================================================================
