-------------------------- MODULE EventLoopProofs --------------------------
(***************************************************************************)
(* Proofs about EventLoop, for queues, reports and lists of any size: the  *)
(* program never sleeps on work that has arrived, main_loop implements     *)
(* LoopPromise, on which Program is built, and what the views show stays   *)
(* in their lists and current.                                             *)
(*                                                                         *)
(* The first two rest on one account of the clock request.  It is never    *)
(* out without a timer to answer it; an answer leaves its signal set until *)
(* the program takes both; and whoever waits with the timer open has sent  *)
(* a request.  What the handlers do to the views does not matter to either,*)
(* so the operators of Views stay closed there; the last part opens them.  *)
(***************************************************************************)
EXTENDS EventLoop, TLAPS

Places == {"arm", "wait", "drain", "requester", "dismiss", "over"}
Clocks == [open : BOOLEAN, sent : {"no", "out", "back"}]

\* What the request, the signals and the queue have to do with each other.
Accounted ==
  /\ pc \in Places /\ queue \in Nat /\ clock \in Clocks
  /\ ~clock.open => clock.sent = "no"
  /\ clock.sent = "back" => "clock" \in signals
  /\ pc \in {"arm", "wait"} /\ queue > 0 => "window" \in signals
  /\ pc = "wait" => armed = clock.open
  /\ pc = "wait" /\ armed => clock.sent # "no"
  /\ pc = "over" => clock = NoClock

\* Whatever message the program handles, it leaves the clock, the signals and
\* what it waits for alone, and it stays among the messages or goes to the
\* requester.
LEMMA Handled ==
  ASSUME Handle
  PROVE  /\ pc = "drain" /\ pc' \in {"drain", "requester"}
         /\ queue > 0 /\ queue' = queue - 1
         /\ UNCHANGED <<signals, armed, clock>>
  <1>1. CASE CloseWindow
    BY <1>1 DEF CloseWindow, Take, Stays
  <1>2. CASE PressCorner
    BY <1>2 DEF PressCorner, Take, Stays
  <1>3. CASE KeyQ
    BY <1>3 DEF KeyQ, Take, Stays
  <1>4. CASE RefreshWindow
    BY <1>4 DEF RefreshWindow, Take, Stays
  <1>5. CASE \E b \in ui.buttons \cup {None} : Press(b)
    BY <1>5 DEF Press, Take, Stays
  <1>6. CASE \E zone \in {"above", "knob", "below"} : PressScrollBar(zone)
    BY <1>6 DEF PressScrollBar, Take, Stays
  <1>7. CASE \E inside \in BOOLEAN : ReleaseCorner(inside)
    BY <1>7 DEF ReleaseCorner, Take, Stays
  <1>8. CASE \E hit, saved \in BOOLEAN, x \in Learned : Release(hit, x, saved)
    <2>1. PICK hit \in BOOLEAN, saved \in BOOLEAN, x \in Learned :
             Release(hit, x, saved)
      BY <1>8
    <2>2. pc' \in {pc, "requester"}
      BY <2>1 DEF Release, Perform
    <2> QED BY <2>1, <2>2 DEF Release, Take, Stays
  <1>9. CASE \E to \in Positions : Move(to)
    BY <1>9 DEF Move, Take, Stays
  <1>10. CASE \E rows \in {-1, 1} : RawKey(rows)
    BY <1>10 DEF RawKey, Take, Stays
  <1>11. CASE \E b \in {"MEMORY", "DRIVES", "BOARDS", "SPEED", "REPORT"},
                 x \in Learned : KeyButton(b, x)
    BY <1>11 DEF KeyButton, Take, Stays
  <1>12. CASE \E saved \in BOOLEAN : KeySave(saved)
    BY <1>12 DEF KeySave, Perform, Take, Stays
  <1> QED BY <1>1, <1>2, <1>3, <1>4, <1>5, <1>6, <1>7, <1>8, <1>9, <1>10,
             <1>11, <1>12 DEF Handle

\* The requester takes messages too, until it goes back to the loop.
LEMMA Answered ==
  ASSUME Requester
  PROVE  /\ pc \in {"requester", "dismiss"}
         /\ pc' \in {"requester", "dismiss", "drain"}
         /\ \/ queue > 0 /\ queue' = queue - 1
            \/ UNCHANGED queue
         /\ UNCHANGED <<signals, armed, clock>>
  <1>1. CASE \E b \in {"ok", "cancel", None} : RequesterMouse(b)
    BY <1>1 DEF RequesterMouse, TakeNested, NestedStays
  <1>2. CASE \E b \in {"ok", "cancel"} : RequesterKey(b)
    BY <1>2 DEF RequesterKey, TakeNested, NestedStays
  <1>3. CASE \E key \in Keys : RequesterEdit(key)
    BY <1>3 DEF RequesterEdit, TakeNested, NestedStays
  <1>4. CASE \E toggles \in BOOLEAN : Discard(toggles)
    BY <1>4 DEF Discard, NestedStays
  <1>5. CASE Dismiss
    BY <1>5 DEF Dismiss, NestedStays
  <1> QED BY <1>1, <1>2, <1>3, <1>4, <1>5 DEF Requester

LEMMA AccountedInitially == Init => Accounted
  BY DEF Init, Accounted, Places, Clocks, NoClock

\* Every step keeps the account.
LEMMA AccountKept ==
  ASSUME Accounted, [Next]_vars
  PROVE  Accounted'
  <1> USE DEF Accounted, Places, Clocks, NoClock
  <1>1. CASE Post
    BY <1>1 DEF Post, input
  <1>2. CASE Break
    BY <1>2 DEF Break, input
  <1>3. CASE Tick
    BY <1>3 DEF Tick
  <1>4. CASE \E opened \in BOOLEAN : Arm(opened)
    <2>1. PICK opened \in BOOLEAN : Arm(opened)
      BY <1>4
    <2>2. CASE ShowsClock /\ (clock.open \/ opened)
      <3>1. clock' = [open |-> TRUE, sent |-> Sent] /\ Sent \in {"out", "back"}
        BY <2>1, <2>2 DEF Arm, Sent
      <3>0. /\ pc = "arm" /\ pc' = "wait" /\ armed' = clock'.open
            /\ UNCHANGED queue
            /\ "window" \in signals => "window" \in signals'
        BY <2>1 DEF Arm
      <3>4. clock'.open = TRUE /\ clock'.sent = Sent /\ clock' \in Clocks
        BY <3>1
      <3>2. CASE clock.open
        <4>1. signals' = signals
          BY <2>1, <2>2, <3>2 DEF Arm
        <4>2. clock'.sent = "back" => clock.sent = "back"
          BY <3>4 DEF Sent
        <4> QED BY <3>0, <3>1, <3>4, <4>1, <4>2
      <3>3. CASE ~clock.open
        <4>1. clock'.sent = "out"
          BY <3>3, <3>4 DEF Sent
        <4> QED BY <3>0, <3>4, <4>1
      <3> QED BY <3>2, <3>3
    <2>3. CASE ~(ShowsClock /\ (clock.open \/ opened))
      BY <2>1, <2>3 DEF Arm, Cleanup
    <2> QED BY <2>2, <2>3
  <1>5. CASE Wake
    <2>1. CASE "break" \in signals
      <3>1. pc' = "over" /\ clock' = NoClock /\ UNCHANGED queue
        BY <1>5, <2>1 DEF Wake, Cleanup
      <3>2. clock'.sent = "no" /\ clock' \in Clocks
        BY <3>1
      <3> QED BY <3>1, <3>2
    <2>2. CASE "break" \notin signals
      <3>1. clock' = Ready(signals) /\ pc' = "drain" /\ queue' = queue
        BY <1>5, <2>2 DEF Wake
      <3>2. clock'.sent # "back" /\ clock'.open = clock.open
            /\ clock' \in Clocks /\ (~clock.open => clock'.sent = "no")
        BY <3>1 DEF Ready
      <3> QED BY <3>1, <3>2
    <2> QED BY <2>1, <2>2
  <1>6. CASE Handle
    BY <1>6, Handled
  <1>7. CASE Drained
    BY <1>7 DEF Drained, AfterDrain, Cleanup
  <1>8. CASE Requester
    BY <1>8, Answered
  <1>9. CASE UNCHANGED vars
    BY <1>9 DEF vars
  <1> QED BY <1>1, <1>2, <1>3, <1>4, <1>5, <1>6, <1>7, <1>8, <1>9
          DEF Next, Turn

LEMMA AccountHolds == Spec => []Accounted
  BY AccountedInitially, AccountKept, PTL DEF Spec

\* The task never sleeps on a message or an answer that has arrived
\* (main.c 1258-1276, clock.c 152-187).
THEOREM NeverSleepsOnWork == Spec => []NoLostWakeup
  <1>1. Accounted => NoLostWakeup
    BY DEF Accounted, NoLostWakeup, Clocks
  <1> QED BY <1>1, AccountHolds, PTL

\* Drawing a view does not touch the report, and there is none to begin with.
LEMMA DrawingKeepsReport ==
  ASSUME NEW u, "report" \in DOMAIN u
  PROVE  Redraw(u).report = u.report
  <1>1. BuildRows(u).report = u.report /\ "report" \in DOMAIN BuildRows(u)
    BY DEF BuildRows
  <1>2. /\ UpdateButtons(u).report = u.report
        /\ "report" \in DOMAIN UpdateButtons(u)
    BY <1>1 DEF UpdateButtons
  <1> QED BY <1>2 DEF Redraw

LEMMA StartsWithoutReport == InitialView.report = None
  BY DrawingKeepsReport DEF InitialView

\* main_loop returns with the timer given back and no requester on the screen,
\* and never drops the timer under its request: it implements LoopPromise
\* (main.c 1247-1418, clock.c 131-178).
THEOREM LoopImplementsPromise == Spec => KeepsPromise
  <1>1. Init => Promise!Init
    BY StartsWithoutReport DEF Init, Promise!Init, NoClock
  <1>2. ASSUME Accounted, Accounted', [Next]_vars
        PROVE  [Promise!Next]_(Promise!promised)
    <2>1. CASE pc = "over"
      <3>1. clock.sent = "no"
        BY <1>2, <2>1 DEF Accounted, NoClock
      <3>3. ~Turn
        BY <2>1, Handled, Answered DEF Turn, Arm, Wake, Drained
      <3>2. Post \/ Break \/ UNCHANGED vars
        BY <1>2, <3>1, <3>3 DEF Next, Tick
      <3> QED BY <2>1, <3>2 DEF Post, Break, vars, Promise!promised
    <2>2. CASE pc # "over" /\ pc' # "over"
      BY <1>2, <2>2 DEF Accounted, Clocks, Promise!Next, Promise!Work
    <2>3. CASE pc # "over" /\ pc' = "over"
      <3>1. pc \in {"wait", "drain"}
        BY <1>2, <2>3, Handled, Answered
           DEF Next, Turn, Post, Break, Tick, Arm, Wake, Drained, vars
      <3>2. ~clock'.open /\ clock'.sent = "no"
        BY <1>2, <2>3 DEF Accounted, NoClock
      <3> QED BY <2>3, <3>1, <3>2 DEF Promise!Next, Promise!Leave
    <2> QED BY <2>1, <2>2, <2>3
  <1> QED BY <1>1, <1>2, AccountHolds, PTL
          DEF Spec, KeepsPromise, Promise!Spec

-----------------------------------------------------------------------------
(* The views.  What a handler does with the record is proved handler by    *)
(* handler: each keeps the positions inside their lists and leaves what    *)
(* UpdateButtons makes of the new state.                                   *)

ViewFields ==
  {"running", "view", "software", "scroll", "dragging", "hardware", "page",
   "valid", "rows", "caches", "measured", "region", "drive", "drivePage",
   "boardScroll", "board", "media", "report", "first", "buttons"}

\* What is so in every view.
Placed(u) ==
  /\ DOMAIN u = ViewFields
  /\ u.view \in Names
  /\ u.software \in DOMAIN SoftwareRows
  /\ u.scroll \in 0..LastScroll(u)
  /\ u.hardware \in {HardwareCycle[i] : i \in DOMAIN HardwareCycle}
  /\ u.page \in 0..(HardwarePages[u.hardware] - 1)
  /\ u.drivePage \in 0..LastDrivePage
  /\ u.boardScroll \in 0..LastBoardScroll
  /\ u.valid => u.rows = [type |-> u.rows.type, data |-> Data(u)]

\* What is so in the view that is shown, with the report it may have.
Reported(u) ==
  /\ u.view = "REPORT" <=> u.report # None
  /\ u.view = "REPORT" => u.report \in Nat /\ u.first \in 0..LastLine(u)

Chosen(u) ==
  /\ u.view = "MEMORY" => u.region \in 0..AtLeast(Regions - 1, 0)
  /\ u.view \in {"DRIVES", "SCSI"} =>
        u.drive \in IF Drives = <<>> THEN {0} ELSE DOMAIN Drives
  /\ u.view = "DETAILS" => u.board \in 0..(Boards - 1)

Current(u) ==
  /\ u.buttons = ButtonsOf(u)
  /\ u.view = "MAIN" => u.rows = Formatted(u)

Ranged(u) == Placed(u) /\ Reported(u) /\ Chosen(u)
Sound(u) == Ranged(u) /\ Current(u)

\* The buttons depend on these fields only.
LEMMA SameButtons ==
  ASSUME NEW u, NEW v, v.view = u.view, v.software = u.software,
         v.hardware = u.hardware, v.page = u.page, v.region = u.region,
         v.drive = u.drive, v.drivePage = u.drivePage, v.media = u.media,
         v.boardScroll = u.boardScroll, v.board = u.board,
         v.report = u.report, v.first = u.first
  PROVE  ButtonsOf(v) = ButtonsOf(u)
  <1>1. MainButtons(v) = MainButtons(u)
    BY DEF MainButtons, PanelScrolls, Rows, ShowsCaches, If
  <1>2. MemoryButtons(v) = MemoryButtons(u)
    BY DEF MemoryButtons, If
  <1>3. DriveButtons(v) = DriveButtons(u)
    BY DEF DriveButtons, Selected, If
  <1>4. BoardButtons(v) = BoardButtons(u)
    BY DEF BoardButtons, If
  <1>5. DetailButtons(v) = DetailButtons(u)
    BY DEF DetailButtons, If
  <1>6. ReportButtons(v) = ReportButtons(u)
    BY DEF ReportButtons, LastLine, If
  <1> QED BY <1>1, <1>2, <1>3, <1>4, <1>5, <1>6 DEF ButtonsOf

\* Setting the buttons moves nothing.
LEMMA ButtonsSet ==
  ASSUME NEW u, Placed(u), NEW set
  PROVE  LET v == [u EXCEPT !.buttons = set]
         IN  /\ Placed(v) /\ v.buttons = set /\ ButtonsOf(v) = ButtonsOf(u)
             /\ Reported(v) <=> Reported(u)
             /\ Chosen(v) <=> Chosen(u)
             /\ v.view = u.view /\ v.rows = u.rows
             /\ Formatted(v) = Formatted(u)
  <1> DEFINE v == [u EXCEPT !.buttons = set]
  <1>1. /\ DOMAIN v = ViewFields /\ v.buttons = set
        /\ \A f \in ViewFields \ {"buttons"} : v[f] = u[f]
    BY DEF Placed, ViewFields
  <1> HIDE DEF v
  <1>2. /\ v.view = u.view /\ v.software = u.software /\ v.scroll = u.scroll
        /\ v.hardware = u.hardware /\ v.page = u.page /\ v.valid = u.valid
        /\ v.rows = u.rows /\ v.caches = u.caches /\ v.measured = u.measured
        /\ v.region = u.region /\ v.drive = u.drive
        /\ v.drivePage = u.drivePage /\ v.boardScroll = u.boardScroll
        /\ v.board = u.board /\ v.media = u.media /\ v.report = u.report
        /\ v.first = u.first
    BY <1>1 DEF ViewFields
  <1>3. ButtonsOf(v) = ButtonsOf(u)
    BY <1>2, SameButtons
  <1>4. Placed(v)
    BY <1>1, <1>2 DEF Placed, LastScroll, Rows, Data
  <1>5. (Reported(v) <=> Reported(u)) /\ (Chosen(v) <=> Chosen(u))
    BY <1>2 DEF Reported, Chosen, LastLine
  <1>6. Formatted(v) = Formatted(u)
    BY <1>2 DEF Formatted, Data
  <1> QED BY <1>1, <1>2, <1>3, <1>4, <1>5, <1>6 DEF v

\* Formatting the rows keeps the sheet inside the page.
LEMMA RowsBuilt ==
  ASSUME NEW u, Placed(u)
  PROVE  LET v == BuildRows(u)
         IN  /\ Placed(v) /\ v.rows = Formatted(v) /\ v.view = u.view
             /\ Reported(v) <=> Reported(u)
             /\ Chosen(v) <=> Chosen(u)
  <1> DEFINE w == [u EXCEPT !.valid = TRUE, !.rows = Formatted(u),
                            !.page = AtMost(u.page, HardwarePages[u.hardware] - 1)]
  <1>1. CASE u.valid /\ u.rows.type = u.hardware /\ u.hardware # "CLOCK"
    <2>1. BuildRows(u) = u
      BY <1>1 DEF BuildRows
    <2>2. u.rows = Formatted(u)
      BY <1>1 DEF Placed, Formatted
    <2> QED BY <2>1, <2>2
  <1>2. CASE ~(u.valid /\ u.rows.type = u.hardware /\ u.hardware # "CLOCK")
    <2>1. BuildRows(u) = w
      BY <1>2 DEF BuildRows
    <2>2. HardwarePages[u.hardware] \in Nat \ {0}
      BY ViewsAssumption DEF Placed
    <2>3. AtMost(u.page, HardwarePages[u.hardware] - 1) = u.page
      BY <2>2 DEF AtMost, Placed
    <2>4. DOMAIN w = ViewFields /\ w.rows = Formatted(u) /\ w.page = u.page
      BY <2>3 DEF Placed, ViewFields
    <2>5. \A f \in ViewFields \ {"valid", "rows", "page"} : w[f] = u[f]
      BY DEF Placed, ViewFields
    <2> HIDE DEF w
    <2>6. /\ w.view = u.view /\ w.software = u.software /\ w.scroll = u.scroll
          /\ w.hardware = u.hardware
          /\ w.caches = u.caches /\ w.measured = u.measured
          /\ w.region = u.region /\ w.drive = u.drive
          /\ w.drivePage = u.drivePage /\ w.boardScroll = u.boardScroll
          /\ w.board = u.board /\ w.report = u.report /\ w.first = u.first
      BY <2>5 DEF ViewFields
    <2>7. Formatted(w) = Formatted(u)
      BY <2>6 DEF Formatted, Data
    <2>8. w.rows = [type |-> w.rows.type, data |-> Data(w)]
      BY <2>4, <2>7 DEF Formatted
    <2>9. Placed(w)
      BY <2>4, <2>6, <2>8 DEF Placed, LastScroll, Rows
    <2>10. (Reported(w) <=> Reported(u)) /\ (Chosen(w) <=> Chosen(u))
      BY <2>6 DEF Reported, Chosen, LastLine
    <2> QED BY <2>1, <2>4, <2>6, <2>7, <2>9, <2>10
  <1> QED BY <1>1, <1>2

LEMMA LastOnes ==
  /\ LastDrivePage \in Nat /\ LastBoardScroll \in Nat
  /\ \A u : LastLine(u) = AtLeast(u.report - Visible, 0)
  /\ Boards > 0 => LastBoardScroll <= Boards - 1
  <1>1. LastBoardScroll \in Nat /\ (Boards > 0 => LastBoardScroll <= Boards - 1)
    BY ViewsAssumption DEF LastBoardScroll, AtLeast
  <1>2. LastDrivePage \in Nat
    <2>1. DrivesPerPage \in Nat \ {0} /\ Len(Drives) \in Nat
      BY ViewsAssumption
    <2>2. Drives # <<>> => Len(Drives) - 1 \in Nat
      BY ViewsAssumption
    <2> HIDE ViewsAssumption
    <2> QED BY <2>1, <2>2 DEF LastDrivePage
  <1> QED BY <1>1, <1>2 DEF LastLine

\* update_button_states leaves the buttons of the state, and moves no position
\* out of its list.
LEMMA ButtonsUpdated ==
  ASSUME NEW u, Placed(u)
  PROVE  LET v == UpdateButtons(u)
         IN  /\ Placed(v) /\ Current(v) /\ v.view = u.view
             /\ Reported(v) <=> Reported(u)
             /\ Chosen(v) <=> Chosen(u)
  <1> DEFINE w == [u EXCEPT !.drivePage = AtMost(u.drivePage, LastDrivePage)]
             b == IF u.view = "MAIN" THEN BuildRows(u)
                  ELSE IF u.view = "DRIVES" THEN w ELSE u
  <1>1. UpdateButtons(u) = [b EXCEPT !.buttons = ButtonsOf(b)]
    BY DEF UpdateButtons
  <1>2. /\ Placed(b) /\ b.view = u.view
        /\ (Reported(b) <=> Reported(u)) /\ (Chosen(b) <=> Chosen(u))
        /\ b.view = "MAIN" => b.rows = Formatted(b)
    <2>1. CASE u.view = "MAIN"
      BY <2>1, RowsBuilt
    <2>2. CASE u.view = "DRIVES"
      <3>1. w.drivePage \in 0..LastDrivePage
        BY LastOnes DEF Placed, AtMost, ViewFields
      <3>2. DOMAIN w = ViewFields
            /\ \A f \in ViewFields \ {"drivePage"} : w[f] = u[f]
        BY DEF Placed, ViewFields
      <3> HIDE DEF w
      <3>3. /\ w.view = u.view /\ w.software = u.software /\ w.scroll = u.scroll
            /\ w.hardware = u.hardware /\ w.page = u.page /\ w.valid = u.valid
            /\ w.rows = u.rows /\ w.caches = u.caches /\ w.measured = u.measured
            /\ w.region = u.region /\ w.drive = u.drive
            /\ w.boardScroll = u.boardScroll
            /\ w.board = u.board /\ w.report = u.report /\ w.first = u.first
        BY <3>2 DEF ViewFields
      <3>4. Placed(w)
        BY <3>1, <3>2, <3>3 DEF Placed, LastScroll, Rows, Data
      <3>5. (Reported(w) <=> Reported(u)) /\ (Chosen(w) <=> Chosen(u))
        BY <3>3 DEF Reported, Chosen, LastLine
      <3> QED BY <2>2, <3>3, <3>4, <3>5
    <2>3. CASE u.view # "MAIN" /\ u.view # "DRIVES"
      BY <2>3
    <2> QED BY <2>1, <2>2, <2>3
  <1> HIDE DEF b
  <1> QED BY <1>1, <1>2, ButtonsSet DEF Current

\* Drawing the board list does not move it.
LEMMA Redrawn ==
  ASSUME NEW u, Ranged(u)
  PROVE  Sound(Redraw(u)) /\ Redraw(u).view = u.view
  <1> DEFINE v == UpdateButtons(u)
             w == [v EXCEPT !.boardScroll = AtMost(u.boardScroll, LastBoardScroll)]
  <1>1. Sound(v) /\ v.view = u.view /\ v.boardScroll = u.boardScroll
    <2>1. v.boardScroll = u.boardScroll
      BY DEF UpdateButtons, BuildRows, Ranged, Placed, ViewFields
    <2> QED BY <2>1, ButtonsUpdated DEF Sound, Ranged
  <1>2. AtMost(u.boardScroll, LastBoardScroll) = u.boardScroll
    BY LastOnes DEF Ranged, Placed, AtMost
  <1> HIDE DEF v
  <1>3. /\ DOMAIN w = ViewFields /\ w.boardScroll = v.boardScroll
        /\ \A f \in ViewFields \ {"boardScroll"} : w[f] = v[f]
    BY <1>1, <1>2 DEF Sound, Ranged, Placed, ViewFields
  <1>4. Redraw(u) = IF u.view = "BOARDS" THEN w ELSE v
    BY DEF Redraw, v
  <1> HIDE DEF w
  <1>5. Ranged(w) /\ w.view = v.view
    BY <1>1, <1>3 DEF Sound, Ranged, Placed, Reported, Chosen, ViewFields,
       LastScroll, Rows, Data, LastLine
  <1>6. ButtonsOf(w) = ButtonsOf(v)
    BY <1>3, SameButtons DEF ViewFields
  <1>7. Current(w)
    BY <1>1, <1>3, <1>6 DEF Sound, Current, Formatted, Data, ViewFields
  <1> QED BY <1>1, <1>4, <1>5, <1>7 DEF Sound

\* A switch may go to any view whose report, drive or board there is.
LEMMA Switched ==
  ASSUME NEW u, Placed(u), NEW view \in Names,
         IF view = "REPORT" THEN u.report \in Nat /\ u.first \in 0..LastLine(u)
                            ELSE u.view = "REPORT" \/ u.report = None,
         view = "SCSI" => Selected(u),
         view = "DETAILS" => u.board \in 0..(Boards - 1)
  PROVE  Sound(SwitchToView(u, view))
  <1> DEFINE v == LeaveView(u, view)
             w == [v EXCEPT
                    !.view = view,
                    !.dragging = FALSE,
                    !.region = IF view = "MEMORY" THEN 0 ELSE @,
                    !.drive = IF view = "DRIVES" THEN DriveToShow(u) ELSE @,
                    !.boardScroll = IF view = "BOARDS" /\ u.view # "DETAILS"
                                    THEN 0 ELSE @]
  <1>1. /\ DOMAIN v = ViewFields
        /\ \A f \in ViewFields \ {"report"} : v[f] = u[f]
        /\ IF view = "REPORT" THEN v.report = u.report ELSE v.report = None
    BY DEF LeaveView, CloseReport, Placed, ViewFields
  <1> HIDE DEF v
  <1>2. /\ DOMAIN w = ViewFields /\ w.view = view
        /\ \A f \in ViewFields \ {"view", "dragging", "region", "drive",
                                  "boardScroll"} : w[f] = v[f]
        /\ w.region = IF view = "MEMORY" THEN 0 ELSE v.region
        /\ w.drive = IF view = "DRIVES" THEN DriveToShow(u) ELSE v.drive
        /\ w.boardScroll \in {0, v.boardScroll}
    BY <1>1 DEF ViewFields
  <1> HIDE DEF w
  <1>3. /\ w.software = u.software /\ w.scroll = u.scroll
        /\ w.hardware = u.hardware /\ w.page = u.page /\ w.valid = u.valid
        /\ w.rows = u.rows /\ w.caches = u.caches /\ w.measured = u.measured
        /\ w.drivePage = u.drivePage /\ w.board = u.board
        /\ w.first = u.first /\ w.boardScroll \in {0, u.boardScroll}
        /\ IF view = "REPORT" THEN w.report = u.report ELSE w.report = None
    BY <1>1, <1>2 DEF ViewFields
  <1>4. Placed(w)
    BY <1>2, <1>3, LastOnes DEF Placed, LastScroll, Rows, Data
  <1>5. Reported(w)
    BY <1>2, <1>3, ViewsAssumption DEF Reported, LastLine
  <1>6. view = "DRIVES" => w.drive \in IF Drives = <<>> THEN {0} ELSE DOMAIN Drives
    <2>1. Drives # <<>> => 1 \in DOMAIN Drives
      BY ViewsAssumption
    <2> QED BY <1>2, <2>1 DEF DriveToShow, Selected
  <1>7. view = "SCSI" => w.drive \in DOMAIN Drives /\ Drives # <<>>
    BY <1>1, <1>2 DEF Selected, ViewFields
  <1>8. view = "MEMORY" => w.region \in 0..AtLeast(Regions - 1, 0)
    BY <1>2, ViewsAssumption DEF AtLeast
  <1>9. Chosen(w)
    BY <1>2, <1>3, <1>6, <1>7, <1>8 DEF Chosen
  <1>10. SwitchToView(u, view) = Redraw(w)
    BY DEF SwitchToView, w, v
  <1> QED BY <1>4, <1>5, <1>9, <1>10, Redrawn DEF Ranged

LEMMA MainShown ==
  ASSUME NEW u, Ranged(u), NEW view \in {"MAIN", "MEMORY", "DRIVES", "BOARDS"}
  PROVE  Sound(SwitchToView(u, view))
  BY Switched DEF Ranged, Reported, Names

LEMMA UpdateSound ==
  ASSUME NEW u, Ranged(u)
  PROVE  Sound(UpdateButtons(u))
  BY ButtonsUpdated DEF Sound, Ranged

\* A page of the hardware panel, from the old record with the cache settings
\* or the measurements that go into its rows.
LEMMA HardwareUpdated ==
  ASSUME NEW u, Ranged(u), NEW v, DOMAIN v = ViewFields,
         \A f \in ViewFields \ {"hardware", "page", "caches", "measured"} :
            v[f] = u[f],
         v.hardware \in {HardwareCycle[i] : i \in DOMAIN HardwareCycle},
         v.page \in 0..(HardwarePages[v.hardware] - 1)
  PROVE  Sound(UpdateHardware(v))
  <1> DEFINE w == Invalidate(v)
  <1>1. /\ DOMAIN w = ViewFields /\ w.valid = FALSE
        /\ w.hardware = v.hardware /\ w.page = v.page
        /\ \A f \in ViewFields \ {"hardware", "page", "caches", "measured",
                                  "valid"} : w[f] = u[f]
    BY DEF Invalidate, ViewFields
  <1> HIDE DEF w
  <1>2. Ranged(w)
    BY <1>1 DEF Ranged, Placed, Reported, Chosen, ViewFields, LastScroll, Rows,
       LastLine
  <1> QED BY <1>2, UpdateSound DEF UpdateHardware, w

\* The list that follows is a page of the cycle again.
LEMMA NextInCycle ==
  ASSUME NEW u, Placed(u)
  PROVE  NextHardware(u) \in {HardwareCycle[i] : i \in DOMAIN HardwareCycle}
  <1> DEFINE n == Len(HardwareCycle)
             i == CHOOSE j \in 1..n : HardwareCycle[j] = u.hardware
  <1>1. n \in Nat /\ DOMAIN HardwareCycle = 1..n
    BY ViewsAssumption
  <1>2. i \in 1..n
    BY <1>1 DEF Placed
  <1>3. (i % n) + 1 \in 1..n
    <2> HIDE DEF i, n
    <2> QED BY <1>1, <1>2
  <1>4. "CLOCK" \in {HardwareCycle[k] : k \in DOMAIN HardwareCycle}
    BY ViewsAssumption
  <1>5. HardwareCycle[(i % n) + 1] \in
          {HardwareCycle[k] : k \in DOMAIN HardwareCycle}
    <2> HIDE DEF i, n
    <2> QED BY <1>1, <1>3
  <1> QED BY <1>4, <1>5 DEF NextHardware

\* Scrolling sets the controls of the list and leaves the other buttons.
LEMMA SoftwareUpdated ==
  ASSUME NEW u, Sound(u), u.view = "MAIN", NEW v, DOMAIN v = ViewFields,
         \A f \in ViewFields \ {"software", "scroll", "dragging"} : v[f] = u[f],
         v.software \in DOMAIN SoftwareRows, v.scroll \in 0..LastScroll(v)
  PROVE  Sound(UpdateSoftware(v))
  <1> DEFINE Three == {"SOFTWARE_UP", "SOFTWARE_DOWN", "SOFTWARE_SCROLLBAR"}
             set == (v.buttons \ Three) \cup (MainButtons(v) \cap Three)
  <1>1. Ranged(v) /\ v.view = "MAIN" /\ v.rows = Formatted(v)
        /\ v.buttons = MainButtons(u)
    BY DEF Sound, Current, ButtonsOf, Formatted, Ranged, Placed, Reported,
       Chosen, ViewFields, Rows, Data, LastLine
  <1>2. /\ v.hardware = u.hardware /\ v.page = u.page
    BY DEF ViewFields
  <1>3. set = MainButtons(v)
    <2>1. MainButtons(v) \ Three = MainButtons(u) \ Three
      BY <1>2 DEF MainButtons, ShowsCaches, If
    <2> QED BY <1>1, <2>1
  <1>4. UpdateSoftware(v) = [v EXCEPT !.buttons = set]
    BY DEF UpdateSoftware
  <1> HIDE DEF set
  <1>5. ButtonsOf(v) = set
    BY <1>1, <1>3 DEF ButtonsOf
  <1> QED BY <1>1, <1>4, <1>5, ButtonsSet DEF Sound, Current, Ranged

LEMMA Opened ==
  ASSUME NEW u, Sound(u), u.view # "REPORT", NEW lines \in Nat
  PROVE  Sound(OpenReport(u, lines))
  <1>1. CASE lines = 0
    <2>1. u.report = None
      BY DEF Sound, Ranged, Reported
    <2>2. \A f \in ViewFields : CloseReport(u)[f] = u[f]
      BY <2>1 DEF CloseReport, Sound, Ranged, Placed, ViewFields
    <2>3. DOMAIN CloseReport(u) = ViewFields
      BY DEF CloseReport, Sound, Ranged, Placed
    <2> DEFINE v == CloseReport(u)
    <2> HIDE DEF v
    <2>4. Ranged(v) /\ v.buttons = u.buttons
          /\ (v.view = "MAIN" => v.rows = Formatted(v))
      BY <2>2, <2>3 DEF v, Sound, Current, Ranged, Placed, Reported, Chosen,
         ViewFields, LastScroll, Rows, Data, LastLine, Formatted
    <2>5. ButtonsOf(v) = ButtonsOf(u)
      BY <2>2, SameButtons DEF v, ViewFields
    <2> QED BY <1>1, <2>4, <2>5 DEF OpenReport, v, Sound, Current
  <1>2. CASE lines # 0
    <2> DEFINE v == [u EXCEPT !.report = lines, !.first = 0]
    <2>1. Placed(v) /\ v.report = lines /\ v.first = 0
      BY DEF Sound, Ranged, Placed, ViewFields, LastScroll, Rows, Data
    <2>2. 0 \in 0..LastLine(v)
      BY <2>1, ViewsAssumption DEF LastLine, AtLeast
    <2> HIDE DEF v
    <2>3. Sound(SwitchToView(v, "REPORT"))
      BY <2>1, <2>2, Switched DEF Names
    <2> QED BY <1>2, <2>3 DEF OpenReport, v
  <1> QED BY <1>1, <1>2

LEMMA Scrolled ==
  ASSUME NEW u, Sound(u), u.view = "MAIN", NEW n \in 0..LastScroll(u)
  PROVE  Sound(Scroll(u, n))
  <1> DEFINE v == [u EXCEPT !.scroll = n]
  <1>1. /\ DOMAIN v = ViewFields /\ v.scroll = n
        /\ \A f \in ViewFields \ {"scroll"} : v[f] = u[f]
    BY DEF ViewFields, Sound, Ranged, Placed
  <1> HIDE DEF v
  <1>2. /\ \A f \in ViewFields \ {"software", "scroll", "dragging"} : v[f] = u[f]
        /\ v.software = u.software
    BY <1>1 DEF ViewFields
  <1>3. v.scroll \in 0..LastScroll(v) /\ v.software \in DOMAIN SoftwareRows
    BY <1>1, <1>2 DEF LastScroll, Rows, Sound, Ranged, Placed
  <1>4. Sound(UpdateSoftware(v))
    BY <1>1, <1>2, <1>3, SoftwareUpdated
  <1> QED BY <1>4 DEF Scroll, v

LEMMA Sizes ==
  /\ Len(SoftwareRows) \in Nat \ {0} /\ DOMAIN SoftwareRows = 1..Len(SoftwareRows)
  /\ \A i \in DOMAIN SoftwareRows : SoftwareRows[i] \in Nat
  /\ ListLines \in Nat \ {0} /\ Visible \in Nat \ {0}
  BY ViewsAssumption

\* The buttons of the main view.
LEMMA MainHandled ==
  ASSUME NEW u, Sound(u), u.view = "MAIN", NEW b, NEW x, x.lines \in Nat
  PROVE  Sound(MainButton(u, b, x))
  <1> USE DEF Sound, MainButton
  <1>0. /\ Ranged(u) /\ DOMAIN u = ViewFields
        /\ HardwarePages[u.hardware] \in Nat \ {0}
    BY ViewsAssumption DEF Ranged, Placed
  <1>s. /\ Len(SoftwareRows) \in Nat \ {0}
        /\ DOMAIN SoftwareRows = 1..Len(SoftwareRows)
        /\ \A i \in DOMAIN SoftwareRows : SoftwareRows[i] \in Nat
        /\ ListLines \in Nat \ {0}
    BY Sizes
  <1>1. CASE b = "QUIT"
    <2>1. Sound([u EXCEPT !.running = FALSE])
      <3>1. ButtonsOf([u EXCEPT !.running = FALSE]) = ButtonsOf(u)
        BY <1>0, SameButtons DEF ViewFields
      <3> QED BY <3>1 DEF Sound, Current, Ranged, Placed, Reported, Chosen,
              ViewFields, LastScroll, Rows, Data, LastLine, Formatted
    <2> QED BY <1>1, <2>1
  <1>2. CASE b \in {"MEMORY", "DRIVES", "BOARDS"}
    BY <1>0, <1>2, MainShown
  <1>3. CASE b = "SPEED"
    <2>1. Sound(UpdateHardware([u EXCEPT !.measured = TRUE]))
      BY <1>0, HardwareUpdated DEF Ranged, Placed, ViewFields
    <2> QED BY <1>3, <2>1
  <1>4. CASE b = "REPORT"
    BY <1>4, Opened
  <1>5. CASE b = "SOFTWARE_CYCLE"
    <2> DEFINE v == [u EXCEPT !.software = (u.software % Len(SoftwareRows)) + 1,
                              !.scroll = 0, !.dragging = FALSE]
               n == Len(SoftwareRows)
    <2>1. (u.software % n) + 1 \in 1..n
      <3>1. n \in Nat \ {0} /\ u.software \in 1..n
        BY <1>0, <1>s DEF Ranged, Placed
      <3> HIDE DEF n
      <3> QED BY <3>1
    <2>2. /\ DOMAIN v = ViewFields
          /\ v.software = (u.software % n) + 1 /\ v.scroll = 0
          /\ \A f \in ViewFields \ {"software", "scroll", "dragging"} : v[f] = u[f]
      BY <1>0 DEF ViewFields
    <2>3. UpdateSoftware(v) = CycleSoftware(u)
      BY DEF CycleSoftware
    <2> HIDE DEF v
    <2>4. v.scroll \in 0..LastScroll(v)
      <3>1. v.software \in DOMAIN SoftwareRows
        BY <1>s, <2>1, <2>2
      <3>2. Rows(v) \in Nat
        BY <1>0, <1>s, <3>1 DEF Rows
      <3> QED BY <1>0, <1>s, <2>2, <3>2 DEF LastScroll, AtLeast
    <2>5. Sound(UpdateSoftware(v))
      BY <1>s, <2>1, <2>2, <2>4, SoftwareUpdated
    <2> QED BY <1>5, <2>3, <2>5
  <1>7. Rows(u) \in Nat /\ u.scroll \in 0..LastScroll(u)
    BY <1>0, <1>s DEF Rows, Ranged, Placed
  <1>8. CASE b = "SOFTWARE_UP"
    <2>1. u.scroll > 0 => u.scroll - 1 \in 0..LastScroll(u)
      BY <1>0, <1>s, <1>7 DEF LastScroll, AtLeast
    <2> QED BY <1>8, <2>1, Scrolled
  <1>9. CASE b = "SOFTWARE_DOWN"
    <2>1. u.scroll < Rows(u) - ListLines => u.scroll + 1 \in 0..LastScroll(u)
      BY <1>0, <1>s, <1>7 DEF LastScroll, AtLeast
    <2> QED BY <1>9, <2>1, Scrolled
  <1>10. u.page \in 0..(HardwarePages[u.hardware] - 1)
    BY DEF Ranged, Placed
  <1>11. ASSUME NEW n \in 0..(HardwarePages[u.hardware] - 1)
         PROVE  Sound(UpdateHardware([u EXCEPT !.page = n]))
    <2> DEFINE v == [u EXCEPT !.page = n]
    <2>1. /\ DOMAIN v = ViewFields /\ v.page = n
          /\ \A f \in ViewFields \ {"page"} : v[f] = u[f]
      BY <1>0 DEF ViewFields
    <2> HIDE DEF v
    <2>2. v.hardware = u.hardware
      BY <2>1 DEF ViewFields
    <2>3. Sound(UpdateHardware(v))
      BY <1>0, <2>1, <2>2, HardwareUpdated DEF Ranged, Placed
    <2> QED BY <2>3 DEF v
  <1>12. CASE b = "HARDWARE_PREV"
    <2>1. AtLeast(u.page - 1, 0) \in 0..(HardwarePages[u.hardware] - 1)
      BY <1>0, <1>s, <1>10 DEF AtLeast
    <2>2. [u EXCEPT !.page = AtLeast(@ - 1, 0)]
            = [u EXCEPT !.page = AtLeast(u.page - 1, 0)]
      BY <1>0 DEF ViewFields
    <2> QED BY <1>11, <1>12, <2>1, <2>2
  <1>13. CASE b = "HARDWARE_NEXT"
    <2>1. AtMost(u.page + 1, HardwarePages[u.hardware] - 1)
            \in 0..(HardwarePages[u.hardware] - 1)
      BY <1>0, <1>10 DEF AtMost
    <2>2. [u EXCEPT !.page = AtMost(@ + 1, HardwarePages[u.hardware] - 1)]
            = [u EXCEPT !.page = AtMost(u.page + 1, HardwarePages[u.hardware] - 1)]
      BY <1>0 DEF ViewFields
    <2> QED BY <1>11, <1>13, <2>1, <2>2
  <1>14. CASE b = "HARDWARE_CYCLE"
    <2> DEFINE v == [u EXCEPT !.page = 0, !.hardware = NextHardware(u)]
    <2>1. /\ DOMAIN v = ViewFields /\ v.page = 0 /\ v.hardware = NextHardware(u)
          /\ \A f \in ViewFields \ {"hardware", "page"} : v[f] = u[f]
      BY <1>0 DEF ViewFields
    <2>2. NextHardware(u) \in {HardwareCycle[i] : i \in DOMAIN HardwareCycle}
      BY NextInCycle DEF Ranged
    <2>3. 0 \in 0..(HardwarePages[NextHardware(u)] - 1)
      BY <2>2, ViewsAssumption
    <2> HIDE DEF v
    <2>4. Sound(UpdateHardware(v))
      BY <1>0, <2>1, <2>2, <2>3, HardwareUpdated
    <2> QED BY <1>14, <2>4 DEF v
  <1>15. CASE b = "CACHE"
    <2> DEFINE v == [u EXCEPT !.caches = ~@]
    <2>1. /\ DOMAIN v = ViewFields
          /\ \A f \in ViewFields \ {"caches"} : v[f] = u[f]
      BY <1>0 DEF ViewFields
    <2> HIDE DEF v
    <2>2. v.hardware = u.hardware /\ v.page = u.page
      BY <2>1 DEF ViewFields
    <2>3. Sound(UpdateHardware(v))
      BY <1>0, <2>1, <2>2, HardwareUpdated DEF Ranged, Placed
    <2> QED BY <1>15, <2>3 DEF v
  <1>16. CASE b \notin {"QUIT", "MEMORY", "DRIVES", "BOARDS", "SPEED", "REPORT",
                        "SOFTWARE_CYCLE", "SOFTWARE_UP", "SOFTWARE_DOWN",
                        "HARDWARE_PREV", "HARDWARE_NEXT", "HARDWARE_CYCLE",
                        "CACHE"}
    BY <1>16
  <1> QED BY <1>1, <1>2, <1>3, <1>4, <1>5, <1>8, <1>9, <1>12, <1>13, <1>14,
             <1>15, <1>16

LEMMA MemoryHandled ==
  ASSUME NEW u, Sound(u), u.view = "MEMORY", NEW b
  PROVE  Sound(MemoryButton(u, b))
  <1>0. Ranged(u) /\ DOMAIN u = ViewFields /\ Regions \in Nat
        /\ u.region \in 0..AtLeast(Regions - 1, 0)
    BY ViewsAssumption DEF Sound, Ranged, Placed, Chosen
  <1>1. ASSUME NEW n \in 0..AtLeast(Regions - 1, 0)
        PROVE  Sound(UpdateButtons([u EXCEPT !.region = n]))
    <2>1. Ranged([u EXCEPT !.region = n])
      BY <1>0 DEF Ranged, Placed, Reported, Chosen, ViewFields, LastScroll, Rows,
         Data, LastLine
    <2> QED BY <2>1, UpdateSound
  <1>2. CASE b = "MEM_PREV" /\ u.region > 0
    <2>1. u.region - 1 \in 0..AtLeast(Regions - 1, 0)
      BY <1>0, <1>2 DEF AtLeast
    <2>2. [u EXCEPT !.region = @ - 1] = [u EXCEPT !.region = u.region - 1]
      BY <1>0 DEF ViewFields
    <2> QED BY <1>1, <1>2, <2>1, <2>2 DEF MemoryButton
  <1>3. CASE b = "MEM_NEXT" /\ u.region < Regions - 1
    <2>1. u.region + 1 \in 0..AtLeast(Regions - 1, 0)
      BY <1>0, <1>3 DEF AtLeast
    <2>2. [u EXCEPT !.region = @ + 1] = [u EXCEPT !.region = u.region + 1]
      BY <1>0 DEF ViewFields
    <2> QED BY <1>1, <1>3, <2>1, <2>2 DEF MemoryButton
  <1>4. CASE b = "MEM_EXIT"
    BY <1>0, <1>4, MainShown DEF MemoryButton
  <1> QED BY <1>2, <1>3, <1>4 DEF MemoryButton

\* Where another page begins before the end of the list, there is one.
LEMMA NextPage ==
  ASSUME NEW p \in Nat, (p + 1) * DrivesPerPage < Len(Drives)
  PROVE  p + 1 \in 0..LastDrivePage
  <1> DEFINE len == Len(Drives)
             k == DrivesPerPage
             d == (len - 1) \div k
             r == (len - 1) % k
  <1>1. len \in Nat /\ k \in Nat \ {0} /\ (Drives = <<>> => len = 0)
    BY ViewsAssumption
  <1>2. (p + 1) * k \in Nat /\ (p + 1) * k < len
    BY <1>1
  <1>3. len - 1 \in Nat /\ Drives # <<>>
    BY <1>1, <1>2
  <1> HIDE DEF len, k
  <1>4. d \in Nat /\ r \in Nat /\ r < k /\ len - 1 = k * d + r
    BY <1>1, <1>3
  <1> HIDE DEF d, r
  <1>5. p + 1 <= d
    <2> SUFFICES ASSUME d + 1 <= p + 1 PROVE FALSE
      BY <1>4
    <2> DEFINE e == p - d
    <2>1. e \in Nat /\ p + 1 = d + e + 1
      BY <1>4
    <2> HIDE DEF e
    <2>2. (p + 1) * k = k * d + k * e + k /\ k * e \in Nat /\ k * d \in Nat
      BY <1>1, <1>4, <2>1
    <2> QED BY <1>1, <1>2, <1>4, <2>2
  <1> QED BY <1>3, <1>4, <1>5 DEF LastDrivePage, d, len, k

LEMMA DriveHandled ==
  ASSUME NEW u, Sound(u), u.view = "DRIVES", NEW b, NEW x
  PROVE  Sound(DriveButton(u, b, x))
  <1>0. Ranged(u) /\ DOMAIN u = ViewFields /\ LastDrivePage \in Nat
        /\ u.drivePage \in 0..LastDrivePage
    BY LastOnes DEF Sound, Ranged, Placed
  <1>1. ASSUME NEW n \in 0..LastDrivePage
        PROVE  Sound(UpdateButtons([u EXCEPT !.drivePage = n]))
    <2>1. Ranged([u EXCEPT !.drivePage = n])
      BY <1>0 DEF Ranged, Placed, Reported, Chosen, ViewFields, LastScroll, Rows,
         Data, LastLine
    <2> QED BY <2>1, UpdateSound
  <1>2. Sound(SwitchToView(u, "MAIN"))
    BY <1>0, MainShown
  <1>3. Selected(u) => Sound(SwitchToView(u, "SCSI"))
    BY <1>0, Switched DEF Ranged, Reported, Names
  <1>4. u.drivePage > 0 => Sound(UpdateButtons([u EXCEPT !.drivePage = @ - 1]))
    <2>1. u.drivePage > 0 => u.drivePage - 1 \in 0..LastDrivePage
      BY <1>0
    <2>2. [u EXCEPT !.drivePage = @ - 1] = [u EXCEPT !.drivePage = u.drivePage - 1]
      BY <1>0 DEF ViewFields
    <2> QED BY <1>1, <2>1, <2>2
  <1>5. (u.drivePage + 1) * DrivesPerPage < Len(Drives) =>
           Sound(UpdateButtons([u EXCEPT !.drivePage = @ + 1]))
    <2>1. (u.drivePage + 1) * DrivesPerPage < Len(Drives) =>
             u.drivePage + 1 \in 0..LastDrivePage
      BY <1>0, NextPage
    <2>2. [u EXCEPT !.drivePage = @ + 1] = [u EXCEPT !.drivePage = u.drivePage + 1]
      BY <1>0 DEF ViewFields
    <2> QED BY <1>1, <2>1, <2>2
  <1>6. ASSUME \E i \in DOMAIN Drives : Drives[i].name = b
        PROVE  Sound(SelectDrive(u, b, x))
    <2> DEFINE i == CHOOSE j \in DOMAIN Drives : Drives[j].name = b
               v == [u EXCEPT !.drive = i,
                              !.media[i] = Drives[i].device /\ x.media]
    <2>1. i \in DOMAIN Drives /\ Drives # <<>>
      BY <1>6
    <2> HIDE DEF i
    <2>2. /\ DOMAIN v = ViewFields /\ v.drive = i
          /\ \A f \in ViewFields \ {"drive", "media"} : v[f] = u[f]
      BY <1>0 DEF ViewFields
    <2>3. SelectDrive(u, b, x) = UpdateButtons(v)
      BY DEF SelectDrive, i
    <2> HIDE DEF v
    <2>4. Ranged(v)
      BY <1>0, <2>1, <2>2 DEF Ranged, Placed, Reported, Chosen, ViewFields,
         LastScroll, Rows, Data, LastLine
    <2> QED BY <2>3, <2>4, UpdateSound
  <1> QED BY <1>2, <1>3, <1>4, <1>5, <1>6 DEF DriveButton

LEMMA BoardHandled ==
  ASSUME NEW u, Sound(u), u.view = "BOARDS", NEW b
  PROVE  Sound(BoardButton(u, b))
  <1>0. Ranged(u) /\ DOMAIN u = ViewFields /\ LastBoardScroll \in Nat
        /\ u.boardScroll \in 0..LastBoardScroll
    BY LastOnes DEF Sound, Ranged, Placed
  <1>1. ASSUME NEW n \in 0..LastBoardScroll
        PROVE  Sound(UpdateButtons([u EXCEPT !.boardScroll = n]))
    <2>1. Ranged([u EXCEPT !.boardScroll = n])
      BY <1>0 DEF Ranged, Placed, Reported, Chosen, ViewFields, LastScroll, Rows,
         Data, LastLine
    <2> QED BY <2>1, UpdateSound
  <1>2. CASE b = "BOARD_PREV" /\ u.boardScroll > 0
    <2>1. [u EXCEPT !.boardScroll = @ - 1]
            = [u EXCEPT !.boardScroll = u.boardScroll - 1]
      BY <1>0 DEF ViewFields
    <2> QED BY <1>0, <1>1, <1>2, <2>1 DEF BoardButton
  <1>3. CASE b = "BOARD_NEXT" /\ u.boardScroll < LastBoardScroll
    <2>1. [u EXCEPT !.boardScroll = @ + 1]
            = [u EXCEPT !.boardScroll = u.boardScroll + 1]
      BY <1>0 DEF ViewFields
    <2> QED BY <1>0, <1>1, <1>3, <2>1 DEF BoardButton
  <1>4. CASE b = "BOARD_DETAILS" /\ Boards > 0
    <2> DEFINE v == [u EXCEPT !.board = u.boardScroll]
    <2>1. v.board \in 0..(Boards - 1)
      BY <1>0, <1>4, LastOnes, ViewsAssumption DEF ViewFields
    <2>2. /\ DOMAIN v = ViewFields
          /\ \A f \in ViewFields \ {"board"} : v[f] = u[f]
      BY <1>0 DEF ViewFields
    <2> HIDE DEF v
    <2>3. Placed(v) /\ v.report = None
      BY <1>0, <2>2 DEF Ranged, Placed, Reported, ViewFields, LastScroll, Rows, Data
    <2>4. Sound(SwitchToView(v, "DETAILS"))
      BY <2>1, <2>3, Switched DEF Names
    <2> QED BY <1>4, <2>4 DEF BoardButton, v
  <1>5. CASE b = "BOARD_EXIT"
    BY <1>0, <1>5, MainShown DEF BoardButton
  <1> QED BY <1>2, <1>3, <1>4, <1>5 DEF BoardButton

LEMMA DetailHandled ==
  ASSUME NEW u, Sound(u), u.view = "DETAILS", NEW b
  PROVE  Sound(DetailButton(u, b))
  <1>0. Ranged(u) /\ DOMAIN u = ViewFields /\ Boards \in Nat
        /\ u.board \in 0..(Boards - 1)
    BY ViewsAssumption DEF Sound, Ranged, Placed, Chosen
  <1>1. ASSUME NEW n \in 0..(Boards - 1)
        PROVE  Sound(UpdateButtons([u EXCEPT !.board = n]))
    <2>1. Ranged([u EXCEPT !.board = n])
      BY <1>0 DEF Ranged, Placed, Reported, Chosen, ViewFields, LastScroll, Rows,
         Data, LastLine
    <2> QED BY <2>1, UpdateSound
  <1>2. CASE b = "DETAIL_PREV" /\ u.board > 0
    <2>1. [u EXCEPT !.board = @ - 1] = [u EXCEPT !.board = u.board - 1]
      BY <1>0 DEF ViewFields
    <2> QED BY <1>0, <1>1, <1>2, <2>1 DEF DetailButton
  <1>3. CASE b = "DETAIL_NEXT" /\ u.board + 1 < Boards
    <2>1. [u EXCEPT !.board = @ + 1] = [u EXCEPT !.board = u.board + 1]
      BY <1>0 DEF ViewFields
    <2> QED BY <1>0, <1>1, <1>3, <2>1 DEF DetailButton
  <1>4. CASE b = "DETAIL_BACK"
    BY <1>0, <1>4, MainShown DEF DetailButton
  <1> QED BY <1>2, <1>3, <1>4 DEF DetailButton

\* The buttons that depend on the line shown first.
LEMMA ReportScrolled ==
  ASSUME NEW u, Sound(u), u.view = "REPORT", NEW rows \in Int
  PROVE  Sound(ScrollReport(u, rows))
  <1> DEFINE n == Clamp(u.first + rows, LastLine(u))
             v == [u EXCEPT !.first = n]
  <1>1. /\ Ranged(u) /\ DOMAIN u = ViewFields /\ LastLine(u) \in Nat
        /\ u.first \in 0..LastLine(u)
    BY Sizes DEF Sound, Ranged, Placed, Reported, LastLine, AtLeast
  <1>2. n \in 0..LastLine(u)
    BY <1>1 DEF Clamp, AtLeast, AtMost
  <1> HIDE DEF n
  <1>3. /\ DOMAIN v = ViewFields /\ v.first = n
        /\ \A f \in ViewFields \ {"first"} : v[f] = u[f]
    BY <1>1 DEF ViewFields
  <1>4. ScrollReport(u, rows) = [v EXCEPT !.buttons = ReportButtons(v)]
    BY DEF ScrollReport, n
  <1> HIDE DEF v
  <1>5. Ranged(v) /\ v.view = "REPORT"
    BY <1>1, <1>2, <1>3 DEF Ranged, Placed, Reported, Chosen, ViewFields,
       LastScroll, Rows, Data, LastLine
  <1>6. ButtonsOf(v) = ReportButtons(v)
    BY <1>5 DEF ButtonsOf
  <1> QED BY <1>4, <1>5, <1>6, ButtonsSet DEF Sound, Current, Ranged

LEMMA ReportHandled ==
  ASSUME NEW u, Sound(u), u.view = "REPORT", NEW b, NEW x, x.lines \in Nat
  PROVE  Sound(ReportButton(u, b, x))
  <1>1. Sound(NextFormat(u, x.lines))
    <2> DEFINE v == [u EXCEPT !.report = x.lines, !.first = 0]
    <2>1. /\ DOMAIN v = ViewFields /\ v.report = x.lines /\ v.first = 0
          /\ \A f \in ViewFields \ {"report", "first"} : v[f] = u[f]
      BY DEF Sound, Ranged, Placed, ViewFields
    <2> HIDE DEF v
    <2>2. 0 \in 0..LastLine(v) /\ v.report # None
      BY <2>1, ViewsAssumption DEF LastLine, AtLeast
    <2>3. Ranged(v)
      BY <2>1, <2>2 DEF Sound, Ranged, Placed, Reported, Chosen, ViewFields,
         LastScroll, Rows, Data
    <2>4. Sound(UpdateButtons(v))
      BY <2>3, UpdateSound
    <2> QED BY <2>4 DEF NextFormat, v
  <1>2. Sound(SwitchToView(u, "MAIN"))
    BY MainShown DEF Sound
  <1>3. \A rows \in Int : Sound(ScrollReport(u, rows))
    BY ReportScrolled
  <1>4. {Visible, -Visible, 1, -1} \subseteq Int
    BY Sizes
  <1> QED BY <1>1, <1>2, <1>3, <1>4 DEF ReportButton

LEMMA ButtonHandled ==
  ASSUME NEW u, Sound(u), NEW b, NEW x, x.lines \in Nat
  PROVE  Sound(HandleButton(u, b, x))
  <1>1. u.view \in Names
    BY DEF Sound, Ranged, Placed
  <1>2. u.view = "SCSI" => Sound(SwitchToView(u, "DRIVES"))
    BY MainShown DEF Sound
  <1> QED BY <1>1, <1>2, MainHandled, MemoryHandled, DriveHandled, BoardHandled,
             DetailHandled, ReportHandled DEF HandleButton, Names

\* What does not show.
LEMMA Unshown ==
  ASSUME NEW u, Sound(u), NEW v, DOMAIN v = ViewFields,
         \A f \in ViewFields \ {"running", "dragging"} : v[f] = u[f]
  PROVE  Sound(v) /\ v.view = u.view
  <1>1. ButtonsOf(v) = ButtonsOf(u)
    BY SameButtons DEF ViewFields
  <1> QED BY <1>1 DEF Sound, Current, Ranged, Placed, Reported, Chosen,
          LastScroll, Rows, Data, LastLine, Formatted, ViewFields

LEMMA Running ==
  ASSUME NEW u, Sound(u), NEW value
  PROVE  Sound([u EXCEPT !.running = value])
  <1>1. DOMAIN u = ViewFields
    BY DEF Sound, Ranged, Placed
  <1> QED BY <1>1, Unshown DEF ViewFields

LEMMA Dragging ==
  ASSUME NEW u, Sound(u), NEW value
  PROVE  Sound([u EXCEPT !.dragging = value])
  <1>1. DOMAIN u = ViewFields
    BY DEF Sound, Ranged, Placed
  <1> QED BY <1>1, Unshown DEF ViewFields

LEMMA BarHandled ==
  ASSUME NEW u, Sound(u), NEW zone, NEW to \in Nat
  PROVE  Sound(HandleScrollbar(u, zone, to))
  <1>0. BarUsable(u) => u.view \in {"MAIN", "REPORT"}
    BY DEF BarUsable
  <1>1. CASE u.view = "REPORT"
    <2>1. u.first \in Nat /\ Visible \in Nat
      BY <1>1, Sizes DEF Sound, Ranged, Reported
    <2>2. /\ to - u.first \in Int /\ (-1) * Visible \in Int /\ 1 * Visible \in Int
      BY <2>1
    <2>3. Sound(DragTo(u, to)) /\ Sound(PageBy(u, -1)) /\ Sound(PageBy(u, 1))
      BY <1>1, <2>2, ReportScrolled DEF DragTo, PageBy
    <2> QED BY <2>3, Dragging DEF HandleScrollbar
  <1>2. CASE u.view = "MAIN"
    <2>1. /\ LastScroll(u) \in Nat /\ u.scroll \in Nat /\ ListLines \in Nat
          /\ (-1) * ListLines \in Int /\ 1 * ListLines \in Int
      BY Sizes DEF Sound, Ranged, Placed, LastScroll, Rows, AtLeast
    <2>2. \A n \in Int : Clamp(n, LastScroll(u)) \in 0..LastScroll(u)
      BY <2>1 DEF Clamp, AtLeast, AtMost
    <2>3. to \in Int /\ u.scroll + ((-1) * ListLines) \in Int
          /\ u.scroll + (1 * ListLines) \in Int
      BY <2>1
    <2>4. Sound(DragTo(u, to)) /\ Sound(PageBy(u, -1)) /\ Sound(PageBy(u, 1))
      BY <1>2, <2>2, <2>3, Scrolled DEF DragTo, PageBy
    <2> QED BY <2>4, Dragging DEF HandleScrollbar
  <1>3. CASE u.view \notin {"MAIN", "REPORT"}
    BY <1>0, <1>3 DEF HandleScrollbar
  <1> QED BY <1>1, <1>2, <1>3

LEMMA StartsSound == Sound(InitialView)
  <1> DEFINE v == [running |-> TRUE, view |-> "MAIN", software |-> 1, scroll |-> 0,
          dragging |-> FALSE, hardware |-> "STD", page |-> 0, valid |-> FALSE,
          rows |-> [type |-> "STD",
                    data |-> [caches |-> FALSE, measured |-> FALSE]],
          caches |-> TRUE, measured |-> FALSE, region |-> 0, drive |-> 1,
          drivePage |-> 0, boardScroll |-> 0, board |-> 0,
          media |-> [i \in DOMAIN Drives |-> Drives[i].device],
          report |-> None, first |-> 0, buttons |-> {}]
  <1>1. /\ DOMAIN v = ViewFields /\ v.view = "MAIN" /\ v.software = 1
        /\ v.scroll = 0 /\ v.hardware = "STD" /\ v.page = 0 /\ v.valid = FALSE
        /\ v.drivePage = 0 /\ v.boardScroll = 0 /\ v.report = None
    BY DEF ViewFields
  <1>2. InitialView = Redraw(v)
    BY DEF InitialView
  <1> HIDE DEF v
  <1>3. 1 \in DOMAIN SoftwareRows
    BY Sizes
  <1>4. v.scroll \in 0..LastScroll(v)
    BY <1>1, <1>3, Sizes DEF LastScroll, Rows, AtLeast
  <1>5. v.hardware \in {HardwareCycle[i] : i \in DOMAIN HardwareCycle}
        /\ v.page \in 0..(HardwarePages[v.hardware] - 1)
    BY <1>1, ViewsAssumption
  <1>6. Ranged(v)
    BY <1>1, <1>3, <1>4, <1>5, LastOnes
       DEF Ranged, Placed, Reported, Chosen, Names
  <1> QED BY <1>2, <1>6, Redrawn

-----------------------------------------------------------------------------
(* The handlers of main_loop.                                              *)

\* The requester's cursor stays in its text, and the text in its field.
Typed ==
  /\ field.cursor \in Nat /\ field.length \in Nat
  /\ field.cursor <= field.length /\ field.length < FieldSize
  /\ DOMAIN field = {"length", "cursor", "button", "answer"}

ViewInv == Sound(ui) /\ Typed

LEMMA ViewInitially == Init => ViewInv
  BY StartsSound, LoopAssumption DEF Init, ViewInv, Typed, NoField

\* Saving asks for a name, and any other button goes to its handler.
LEMMA Performed ==
  ASSUME ViewInv, NEW u, Sound(u), NEW b, NEW x, x.lines \in Nat, NEW saved,
         Perform(b, u, x, saved, 1)
  PROVE  ViewInv'
  <1>1. Sound(HandleButton(u, b, x))
    BY ButtonHandled
  <1>2. Sound(ui')
    BY <1>1 DEF Perform
  <1>3. \/ field' = field
        \/ field' = [NoField EXCEPT !.length = 1, !.cursor = 1]
    BY DEF Perform
  <1>4. Typed'
    <2>1. CASE field' = field
      BY <2>1 DEF Typed, ViewInv
    <2>2. CASE field' = [NoField EXCEPT !.length = 1, !.cursor = 1]
      <3>1. /\ field'.length = 1 /\ field'.cursor = 1
            /\ DOMAIN field' = {"length", "cursor", "button", "answer"}
        BY <2>2 DEF NoField
      <3> QED BY <3>1, LoopAssumption DEF Typed
    <2> QED BY <1>3, <2>1, <2>2
  <1> QED BY <1>2, <1>4 DEF ViewInv

LEMMA HandledSoundly ==
  ASSUME ViewInv, Handle
  PROVE  ViewInv'
  <1> USE DEF ViewInv
  <1>a. ASSUME NEW x \in Learned PROVE x.lines \in Nat
    BY LoopAssumption DEF Learned
  <1>b. ASSUME field' = field PROVE Typed'
    BY <1>b DEF Typed
  <1>n. DOMAIN ui = ViewFields /\ ui.view \in Names
    BY DEF Sound, Ranged, Placed
  <1>1. CASE CloseWindow
    BY <1>1, <1>b, Running DEF CloseWindow
  <1>2. CASE PressCorner
    BY <1>2, <1>b DEF PressCorner
  <1>3. CASE KeyQ
    BY <1>3, <1>b, Running, MainShown DEF KeyQ, Sound
  <1>4. CASE RefreshWindow
    BY <1>4, <1>b, Redrawn DEF RefreshWindow, Sound
  <1>5. CASE \E b \in ui.buttons \cup {None} : Press(b)
    BY <1>5, <1>b DEF Press
  <1>6. CASE \E zone \in {"above", "knob", "below"} : PressScrollBar(zone)
    <2>1. PICK zone \in {"above", "knob", "below"} : PressScrollBar(zone)
      BY <1>6
    <2>2. Sound([ui EXCEPT !.dragging = FALSE])
      BY Dragging
    <2>3. Sound(ui')
      BY <2>1, <2>2, BarHandled DEF PressScrollBar
    <2> QED BY <1>b, <2>1, <2>3 DEF PressScrollBar
  <1>7. CASE \E inside \in BOOLEAN : ReleaseCorner(inside)
    <2>1. PICK inside \in BOOLEAN : ReleaseCorner(inside)
      BY <1>7
    <2>2. /\ DOMAIN ui' = ViewFields
          /\ \A f \in ViewFields \ {"running", "dragging"} : ui'[f] = ui[f]
      BY <1>n, <2>1 DEF ReleaseCorner, ViewFields
    <2> QED BY <1>b, <2>1, <2>2, Unshown DEF ReleaseCorner
  <1>8. CASE \E hit, saved \in BOOLEAN, x \in Learned : Release(hit, x, saved)
    <2>1. PICK hit \in BOOLEAN, saved \in BOOLEAN, x \in Learned :
             Release(hit, x, saved)
      BY <1>8
    <2> DEFINE u == [ui EXCEPT !.dragging = FALSE]
    <2>2. Sound(u)
      BY Dragging
    <2>3. \/ Perform(pressed, u, x, saved, 1)
          \/ ui' = u /\ field' = field
      BY <2>1 DEF Release
    <2> HIDE DEF u
    <2> QED BY <1>a, <1>b, <2>2, <2>3, Performed
  <1>9. CASE \E to \in Positions : Move(to)
    <2>1. PICK to \in Positions : Move(to)
      BY <1>9
    <2>2. Sound(HandleScrollbar(ui, "knob", to))
      BY BarHandled, LoopAssumption
    <2> QED BY <1>b, <2>1, <2>2 DEF Move
  <1>10. CASE \E rows \in {-1, 1} : RawKey(rows)
    <2>1. PICK rows \in {-1, 1} : RawKey(rows)
      BY <1>10
    <2> DEFINE x == [lines |-> 0, media |-> FALSE]
    <2>2. x.lines \in Nat
      OBVIOUS
    <2> HIDE DEF x
    <2>3. ui.view = "MAIN" => /\ Sound(MainButton(ui, "SOFTWARE_DOWN", x))
                              /\ Sound(MainButton(ui, "SOFTWARE_UP", x))
      BY <2>2, MainHandled
    <2>4. ui.view = "BOARDS" => /\ Sound(BoardButton(ui, "BOARD_NEXT"))
                                /\ Sound(BoardButton(ui, "BOARD_PREV"))
      BY BoardHandled
    <2>5. ui.view = "REPORT" => Sound(ScrollReport(ui, rows))
      BY ReportScrolled
    <2> QED BY <1>b, <2>1, <2>3, <2>4, <2>5 DEF RawKey, x
  <1>11. CASE \E b \in {"MEMORY", "DRIVES", "BOARDS", "SPEED", "REPORT"},
                 x \in Learned : KeyButton(b, x)
    BY <1>11, <1>a, <1>b, MainHandled DEF KeyButton
  <1>12. CASE \E saved \in BOOLEAN : KeySave(saved)
    <2>1. PICK saved \in BOOLEAN : KeySave(saved)
      BY <1>12
    <2> DEFINE x == [lines |-> 0, media |-> FALSE]
    <2>2. x.lines \in Nat /\ Perform("REPORT_SAVE", ui, x, saved, 1)
      BY <2>1 DEF KeySave
    <2> HIDE DEF x
    <2> QED BY <2>2, Performed
  <1> QED BY <1>1, <1>2, <1>3, <1>4, <1>5, <1>6, <1>7, <1>8, <1>9, <1>10,
             <1>11, <1>12 DEF Handle

LEMMA AnsweredSoundly ==
  ASSUME ViewInv, Requester
  PROVE  ViewInv'
  <1> USE DEF ViewInv, Typed
  <1>1. ui' = ui
    BY DEF Requester, RequesterMouse, RequesterKey, RequesterEdit, Discard,
       Dismiss, NestedStays
  <1>2. CASE \E b \in {"ok", "cancel", None} : RequesterMouse(b)
    BY <1>1, <1>2 DEF RequesterMouse
  <1>3. CASE \E b \in {"ok", "cancel"} : RequesterKey(b)
    BY <1>1, <1>3 DEF RequesterKey
  <1>4. CASE \E key \in Keys : RequesterEdit(key)
    <2>1. PICK key \in Keys : field' = Edited(field, key)
      BY <1>4 DEF RequesterEdit
    <2>2. Typed'
      BY <2>1, LoopAssumption DEF Keys, Edited, Fits
    <2> QED BY <1>1, <2>2
  <1>5. CASE \E toggles \in BOOLEAN : Discard(toggles)
    BY <1>1, <1>5 DEF Discard
  <1>6. CASE Dismiss
    BY <1>1, <1>6, LoopAssumption DEF Dismiss, NoField
  <1> QED BY <1>2, <1>3, <1>4, <1>5, <1>6 DEF Requester

LEMMA ViewKept ==
  ASSUME ViewInv, [Next]_vars
  PROVE  ViewInv'
  <1>1. CASE Handle
    BY <1>1, HandledSoundly
  <1>2. CASE Requester
    BY <1>2, AnsweredSoundly
  <1>3. CASE Wake
    <2>1. ui' \in {ui, [ui EXCEPT !.running = FALSE]} /\ field' = field
      BY <1>3 DEF Wake
    <2>2. Sound([ui EXCEPT !.running = FALSE])
      BY Running DEF ViewInv
    <2> QED BY <2>1, <2>2 DEF ViewInv, Typed
  <1>4. CASE UNCHANGED <<ui, field>>
    BY <1>4 DEF ViewInv, Typed
  <1> QED BY <1>1, <1>2, <1>3, <1>4
          DEF Next, Turn, Post, Break, Tick, Arm, Drained, vars

LEMMA ViewHolds == Spec => []ViewInv
  BY ViewInitially, ViewKept, PTL DEF Spec

\* Every position the drawing code uses lies inside its list, whatever the
\* user did, for lists, pages and reports of any length (gui.c 589-706,
\* 2345-2431; report_view.c 130-190; drives.c 1882-2012).
THEOREM PositionsInRange == Spec => []InRange
  <1>1. ViewInv => InRange
    BY DEF ViewInv, Typed, Sound, Ranged, Placed, Reported, Chosen, InRange
  <1> QED BY <1>1, ViewHolds, PTL

\* No handler leaves the buttons or the rows of an earlier state behind
\* (gui.c 531-706, 1500-1520, 1604-1634, 2224-2246).
THEOREM PanelStaysCurrent == Spec => []PanelCurrent
  <1>1. ViewInv => PanelCurrent
    BY DEF ViewInv, Sound, Current, PanelCurrent
  <1> QED BY <1>1, ViewHolds, PTL
=============================================================================
