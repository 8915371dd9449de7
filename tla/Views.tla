------------------------------- MODULE Views -------------------------------
(***************************************************************************)
(* The views of the classic interface as functions on one record: what a  *)
(* button, a key, the scroll bar and a switch of view do to the state that *)
(* gui.c, report_view.c and the handlers of the memory, drives, boards and *)
(* SCSI views keep (src/gui.c, src/report_view.c, src/memory.c,            *)
(* src/drives.c, src/boards.c, src/boards_detail.c, src/scsi.c).           *)
(*                                                                         *)
(* Drawing is left out.  What is kept is what a later click depends on: the*)
(* view, the position in every list, the rows of the hardware panel with   *)
(* the data they were formatted from, the report, and the enabled buttons, *)
(* which a click is looked up in and which are rebuilt only where the code *)
(* calls update_button_states or sets a single button.  EventLoop calls    *)
(* these operators from the handlers of main_loop.                         *)
(***************************************************************************)
EXTENDS Integers, Sequences

CONSTANTS
  SoftwareRows,     \* rows of each software page; the first is the overview
  ListLines,        \* SOFTWARE_LIST_LINES
  HardwareCycle,    \* the hardware pages in the order of HardwareType
  HardwarePages,    \* sheets each of them is laid out on
  HasScsi,          \* an SDMAC or an NCR chip was detected
  Regions,          \* memory_regions.count
  Boards,           \* board_list.count
  BoardRows,        \* BOARD_LIST_ROWS
  Drives,           \* drive_list: records with name, scsi and device
  DrivesPerPage,
  Visible,          \* lines of a report the window shows
  None

ASSUME ViewsAssumption ==
  /\ ListLines \in Nat \ {0} /\ BoardRows \in Nat \ {0}
  /\ DrivesPerPage \in Nat \ {0} /\ Visible \in Nat \ {0}
  /\ SoftwareRows \in Seq(Nat) /\ SoftwareRows # <<>>
  /\ HardwareCycle \in Seq(STRING)
  /\ Drives \in Seq([name : STRING, scsi : BOOLEAN, device : BOOLEAN])
  /\ HasScsi \in BOOLEAN
  /\ Regions \in Nat /\ Boards \in Nat
  /\ \A i \in DOMAIN HardwareCycle :
        HardwarePages[HardwareCycle[i]] \in Nat \ {0}
  /\ {"STD", "CPU", "SCSI", "CLOCK"} \subseteq
        {HardwareCycle[i] : i \in DOMAIN HardwareCycle}
  /\ None \notin Nat

AtLeast(a, b) == IF a < b THEN b ELSE a
AtMost(a, b) == IF a < b THEN a ELSE b

\* A new position is brought back into the list at both ends.
BugClamp(n, last) == AtMost(n, last)
Clamp(n, last) == AtLeast(0, AtMost(n, last))

Names == {"MAIN", "MEMORY", "DRIVES", "BOARDS", "DETAILS", "SCSI", "REPORT"}

-----------------------------------------------------------------------------
(* How far each list goes.                                                 *)

Rows(u) == SoftwareRows[u.software]
LastScroll(u) == AtLeast(Rows(u) - ListLines, 0)
LastBoardScroll == AtLeast(Boards - BoardRows, 0)
LastDrivePage == IF Drives = <<>> THEN 0
                 ELSE (Len(Drives) - 1) \div DrivesPerPage
LastLine(u) == AtLeast(u.report - Visible, 0)

\* The overview scrolls only when it is too long; every list has controls.
PanelScrolls(u) == u.software = 1 => Rows(u) > ListLines

-----------------------------------------------------------------------------
(* The hardware rows are kept while the page and the data behind them stay *)
(* the same; the clock page is always formatted anew.                      *)

Data(u) == [caches |-> u.caches, measured |-> u.measured]

Formatted(u) == [type |-> u.hardware, data |-> Data(u)]

\* invalidate_hardware_rows, and its omission.
BugKeepsRows(u) == u
Invalidate(u) == [u EXCEPT !.valid = FALSE]

BuildRows(u) ==
  IF u.valid /\ u.rows.type = u.hardware /\ u.hardware # "CLOCK" THEN u
  ELSE [u EXCEPT !.valid = TRUE, !.rows = Formatted(u),
                 !.page = AtMost(u.page, HardwarePages[u.hardware] - 1)]

-----------------------------------------------------------------------------
(* The enabled buttons of each view.                                       *)

If(condition, ids) == IF condition THEN ids ELSE {}

\* The cache settings are the last rows of the CPU page.
ShowsCaches(u) ==
  u.hardware = "CPU" /\ u.page = HardwarePages[u.hardware] - 1

MainButtons(u) ==
  {"QUIT", "MEMORY", "DRIVES", "BOARDS", "SPEED", "REPORT", "SOFTWARE_CYCLE",
   "HARDWARE_CYCLE"}
  \cup If(PanelScrolls(u),
          {"SOFTWARE_UP", "SOFTWARE_DOWN", "SOFTWARE_SCROLLBAR"})
  \cup If(ShowsCaches(u), {"CACHE"})
  \cup If(u.page > 0, {"HARDWARE_PREV"})
  \cup If(u.page + 1 < HardwarePages[u.hardware], {"HARDWARE_NEXT"})

MemoryButtons(u) ==
  {"MEM_SPEED", "MEM_EXIT"}
  \cup If(u.region > 0, {"MEM_PREV"})
  \cup If(u.region < Regions - 1, {"MEM_NEXT"})

Selected(u) == u.drive \in DOMAIN Drives

DriveButtons(u) ==
  {"DRV_EXIT"}
  \cup {Drives[i].name : i \in {j \in DOMAIN Drives :
                                  (j - 1) \div DrivesPerPage = u.drivePage}}
  \cup If(u.drivePage > 0, {"DRV_PAGE_PREV"})
  \cup If(u.drivePage < LastDrivePage, {"DRV_PAGE_NEXT"})
  \cup If(Selected(u) /\ Drives[u.drive].scsi, {"DRV_SCSI"})
  \cup If(Selected(u) /\ Drives[u.drive].device /\ u.media[u.drive],
          {"DRV_SPEED"})

BoardButtons(u) ==
  {"BOARD_EXIT"}
  \cup If(Boards > 0, {"BOARD_DISPLAY", "BOARD_DETAILS"})
  \cup If(u.boardScroll > 0, {"BOARD_PREV"})
  \cup If(u.boardScroll < LastBoardScroll, {"BOARD_NEXT"})

DetailButtons(u) ==
  {"DETAIL_BACK", "DETAIL_DISPLAY"}
  \cup If(u.board > 0, {"DETAIL_PREV"})
  \cup If(u.board + 1 < Boards, {"DETAIL_NEXT"})

ReportButtons(u) ==
  {"REPORT_FORMAT", "REPORT_SAVE", "REPORT_CLOSE"}
  \cup If(u.first > 0, {"REPORT_PREV", "REPORT_UP"})
  \cup If(u.first < LastLine(u), {"REPORT_NEXT", "REPORT_DOWN"})
  \cup If(LastLine(u) > 0, {"REPORT_SCROLLBAR"})

ButtonsOf(u) == CASE u.view = "MAIN" -> MainButtons(u)
                  [] u.view = "MEMORY" -> MemoryButtons(u)
                  [] u.view = "DRIVES" -> DriveButtons(u)
                  [] u.view = "BOARDS" -> BoardButtons(u)
                  [] u.view = "DETAILS" -> DetailButtons(u)
                  [] u.view = "SCSI" -> {"SCSI_EXIT"}
                  [] u.view = "REPORT" -> ReportButtons(u)

\* update_button_states: the main view also formats its rows and the drives
\* view also brings its page back into the list.
UpdateButtons(u) ==
  LET v == IF u.view = "MAIN" THEN BuildRows(u)
           ELSE IF u.view = "DRIVES"
                THEN [u EXCEPT !.drivePage = AtMost(u.drivePage, LastDrivePage)]
                ELSE u
  IN [v EXCEPT !.buttons = ButtonsOf(v)]

UpdateHardware(u) == UpdateButtons(Invalidate(u))

\* update_software_list sets the three scroll controls alone.
UpdateSoftware(u) ==
  [u EXCEPT !.buttons =
     (u.buttons \ {"SOFTWARE_UP", "SOFTWARE_DOWN", "SOFTWARE_SCROLLBAR"})
     \cup (MainButtons(u) \cap
             {"SOFTWARE_UP", "SOFTWARE_DOWN", "SOFTWARE_SCROLLBAR"})]

-----------------------------------------------------------------------------
(* Changing the view.                                                      *)

Redraw(u) ==
  LET v == UpdateButtons(u)
  IN IF u.view = "BOARDS"
     THEN [v EXCEPT !.boardScroll = AtMost(u.boardScroll, LastBoardScroll)]
     ELSE v

\* Leaving the report closes it.
CloseReport(u) == [u EXCEPT !.report = None]
LeaveView(u, view) ==
  IF u.view = "REPORT" /\ view # "REPORT" THEN CloseReport(u) ELSE u

DriveToShow(u) == IF Drives = <<>> THEN 0
                  ELSE IF Selected(u) THEN u.drive ELSE 1

SwitchToView(u, view) ==
  Redraw([LeaveView(u, view) EXCEPT
            !.view = view,
            !.dragging = FALSE,
            !.region = IF view = "MEMORY" THEN 0 ELSE @,
            !.drive = IF view = "DRIVES" THEN DriveToShow(u) ELSE @,
            !.boardScroll = IF view = "BOARDS" /\ u.view # "DETAILS"
                            THEN 0 ELSE @])

\* A report of no line is one that could not be made.
OpenReport(u, lines) ==
  IF lines = 0 THEN CloseReport(u)
  ELSE SwitchToView([u EXCEPT !.report = lines, !.first = 0], "REPORT")

-----------------------------------------------------------------------------
(* The buttons of each view.  x is what the call learns from outside: the  *)
(* lines of a new report and whether a disk is in the selected drive.      *)

NextHardware(u) ==
  LET n == Len(HardwareCycle)
      i == CHOOSE j \in 1..n : HardwareCycle[j] = u.hardware
      next == HardwareCycle[(i % n) + 1]
  IN IF next = "SCSI" /\ ~HasScsi THEN "CLOCK" ELSE next

Scroll(u, to) == UpdateSoftware([u EXCEPT !.scroll = to])

\* A new page starts at its top, and a version that keeps the position.
BugKeepsScroll(u) ==
  UpdateSoftware([u EXCEPT !.software = (u.software % Len(SoftwareRows)) + 1])
CycleSoftware(u) ==
  UpdateSoftware([u EXCEPT !.software = (u.software % Len(SoftwareRows)) + 1,
                           !.scroll = 0, !.dragging = FALSE])

MainButton(u, b, x) ==
  CASE b = "QUIT" -> [u EXCEPT !.running = FALSE]
    [] b \in {"MEMORY", "DRIVES", "BOARDS"} -> SwitchToView(u, b)
    [] b = "SPEED" -> UpdateHardware([u EXCEPT !.measured = TRUE])
    [] b = "REPORT" -> OpenReport(u, x.lines)
    [] b = "SOFTWARE_CYCLE" -> CycleSoftware(u)
    [] b = "SOFTWARE_UP" -> IF u.scroll > 0 THEN Scroll(u, u.scroll - 1) ELSE u
    [] b = "SOFTWARE_DOWN" -> IF u.scroll < Rows(u) - ListLines
                              THEN Scroll(u, u.scroll + 1) ELSE u
    [] b = "HARDWARE_PREV" -> UpdateHardware([u EXCEPT !.page = AtLeast(@ - 1, 0)])
    [] b = "HARDWARE_NEXT" -> UpdateHardware([u EXCEPT !.page =
                                AtMost(@ + 1, HardwarePages[u.hardware] - 1)])
    [] b = "HARDWARE_CYCLE" -> UpdateHardware([u EXCEPT !.page = 0,
                                 !.hardware = NextHardware(u)])
    [] b = "CACHE" -> UpdateHardware([u EXCEPT !.caches = ~@])
    [] OTHER -> u

MemoryButton(u, b) ==
  CASE b = "MEM_PREV" /\ u.region > 0 ->
         UpdateButtons([u EXCEPT !.region = @ - 1])
    [] b = "MEM_NEXT" /\ u.region < Regions - 1 ->
         UpdateButtons([u EXCEPT !.region = @ + 1])
    [] b = "MEM_EXIT" -> SwitchToView(u, "MAIN")
    [] OTHER -> u

\* A drive's own button asks whether a disk is in it.
SelectDrive(u, name, x) ==
  LET i == CHOOSE j \in DOMAIN Drives : Drives[j].name = name
  IN UpdateButtons([u EXCEPT !.drive = i,
                             !.media[i] = Drives[i].device /\ x.media])

DriveButton(u, b, x) ==
  CASE b = "DRV_EXIT" -> SwitchToView(u, "MAIN")
    [] b = "DRV_SCSI" /\ Selected(u) -> SwitchToView(u, "SCSI")
    [] b = "DRV_PAGE_PREV" /\ u.drivePage > 0 ->
         UpdateButtons([u EXCEPT !.drivePage = @ - 1])
    [] b = "DRV_PAGE_NEXT" /\ (u.drivePage + 1) * DrivesPerPage < Len(Drives) ->
         UpdateButtons([u EXCEPT !.drivePage = @ + 1])
    [] \E i \in DOMAIN Drives : Drives[i].name = b -> SelectDrive(u, b, x)
    [] OTHER -> u

BoardButton(u, b) ==
  CASE b = "BOARD_PREV" /\ u.boardScroll > 0 ->
         UpdateButtons([u EXCEPT !.boardScroll = @ - 1])
    [] b = "BOARD_NEXT" /\ u.boardScroll < LastBoardScroll ->
         UpdateButtons([u EXCEPT !.boardScroll = @ + 1])
    [] b = "BOARD_DETAILS" /\ Boards > 0 ->
         SwitchToView([u EXCEPT !.board = u.boardScroll], "DETAILS")
    [] b = "BOARD_EXIT" -> SwitchToView(u, "MAIN")
    [] OTHER -> u

DetailButton(u, b) ==
  CASE b = "DETAIL_PREV" /\ u.board > 0 ->
         UpdateButtons([u EXCEPT !.board = @ - 1])
    [] b = "DETAIL_NEXT" /\ u.board + 1 < Boards ->
         UpdateButtons([u EXCEPT !.board = @ + 1])
    [] b = "DETAIL_BACK" -> SwitchToView(u, "BOARDS")
    [] OTHER -> u

\* Scrolling sets the buttons that depend on the position one by one.
ScrollReport(u, rows) ==
  LET v == [u EXCEPT !.first = Clamp(u.first + rows, LastLine(u))]
  IN [v EXCEPT !.buttons = ReportButtons(v)]

\* The next format is made before the shown one is freed, and a version in
\* the other order.
BugFreesFirst(u, lines) ==
  IF lines = 0 THEN CloseReport(u)
  ELSE UpdateButtons([u EXCEPT !.report = lines, !.first = 0])
NextFormat(u, lines) ==
  IF lines = 0 THEN u
  ELSE UpdateButtons([u EXCEPT !.report = lines, !.first = 0])

ReportButton(u, b, x) ==
  CASE b = "REPORT_FORMAT" -> NextFormat(u, x.lines)
    [] b = "REPORT_CLOSE" -> SwitchToView(u, "MAIN")
    [] b = "REPORT_PREV" -> ScrollReport(u, -Visible)
    [] b = "REPORT_NEXT" -> ScrollReport(u, Visible)
    [] b = "REPORT_UP" -> ScrollReport(u, -1)
    [] b = "REPORT_DOWN" -> ScrollReport(u, 1)
    [] OTHER -> u

HandleButton(u, b, x) ==
  CASE u.view = "MAIN" -> MainButton(u, b, x)
    [] u.view = "MEMORY" -> MemoryButton(u, b)
    [] u.view = "DRIVES" -> DriveButton(u, b, x)
    [] u.view = "BOARDS" -> BoardButton(u, b)
    [] u.view = "DETAILS" -> DetailButton(u, b)
    [] u.view = "REPORT" -> ReportButton(u, b, x)
    [] u.view = "SCSI" -> IF b = "SCSI_EXIT" THEN SwitchToView(u, "DRIVES") ELSE u

-----------------------------------------------------------------------------
(* The scroll bars.  A drag may go to any row; a click pages or grabs.     *)

DragTo(u, to) ==
  IF u.view = "REPORT" THEN ScrollReport(u, to - u.first)
  ELSE Scroll(u, Clamp(to, LastScroll(u)))

PageBy(u, sign) ==
  IF u.view = "REPORT" THEN ScrollReport(u, sign * Visible)
  ELSE Scroll(u, Clamp(u.scroll + sign * ListLines, LastScroll(u)))

BarUsable(u) == \/ u.view = "REPORT" /\ "REPORT_SCROLLBAR" \in u.buttons
                \/ /\ u.view = "MAIN" /\ "SOFTWARE_SCROLLBAR" \in u.buttons
                   /\ LastScroll(u) > 0

HandleScrollbar(u, zone, to) ==
  IF ~BarUsable(u) THEN u
  ELSE IF u.dragging THEN DragTo(u, to)
  ELSE CASE zone = "above" -> PageBy(u, -1)
         [] zone = "below" -> PageBy(u, 1)
         [] OTHER -> [u EXCEPT !.dragging = TRUE]

-----------------------------------------------------------------------------
(* What main_loop starts from.                                             *)

InitialView ==
  Redraw([running |-> TRUE, view |-> "MAIN", software |-> 1, scroll |-> 0,
          dragging |-> FALSE, hardware |-> "STD", page |-> 0, valid |-> FALSE,
          rows |-> [type |-> "STD",
                    data |-> [caches |-> FALSE, measured |-> FALSE]],
          caches |-> TRUE, measured |-> FALSE, region |-> 0, drive |-> 1,
          drivePage |-> 0, boardScroll |-> 0, board |-> 0,
          media |-> [i \in DOMAIN Drives |-> Drives[i].device],
          report |-> None, first |-> 0, buttons |-> {}])
=============================================================================
