------------------------------- MODULE MuiGui -------------------------------
(***************************************************************************)
(* The MUI interface (mui_gui.c 1146-1923): its objects hold pointers to   *)
(* the entries of the lists and to the lines of the report, which its      *)
(* actions free and make again.  MUI queues the return IDs of its gadgets, *)
(* so an ID may arrive when the window it came from is already closed.     *)
(***************************************************************************)
EXTENDS MemoryList, DeviceIO, SoftwareList

CONSTANTS
  Inputs       \* how many return IDs arrive

ASSUME MuiAssumption == Inputs \in Nat

VARIABLES
  mui,      \* the application: its rows, windows, sleep and timer
  report    \* text: the report of mui_gui.c, 0 without one; next: the one
            \* being made; shown: the one whose lines the list holds; live:
            \* the reports that are allocated

muiVars == <<mui, report>>

Objects == {"software", "mmu", "memory", "drives", "boards", "scsi"}

MuiInit ==
  /\ mui = [rows |-> [o \in Objects |-> {}], open |-> FALSE, sleep |-> FALSE,
            measuring |-> FALSE, clock |-> FALSE, timer |-> FALSE,
            then |-> "none", inputs |-> 0]
  /\ report = [text |-> 0, next |-> 0, shown |-> 0, window |-> FALSE, made |-> 0,
               live |-> {}, opens |-> FALSE]

\* Pointers to all the entries of a list.
Pointers(n) == {<<n, lists[n].made, i>> : i \in 1..lists[n].count}

\* The display hooks read the entry a row points to whenever MUI draws it.
Readable(p) == p[2] = lists[p[1]].made /\ p[3] <= lists[p[1]].count

Other == <<lists, heap, ioVars, memoryVars, softwareVars>>
-----------------------------------------------------------------------------
\* mui_gui_run: without the library the classic interface runs instead.
OpenMui(ok) ==
  /\ pc = "mui"
  /\ IF ok THEN pc' = "mui create" /\ Hold("muimaster.library")
     ELSE pc' = "mui done" /\ UNCHANGED held
  /\ UNCHANGED <<masks, Other, muiVars>>

\* create_application; the class of the gauge is not needed.
CreateApplication(gauge, ok) ==
  /\ pc = "mui create"
  /\ held' = held \cup (IF gauge THEN {"gauge class"} ELSE {})
                  \cup (IF ok THEN {"application"} ELSE {})
  /\ pc' = IF ok THEN "mui fill" ELSE "mui free"
  /\ UNCHANGED <<masks, Other, muiVars>>

\* fill_lists: the rows of all objects but the MMU and the SCSI devices.
FillLists ==
  /\ Go("mui fill", "mui open")
  /\ mui' = [mui EXCEPT !.rows = [o \in Objects |->
       IF o \in {"mmu", "scsi"} THEN {}
       ELSE Pointers(IF o = "software" THEN "libraries" ELSE o)]]
  /\ UNCHANGED <<masks, Other, held, report>>

OpenMain(ok) ==
  /\ Go("mui open", IF ok THEN "mui input" ELSE "mui dispose")
  /\ mui' = [mui EXCEPT !.open = ok]
  /\ UNCHANGED <<masks, Other, held, report>>

\* A return ID of which the main loop takes the action to.
Id(to) ==
  /\ pc = "mui input" /\ mui.inputs < Inputs
  /\ pc' = to

Count(m) == [m EXCEPT !.inputs = @ + 1]

\* IDs that only open or close windows and update values.
IdValues ==
  /\ Id("mui wait")
  /\ mui' = Count(mui)
  /\ UNCHANGED <<masks, Other, held, report>>

\* show_software_list; the MMU lines have an object of their own.
IdSoftware ==
  /\ Id("mui wait")
  /\ \E n \in {"libraries", "devices", "resources", "mmu"} :
       mui' = Count([mui EXCEPT
                !.rows[IF n = "mmu" THEN "mmu" ELSE "software"] = Pointers(n)])
  /\ UNCHANGED <<masks, Other, held, report>>

\* update_memory_details refreshes the region that is selected.
IdMemory ==
  /\ lists["memory"].count > 0
  /\ Id("refresh")
  /\ mui' = Count([mui EXCEPT !.then = "select"])
  /\ UNCHANGED <<masks, Other, held, report>>

\* begin_measurement, and Forbid for the benchmarks and the memory.
IdMeasure(what) ==
  /\ what = "memory" => lists["memory"].count > 0
  /\ Id(IF what = "memory" THEN "speed" ELSE "mui measure")
  /\ forbid' = IF what = "drive" THEN forbid ELSE forbid + 1
  /\ mui' = Count([mui EXCEPT !.sleep = TRUE, !.measuring = TRUE, !.then = what])
  /\ UNCHANGED <<disabled, Other, held, report>>

\* The measurement, Permit and end_measurement; the details of a region are
\* read again.
Measured ==
  /\ \/ pc = "mui measure"
     \/ pc = "memory done" /\ mui.open /\ mui.then = "memory"
  /\ pc' = IF mui.then = "memory" THEN "refresh" ELSE "mui wait"
  /\ forbid' = IF mui.then = "drive" THEN forbid ELSE forbid - 1
  /\ mui' = [mui EXCEPT !.sleep = FALSE, !.measuring = FALSE, !.then = "select"]
  /\ UNCHANGED <<disabled, Other, held, report>>

Selected ==
  /\ mui.open /\ mui.then = "select"
  /\ Go("memory done", "mui wait")
  /\ mui' = [mui EXCEPT !.then = "none"]
  /\ UNCHANGED <<masks, Other, held, report>>

\* select_drive sleeps while the disk is checked.
IdDrive ==
  /\ Id("mui drive")
  /\ mui' = Count([mui EXCEPT !.sleep = TRUE])
  /\ UNCHANGED <<masks, Other, held, report>>

DriveChecked ==
  /\ Go("mui drive", "mui wait")
  /\ mui' = [mui EXCEPT !.sleep = FALSE]
  /\ UNCHANGED <<masks, Other, held, report>>

\* Mutant: the rows are cleared only when the scan is over.
BugRowsDuringScan == mui.rows["scsi"]

RowsDuringScan == {}

\* show_scsi_devices clears the rows before the scan frees their entries.
IdScsi ==
  /\ lists["drives"].count > 0
  /\ Id("scsi")
  /\ mui' = Count([mui EXCEPT !.rows["scsi"] = RowsDuringScan, !.sleep = TRUE])
  /\ UNCHANGED <<masks, Other, held, report>>

ScsiShown ==
  /\ mui.open
  /\ Go("scsi done", "mui wait")
  /\ mui' = [mui EXCEPT !.sleep = FALSE, !.rows["scsi"] =
               {<<"scsi", lists["scsi"].made, i>> :
                  i \in {j \in 1..lists["scsi"].count :
                           lists["scsi"].items[j].valid}}]
  /\ UNCHANGED <<masks, Other, held, report>>
-----------------------------------------------------------------------------
\* show_report makes a report only when there is none; opens: the window is
\* then opened.
IdReport ==
  /\ Id(IF report.text = 0 THEN "report" ELSE "report open")
  /\ report' = [report EXCEPT !.opens = TRUE]
  /\ mui' = Count(mui)
  /\ UNCHANGED <<masks, Other, held>>

IdReportFormat ==
  /\ Id("report")
  /\ report' = [report EXCEPT !.opens = FALSE]
  /\ mui' = Count(mui)
  /\ UNCHANGED <<masks, Other, held>>

\* populate_report: the new report is made beside the old one, which stays when
\* that fails.
CreateReport(ok) ==
  /\ Go("report", IF ok THEN "report clear" ELSE "mui wait")
  /\ report' = IF ok THEN [report EXCEPT !.next = report.made + 1, !.made = @ + 1,
                             !.live = @ \cup {report.made + 1}]
               ELSE report
  /\ UNCHANGED <<masks, Other, held, mui>>

\* Mutant: the lines are freed while the list still holds them.
BugShownAtFree == report.shown

ShownAtFree == 0

\* The list is cleared, then the old report freed ...
FreeReport ==
  /\ Go("report clear", "report insert")
  /\ report' = [report EXCEPT !.shown = ShownAtFree, !.live = @ \ {report.text},
                              !.text = report.next, !.next = 0]
  /\ UNCHANGED <<masks, Other, held, mui>>

\* Mutant: the report stays when its window is closed.
BugCloseReport == [report EXCEPT !.window = FALSE, !.shown = 0]

\* close_report
CloseReport ==
  [report EXCEPT !.window = FALSE, !.shown = 0, !.text = 0,
                 !.live = @ \ {report.text}]

\* ... and the new lines inserted, all or none.
InsertReport(all) ==
  /\ Go("report insert", IF all /\ report.opens THEN "report open" ELSE "mui wait")
  /\ report' = IF all THEN [report EXCEPT !.shown = report.text] ELSE CloseReport
  /\ UNCHANGED <<masks, Other, held, mui>>

OpenReport(ok) ==
  /\ Go("report open", "mui wait")
  /\ report' = IF ok THEN [report EXCEPT !.window = TRUE] ELSE CloseReport
  /\ UNCHANGED <<masks, Other, held, mui>>

IdReportClose ==
  /\ Id("mui wait")
  /\ report' = CloseReport
  /\ mui' = Count(mui)
  /\ UNCHANGED <<masks, Other, held>>

\* save_report_preview: a requester, and the file when a name was chosen.
IdReportSave(requester) ==
  /\ Id(IF requester THEN "report request" ELSE "mui wait")
  /\ IF requester THEN Hold("requester") ELSE UNCHANGED held
  /\ mui' = Count(mui)
  /\ UNCHANGED <<masks, Other, report>>

\* save_report refuses when there is no report any more.
SaveRequest(chosen, opens) ==
  /\ Go("report request",
        IF chosen /\ opens /\ report.text # 0 THEN "report save" ELSE "report saved")
  /\ mui' = [mui EXCEPT !.sleep = chosen]
  /\ held' = IF pc' = "report save" THEN held \cup {"file"} ELSE held
  /\ UNCHANGED <<masks, Other, report>>

SaveLines ==
  /\ Go("report save", "report saved")
  /\ Drop({"file"})
  /\ UNCHANGED <<masks, Other, muiVars>>

ReportSaved ==
  /\ Go("report saved", "mui wait")
  /\ mui' = [mui EXCEPT !.sleep = FALSE]
  /\ Drop({"requester"})
  /\ UNCHANGED <<masks, Other, report>>
-----------------------------------------------------------------------------
\* The user turns to the page of the clock or away from it.
TurnPage ==
  /\ pc = "mui input" /\ mui.open
  /\ mui' = [mui EXCEPT !.clock = ~@]
  /\ UNCHANGED <<pc, masks, Other, held, report>>

\* The timer of the clock runs only while its page is shown.
MuiWait(quit) ==
  /\ Go("mui wait", IF quit THEN "mui quit" ELSE "mui input")
  /\ mui' = [mui EXCEPT !.timer = mui.clock]
  /\ UNCHANGED <<masks, Other, held, report>>

IdQuit ==
  /\ Go("mui input", "mui quit")
  /\ UNCHANGED <<masks, Other, held, muiVars>>

CleanupClock ==
  /\ Go("mui quit", "mui dispose")
  /\ mui' = [mui EXCEPT !.timer = FALSE]
  /\ UNCHANGED <<masks, Other, held, report>>

\* dispose_interface: first the objects with their rows ...
DisposeApplication ==
  /\ Go("mui dispose", "mui free")
  /\ mui' = [mui EXCEPT !.rows = [o \in Objects |-> {}], !.open = FALSE]
  /\ report' = [report EXCEPT !.shown = 0, !.window = FALSE]
  /\ Drop({"application"})
  /\ UNCHANGED <<masks, Other>>

\* ... then what they pointed to, the class and the library.
DisposeRest ==
  /\ Go("mui free", "mui done")
  /\ report' = [report EXCEPT !.text = 0, !.live = @ \ {report.text}]
  /\ Drop({"gauge class", "muimaster.library"})
  /\ UNCHANGED <<masks, Other, mui>>

MuiStep ==
  \/ FillLists \/ IdValues \/ IdSoftware \/ IdMemory \/ Measured \/ Selected
  \/ IdDrive \/ DriveChecked \/ IdScsi \/ ScsiShown \/ IdReport
  \/ IdReportFormat \/ FreeReport \/ IdReportClose \/ SaveLines \/ ReportSaved
  \/ IdQuit \/ CleanupClock \/ DisposeApplication \/ DisposeRest
  \/ \E what \in {"benchmarks", "memory", "drive"} : IdMeasure(what)
  \/ \E ok \in BOOLEAN :
       \/ OpenMui(ok) \/ OpenMain(ok) \/ CreateReport(ok) \/ InsertReport(ok)
       \/ OpenReport(ok) \/ IdReportSave(ok) \/ MuiWait(ok)
  \/ \E a \in BOOLEAN, b \in BOOLEAN :
       CreateApplication(a, b) \/ SaveRequest(a, b)
-----------------------------------------------------------------------------
\* The rows of every object are entries of the list as it is now, the lines of
\* the report list those of a report that is still there, and an open report
\* window has a report: also while a scan or a new report replaces them
\* (mui_gui.c 1556-1586, 1620-1652, 1729-1742).
NoStaleRow ==
  /\ \A o \in Objects : \A p \in mui.rows[o] : Readable(p)
  /\ report.shown # 0 => report.shown \in report.live
  /\ report.window => report.text \in report.live
  /\ report.live \subseteq {report.text, report.next} \ {0}

\* Between two inputs the interface is awake, nothing is forbidden or held for
\* an action, no report is lost, and an open report window shows its report.
MuiRests ==
  /\ pc \in {"mui input", "mui wait"} =>
       /\ ~mui.sleep /\ ~mui.measuring /\ Free
       /\ held \subseteq {"application", "gauge class", "muimaster.library"}
       /\ report.live \subseteq {report.text}
       /\ report.window => report.shown = report.text
  /\ pc = "mui done" => ~mui.timer /\ report.live = {} /\ ~mui.open
=============================================================================
