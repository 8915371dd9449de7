----------------------------- MODULE ListsProofs ------------------------------
(***************************************************************************)
(* What Lists guarantees for every DOS list, every Exec list and every     *)
(* number of items, whichever allocation, device or library fails: nothing *)
(* stays held, no row of the MUI interface points to what is freed, the    *)
(* network stack named is one that ran, a drive shows its own volume, and  *)
(* each list is whole and holds what it was made of.                       *)
(*                                                                         *)
(* The first invariant, ListsInv, goes by labels.  A label says what may   *)
(* be held, whether other tasks are kept out and whether the interface is  *)
(* open around the routine; requests, memory regions and scans are used    *)
(* with it and without it, so the label of the caller is part of it.       *)
(*                                                                         *)
(* The second, ContentInv, rests on it and goes by lists: the blocks, then *)
(* of each list what its entries are and how far the routine at the label  *)
(* has come with it.                                                       *)
(***************************************************************************)
EXTENDS Lists, FiniteSetTheorems, TLAPS

DosPlaces == {"scan", "ports", "volumes"}
DrivePlaces == {"drives", "scan lock", "match", "volumes lock", "query",
                "query drive", "query lock", "query info", "prune", "probe", "probed",
                "drives done"} \cup DosPlaces
IoPlaces == {"io port", "io request", "io open", "io command", "io close"}
BusPlaces == {"scsi target", "scsi answer", "scsi row", "scsi close"}
ScsiPlaces == {"scsi", "scsi done"} \cup BusPlaces
CountPlaces == {"memory", "regions", "scan regions"}
SpeedPlaces == {"speed", "timed", "publish"}
RegionPlaces == {"refresh", "memory done"} \cup SpeedPlaces
BoardPlaces == {"boards", "zorro", "pci", "raw", "boards done"}

\* Of the network stack: while it is read, while its tasks are, while the files
\* of one that is installed are.
ProgramPlaces == {"programs", "ready", "waiting", "enable", "segments"}
LibsPlaces == {"libs", "libs handler", "libs locked"}
FilePlaces == {"file", "file read", "file end"}
NodePlaces == {"library", "device", "resource", "mmu entries", "mapping", "mmu permit"}
SoftwarePlaces == {"software", "graphics", "picasso", "picasso file", "network", "found",
                   "installed", "libraries", "kickstart", "devices", "resources", "mmu",
                   "software done"}
                    \cup ProgramPlaces \cup LibsPlaces \cup FilePlaces \cup NodePlaces

\* The interface before and after its window is open, and while it is.
ReportPlaces == {"report", "report clear", "report insert", "report open"}
SavePlaces == {"report request", "report save", "report saved"}
WindowPlaces == {"mui input", "mui wait", "mui measure", "mui drive", "mui quit"}
                  \cup ReportPlaces \cup SavePlaces
FramePlaces == {"mui", "mui create", "mui fill", "mui open", "mui dispose",
                "mui free", "mui done"}

\* The routines that are also called while the window is open.
SharedPlaces == IoPlaces \cup ScsiPlaces \cup RegionPlaces

Places == {"idle"} \cup DrivePlaces \cup CountPlaces \cup BoardPlaces \cup SoftwarePlaces
            \cup SharedPlaces \cup WindowPlaces \cup FramePlaces

-----------------------------------------------------------------------------
\* The call that is made is the first of those left.
TodoInv == todo \in Seq(Calls) /\ (pc # "idle" => todo # <<>>)

\* Every record has its fields.
FieldsInv ==
  /\ pc \in Places
  /\ DOMAIN dos = {"order", "modern", "changes", "taken", "port", "vol"}
  /\ dos.modern \in BOOLEAN
  /\ DOMAIN drv = {"at", "ports", "info", "quiet", "probed", "lost", "found"}
  /\ DOMAIN io = {"for", "unit", "opened", "tries", "result", "back"}
  /\ DOMAIN sw = {"at", "flags", "lost", "quiet", "path", "copied", "programs", "release",
               "stack"}
  /\ DOMAIN stack = {"runs", "list"}
  /\ DOMAIN mui = {"rows", "open", "sleep", "measuring", "clock", "timer", "then",
                   "inputs"}
  /\ DOMAIN report = {"text", "next", "shown", "window", "made", "live", "opens"}
  /\ pc \in IoPlaces => io.back \in {"probed", "scsi answer", "scsi row"}

\* When other tasks are kept out, and when interrupts are.
Forbidden ==
  \/ pc \in ProgramPlaces \cup NodePlaces \cup {"found"}
  \/ dos.modern = FALSE /\ pc \in DosPlaces
  \/ mui.open = TRUE /\ pc \in SpeedPlaces
  \/ mui.open = TRUE /\ pc = "memory done" /\ mui.then = "memory"
  \/ pc = "mui measure" /\ mui.then # "drive"

MaskInv ==
  /\ Forbidden => forbid = 1
  /\ ~Forbidden => forbid = 0
  /\ pc \in {"ready", "waiting", "enable"} => disabled = TRUE
  /\ pc \notin {"ready", "waiting", "enable"} => disabled = FALSE

\* What may be held where.
Resources ==
  {"dos list", "info", "lock", "port", "request", "device", "io port", "io request",
   "io device", "block", "expansion.library", "file", "buffer", "device process",
   "mmu.library", "mapping", "requester", "application", "gauge class",
   "muimaster.library"}

HeldInv ==
  /\ held \subseteq Resources
  /\ "dos list" \in held =>
       pc = "libs locked" \/ (pc \in DosPlaces /\ dos.modern = TRUE)
  /\ "info" \in held => pc \in {"query drive", "query lock", "query info"}
  /\ "lock" \in held => pc = "query info"
  /\ "port" \in held \/ "request" \in held =>
       pc \in BusPlaces \cup IoPlaces /\ (pc \in IoPlaces => io.back # "probed")
  /\ "device" \in held =>
       pc \in (BusPlaces \ {"scsi target"}) \cup IoPlaces
         /\ (pc \in IoPlaces => io.back # "probed")
  /\ "io port" \in held => pc \in IoPlaces \ {"io port"}
  /\ "io request" \in held => pc \in IoPlaces \ {"io port", "io request"}
  /\ "io device" \in held => pc \in {"io command", "io close"}
  /\ "block" \in held => pc = "timed"
  /\ "expansion.library" \in held => pc = "raw"
  /\ "file" \in held => pc \in {"picasso file", "file read", "file end", "report save"}
  /\ "buffer" \in held => pc \in LibsPlaces \cup FilePlaces
  /\ "device process" \in held => pc \in LibsPlaces
  /\ "mmu.library" \in held \/ "mapping" \in held => pc = "mapping"
  /\ "requester" \in held => pc \in SavePlaces
  /\ "application" \in held \/ "gauge class" \in held \/ "muimaster.library" \in held =>
       mui.open = TRUE \/ pc \in FramePlaces \ {"mui", "mui done"}
  /\ "application" \in held => pc \notin {"mui create", "mui free"}

\* The requesters are suppressed only where the code goes on to restore them.
QuietInv ==
  /\ drv.quiet => pc = "query lock"
  /\ sw.quiet => pc \in {"picasso", "picasso file"} \cup LibsPlaces \cup FilePlaces

\* The window is open exactly around its own labels and the calls from them; it
\* sleeps, measures and ticks only within an action.
WindowInv ==
  /\ mui.open \in BOOLEAN
  /\ pc \in WindowPlaces => mui.open = TRUE
  /\ mui.open = TRUE => pc \in WindowPlaces \cup SharedPlaces \cup {"mui dispose"}
  /\ mui.open = TRUE /\ pc \in IoPlaces => io.back # "probed"
  /\ mui.open = TRUE /\ pc \in SpeedPlaces => mui.then = "memory"
  /\ mui.open = TRUE /\ pc = "memory done" => mui.then \in {"memory", "select"}
  /\ mui.open = TRUE /\ pc = "refresh" => mui.then = "select"
  /\ pc = "mui measure" => mui.then # "memory"
  /\ mui.sleep => /\ mui.open = TRUE
                  /\ pc \in {"mui measure", "mui drive", "report save", "report saved",
                             "memory done"} \cup SpeedPlaces \cup ScsiPlaces \cup IoPlaces
                  /\ pc = "memory done" => mui.then = "memory"
  /\ mui.measuring => /\ mui.open = TRUE
                      /\ pc \in {"mui measure", "memory done"} \cup SpeedPlaces
                      /\ pc = "memory done" => mui.then = "memory"
  /\ mui.timer => mui.open = TRUE /\ pc # "mui dispose"

\* The reports allocated are the one there is and the one being made; the list
\* holds the lines of the first but while they are exchanged.
ReportInv ==
  /\ {report.made, report.text, report.next} \subseteq Nat
  /\ report.live = {report.text, report.next} \ {0}
  /\ report.text <= report.made /\ report.next <= report.made
  /\ pc = "report clear" => report.text < report.next
  /\ pc # "report clear" => report.next = 0
  /\ pc \in {"report insert", "mui free"} => report.shown = 0
  /\ pc \notin {"report insert", "mui free"} => report.shown = report.text
  /\ report.text # 0 => mui.open = TRUE \/ pc \in {"mui dispose", "mui free"}
  /\ report.window => report.text # 0 /\ pc # "mui free"
  /\ pc \in {"report insert", "report open"} => report.text # 0

\* The rows are entries of the lists as they are, there are none without an
\* application, and none of the SCSI devices while these are scanned.
IsList(l) == DOMAIN l = {"items", "count", "capacity", "made"}

RowsInv ==
  /\ DOMAIN lists = ListNames /\ \A n \in ListNames : IsList(lists[n])
  /\ DOMAIN mui.rows = Objects
  /\ \A o \in Objects : \A p \in mui.rows[o] :
       p[1] \in ListNames /\ Readable(p) /\ (o # "scsi" => p[1] # "scsi")
  /\ mui.open = FALSE /\ pc \notin {"mui open", "mui dispose"} =>
       \A o \in Objects : mui.rows[o] = {}
  /\ pc \in ScsiPlaces \cup IoPlaces => mui.rows["scsi"] = {}

\* The stack is read while it cannot quit, and its tasks while no interrupt
\* moves it from one of their lists to the other; the copy ends before the stack
\* only when it is full.
Room == 0..MaxPrograms
Reached == sw.copied = TRUE \/ sw.programs = MaxPrograms

StackInv ==
  /\ stack.list \in {"wait", "ready"}
  /\ pc \in ProgramPlaces => stack.runs = TRUE
  /\ sw.programs \in Room
  /\ pc \in {"programs", "ready"} => sw.programs = 0 /\ sw.copied = FALSE
  /\ pc = "waiting" /\ stack.list = "ready" => Reached
  /\ pc \in {"enable", "segments"} => Reached
  /\ sw.release # "unloaded"

ListsInv ==
  /\ TodoInv /\ FieldsInv /\ MaskInv /\ HeldInv /\ QuietInv /\ WindowInv /\ ReportInv
  /\ RowsInv /\ StackInv
-----------------------------------------------------------------------------
USE DEF Go, Hold, Drop, Held, Taken, Reached

\* A step within a call leaves the calls to make.
LEMMA TodoStays ==
  ASSUME TodoInv, pc # "idle", todo' = todo
  PROVE  TodoInv'
BY DEF TodoInv

LEMMA Names ==
  {"drives", "scsi", "memory", "boards", "libraries", "devices", "resources", "mmu"}
    \subseteq ListNames
BY GrowAssumption

\* grow_list keeps the fields of a list and its count.
LEMMA GrowKeeps ==
  ASSUME NEW n, IsList(lists[n]), NEW needed, NEW memory
  PROVE  LET l == Grow(n, needed, memory).list
         IN  IsList(l) /\ l.count = lists[n].count
BY DEF Grow, IsList

\* A step of a routine that fills one list.
Only(n) ==
  /\ DOMAIN lists' = ListNames
  /\ IsList(lists'[n])
  /\ \A m \in ListNames \ {n} : lists'[m] = lists[m]

\* A list that is given a block, one that grows by an item and one that is freed
\* are the only ones to change.
LEMMA Put ==
  ASSUME RowsInv, NEW n \in ListNames, NEW l, IsList(l), Replace(n, l)
  PROVE  Only(n)
BY DEF RowsInv, Only, Replace

LEMMA AddOnly ==
  ASSUME RowsInv, NEW n \in ListNames, NEW item, NEW memory, Add(n, item, memory)
  PROVE  Only(n)
<1> DEFINE g == Grow(n, lists[n].count + 1, memory)
<1>1. IsList(lists[n])
  BY DEF RowsInv
<1>2. IsList(g.list)
  BY <1>1, GrowKeeps
<1> HIDE DEF g
<1>3. IsList(With(g.list, item))
  BY <1>2 DEF IsList, With
<1>4. CASE g.ok
  <2>1. Replace(n, With(g.list, item))
    BY <1>4 DEF Add, g
  <2> QED BY <2>1, <1>3, Put
<1>5. CASE ~g.ok
  <2>1. lists' = lists
    BY <1>5 DEF Add, g
  <2> QED BY <2>1, <1>1 DEF RowsInv, Only
<1> QED BY <1>4, <1>5

LEMMA FreeOnly ==
  ASSUME RowsInv, NEW n \in ListNames, FreeList(n)
  PROVE  Only(n)
BY DEF RowsInv, Only, FreeList, IsList

\* Without an application there are no rows to keep.
LEMMA RowsOutside ==
  ASSUME RowsInv, mui.open = FALSE, pc \notin {"mui open", "mui dispose"},
         UNCHANGED mui, NEW n \in ListNames, Only(n) \/ UNCHANGED lists
  PROVE  RowsInv'
<1>1. DOMAIN lists' = ListNames /\ \A m \in ListNames : IsList(lists'[m])
  BY DEF RowsInv, Only
<1>2. \A o \in Objects : mui'.rows[o] = {}
  BY DEF RowsInv
<1> QED BY <1>1, <1>2 DEF RowsInv, Objects, IsList

\* Rows outlast a step that gives no list they point to another block, nor
\* makes it shorter.
LEMMA RowsStay ==
  ASSUME RowsInv, DOMAIN lists' = ListNames, \A n \in ListNames : IsList(lists'[n]),
         UNCHANGED mui.rows,
         \A n \in ListNames : \/ lists'[n].made = lists[n].made
                                   /\ lists'[n].count = lists[n].count
                              \/ n = "scsi" /\ mui.rows["scsi"] = {}
  PROVE  \A o \in Objects : \A p \in mui'.rows[o] :
           p[1] \in ListNames /\ Readable(p)' /\ (o # "scsi" => p[1] # "scsi")
<1> SUFFICES ASSUME NEW o \in Objects, NEW p \in mui.rows[o]
             PROVE  p[1] \in ListNames /\ Readable(p)' /\ (o # "scsi" => p[1] # "scsi")
  OBVIOUS
<1>1. p[1] \in ListNames
  BY DEF RowsInv
<1>2. Readable(p) /\ (o # "scsi" => p[1] # "scsi")
  BY DEF RowsInv
<1>3. p[1] = "scsi" => mui.rows["scsi"] # {}
  BY <1>2
<1>4. lists'[p[1]].made = lists[p[1]].made /\ lists'[p[1]].count = lists[p[1]].count
  BY <1>1, <1>3
<1> QED BY <1>1, <1>2, <1>4 DEF Readable
-----------------------------------------------------------------------------
USE DEF DosPlaces, DrivePlaces, IoPlaces, BusPlaces, ScsiPlaces, CountPlaces, SpeedPlaces,
        RegionPlaces, BoardPlaces, ProgramPlaces, LibsPlaces, FilePlaces, NodePlaces,
        SoftwarePlaces, ReportPlaces, SavePlaces, WindowPlaces, FramePlaces, SharedPlaces

\* Commands and scans stay among their labels and call back to those.
IoMoves ==
  /\ pc \in (ScsiPlaces \ {"scsi done"}) \cup IoPlaces
  /\ pc' \in (ScsiPlaces \ {"scsi"}) \cup IoPlaces \cup {"probed"}
  /\ pc' = "probed" => pc \in IoPlaces /\ io.back = "probed"
  /\ pc' \in IoPlaces => IF pc \in IoPlaces THEN io'.back = io.back
                         ELSE io'.back \in {"scsi answer", "scsi row"}
  /\ pc \in IoPlaces /\ pc' \notin IoPlaces => pc' = io.back
  /\ DOMAIN io' = {"for", "unit", "opened", "tries", "result", "back"}
  /\ UNCHANGED masks

LEMMA ScsiMoves ==
  ASSUME FieldsInv, ScsiStep
  PROVE  IoMoves
<1> USE DEF FieldsInv, IoMoves, Result, Command, NoIO
<1>1. ASSUME NEW ok \in BOOLEAN, CreatePort(ok)
      PROVE  IoMoves
  BY <1>1 DEF CreatePort
<1>2. ASSUME NEW ok \in BOOLEAN, CreateRequest(ok)
      PROVE  IoMoves
  BY <1>2 DEF CreateRequest
<1>3. ASSUME NEW ok \in BOOLEAN, OpenDevice(ok)
      PROVE  IoMoves
  BY <1>3 DEF OpenDevice
<1>4. ASSUME NEW ok \in BOOLEAN, DoIO(ok)
      PROVE  IoMoves
  BY <1>4 DEF DoIO
<1>5. ASSUME NEW ok \in BOOLEAN, BusOpen(ok)
      PROVE  IoMoves
  BY <1>5 DEF BusOpen, scsi_inquiry
<1>6. CASE CloseIO
  BY <1>6 DEF CloseIO
<1>7. CASE BusRow \/ BusClose \/ BusEnd
  BY <1>7 DEF BusRow, BusClose, BusEnd, ioVars
<1>8. ASSUME NEW a \in BOOLEAN, NEW b \in BOOLEAN, BusScan(a, b)
      PROVE  IoMoves
  BY <1>8 DEF BusScan
<1>9. ASSUME NEW a \in BOOLEAN, NEW b \in BOOLEAN, BusAnswer(a, b)
      PROVE  IoMoves
  BY ZenonT(60), <1>9 DEF BusAnswer, scsi_read_capacity
<1> QED BY ZenonT(60), <1>1, <1>2, <1>3, <1>4, <1>5, <1>6, <1>7, <1>8, <1>9 DEF ScsiStep

\* What a label may hold is all that is held when it is reached.
LEMMA ScsiHeld ==
  ASSUME HeldInv, ScsiStep, UNCHANGED <<mui, dos>>,
         DOMAIN io = {"for", "unit", "opened", "tries", "result", "back"},
         pc \in IoPlaces => io.back \in {"probed", "scsi answer", "scsi row"}
  PROVE  HeldInv'
<1>0. held' \subseteq Resources
  BY ZenonT(60) DEF ScsiStep, CreatePort, CreateRequest, OpenDevice, DoIO, BusOpen, CloseIO, BusRow,
         BusClose, BusEnd, BusScan, BusAnswer, HeldInv, Resources, listVars
<1> USE DEF Result, Command, NoIO
<1>1. ASSUME NEW ok \in BOOLEAN, CreatePort(ok)
      PROVE  HeldInv'
  <2>1. CASE ok
    <3>1. pc = "io port" /\ pc' = "io request" /\ io' = io
      BY <1>1, <2>1 DEF CreatePort
    <3>2. \A x : x \in held' <=> x \in held \/ x = "io port"
      BY <1>1, <2>1 DEF CreatePort
    <3> QED BY <1>0, <3>1, <3>2 DEF HeldInv
  <2>2. CASE ~ok
    <3>1. pc = "io port" /\ pc' = io.back /\ io'.back = io.back /\ held' = held
      BY <1>1, <2>2 DEF CreatePort
    <3> QED BY <1>0, <3>1 DEF HeldInv
  <2> QED BY <2>1, <2>2
<1>2. ASSUME NEW ok \in BOOLEAN, CreateRequest(ok)
      PROVE  HeldInv'
  <2>1. CASE ok
    <3>1. pc = "io request" /\ pc' = "io open" /\ io' = io
      BY <1>2, <2>1 DEF CreateRequest
    <3>2. \A x : x \in held' <=> x \in held \/ x = "io request"
      BY <1>2, <2>1 DEF CreateRequest
    <3> QED BY <1>0, <3>1, <3>2 DEF HeldInv
  <2>2. CASE ~ok
    <3>1. pc = "io request" /\ pc' = io.back /\ io'.back = io.back
      BY <1>2, <2>2 DEF CreateRequest
    <3>2. \A x : x \in held' <=> x \in held /\ x # "io port"
      BY <1>2, <2>2 DEF CreateRequest
    <3> QED BY <1>0, <3>1, <3>2 DEF HeldInv
  <2> QED BY <2>1, <2>2
<1>3. ASSUME NEW ok \in BOOLEAN, OpenDevice(ok)
      PROVE  HeldInv'
  <2>1. CASE ok
    <3>1. pc = "io open" /\ pc' = "io command" /\ io' = io
      BY <1>3, <2>1 DEF OpenDevice
    <3>2. \A x : x \in held' <=> x \in held \/ x = "io device"
      BY <1>3, <2>1 DEF OpenDevice
    <3> QED BY <1>0, <3>1, <3>2 DEF HeldInv
  <2>2. CASE ~ok /\ io.for = "inquiry" /\ io.tries = 0
    <3>1. pc = "io open" /\ pc' = pc /\ io'.back = io.back /\ held' = held
      BY <1>3, <2>2 DEF OpenDevice
    <3> QED BY <1>0, <2>2, <3>1 DEF HeldInv
  <2>3. CASE ~ok /\ ~(io.for = "inquiry" /\ io.tries = 0)
    <3>1. pc = "io open" /\ pc' = io.back /\ io'.back = io.back
      BY <1>3, <2>3 DEF OpenDevice
    <3>2. \A x : x \in held' <=> x \in held /\ x \notin {"io request", "io port"}
      BY <1>3, <2>3 DEF OpenDevice, AfterOpen
    <3> QED BY <1>0, <3>1, <3>2 DEF HeldInv
  <2> QED BY <2>1, <2>2, <2>3
<1>4. ASSUME NEW ok \in BOOLEAN, DoIO(ok)
      PROVE  HeldInv'
  BY <1>0, <1>4 DEF HeldInv, DoIO, listVars
<1>5. ASSUME NEW ok \in BOOLEAN, BusOpen(ok)
      PROVE  HeldInv'
  <2>1. CASE ok
    <3>1. pc = "scsi target" /\ pc' = "io port" /\ io'.back = "scsi answer"
      BY <1>5, <2>1 DEF BusOpen, scsi_inquiry
    <3>2. \A x : x \in held' <=> x \in held \/ x = "device"
      BY <1>5, <2>1 DEF BusOpen
    <3> QED BY <1>0, <3>1, <3>2 DEF HeldInv
  <2>2. CASE ~ok
    BY <1>5, <2>2 DEF BusOpen, HeldInv
  <2> QED BY <2>1, <2>2
<1>6. CASE CloseIO
  BY <1>0, <1>6 DEF HeldInv, CloseIO
<1>7. CASE BusRow
  BY <1>0, <1>7 DEF HeldInv, BusRow, ioVars
<1>8. CASE BusClose
  BY <1>0, <1>8 DEF HeldInv, BusClose
<1>9. CASE BusEnd
  BY <1>0, <1>9 DEF HeldInv, BusEnd, ioVars
<1>10. ASSUME NEW a \in BOOLEAN, NEW b \in BOOLEAN, BusScan(a, b)
      PROVE  HeldInv'
  <2>1. CASE held' = held
    BY <1>0, <1>10, <2>1 DEF BusScan, HeldInv
  <2>2. CASE held' # held
    <3>1. pc = "scsi" /\ pc' = "scsi target"
      BY <1>10, <2>2 DEF BusScan
    <3>2. \A x : x \in held' <=> x \in held \/ x = "port" \/ x = "request"
      BY <1>10, <2>2 DEF BusScan
    <3> QED BY <1>0, <3>1, <3>2 DEF HeldInv
  <2> QED BY <2>1, <2>2
<1>11. ASSUME NEW a \in BOOLEAN, NEW b \in BOOLEAN, BusAnswer(a, b)
      PROVE  HeldInv'
  BY <1>0, <1>11 DEF HeldInv, BusAnswer, scsi_read_capacity
<1> QED BY <1>1, <1>2, <1>3, <1>4, <1>5, <1>6, <1>7, <1>8, <1>9, <1>10, <1>11 DEF ScsiStep

\* The scan of a bus changes the list of its devices only.
LEMMA ScsiOnly ==
  ASSUME RowsInv, ScsiStep
  PROVE  Only("scsi") \/ UNCHANGED lists
<1>0. "scsi" \in ListNames /\ IsList(lists["scsi"])
  BY Names DEF RowsInv
<1>1. ASSUME NEW ok \in BOOLEAN,
             CreatePort(ok) \/ CreateRequest(ok) \/ OpenDevice(ok) \/ DoIO(ok) \/ BusOpen(ok)
      PROVE  UNCHANGED lists
  BY <1>1 DEF CreatePort, CreateRequest, OpenDevice, DoIO, BusOpen, listVars
<1>2. CASE CloseIO \/ BusClose \/ BusEnd
  BY <1>2 DEF CloseIO, BusClose, BusEnd
<1>3. CASE BusRow
  <2> DEFINE l == lists["scsi"]
  <2>1. PICK row : lists' = [lists EXCEPT !["scsi"] = With(l, row)]
    BY <1>3 DEF BusRow
  <2>2. IsList(With(l, row))
    BY <1>0 DEF IsList, With
  <2> HIDE DEF l
  <2> QED BY <1>0, <2>1, <2>2 DEF Only, RowsInv
<1>4. ASSUME NEW a \in BOOLEAN, NEW b \in BOOLEAN, BusScan(a, b)
      PROVE  Only("scsi")
  BY <1>0, <1>4, FreeOnly DEF BusScan, free_scsi_device_list
<1>5. ASSUME NEW a \in BOOLEAN, NEW b \in BOOLEAN, BusAnswer(a, b)
      PROVE  Only("scsi") \/ UNCHANGED lists
  <2> DEFINE g == Grow("scsi", lists["scsi"].count + 1, b)
             l == [g.list EXCEPT !.items[g.list.count + 1] = Row(0)]
  <2>1. IsList(g.list)
    BY <1>0, GrowKeeps
  <2>2. Replace("scsi", l) \/ UNCHANGED lists
    BY <1>5 DEF BusAnswer
  <2> HIDE DEF g
  <2>3. IsList(l)
    BY <2>1 DEF IsList
  <2> HIDE DEF l
  <2> QED BY <1>0, <2>2, <2>3, Put
<1> QED BY <1>1, <1>2, <1>3, <1>4, <1>5 DEF ScsiStep

LEMMA ScsiKeeps ==
  ASSUME ListsInv, ScsiStep,
         UNCHANGED <<driveVars, memoryVars, board, softwareVars, muiVars, todo>>
  PROVE  ListsInv'
<1>1. IoMoves
  BY ScsiMoves DEF ListsInv
<1>2. FieldsInv'
  BY <1>1 DEF ListsInv, FieldsInv, IoMoves, driveVars, softwareVars, muiVars, Places
<1>3. MaskInv'
  BY <1>1 DEF ListsInv, WindowInv, MaskInv, Forbidden, IoMoves, driveVars, muiVars, masks
<1>4. HeldInv'
  BY ScsiHeld DEF muiVars, driveVars, ListsInv, FieldsInv
<1>5. QuietInv' /\ StackInv'
  BY <1>1 DEF ListsInv, QuietInv, StackInv, IoMoves, driveVars, softwareVars
<1>6. WindowInv'
  BY ZenonT(60), <1>1 DEF ListsInv, WindowInv, IoMoves, muiVars
<1>7. ReportInv'
  BY <1>1 DEF ListsInv, ReportInv, IoMoves, muiVars
<1>8. RowsInv'
  <2>1. mui.rows["scsi"] = {} /\ mui' = mui
    BY <1>1 DEF ListsInv, RowsInv, IoMoves, muiVars
  <2>2. /\ DOMAIN lists' = ListNames
        /\ \A n \in ListNames : IsList(lists'[n])
        /\ \A n \in ListNames \ {"scsi"} : lists'[n] = lists[n]
    BY ScsiOnly DEF ListsInv, RowsInv, Only, IsList
  <2>3. \A o \in Objects : \A p \in mui'.rows[o] :
           p[1] \in ListNames /\ Readable(p)' /\ (o # "scsi" => p[1] # "scsi")
    BY <2>1, <2>2, RowsStay DEF ListsInv
  <2> QED BY <1>1, <2>1, <2>2, <2>3 DEF ListsInv, WindowInv, RowsInv, IoMoves, IsList
<1>t. TodoInv'
  <2>1. pc # "idle"
    BY <1>1 DEF IoMoves
  <2> QED BY <2>1, TodoStays DEF ListsInv
<1> QED BY <1>t, <1>2, <1>3, <1>4, <1>5, <1>6, <1>7, <1>8 DEF ListsInv
-----------------------------------------------------------------------------
\* The enumeration of drives stays among its labels, calls one probe, and keeps
\* other tasks out while it has no lock to take.
DosForbids ==
  /\ disabled' = disabled
  /\ forbid' = IF dos.modern = TRUE \/ (pc \in DosPlaces <=> pc' \in DosPlaces) THEN forbid
               ELSE IF pc' \in DosPlaces THEN forbid + 1 ELSE forbid - 1

DriveMoves ==
  /\ pc \in DrivePlaces \ {"drives done"}
  /\ pc' \in (DrivePlaces \ {"drives"}) \cup {"io port"}
  /\ pc' = "io port" => io'.back = "probed"
  /\ DOMAIN io' = {"for", "unit", "opened", "tries", "result", "back"}
  /\ DOMAIN dos' = DOMAIN dos /\ dos'.modern = dos.modern
  /\ DOMAIN drv' = DOMAIN drv
  /\ (drv.quiet => pc = "query lock") => (drv'.quiet => pc' = "query lock")
  /\ DosForbids

LEMMA DriveMoving ==
  ASSUME FieldsInv, DriveStep
  PROVE  DriveMoves
<1> USE DEF FieldsInv, DriveMoves, DosForbids, MyLockDosList, MyUnLockDosList, masks,
            ioVars, driveVars
<1>1. CASE DrivesBegin
  BY <1>1 DEF DrivesBegin
<1>2. CASE ScanLock
  BY <1>2 DEF ScanLock
<1>3. CASE ScanUnlock
  BY <1>3 DEF ScanUnlock
<1>4. CASE PortsLock
  BY <1>4 DEF PortsLock
<1>5. CASE PortsRead
  BY <1>5 DEF PortsRead
<1>6. CASE VolumesLock
  BY <1>6 DEF VolumesLock
<1>7. CASE VolumeMatched \/ VolumesUnlock
  BY <1>7 DEF VolumeMatched, VolumesUnlock
<1>8. CASE QueryDrive
  BY <1>8 DEF QueryDrive
<1>9. CASE QueryEnd
  BY <1>9 DEF QueryEnd
<1>10. CASE PruneAndSort
  BY <1>10 DEF PruneAndSort
<1>11. CASE ProbeDrive
  BY <1>11 DEF ProbeDrive, check_scsi_direct_support, Command, NoIO
<1>12. CASE Probed
  BY <1>12 DEF Probed
<1>13. CASE DrivesEnd
  BY <1>13 DEF DrivesEnd
<1>14. ASSUME NEW ok \in BOOLEAN, Scan(ok)
       PROVE  DriveMoves
  BY <1>14 DEF Scan
<1>15. ASSUME NEW ok \in BOOLEAN, Query(ok)
       PROVE  DriveMoves
  BY <1>15 DEF Query
<1>16. ASSUME NEW ok \in BOOLEAN, QueryLock(ok)
       PROVE  DriveMoves
  BY <1>16 DEF QueryLock, QuietAfter
<1>17. ASSUME NEW ok \in BOOLEAN, NEW named \in BOOLEAN,
              NEW state \in {"ok", "write protected", "unknown"}, QueryInfo(ok, state, named)
       PROVE  DriveMoves
  BY <1>17 DEF QueryInfo
<1> HIDE DEF DriveMoves
<1>18. CASE \E ok \in BOOLEAN : Scan(ok) \/ Query(ok) \/ QueryLock(ok)
  BY <1>14, <1>15, <1>16, <1>18
<1>19. CASE \E ok \in BOOLEAN, named \in BOOLEAN,
               state \in {"ok", "write protected", "unknown"} : QueryInfo(ok, state, named)
  BY ZenonT(60), <1>17, <1>19
<1> QED BY <1>1, <1>2, <1>3, <1>4, <1>5, <1>6, <1>7, <1>8, <1>9, <1>10, <1>11, <1>12,
           <1>13, <1>18, <1>19 DEF DriveStep

\* Among the labels of the drives only these three are ever held.
DriveHolds ==
  /\ held \subseteq {"dos list", "info", "lock"}
  /\ "dos list" \in held => pc \in DosPlaces /\ dos.modern = TRUE
  /\ "info" \in held => pc \in {"query drive", "query lock", "query info"}
  /\ "lock" \in held => pc = "query info"

LEMMA DriveHolding ==
  mui.open = FALSE /\ pc \in DrivePlaces => (HeldInv <=> DriveHolds)
<1> SUFFICES ASSUME mui.open = FALSE, pc \in DrivePlaces
             PROVE  HeldInv <=> DriveHolds
  OBVIOUS
<1>1. /\ pc \notin BusPlaces /\ pc \notin IoPlaces /\ pc \notin LibsPlaces
      /\ pc \notin FilePlaces /\ pc \notin SavePlaces /\ pc \notin FramePlaces
      /\ pc \notin {"libs locked", "timed", "raw", "picasso file", "report save", "mapping"}
  OBVIOUS
<1> HIDE DEF BusPlaces, IoPlaces, LibsPlaces, FilePlaces, SavePlaces, FramePlaces, DrivePlaces
<1>2. ASSUME HeldInv
      PROVE  DriveHolds
  <2>1. held \subseteq {"dos list", "info", "lock"}
    <3>1. held \subseteq Resources
      BY <1>2 DEF HeldInv
    <3>2. /\ "port" \notin held /\ "request" \notin held /\ "device" \notin held
          /\ "io port" \notin held /\ "io request" \notin held /\ "io device" \notin held
      BY <1>1, <1>2 DEF HeldInv, IoPlaces
    <3>3. /\ "block" \notin held /\ "expansion.library" \notin held
          /\ "file" \notin held /\ "buffer" \notin held /\ "device process" \notin held
      BY <1>1, <1>2 DEF HeldInv, FilePlaces
    <3>4. /\ "mmu.library" \notin held /\ "mapping" \notin held
          /\ "requester" \notin held /\ "application" \notin held
          /\ "gauge class" \notin held /\ "muimaster.library" \notin held
      BY <1>1, <1>2 DEF HeldInv
    <3> QED BY <3>1, <3>2, <3>3, <3>4 DEF Resources
  <2> QED BY <1>1, <1>2, <2>1 DEF HeldInv, DriveHolds
<1>3. ASSUME DriveHolds
      PROVE  HeldInv
  BY <1>1, <1>3 DEF HeldInv, DriveHolds, Resources
<1> QED BY <1>2, <1>3

LEMMA DriveHeld ==
  ASSUME HeldInv, FieldsInv, DriveStep, UNCHANGED mui, mui.open = FALSE
  PROVE  HeldInv'
<1>1. DriveHolds /\ dos.modern \in BOOLEAN /\ dos'.modern = dos.modern
  BY DriveMoving, DriveHolding DEF FieldsInv, DriveMoves
<1>2. (DriveHolds' /\ pc' \in DrivePlaces) \/ (held' = {} /\ pc' = "io port")
  <2> USE DEF DriveHolds
  <2>1. CASE ScanLock \/ PortsLock \/ VolumesLock
    <3>1. CASE ScanLock
      BY <1>1, <3>1 DEF ScanLock, MyLockDosList
    <3>2. CASE PortsLock
      BY <1>1, <3>2 DEF PortsLock, MyLockDosList
    <3>3. CASE VolumesLock
      BY <1>1, <3>3 DEF VolumesLock, MyLockDosList
    <3> QED BY <2>1, <3>1, <3>2, <3>3
  <2>2. CASE ScanUnlock \/ PortsRead \/ VolumesUnlock
    BY <1>1, <2>2 DEF ScanUnlock, PortsRead, VolumesUnlock, MyUnLockDosList
  <2>3. CASE DrivesBegin \/ VolumeMatched \/ PruneAndSort \/ Probed \/ DrivesEnd
    BY <1>1, <2>3 DEF DrivesBegin, VolumeMatched, PruneAndSort, Probed, DrivesEnd, listVars
  <2>4. CASE QueryDrive \/ QueryEnd
    BY <1>1, <2>4 DEF QueryDrive, QueryEnd
  <2>5. CASE ProbeDrive
    BY <1>1, <2>5 DEF ProbeDrive, check_scsi_direct_support, Command
  <2>6. ASSUME NEW ok \in BOOLEAN, Scan(ok) \/ Query(ok) \/ QueryLock(ok)
        PROVE  DriveHolds' /\ pc' \in DrivePlaces
    <3>1. CASE Scan(ok)
      BY <1>1, <3>1 DEF Scan
    <3>2. CASE Query(ok)
      BY <1>1, <3>2 DEF Query
    <3>3. CASE QueryLock(ok)
      <4>1. pc = "query lock" /\ pc' \in {"query info", "query drive"}
        BY <3>3 DEF QueryLock
      <4>2. held' = held \/ (held' = held \cup {"lock"} /\ pc' = "query info")
        BY <3>3 DEF QueryLock
      <4> QED BY <1>1, <4>1, <4>2
    <3> QED BY <2>6, <3>1, <3>2, <3>3
  <2>7. ASSUME NEW ok \in BOOLEAN, NEW named \in BOOLEAN,
               NEW state \in {"ok", "write protected", "unknown"},
               QueryInfo(ok, state, named)
        PROVE  DriveHolds' /\ pc' \in DrivePlaces
    BY <1>1, <2>7 DEF QueryInfo
  <2> HIDE DEF DriveHolds
  <2>8. CASE \E ok \in BOOLEAN, named \in BOOLEAN,
                state \in {"ok", "write protected", "unknown"} : QueryInfo(ok, state, named)
    BY <2>7, <2>8
  <2>9. CASE \E ok \in BOOLEAN : Scan(ok) \/ Query(ok) \/ QueryLock(ok)
    BY <2>6, <2>9
  <2> QED BY <2>1, <2>2, <2>3, <2>4, <2>5, <2>8, <2>9 DEF DriveStep
<1>3. CASE DriveHolds' /\ pc' \in DrivePlaces
  <2>1. (mui.open = FALSE /\ pc \in DrivePlaces => (HeldInv <=> DriveHolds))'
    BY DriveHolding, PTL
  <2> QED BY <1>3, <2>1
<1>4. CASE held' = {} /\ pc' = "io port"
  BY <1>4 DEF HeldInv
<1> QED BY <1>2, <1>3, <1>4

LEMMA DriveOnly ==
  ASSUME RowsInv, DriveStep
  PROVE  Only("drives") \/ UNCHANGED lists
<1>0. "drives" \in ListNames /\ IsList(lists["drives"]) /\ DOMAIN lists = ListNames
  BY Names DEF RowsInv
<1>1. ASSUME NEW i, NEW drive, Update(i, drive)
      PROVE  Only("drives")
  BY <1>0, <1>1 DEF Update, Only, IsList
<1>2. CASE DrivesBegin
  BY <1>0, <1>2, FreeOnly DEF DrivesBegin
<1>3. CASE \/ ScanLock \/ ScanUnlock \/ PortsLock \/ PortsRead \/ VolumesLock
           \/ VolumesUnlock \/ QueryEnd \/ DrivesEnd
  BY <1>3 DEF ScanLock, ScanUnlock, PortsLock, PortsRead, VolumesLock, VolumesUnlock,
              QueryEnd, DrivesEnd, listVars
<1>4. CASE VolumeMatched \/ QueryDrive \/ ProbeDrive \/ Probed
  BY <1>1, <1>4 DEF VolumeMatched, QueryDrive, ProbeDrive, Probed
<1>5. CASE PruneAndSort
  <2> DEFINE n == Cardinality({i \in 1..lists["drives"].count : Kept(Drive(i))})
  <2>1. \E place : lists' = [lists EXCEPT !["drives"].count = n,
                     !["drives"].items =
                       [i \in DOMAIN @ |-> IF i \in 1..n THEN @[place[i]] ELSE @[i]]]
    BY <1>5 DEF PruneAndSort
  <2> HIDE DEF n
  <2> QED BY <1>0, <2>1 DEF Only, IsList
<1>6. ASSUME NEW ok \in BOOLEAN, Scan(ok)
      PROVE  Only("drives")
  BY <1>0, <1>6, AddOnly DEF Scan
<1>7. ASSUME NEW ok \in BOOLEAN, Query(ok) \/ QueryLock(ok)
      PROVE  Only("drives") \/ UNCHANGED lists
  BY <1>1, <1>7 DEF Query, QueryLock
<1>8. CASE \E ok \in BOOLEAN : Scan(ok) \/ Query(ok) \/ QueryLock(ok)
  BY <1>6, <1>7, <1>8
<1>9. CASE \E ok \in BOOLEAN, named \in BOOLEAN,
              state \in {"ok", "write protected", "unknown"} : QueryInfo(ok, state, named)
  BY <1>1, <1>9 DEF QueryInfo
<1> QED BY <1>2, <1>3, <1>4, <1>5, <1>8, <1>9 DEF DriveStep

LEMMA DriveKeeps ==
  ASSUME ListsInv, DriveStep,
         UNCHANGED <<memoryVars, board, softwareVars, muiVars, todo>>
  PROVE  ListsInv'
<1>1. DriveMoves
  BY DriveMoving DEF ListsInv
<1>2. mui.open = FALSE /\ mui' = mui
  BY <1>1 DEF ListsInv, WindowInv, DriveMoves, muiVars
<1>3. FieldsInv'
  BY <1>1 DEF ListsInv, FieldsInv, DriveMoves, softwareVars, muiVars, Places
<1>4. MaskInv'
  <2>1. Forbidden <=> (dos.modern = FALSE /\ pc \in DosPlaces)
    BY <1>1, <1>2 DEF Forbidden, DriveMoves
  <2>2. Forbidden' <=> (dos.modern = FALSE /\ pc' \in DosPlaces)
    BY <1>1, <1>2 DEF Forbidden, DriveMoves
  <2>3. dos.modern \in BOOLEAN /\ MaskInv
    BY DEF ListsInv, FieldsInv
  <2>4. disabled' = FALSE /\ pc' \notin {"ready", "waiting", "enable"}
    BY <1>1, <2>3 DEF MaskInv, DriveMoves, DosForbids
  <2>5. IF Forbidden' THEN forbid' = 1 ELSE forbid' = 0
    <3>1. DosForbids /\ (Forbidden => forbid = 1) /\ (~Forbidden => forbid = 0)
      BY <1>1, <2>3 DEF MaskInv, DriveMoves
    <3> HIDE DEF DosPlaces, Forbidden
    <3>2. dos.modern = TRUE \/ dos.modern = FALSE
      BY <2>3
    <3>3. CASE pc \in DosPlaces <=> pc' \in DosPlaces
      BY <2>1, <2>2, <3>1, <3>3 DEF DosForbids
    <3>4. CASE dos.modern = TRUE
      BY <2>1, <2>2, <3>1, <3>4 DEF DosForbids
    <3>5. CASE dos.modern = FALSE /\ pc \in DosPlaces /\ pc' \notin DosPlaces
      BY <2>1, <2>2, <3>1, <3>5 DEF DosForbids
    <3>6. CASE dos.modern = FALSE /\ pc \notin DosPlaces /\ pc' \in DosPlaces
      BY <2>1, <2>2, <3>1, <3>6 DEF DosForbids
    <3> QED BY <3>2, <3>3, <3>4, <3>5, <3>6
  <2> QED BY <2>4, <2>5 DEF MaskInv
<1>5. HeldInv'
  BY <1>2, DriveHeld DEF ListsInv
<1>6. QuietInv' /\ StackInv'
  BY <1>1 DEF ListsInv, QuietInv, StackInv, DriveMoves, softwareVars
<1>7. WindowInv'
  BY <1>1, <1>2 DEF ListsInv, WindowInv, DriveMoves
<1>8. ReportInv'
  BY <1>1, <1>2 DEF ListsInv, ReportInv, DriveMoves, muiVars
<1>9. RowsInv'
  BY <1>1, <1>2, DriveOnly, RowsOutside, Names DEF ListsInv, DriveMoves
<1>t. TodoInv'
  <2>1. pc # "idle"
    BY <1>1 DEF DriveMoves
  <2> QED BY <2>1, TodoStays DEF ListsInv
<1> QED BY <1>t, <1>3, <1>4, <1>5, <1>6, <1>7, <1>8, <1>9 DEF ListsInv
-----------------------------------------------------------------------------
\* The memory regions are counted and scanned by main only; a region is
\* refreshed or timed with the window open too, which is told when it is done.
RegionMoves ==
  /\ pc \in CountPlaces \cup (RegionPlaces \ {"memory done"})
  /\ pc \in CountPlaces => pc' \in {"regions", "scan regions", "memory done"}
  /\ pc = "refresh" => pc' = "memory done"
  /\ pc \in SpeedPlaces => pc' \in {"timed", "publish", "memory done"}
  /\ UNCHANGED masks
  /\ DOMAIN lists' = ListNames /\ \A n \in ListNames : IsList(lists'[n])
  /\ pc \notin CountPlaces => \A n \in ListNames :
       lists'[n].made = lists[n].made /\ lists'[n].count = lists[n].count
  /\ \A x : x \in held' =>
       (x \in held /\ (pc = "timed" => x # "block")) \/ (x = "block" /\ pc' = "timed")

\* A region that is written leaves the blocks of the lists.
SameBlocks ==
  /\ DOMAIN lists' = ListNames /\ \A n \in ListNames : IsList(lists'[n])
  /\ \A n \in ListNames : lists'[n].made = lists[n].made /\ lists'[n].count = lists[n].count

LEMMA UpdateKeeps ==
  ASSUME RowsInv, NEW i, NEW region, UNCHANGED lists \/ UpdateRegion(i, region)
  PROVE  SameBlocks
<1>1. DOMAIN lists = ListNames /\ \A n \in ListNames : IsList(lists[n])
  BY DEF RowsInv
<1> QED BY <1>1 DEF SameBlocks, UpdateRegion, IsList

LEMMA RegionMoving ==
  ASSUME RowsInv, MemoryStep
  PROVE  RegionMoves
<1>0. "memory" \in ListNames /\ IsList(lists["memory"]) /\ DOMAIN lists = ListNames
  BY Names DEF RowsInv
<1>a. \A n \in ListNames : IsList(lists[n])
  BY DEF RowsInv
<1>b. ASSUME Only("memory") \/ UNCHANGED lists
      PROVE  DOMAIN lists' = ListNames /\ \A n \in ListNames : IsList(lists'[n])
  BY <1>0, <1>a, <1>b DEF Only
<1> USE DEF RegionMoves
<1>1. CASE CountRegions
  <2>1. Only("memory")
    BY <1>0, <1>1, FreeOnly DEF CountRegions
  <2> QED BY <1>1, <1>b, <2>1 DEF CountRegions
<1>2. ASSUME NEW ok \in BOOLEAN, GrowRegions(ok)
      PROVE  RegionMoves
  <2>1. Only("memory")
    <3> DEFINE l == Grow("memory", reg.headers, ok).list
    <3>1. Replace("memory", l)
      BY <1>2 DEF GrowRegions
    <3>2. IsList(l)
      BY <1>0, GrowKeeps
    <3> HIDE DEF l
    <3> QED BY <1>0, <3>1, <3>2, Put
  <2> QED BY <1>2, <1>b, <2>1 DEF GrowRegions
<1>3. CASE ScanRegions
  <2>1. Only("memory")
    BY <1>0, <1>3 DEF ScanRegions, Only, IsList
  <2> QED BY <1>3, <1>b, <2>1 DEF ScanRegions
\* The rest keeps each list's block and count.
<1>4. ASSUME NEW index, RefreshRegion(index)
      PROVE  RegionMoves
  <2>1. SameBlocks
    <3>1. UNCHANGED lists \/ \E region : UpdateRegion(index, region)
      BY <1>4 DEF RefreshRegion
    <3> QED BY <3>1, UpdateKeeps
  <2>2. pc = "refresh" /\ pc' = "memory done" /\ held' = held /\ UNCHANGED masks
    BY <1>4 DEF RefreshRegion
  <2> QED BY <2>1, <2>2 DEF SameBlocks
<1>5. ASSUME NEW index, NEW ok \in BOOLEAN, TakeBlock(index, ok)
      PROVE  RegionMoves
  <2>1. SameBlocks
    <3>1. UNCHANGED lists \/ \E region : UpdateRegion(index, region)
      BY <1>5 DEF TakeBlock
    <3> QED BY <3>1, UpdateKeeps
  <2>2. /\ pc = "speed" /\ pc' \in {"memory done", "publish", "timed"} /\ UNCHANGED masks
        /\ held' = held \/ (held' = held \cup {"block"} /\ pc' = "timed")
    <3> DEFINE h == Region(index).header
               size == Min({Largest, LargestChunk(exec[h]) \div 2})
    <3>1. CASE index > lists["memory"].count
      BY <1>5, <3>1 DEF TakeBlock
    <3>2. CASE ~(index > lists["memory"].count)
      <4>1. /\ pc = "speed" /\ UNCHANGED masks
            /\ pc' = IF size < Smallest THEN "publish" ELSE "timed"
            /\ held' = IF ~(size < Smallest) /\ ok THEN held \cup {"block"} ELSE held
        BY <1>5, <3>2 DEF TakeBlock
      <4> HIDE DEF size
      <4> QED BY <4>1
    <3> QED BY <3>1, <3>2
  <2> QED BY <2>1, <2>2 DEF SameBlocks
<1>6. CASE TimeBlock
  <2>1. SameBlocks
    BY <1>6, UpdateKeeps DEF TimeBlock
  <2>2. /\ pc = "timed" /\ pc' = "publish" /\ UNCHANGED masks
        /\ held' = held \ {"block"}
    BY <1>6 DEF TimeBlock
  <2> QED BY <2>1, <2>2 DEF SameBlocks
<1>7. CASE PublishSpeed
  <2>1. SameBlocks
    BY <1>7, UpdateKeeps DEF PublishSpeed, listVars
  <2> QED BY <1>7, <2>1 DEF PublishSpeed, listVars, SameBlocks
<1> HIDE DEF RegionMoves
<1>8. CASE \E ok \in BOOLEAN : GrowRegions(ok)
  BY <1>2, <1>8
<1>9. CASE \E index \in 1..(lists["memory"].count + 1) :
             RefreshRegion(index) \/ \E ok \in BOOLEAN : TakeBlock(index, ok)
  BY <1>4, <1>5, <1>9
<1> QED BY <1>1, <1>3, <1>6, <1>7, <1>8, <1>9 DEF MemoryStep

LEMMA MemoryKeeps ==
  ASSUME ListsInv, MemoryStep,
         UNCHANGED <<ioVars, driveVars, board, softwareVars, muiVars, todo>>
  PROVE  ListsInv'
<1>1. RegionMoves /\ mui' = mui /\ report' = report
  BY RegionMoving DEF ListsInv, muiVars
<1>2. FieldsInv'
  BY <1>1 DEF ListsInv, FieldsInv, RegionMoves, driveVars, ioVars, softwareVars, Places
<1>3. MaskInv'
  BY <1>1 DEF ListsInv, WindowInv, MaskInv, Forbidden, RegionMoves, driveVars, masks
<1>4. HeldInv'
  <2>1. /\ pc \in CountPlaces \cup RegionPlaces /\ pc' \in CountPlaces \cup RegionPlaces
        /\ \A x : x \in held' =>
             (x \in held /\ (pc = "timed" => x # "block")) \/ (x = "block" /\ pc' = "timed")
    BY <1>1 DEF RegionMoves
  <2>2. /\ pc \notin BusPlaces /\ pc \notin IoPlaces /\ pc \notin LibsPlaces
        /\ pc \notin FilePlaces /\ pc \notin SavePlaces /\ pc \notin FramePlaces
        /\ pc \notin DosPlaces
        /\ pc \notin {"libs locked", "raw", "picasso file", "report save", "mapping",
                      "query drive", "query lock", "query info"}
    BY <2>1
  <2>3. HeldInv
    BY DEF ListsInv
  <2>a. pc' \notin {"mui create", "mui free"}
    BY <2>1
  <2> HIDE DEF BusPlaces, IoPlaces, LibsPlaces, FilePlaces, SavePlaces, FramePlaces,
               DosPlaces, CountPlaces, RegionPlaces
  <2>4. held \subseteq {"block", "application", "gauge class", "muimaster.library"}
    <3>1. held \subseteq Resources
      BY <2>3 DEF HeldInv
    <3>2. /\ "port" \notin held /\ "request" \notin held /\ "device" \notin held
          /\ "io port" \notin held /\ "io request" \notin held /\ "io device" \notin held
      BY <2>2, <2>3 DEF HeldInv, IoPlaces
    <3>3. /\ "dos list" \notin held /\ "info" \notin held /\ "lock" \notin held
          /\ "expansion.library" \notin held /\ "file" \notin held
          /\ "buffer" \notin held /\ "device process" \notin held
      BY <2>2, <2>3 DEF HeldInv, FilePlaces
    <3>4. "mmu.library" \notin held /\ "mapping" \notin held /\ "requester" \notin held
      BY <2>2, <2>3 DEF HeldInv
    <3> QED BY <3>1, <3>2, <3>3, <3>4 DEF Resources
  <2>5. "block" \in held => pc = "timed"
    BY <2>3 DEF HeldInv
  <2>6. \A x \in {"application", "gauge class", "muimaster.library"} :
          x \in held => mui.open = TRUE
    BY <2>2, <2>3 DEF HeldInv
  <2>7. /\ held' \subseteq {"block", "application", "gauge class", "muimaster.library"}
        /\ "block" \in held' => pc' = "timed"
        /\ \A x \in {"application", "gauge class", "muimaster.library"} :
             x \in held' => mui'.open = TRUE
    BY <1>1, <2>1, <2>4, <2>5, <2>6
  <2> QED BY <2>7, <2>a DEF HeldInv, Resources
<1>5. QuietInv' /\ StackInv'
  BY <1>1 DEF ListsInv, QuietInv, StackInv, RegionMoves, driveVars, softwareVars
<1>6. WindowInv'
  BY <1>1 DEF ListsInv, WindowInv, RegionMoves
<1>7. ReportInv'
  BY <1>1 DEF ListsInv, ReportInv, RegionMoves
<1>8. RowsInv'
  <2>1. /\ DOMAIN lists' = ListNames /\ \A n \in ListNames : IsList(lists'[n])
    BY <1>1 DEF RegionMoves
  <2>2. CASE pc \in CountPlaces
    <3>1. \A o \in Objects : mui'.rows[o] = {}
      BY <1>1, <2>2 DEF ListsInv, WindowInv, RowsInv
    <3> QED BY <1>1, <2>1, <3>1 DEF ListsInv, RowsInv, Objects, IsList
  <2>3. CASE pc \notin CountPlaces
    <3>1. \A n \in ListNames :
            lists'[n].made = lists[n].made /\ lists'[n].count = lists[n].count
      BY <1>1, <2>3 DEF RegionMoves
    <3>2. \A o \in Objects : \A p \in mui'.rows[o] :
             p[1] \in ListNames /\ Readable(p)' /\ (o # "scsi" => p[1] # "scsi")
      BY <1>1, <2>1, <3>1, RowsStay DEF ListsInv
    <3> QED BY <1>1, <2>1, <2>3, <3>2 DEF ListsInv, RowsInv, RegionMoves, IsList
  <2> QED BY <2>2, <2>3
<1>t. TodoInv'
  <2>1. pc # "idle"
    BY <1>1 DEF RegionMoves
  <2> QED BY <2>1, TodoStays DEF ListsInv
<1> QED BY <1>t, <1>2, <1>3, <1>4, <1>5, <1>6, <1>7, <1>8 DEF ListsInv
-----------------------------------------------------------------------------
\* The boards are listed by main only, and expansion.library is held while its
\* ConfigDevs are read.
BoardMoves ==
  /\ pc \in BoardPlaces \ {"boards done"} /\ pc' \in BoardPlaces \ {"boards"}
  /\ UNCHANGED masks
  /\ Only("boards") \/ UNCHANGED lists
  /\ \A x : x \in held' =>
       (x \in held /\ (x = "expansion.library" => pc' = "raw"))
          \/ (x = "expansion.library" /\ pc' = "raw")

LEMMA BoardMoving ==
  ASSUME RowsInv, HeldInv, BoardStep
  PROVE  BoardMoves
<1>0. /\ "boards" \in ListNames /\ IsList(lists["boards"]) /\ DOMAIN lists = ListNames
      /\ "expansion.library" \in held => pc = "raw"
  BY Names DEF RowsInv, HeldInv
<1> USE DEF BoardMoves, masks
<1>1. ASSUME NEW a \in BOOLEAN, NEW b \in BOOLEAN, BoardsBegin(a, b)
      PROVE  BoardMoves
  <2>1. Only("boards") /\ pc = "boards" /\ UNCHANGED masks
    BY <1>0, <1>1, FreeOnly DEF BoardsBegin
  <2>2. \/ held' = held /\ pc' \in {"zorro", "boards done"}
        \/ held' = held \cup {"expansion.library"} /\ pc' = "raw"
    BY <1>1 DEF BoardsBegin
  <2> QED BY <1>0, <2>1, <2>2
<1>2. ASSUME NEW ok \in BOOLEAN, ZorroBoard(ok)
      PROVE  BoardMoves
  <2>1. Only("boards") \/ UNCHANGED lists
    BY <1>0, <1>2, AddOnly DEF ZorroBoard, AppendBoard
  <2>2. pc = "zorro" /\ pc' = pc /\ held' = held /\ UNCHANGED masks
    BY <1>2 DEF ZorroBoard
  <2> QED BY <1>0, <2>1, <2>2
<1>3. ASSUME NEW ok \in BOOLEAN, ZorroEnd(ok)
      PROVE  BoardMoves
  BY <1>0, <1>3 DEF ZorroEnd, listVars
<1>4. ASSUME NEW ok \in BOOLEAN, PciBoard(ok)
      PROVE  BoardMoves
  <2> DEFINE g == Grow("boards", lists["boards"].count + 1, ok)
             card == PciCards[board.pci + 1]
             l == IF g.ok /\ card # "null"
                  THEN With(g.list, BoardRecord(card, board.pci + 1)) ELSE g.list
  <2>1. IsList(g.list)
    BY <1>0, GrowKeeps
  <2>2. /\ Replace("boards", l) /\ pc = "pci" /\ UNCHANGED masks /\ held' = held
        /\ pc' \in {"pci", "boards done"}
    BY <1>4 DEF PciBoard
  <2> HIDE DEF g, card
  <2>3. IsList(l)
    BY <2>1 DEF IsList, With
  <2> HIDE DEF l
  <2>4. Only("boards")
    BY <1>0, <2>2, <2>3, Put
  <2> QED BY <1>0, <2>2, <2>4
<1>5. ASSUME NEW ok \in BOOLEAN, RawBoard(ok)
      PROVE  BoardMoves
  <2>1. Only("boards") \/ UNCHANGED lists
    BY <1>0, <1>5, AddOnly DEF RawBoard, AppendBoard
  <2>2. /\ pc = "raw" /\ UNCHANGED masks
        /\ \/ pc' = pc /\ held' = held
           \/ pc' = "boards done" /\ held' = held \ {"expansion.library"}
    BY <1>5 DEF RawBoard
  <2> QED BY <1>0, <2>1, <2>2
<1>6. CASE PciEnd \/ RawEnd
  BY <1>0, <1>6 DEF PciEnd, RawEnd, listVars
<1> HIDE DEF BoardMoves
<1>7. CASE \E a \in BOOLEAN, b \in BOOLEAN : BoardsBegin(a, b)
  BY <1>1, <1>7
<1>8. CASE \E ok \in BOOLEAN : \/ ZorroBoard(ok) \/ ZorroEnd(ok) \/ PciBoard(ok)
                               \/ RawBoard(ok)
  BY <1>2, <1>3, <1>4, <1>5, <1>8
<1> QED BY <1>6, <1>7, <1>8 DEF BoardStep

LEMMA BoardKeeps ==
  ASSUME ListsInv, BoardStep,
         UNCHANGED <<ioVars, driveVars, memoryVars, softwareVars, muiVars, todo>>
  PROVE  ListsInv'
<1>1. BoardMoves /\ mui' = mui /\ report' = report
  BY BoardMoving DEF ListsInv, muiVars
<1>2. FieldsInv' /\ pc \in BoardPlaces /\ pc' \in BoardPlaces
  BY <1>1 DEF ListsInv, FieldsInv, BoardMoves, driveVars, ioVars, softwareVars, Places
<1>3. MaskInv' /\ mui.open = FALSE
  BY <1>1 DEF ListsInv, WindowInv, MaskInv, Forbidden, BoardMoves, driveVars, masks
<1>4. HeldInv'
  <2>1. HeldInv
    BY DEF ListsInv
  <2>2. held \subseteq {"expansion.library"}
    <3>1. held \subseteq Resources
      BY <2>1 DEF HeldInv
    <3>2. /\ pc \notin BusPlaces /\ pc \notin IoPlaces /\ pc \notin LibsPlaces
          /\ pc \notin FilePlaces /\ pc \notin SavePlaces /\ pc \notin FramePlaces
          /\ pc \notin DosPlaces
          /\ pc \notin {"libs locked", "timed", "picasso file", "report save", "mapping",
                        "query drive", "query lock", "query info"}
      BY <1>2
    <3> HIDE DEF BusPlaces, IoPlaces, LibsPlaces, FilePlaces, SavePlaces, FramePlaces,
                 DosPlaces, BoardPlaces
    <3>3. /\ "port" \notin held /\ "request" \notin held /\ "device" \notin held
          /\ "io port" \notin held /\ "io request" \notin held /\ "io device" \notin held
      BY <2>1, <3>2 DEF HeldInv, IoPlaces
    <3>4. /\ "dos list" \notin held /\ "info" \notin held /\ "lock" \notin held
          /\ "block" \notin held /\ "file" \notin held
          /\ "buffer" \notin held /\ "device process" \notin held
      BY <2>1, <3>2 DEF HeldInv, FilePlaces
    <3>5. /\ "mmu.library" \notin held /\ "mapping" \notin held /\ "requester" \notin held
          /\ "application" \notin held /\ "gauge class" \notin held
          /\ "muimaster.library" \notin held
      BY <1>3, <2>1, <3>2 DEF HeldInv
    <3> QED BY <3>1, <3>3, <3>4, <3>5 DEF Resources
  <2>3. held' \subseteq {"expansion.library"} /\ ("expansion.library" \in held' => pc' = "raw")
    BY <1>1, <2>2 DEF BoardMoves
  <2> QED BY <2>3, <1>2 DEF HeldInv, Resources
<1>5. QuietInv' /\ StackInv'
  BY <1>1 DEF ListsInv, QuietInv, StackInv, BoardMoves, driveVars, softwareVars
<1>6. WindowInv'
  BY <1>1 DEF ListsInv, WindowInv, BoardMoves
<1>7. ReportInv'
  BY <1>1 DEF ListsInv, ReportInv, BoardMoves
<1>8. RowsInv'
  BY <1>1, <1>3, RowsOutside, Names DEF ListsInv, BoardMoves
<1>t. TodoInv'
  <2>1. pc # "idle"
    BY <1>1 DEF BoardMoves
  <2> QED BY <2>1, TodoStays DEF ListsInv
<1> QED BY <1>t, <1>2, <1>3, <1>4, <1>5, <1>6, <1>7, <1>8 DEF ListsInv
-----------------------------------------------------------------------------
\* The software is listed by main only.  Other tasks are kept out while the
\* stack or a list of Exec is read, interrupts while tasks are copied.
Watched == ProgramPlaces \cup NodePlaces \cup {"found"}
Copying == {"ready", "waiting", "enable"}

SoftwareMasks ==
  /\ pc \in Watched => forbid = 1
  /\ pc \notin Watched => forbid = 0
  /\ pc \in Copying => disabled = TRUE
  /\ pc \notin Copying => disabled = FALSE

SoftwareMoves ==
  /\ pc \in SoftwarePlaces \ {"software done"} /\ pc' \in SoftwarePlaces \ {"software"}
  /\ DOMAIN sw' = DOMAIN sw /\ stack' = stack
  /\ SoftwareMasks'

LEMMA Nesting ==
  /\ forbid = 0 /\ forbid' = forbid + 1 => forbid' = 1
  /\ forbid = 1 /\ forbid' = forbid - 1 => forbid' = 0
OBVIOUS

LEMMA SoftwareMoving ==
  ASSUME SoftwareMasks, SoftwareStep,
         DOMAIN sw = {"at", "flags", "lost", "quiet", "path", "copied", "programs", "release",
               "stack"}
  PROVE  SoftwareMoves
<1> USE DEF SoftwareMoves, SoftwareMasks, Watched, Copying, masks, listVars, softwareVars
<1>1. CASE SystemSoftware \/ PicassoEnd \/ ProgramsCopied \/ SegmentsRead
  BY <1>1 DEF SystemSoftware, PicassoEnd, ProgramsCopied, ReadyCopied, WaitingCopied, Copy,
     SegmentsRead
<1>2. CASE ProgramsDisable \/ ProgramsEnable \/ StackPermit \/ MmuPermit
  <2>1. CASE ProgramsDisable \/ ProgramsEnable
    BY <2>1 DEF ProgramsDisable, ProgramsEnable, Disables
  <2>2. CASE StackPermit
    BY <2>2 DEF StackPermit, Forbids
  <2>3. CASE MmuPermit
    <3>1. /\ pc = "mmu permit" /\ pc' = "software done"
          /\ forbid' = forbid - 1 /\ disabled' = disabled /\ sw' = sw /\ stack' = stack
      BY <2>3 DEF MmuPermit
    <3>2. pc \in Watched /\ pc' \notin Watched /\ pc \notin Copying /\ pc' \notin Copying
      BY <3>1
    <3>3. forbid = 1 /\ disabled = FALSE
      BY <3>2
    <3>4. SoftwareMasks'
      <4> HIDE DEF SoftwareMasks, SoftwareMoves
      <4>1. forbid' = 0
        BY <3>1, <3>3, Nesting
      <4>2. disabled' = FALSE
        BY <3>1, <3>3
      <4> QED BY <3>2, <4>1, <4>2 DEF SoftwareMasks
    <3> QED BY <3>1, <3>4
  <2> QED BY <1>2, <2>1, <2>2, <2>3
<1>3. CASE LibsHandler \/ InstalledEnd
  BY <1>3 DEF LibsHandler, InstalledEnd
<1>4. CASE LibrariesBegin \/ DevicesBegin \/ ResourcesBegin \/ MmuReset
  <2>1. /\ pc \in {"libraries", "devices", "resources", "mmu"}
        /\ pc' \in {"library", "device", "resource", "mmu entries"}
        /\ forbid' = forbid + 1 /\ disabled' = disabled
    BY <1>4 DEF LibrariesBegin, DevicesBegin, ResourcesBegin, MmuReset, SoftwareBegin
  <2>2. DOMAIN sw' = DOMAIN sw /\ stack' = stack
    BY <1>4 DEF LibrariesBegin, DevicesBegin, ResourcesBegin, MmuReset, SoftwareBegin
  <2>3. /\ pc \notin Watched /\ pc' \in Watched /\ pc \notin Copying /\ pc' \notin Copying
        /\ pc \in SoftwarePlaces \ {"software done"}
        /\ pc' \in SoftwarePlaces \ {"software"}
    BY <2>1
  <2> HIDE DEF Watched, Copying, SoftwarePlaces
  <2>4. forbid = 0 /\ disabled = FALSE
    BY <2>3
  <2>5. SoftwareMasks'
    <3> HIDE DEF SoftwareMasks
    <3>1. forbid' = 1
      BY <2>1, <2>4, Nesting
    <3>2. disabled' = FALSE
      BY <2>1, <2>4
    <3> QED BY <2>3, <3>1, <3>2 DEF SoftwareMasks
  <2> QED BY <2>2, <2>3, <2>5
<1>5. CASE LibrariesEnd \/ DevicesEnd \/ ResourcesEnd
  <2>1. /\ pc \in {"library", "device", "resource"}
        /\ pc' \in {"kickstart", "resources", "mmu"}
        /\ forbid' = forbid - 1 /\ disabled' = disabled /\ sw' = sw /\ stack' = stack
    BY <1>5 DEF LibrariesEnd, DevicesEnd, ResourcesEnd, SoftwareEnd
  <2>2. /\ pc \in Watched /\ pc' \notin Watched /\ pc \notin Copying /\ pc' \notin Copying
        /\ pc \in SoftwarePlaces \ {"software done"}
        /\ pc' \in SoftwarePlaces \ {"software"}
    BY <2>1
  <2> HIDE DEF Watched, Copying, SoftwarePlaces
  <2>3. forbid = 1 /\ disabled = FALSE
    BY <2>2
  <2>4. SoftwareMasks'
    <3> HIDE DEF SoftwareMasks
    <3>1. forbid' = 0 /\ disabled' = FALSE
      BY <2>1, <2>3
    <3> QED BY <2>2, <3>1 DEF SoftwareMasks
  <2> QED BY <2>1, <2>2, <2>4
<1>6. ASSUME NEW ok \in BOOLEAN, GraphicsSystem(ok) \/ PicassoOpen(ok) \/ PicassoRead(ok)
      PROVE  SoftwareMoves
  BY <1>6 DEF GraphicsSystem, PicassoOpen, PicassoRead
<1>7. ASSUME NEW ok \in BOOLEAN, FindStack(ok)
      PROVE  SoftwareMoves
  BY <1>7 DEF FindStack, Forbids
<1>8. ASSUME NEW ok \in BOOLEAN,
             \/ InstalledBegin(ok) \/ LibsNext(ok) \/ LibsFloppy(ok) \/ FileOpen(ok)
             \/ FileRead(ok)
      PROVE  SoftwareMoves
  BY <1>8 DEF InstalledBegin, LibsNext, LibsFloppy, FileOpen, FileRead
<1>9. ASSUME NEW ok \in BOOLEAN, LibraryNode(ok)
      PROVE  SoftwareMoves
  BY <1>9 DEF LibraryNode
<1>10. ASSUME NEW ok \in BOOLEAN, DeviceNode(ok) \/ ResourceNode(ok)
       PROVE  SoftwareMoves
  BY <1>10 DEF DeviceNode, ResourceNode, SoftwareNode
<1>11. ASSUME NEW ok \in BOOLEAN, MmuRange(ok) \/ MmuHints(ok)
       PROVE  SoftwareMoves
  BY <1>11 DEF MmuRange, MmuHints
<1>12. ASSUME NEW a \in BOOLEAN, NEW b \in BOOLEAN, KickstartEntries(a, b)
       PROVE  SoftwareMoves
  BY <1>12 DEF KickstartEntries
<1>13. ASSUME NEW a \in BOOLEAN, NEW b \in BOOLEAN, NEW c \in BOOLEAN, MmuBegin(a, b, c)
       PROVE  SoftwareMoves
  BY <1>13 DEF MmuBegin
<1> HIDE DEF SoftwareMoves
<1>14. CASE \E ok \in BOOLEAN :
         \/ GraphicsSystem(ok) \/ PicassoOpen(ok) \/ PicassoRead(ok) \/ FindStack(ok)
         \/ InstalledBegin(ok) \/ LibsNext(ok) \/ LibsFloppy(ok) \/ FileOpen(ok)
         \/ FileRead(ok) \/ LibraryNode(ok) \/ DeviceNode(ok) \/ ResourceNode(ok)
         \/ MmuRange(ok) \/ MmuHints(ok)
  BY <1>6, <1>7, <1>8, <1>9, <1>10, <1>11, <1>14
<1>15. CASE \E a \in BOOLEAN, b \in BOOLEAN : KickstartEntries(a, b)
  BY <1>12, <1>15
<1>16. CASE \E a \in BOOLEAN, b \in BOOLEAN, c \in BOOLEAN : MmuBegin(a, b, c)
  BY <1>13, <1>16
<1> QED BY <1>1, <1>2, <1>3, <1>4, <1>5, <1>14, <1>15, <1>16 DEF SoftwareStep

\* What is held is the file read, the buffer and the directory of the search
\* for an installed stack, or mmu.library with a mapping.
SoftwareHolds ==
  /\ held \subseteq {"file", "buffer", "device process", "dos list", "mmu.library",
                     "mapping"}
  /\ "dos list" \in held => pc = "libs locked"
  /\ "file" \in held => pc \in {"picasso file", "file read", "file end"}
  /\ "buffer" \in held => pc \in LibsPlaces \cup FilePlaces
  /\ "device process" \in held => pc \in LibsPlaces
  /\ "mmu.library" \in held \/ "mapping" \in held => pc = "mapping"

SoftwareQuiet ==
  sw.quiet => pc \in {"picasso", "picasso file"} \cup LibsPlaces \cup FilePlaces

\* A copy comes to the stack, if it is there, or is full; it stays so.
LEMMA CopyReaches ==
  ASSUME NEW there, NEW ahead \in 0..MaxPrograms, NEW behind \in 0..MaxPrograms,
         Copy(there, ahead, behind), sw.programs \in Room,
         DOMAIN sw = {"at", "flags", "lost", "quiet", "path", "copied", "programs", "release",
               "stack"}
  PROVE  /\ sw'.programs \in Room
         /\ there \/ Reached => Reached'
<1> DEFINE copied == there /\ sw.programs + ahead < MaxPrograms
           all == sw.programs + ahead + behind + (IF copied THEN 1 ELSE 0)
<1>1. MaxPrograms \in Nat /\ ahead \in Nat /\ behind \in Nat /\ sw.programs \in Nat
      /\ sw.programs <= MaxPrograms
  BY SoftwareAssumption DEF Room
<1>2. /\ sw'.copied = (sw.copied \/ copied)
      /\ sw'.programs = IF all < MaxPrograms THEN all ELSE MaxPrograms
  BY DEF Copy
<1>3. all \in Nat /\ all >= sw.programs + ahead
  BY <1>1
<1>4. sw'.programs \in Room
  <2> HIDE DEF all
  <2> QED BY <1>1, <1>2, <1>3 DEF Room
<1>5. CASE there /\ copied
  BY <1>2, <1>4, <1>5
<1>6. CASE sw.copied = TRUE
  BY <1>2, <1>4, <1>6
<1>7. CASE sw.programs + ahead >= MaxPrograms
  <2> HIDE DEF all
  <2>1. ~(all < MaxPrograms)
    BY <1>1, <1>3, <1>7
  <2> QED BY <1>2, <1>4, <2>1
<1>8. there \/ Reached => \/ there /\ copied
                          \/ sw.copied = TRUE
                          \/ sw.programs + ahead >= MaxPrograms
  BY <1>1
<1> QED BY <1>4, <1>5, <1>6, <1>7, <1>8

LEMMA NoPrograms == 0 \in Room
BY SoftwareAssumption DEF Room

LEMMA SoftwareHolding ==
  ASSUME SoftwareHolds, SoftwareQuiet, StackInv, SoftwareStep,
         DOMAIN sw = {"at", "flags", "lost", "quiet", "path", "copied", "programs", "release",
               "stack"}
  PROVE  SoftwareHolds' /\ SoftwareQuiet' /\ StackInv'
<1> DEFINE Goal == SoftwareHolds' /\ SoftwareQuiet' /\ StackInv'
<1> SUFFICES Goal
  OBVIOUS
<1> USE DEF SoftwareHolds, SoftwareQuiet, StackInv, listVars, softwareVars
<1>1. CASE SystemSoftware \/ PicassoEnd
  BY <1>1 DEF SystemSoftware, PicassoEnd
<1>2. CASE ProgramsCopied
  <2>1. PICK ahead \in 0..MaxPrograms, behind \in 0..MaxPrograms :
          ReadyCopied(ahead, behind) \/ WaitingCopied(ahead, behind)
    BY <1>2 DEF ProgramsCopied
  <2>2. /\ UNCHANGED <<held, stack>> /\ sw'.release = sw.release /\ sw'.quiet = sw.quiet
        /\ \/ pc = "ready" /\ pc' = "waiting"
           \/ pc = "waiting" /\ pc' = "enable"
    BY <2>1 DEF ReadyCopied, WaitingCopied, Copy
  <2>3. SoftwareHolds' /\ SoftwareQuiet'
    BY <2>2
  <2>4. sw.programs \in Room /\ stack.list \in {"wait", "ready"}
    OBVIOUS
  <2>5. CASE ReadyCopied(ahead, behind)
    <3>1. Copy(stack.runs /\ stack.list = "ready", ahead, behind)
      BY <2>5 DEF ReadyCopied
    <3>2. /\ pc = "ready" /\ pc' = "waiting" /\ stack.runs = TRUE
      BY <2>2, <2>5 DEF ReadyCopied
    <3>3. sw'.programs \in Room /\ (stack.list = "ready" => Reached')
      BY <2>4, <3>1, <3>2, CopyReaches
    <3> QED BY <2>2, <2>3, <3>2, <3>3
  <2>6. CASE WaitingCopied(ahead, behind)
    <3>1. Copy(stack.runs /\ stack.list = "wait", ahead, behind)
      BY <2>6 DEF WaitingCopied
    <3>2. pc = "waiting" /\ pc' = "enable" /\ stack.runs = TRUE
      BY <2>2, <2>6 DEF WaitingCopied
    <3>3. stack.list = "ready" => Reached
      BY <3>2
    <3>4. sw'.programs \in Room /\ Reached'
      BY <2>4, <3>1, <3>2, <3>3, CopyReaches
    <3> QED BY <2>2, <2>3, <3>2, <3>4
  <2> QED BY <2>1, <2>5, <2>6
<1>4. CASE SegmentsRead
  BY <1>4, NoPrograms DEF SegmentsRead
<1>5. CASE ProgramsDisable \/ ProgramsEnable \/ StackPermit \/ MmuPermit
  BY <1>5 DEF ProgramsDisable, ProgramsEnable, StackPermit, MmuPermit
<1>6. CASE LibsHandler \/ InstalledEnd
  BY <1>6 DEF LibsHandler, InstalledEnd
<1>7. CASE LibrariesBegin \/ DevicesBegin \/ ResourcesBegin \/ MmuReset
  BY <1>7 DEF LibrariesBegin, DevicesBegin, ResourcesBegin, MmuReset, SoftwareBegin
<1>8. CASE LibrariesEnd \/ DevicesEnd \/ ResourcesEnd
  BY <1>8 DEF LibrariesEnd, DevicesEnd, ResourcesEnd, SoftwareEnd
<1>9. ASSUME NEW ok \in BOOLEAN, GraphicsSystem(ok) \/ PicassoOpen(ok) \/ PicassoRead(ok)
      PROVE  Goal
  <2>1. CASE GraphicsSystem(ok)
    BY <2>1 DEF GraphicsSystem
  <2>2. CASE PicassoOpen(ok)
    <3>1. CASE ok
      <4>1. /\ pc = "picasso" /\ pc' = "picasso file"
            /\ \A y : y \in held' <=> y \in held \/ y = "file"
        BY <2>2, <3>1 DEF PicassoOpen
      <4>2. stack' = stack /\ sw'.release = sw.release /\ sw'.copied = sw.copied
            /\ sw'.programs = sw.programs
        BY <2>2, <3>1 DEF PicassoOpen
      <4>3. SoftwareHolds'
        BY <4>1
      <4>4. SoftwareQuiet' /\ StackInv'
        BY <4>1, <4>2
      <4> QED BY <4>3, <4>4
    <3>2. CASE ~ok
      BY <2>2, <3>2 DEF PicassoOpen
    <3> QED BY <3>1, <3>2
  <2>3. CASE PicassoRead(ok)
    BY <2>3 DEF PicassoRead
  <2> QED BY <1>9, <2>1, <2>2, <2>3
<1>10. ASSUME NEW ok \in BOOLEAN, FindStack(ok)
       PROVE  Goal
  BY <1>10, NoPrograms DEF FindStack
<1>11. ASSUME NEW ok \in BOOLEAN,
              \/ InstalledBegin(ok) \/ LibsNext(ok) \/ LibsFloppy(ok) \/ FileOpen(ok)
              \/ FileRead(ok)
       PROVE  Goal
  <2>1. CASE InstalledBegin(ok)
    <3>1. CASE ok
      <4>1. /\ pc = "installed" /\ pc' = "libs"
            /\ \A y : y \in held' <=> y \in held \/ y = "buffer"
        BY <2>1, <3>1 DEF InstalledBegin
      <4>2. stack' = stack /\ sw'.release = sw.release /\ sw'.copied = sw.copied
            /\ sw'.programs = sw.programs
        BY <2>1, <3>1 DEF InstalledBegin
      <4>3. SoftwareHolds'
        BY <4>1
      <4>4. SoftwareQuiet' /\ StackInv'
        BY <4>1, <4>2
      <4> QED BY <4>3, <4>4
    <3>2. CASE ~ok
      BY <2>1, <3>2 DEF InstalledBegin
    <3> QED BY <3>1, <3>2
  <2>2. CASE LibsNext(ok)
    <3>1. CASE ok
      <4>1. /\ pc = "libs" /\ pc' = "libs handler"
            /\ \A y : y \in held' <=> y \in held \/ y = "device process"
        BY <2>2, <3>1 DEF LibsNext
      <4>2. stack' = stack /\ sw'.release = sw.release /\ sw'.copied = sw.copied
            /\ sw'.programs = sw.programs
        BY <2>2, <3>1 DEF LibsNext
      <4>3. SoftwareHolds'
        BY <4>1
      <4>4. SoftwareQuiet' /\ StackInv'
        BY <4>1, <4>2
      <4> QED BY <4>3, <4>4
    <3>2. CASE ~ok
      BY <2>2, <3>2 DEF LibsNext
    <3> QED BY <3>1, <3>2
  <2>3. CASE LibsFloppy(ok)
    BY <2>3 DEF LibsFloppy
  <2>4. CASE FileOpen(ok)
    <3>1. CASE ok
      <4>1. /\ pc = "file" /\ pc' = "file read"
            /\ \A y : y \in held' <=> y \in held \/ y = "file"
        BY <2>4, <3>1 DEF FileOpen
      <4>2. stack' = stack /\ sw'.release = sw.release /\ sw'.copied = sw.copied
            /\ sw'.programs = sw.programs
        BY <2>4, <3>1 DEF FileOpen
      <4>3. SoftwareHolds'
        BY <4>1
      <4>4. SoftwareQuiet' /\ StackInv'
        BY <4>1, <4>2
      <4> QED BY <4>3, <4>4
    <3>2. CASE ~ok
      BY <2>4, <3>2 DEF FileOpen
    <3> QED BY <3>1, <3>2
  <2>5. CASE FileRead(ok)
    BY <2>5 DEF FileRead
  <2> QED BY <1>11, <2>1, <2>2, <2>3, <2>4, <2>5
<1>12. ASSUME NEW ok \in BOOLEAN, LibraryNode(ok)
       PROVE  Goal
  BY <1>12 DEF LibraryNode
<1>13. ASSUME NEW ok \in BOOLEAN, DeviceNode(ok) \/ ResourceNode(ok)
       PROVE  Goal
  BY <1>13 DEF DeviceNode, ResourceNode, SoftwareNode
<1>14. ASSUME NEW ok \in BOOLEAN, MmuRange(ok) \/ MmuHints(ok)
       PROVE  Goal
  BY <1>14 DEF MmuRange, MmuHints
<1>15. ASSUME NEW a \in BOOLEAN, NEW b \in BOOLEAN, KickstartEntries(a, b)
       PROVE  Goal
  BY <1>15 DEF KickstartEntries
<1>16. ASSUME NEW a \in BOOLEAN, NEW b \in BOOLEAN, NEW c \in BOOLEAN, MmuBegin(a, b, c)
       PROVE  Goal
  BY <1>16 DEF MmuBegin
<1> HIDE DEF Goal
<1>17. CASE \E ok \in BOOLEAN :
         \/ GraphicsSystem(ok) \/ PicassoOpen(ok) \/ PicassoRead(ok) \/ FindStack(ok)
         \/ InstalledBegin(ok) \/ LibsNext(ok) \/ LibsFloppy(ok) \/ FileOpen(ok)
         \/ FileRead(ok) \/ LibraryNode(ok) \/ DeviceNode(ok) \/ ResourceNode(ok)
         \/ MmuRange(ok) \/ MmuHints(ok)
  BY <1>9, <1>10, <1>11, <1>12, <1>13, <1>14, <1>17
<1>18. CASE \E a \in BOOLEAN, b \in BOOLEAN : KickstartEntries(a, b)
  BY <1>15, <1>18
<1>19. CASE \E a \in BOOLEAN, b \in BOOLEAN, c \in BOOLEAN : MmuBegin(a, b, c)
  BY <1>16, <1>19
<1> QED BY <1>1, <1>2, <1>4, <1>5, <1>6, <1>7, <1>8, <1>17, <1>18, <1>19
        DEF SoftwareStep

LEMMA SoftwareOnly ==
  ASSUME RowsInv, SoftwareStep
  PROVE  \E n \in ListNames : Only(n) \/ UNCHANGED lists
<1>0. /\ {"libraries", "devices", "resources", "mmu"} \subseteq ListNames
      /\ DOMAIN lists = ListNames
      /\ \A n \in ListNames : IsList(lists[n])
  BY Names DEF RowsInv
<1> DEFINE Goal == \E n \in ListNames : Only(n) \/ UNCHANGED lists
<1> SUFFICES Goal
  OBVIOUS
<1> USE DEF listVars
<1>1. CASE \/ SystemSoftware \/ PicassoEnd \/ ProgramsCopied \/ SegmentsRead
           \/ ProgramsDisable \/ ProgramsEnable \/ StackPermit \/ MmuPermit \/ LibsHandler
           \/ InstalledEnd
  BY <1>0, <1>1 DEF SystemSoftware, PicassoEnd, ProgramsCopied, ReadyCopied, WaitingCopied, SegmentsRead,
     ProgramsDisable, ProgramsEnable, StackPermit, MmuPermit, LibsHandler, InstalledEnd
<1>2. ASSUME NEW n \in ListNames, NEW to, SoftwareBegin(n, to)
      PROVE  Goal
  BY <1>2, FreeOnly DEF SoftwareBegin
<1>3. ASSUME NEW n \in ListNames, NEW from, NEW to, SoftwareEnd(n, from, to)
      PROVE  Goal
  <2>1. \E items : lists' = [lists EXCEPT ![n].items = items]
    <3> DEFINE entries == 1..lists[n].count
    <3>1. PICK place : lists' = [lists EXCEPT ![n].items =
                          [i \in DOMAIN @ |-> IF i \in entries THEN @[place[i]] ELSE @[i]]]
      BY <1>3 DEF SoftwareEnd
    <3> HIDE DEF entries
    <3> QED BY <3>1
  <2>2. Only(n)
    BY <1>0, <2>1 DEF Only, IsList
  <2> QED BY <2>2
<1>4. ASSUME NEW ok \in BOOLEAN,
             \/ GraphicsSystem(ok) \/ PicassoOpen(ok) \/ PicassoRead(ok) \/ FindStack(ok)
             \/ InstalledBegin(ok) \/ LibsNext(ok) \/ LibsFloppy(ok) \/ FileOpen(ok)
             \/ FileRead(ok)
      PROVE  Goal
  BY <1>0, <1>4 DEF GraphicsSystem, PicassoOpen, PicassoRead, FindStack, InstalledBegin,
     LibsNext, LibsFloppy, FileOpen, FileRead
<1>5. ASSUME NEW n \in ListNames, NEW item, NEW memory, Add(n, item, memory)
      PROVE  Goal
  BY <1>5, AddOnly
<1>6. ASSUME NEW ok \in BOOLEAN, \/ LibraryNode(ok) \/ DeviceNode(ok) \/ ResourceNode(ok)
                                 \/ MmuRange(ok)
      PROVE  Goal
  BY <1>0, <1>5, <1>6 DEF LibraryNode, DeviceNode, ResourceNode, SoftwareNode, MmuRange
<1>7. ASSUME NEW ok \in BOOLEAN, MmuHints(ok)
      PROVE  Goal
  <2> DEFINE g == Grow("mmu", lists["mmu"].count + Hints, ok)
             k == g.list.count
             l == [g.list EXCEPT !.count = k + Hints,
                     !.items = [i \in DOMAIN @ |->
                       IF i \in k + 1 .. k + Hints THEN "hint" ELSE @[i]]]
  <2>1. Replace("mmu", l) \/ UNCHANGED lists
    BY <1>7 DEF MmuHints
  <2>2. IsList(g.list)
    BY <1>0, GrowKeeps
  <2> HIDE DEF g
  <2>3. IsList(l)
    BY <2>2 DEF IsList
  <2> HIDE DEF l
  <2> QED BY <1>0, <2>1, <2>3, Put
<1>8. ASSUME NEW updated \in BOOLEAN, NEW ok \in BOOLEAN, KickstartEntries(updated, ok)
      PROVE  Goal
  <2> DEFINE g == Grow("libraries", lists["libraries"].count + 2, ok)
             new == Kickstart(updated)
             k == Len(new)
             l == [g.list EXCEPT !.count = @ + k,
                     !.items = [i \in DOMAIN @ |-> IF i <= k THEN new[i]
                                                   ELSE IF i <= g.list.count + k THEN @[i - k]
                                                   ELSE @[i]]]
  <2>1. Replace("libraries", l) \/ UNCHANGED lists
    BY <1>8 DEF KickstartEntries
  <2>2. IsList(g.list)
    BY <1>0, GrowKeeps
  <2> HIDE DEF g, new
  <2>3. IsList(l)
    BY <2>2 DEF IsList
  <2> HIDE DEF l
  <2> QED BY <1>0, <2>1, <2>3, Put
<1>9. ASSUME NEW loaded \in BOOLEAN, NEW opens \in BOOLEAN, NEW ok \in BOOLEAN,
             MmuBegin(loaded, opens, ok)
      PROVE  Goal
  BY <1>0, <1>5, <1>9 DEF MmuBegin
<1> HIDE DEF Goal
<1>10. CASE LibrariesBegin \/ DevicesBegin \/ ResourcesBegin \/ MmuReset
  BY <1>0, <1>2, <1>10 DEF LibrariesBegin, DevicesBegin, ResourcesBegin, MmuReset
<1>11. CASE LibrariesEnd \/ DevicesEnd \/ ResourcesEnd
  BY <1>0, <1>3, <1>11 DEF LibrariesEnd, DevicesEnd, ResourcesEnd
<1>12. CASE \E ok \in BOOLEAN :
         \/ GraphicsSystem(ok) \/ PicassoOpen(ok) \/ PicassoRead(ok) \/ FindStack(ok)
         \/ InstalledBegin(ok) \/ LibsNext(ok) \/ LibsFloppy(ok) \/ FileOpen(ok)
         \/ FileRead(ok) \/ LibraryNode(ok) \/ DeviceNode(ok) \/ ResourceNode(ok)
         \/ MmuRange(ok) \/ MmuHints(ok)
  BY <1>4, <1>6, <1>7, <1>12
<1>13. CASE \E a \in BOOLEAN, b \in BOOLEAN : KickstartEntries(a, b)
  BY <1>8, <1>13
<1>14. CASE \E a \in BOOLEAN, b \in BOOLEAN, c \in BOOLEAN : MmuBegin(a, b, c)
  BY <1>9, <1>14
<1> QED BY <1>1, <1>10, <1>11, <1>12, <1>13, <1>14 DEF SoftwareStep

LEMMA SoftwareKeeps ==
  ASSUME ListsInv, SoftwareStep,
         UNCHANGED <<ioVars, driveVars, memoryVars, board, muiVars, todo>>
  PROVE  ListsInv'
<1>1. /\ mui' = mui /\ report' = report /\ dos' = dos /\ drv' = drv /\ io' = io
      /\ todo' = todo
  BY DEF muiVars, driveVars, ioVars
<1>2. SoftwareMasks
  <2>1. pc \in SoftwarePlaces
    BY DEF SoftwareStep, SystemSoftware, PicassoEnd, ProgramsCopied, ReadyCopied, WaitingCopied,
       SegmentsRead, ProgramsDisable, ProgramsEnable, StackPermit, MmuPermit, LibsHandler,
       InstalledEnd, LibrariesBegin, DevicesBegin, ResourcesBegin, MmuReset, SoftwareBegin,
       LibrariesEnd, DevicesEnd, ResourcesEnd, SoftwareEnd, GraphicsSystem, PicassoOpen,
       PicassoRead, FindStack, InstalledBegin, LibsNext, LibsFloppy, FileOpen, FileRead,
       LibraryNode, DeviceNode, ResourceNode, SoftwareNode, MmuRange, MmuHints,
       KickstartEntries, MmuBegin
  <2>2. MaskInv
    BY DEF ListsInv
  <2> QED BY <2>1, <2>2 DEF MaskInv, Forbidden, SoftwareMasks, Watched, Copying
<1>3. SoftwareMoves
  BY <1>2, SoftwareMoving DEF ListsInv, FieldsInv
<1>4. pc \in SoftwarePlaces /\ pc' \in SoftwarePlaces /\ mui.open = FALSE
  BY <1>3 DEF SoftwareMoves, ListsInv, WindowInv
<1>5. FieldsInv'
  <2>1. pc' \in Places /\ pc' \notin IoPlaces
    BY ZenonT(60), <1>4 DEF Places
  <2>2. DOMAIN sw' = DOMAIN sw
    BY <1>3 DEF SoftwareMoves
  <2>3. stack' = stack
    BY <1>3 DEF SoftwareMoves
  <2> HIDE DEF IoPlaces
  <2> QED BY <1>1, <2>1, <2>2, <2>3 DEF ListsInv, FieldsInv
<1>6. MaskInv'
  BY <1>1, <1>3, <1>4 DEF MaskInv, Forbidden, SoftwareMoves, SoftwareMasks, Watched, Copying
<1>7. HeldInv
  BY DEF ListsInv
<1>8. /\ \A p \in {pc, pc'} :
           /\ p \notin BusPlaces /\ p \notin IoPlaces /\ p \notin SavePlaces
           /\ p \notin FramePlaces /\ p \notin DosPlaces
           /\ p \notin {"timed", "raw", "report save", "query drive", "query lock",
                       "query info"}
  BY <1>4
<1>9. SoftwareHolds
  <2> HIDE DEF BusPlaces, IoPlaces, LibsPlaces, FilePlaces, SavePlaces, FramePlaces,
               DosPlaces, SoftwarePlaces
  <2>1. held \subseteq Resources
    BY <1>7 DEF HeldInv
  <2>2. /\ "port" \notin held /\ "request" \notin held /\ "device" \notin held
        /\ "io port" \notin held /\ "io request" \notin held /\ "io device" \notin held
    BY <1>7, <1>8 DEF HeldInv, IoPlaces
  <2>3. /\ "info" \notin held /\ "lock" \notin held /\ "block" \notin held
        /\ "expansion.library" \notin held /\ "requester" \notin held
    BY <1>7, <1>8 DEF HeldInv
  <2>4. /\ "application" \notin held /\ "gauge class" \notin held
        /\ "muimaster.library" \notin held
    BY <1>4, <1>7, <1>8 DEF HeldInv
  <2>5. held \subseteq {"file", "buffer", "device process", "dos list", "mmu.library",
                        "mapping"}
    BY <2>1, <2>2, <2>3, <2>4 DEF Resources
  <2> QED BY <1>7, <1>8, <2>5 DEF HeldInv, SoftwareHolds
<1>10. SoftwareHolds' /\ SoftwareQuiet' /\ StackInv'
  BY <1>9, SoftwareHolding DEF ListsInv, FieldsInv, QuietInv, SoftwareQuiet
<1>11. HeldInv'
  BY <1>8, <1>10 DEF HeldInv, SoftwareHolds, Resources
<1>12. QuietInv'
  BY <1>1, <1>4, <1>10 DEF ListsInv, QuietInv, SoftwareQuiet
<1>13. WindowInv'
  BY ZenonT(60), <1>1, <1>4 DEF ListsInv, WindowInv
<1>14. ReportInv'
  BY <1>1, <1>4 DEF ListsInv, ReportInv
<1>15. RowsInv'
  BY <1>1, <1>4, SoftwareOnly, RowsOutside DEF ListsInv
<1>t. TodoInv'
  <2>1. pc # "idle"
    BY <1>1, <1>3 DEF SoftwareMoves
  <2> QED BY <2>1, TodoStays DEF ListsInv
<1> QED BY <1>t, <1>5, <1>6, <1>10, <1>11, <1>12, <1>13, <1>14, <1>15 DEF ListsInv
-----------------------------------------------------------------------------
\* The interface moves among its own labels and calls the routines it shares; it
\* changes no list.
MuiPlaces == FramePlaces \cup WindowPlaces

\* The parameters of its steps, bound once.
MuiAction(a, b, what) ==
  \/ FillLists \/ IdValues \/ IdSoftware \/ IdMemory \/ Measured \/ Selected
  \/ IdDrive \/ DriveChecked \/ IdScsi \/ ScsiShown \/ IdReport
  \/ IdReportFormat \/ FreeReport \/ IdReportClose \/ SaveLines \/ ReportSaved
  \/ IdQuit \/ CleanupClock \/ DisposeApplication \/ DisposeRest \/ TurnPage
  \/ IdMeasure(what)
  \/ OpenMui(a) \/ OpenMain(a) \/ CreateReport(a) \/ InsertReport(a)
  \/ OpenReport(a) \/ IdReportSave(a) \/ MuiWait(a)
  \/ CreateApplication(a, b) \/ SaveRequest(a, b)

LEMMA MuiActs ==
  ASSUME MuiStep \/ TurnPage
  PROVE  \E a \in BOOLEAN, b \in BOOLEAN, what \in {"benchmarks", "memory", "drive"} :
           MuiAction(a, b, what)
<1>1. CASE \E what \in {"benchmarks", "memory", "drive"} : IdMeasure(what)
  BY <1>1 DEF MuiAction
<1>2. CASE \E ok \in BOOLEAN :
       \/ OpenMui(ok) \/ OpenMain(ok) \/ CreateReport(ok) \/ InsertReport(ok)
       \/ OpenReport(ok) \/ IdReportSave(ok) \/ MuiWait(ok)
  BY <1>2 DEF MuiAction
<1>3. CASE \E a \in BOOLEAN, b \in BOOLEAN : CreateApplication(a, b) \/ SaveRequest(a, b)
  BY <1>3 DEF MuiAction
<1> QED BY <1>1, <1>2, <1>3 DEF MuiStep, MuiAction

MuiMoves ==
  /\ pc \in (MuiPlaces \ {"mui done"}) \cup {"memory done", "scsi done"}
  /\ pc' \in (MuiPlaces \ {"mui"}) \cup {"refresh", "speed", "scsi"}
  /\ lists' = lists /\ io' = io /\ sw' = sw /\ stack' = stack
  /\ DOMAIN mui' = DOMAIN mui /\ DOMAIN report' = DOMAIN report

LEMMA MuiMoving ==
  ASSUME NEW a \in BOOLEAN, NEW b \in BOOLEAN,
         NEW what \in {"benchmarks", "memory", "drive"}, MuiAction(a, b, what), FieldsInv
  PROVE  MuiMoves
<1> USE DEF FieldsInv, MuiMoves, Other, ioVars, softwareVars, masks, muiVars, Id, Count,
            MuiPlaces
<1>1. CASE FillLists \/ IdValues \/ IdSoftware \/ IdMemory
  BY <1>1 DEF FillLists, IdValues, IdSoftware, IdMemory
<1>2. CASE Measured \/ Selected \/ IdDrive \/ DriveChecked
  BY <1>2 DEF Measured, Selected, IdDrive, DriveChecked
<1>3. CASE IdScsi \/ ScsiShown
  BY <1>3 DEF IdScsi, ScsiShown
<1>4. CASE IdReport \/ IdReportFormat \/ FreeReport \/ IdReportClose
  BY <1>4 DEF IdReport, IdReportFormat, FreeReport, IdReportClose, CloseReport
<1>5. CASE SaveLines \/ ReportSaved \/ IdQuit \/ CleanupClock \/ TurnPage
  BY <1>5 DEF SaveLines, ReportSaved, IdQuit, CleanupClock, TurnPage
<1>6. CASE DisposeApplication \/ DisposeRest
  BY <1>6 DEF DisposeApplication, DisposeRest
<1>7. CASE IdMeasure(what) \/ OpenMui(a) \/ OpenMain(a) \/ MuiWait(a) \/ IdReportSave(a)
  BY <1>7 DEF IdMeasure, OpenMui, OpenMain, MuiWait, IdReportSave
<1>8. CASE CreateReport(a) \/ InsertReport(a) \/ OpenReport(a)
  BY <1>8 DEF CreateReport, InsertReport, OpenReport, CloseReport
<1>9. CASE CreateApplication(a, b) \/ SaveRequest(a, b)
  BY <1>9 DEF CreateApplication, SaveRequest
<1> QED BY <1>1, <1>2, <1>3, <1>4, <1>5, <1>6, <1>7, <1>8, <1>9 DEF MuiAction

LEMMA MuiMask ==
  ASSUME NEW a \in BOOLEAN, NEW b \in BOOLEAN,
         NEW what \in {"benchmarks", "memory", "drive"}, MuiAction(a, b, what),
         FieldsInv, MaskInv, WindowInv, dos' = dos
  PROVE  MaskInv'
<1> USE DEF Other, ioVars, softwareVars, masks, muiVars, Id, Count, FieldsInv, MaskInv,
            Forbidden, WindowInv
<1>1. CASE FillLists \/ IdValues \/ IdSoftware \/ IdMemory
  BY <1>1 DEF FillLists, IdValues, IdSoftware, IdMemory, Pointers
<1>2. CASE Measured
  <2>1. /\ pc = "mui measure" \/ (pc = "memory done" /\ mui.open = TRUE /\ mui.then = "memory")
        /\ pc' = IF mui.then = "memory" THEN "refresh" ELSE "mui wait"
        /\ forbid' = IF mui.then = "drive" THEN forbid ELSE forbid - 1
        /\ disabled' = disabled /\ mui'.open = mui.open /\ mui'.then = "select"
    BY <1>2 DEF Measured
  <2>2. /\ Forbidden <=> mui.then # "drive"
        /\ ~Forbidden'
        /\ pc \notin {"ready", "waiting", "enable"} /\ pc' \notin {"ready", "waiting", "enable"}
    BY <2>1
  <2> HIDE DEF Forbidden
  <2>3. forbid' = 0
    BY <2>1, <2>2, Nesting
  <2> QED BY <2>1, <2>2, <2>3
<1>3. CASE Selected \/ IdDrive \/ DriveChecked
  BY <1>3 DEF Selected, IdDrive, DriveChecked
<1>4. CASE IdScsi \/ ScsiShown
  BY <1>4 DEF IdScsi, ScsiShown, RowsDuringScan
<1>5. CASE IdReport \/ IdReportFormat \/ FreeReport \/ IdReportClose
  BY <1>5 DEF IdReport, IdReportFormat, FreeReport, IdReportClose, CloseReport, ShownAtFree
<1>6. CASE SaveLines \/ ReportSaved \/ IdQuit \/ CleanupClock \/ TurnPage
  BY <1>6 DEF SaveLines, ReportSaved, IdQuit, CleanupClock, TurnPage
<1>7. CASE DisposeApplication \/ DisposeRest
  BY <1>7 DEF DisposeApplication, DisposeRest
<1>8. CASE IdMeasure(what)
  <2>1. /\ pc = "mui input" /\ pc' = IF what = "memory" THEN "speed" ELSE "mui measure"
        /\ forbid' = IF what = "drive" THEN forbid ELSE forbid + 1
        /\ disabled' = disabled /\ mui'.open = mui.open /\ mui'.then = what
    BY <1>8 DEF IdMeasure
  <2>2. /\ ~Forbidden
        /\ Forbidden' <=> what # "drive"
        /\ pc \notin {"ready", "waiting", "enable"} /\ pc' \notin {"ready", "waiting", "enable"}
    BY <2>1
  <2> HIDE DEF Forbidden
  <2>3. forbid = 0
    BY <2>2
  <2>4. forbid' = IF what = "drive" THEN 0 ELSE 1
    BY <2>1, <2>3, Nesting
  <2> QED BY <2>1, <2>2, <2>4
<1>9. CASE OpenMui(a) \/ OpenMain(a) \/ MuiWait(a) \/ IdReportSave(a)
  BY <1>9 DEF OpenMui, OpenMain, MuiWait, IdReportSave
<1>10. CASE CreateReport(a) \/ InsertReport(a) \/ OpenReport(a)
  BY <1>10 DEF CreateReport, InsertReport, OpenReport, CloseReport
<1>11. CASE CreateApplication(a, b) \/ SaveRequest(a, b)
  BY <1>11 DEF CreateApplication, SaveRequest
<1> QED BY <1>1, <1>2, <1>3, <1>4, <1>5, <1>6, <1>7, <1>8, <1>9, <1>10, <1>11 DEF MuiAction

LEMMA MuiWindow ==
  ASSUME NEW a \in BOOLEAN, NEW b \in BOOLEAN,
         NEW what \in {"benchmarks", "memory", "drive"}, MuiAction(a, b, what),
         FieldsInv, WindowInv
  PROVE  WindowInv'
<1> USE DEF Other, ioVars, softwareVars, masks, muiVars, Id, Count, FieldsInv, WindowInv
<1>1. CASE FillLists \/ IdValues \/ IdSoftware \/ IdMemory
  <2>1. CASE FillLists
    BY <2>1 DEF FillLists
  <2>2. CASE IdValues
    BY <2>2 DEF IdValues
  <2>3. CASE IdSoftware
    BY ZenonT(60), <2>3 DEF IdSoftware
  <2>4. CASE IdMemory
    BY <2>4 DEF IdMemory
  <2> QED BY <1>1, <2>1, <2>2, <2>3, <2>4
<1>2. CASE Measured
  BY <1>2 DEF Measured
<1>3. CASE Selected \/ IdDrive \/ DriveChecked
  <2>1. CASE Selected
    BY <2>1 DEF Selected
  <2>2. CASE IdDrive
    BY <2>2 DEF IdDrive
  <2>3. CASE DriveChecked
    BY <2>3 DEF DriveChecked
  <2> QED BY <1>3, <2>1, <2>2, <2>3
<1>4. CASE IdScsi \/ ScsiShown
  BY ZenonT(60), <1>4 DEF IdScsi, ScsiShown, RowsDuringScan
<1>5. CASE IdReport \/ IdReportFormat \/ FreeReport \/ IdReportClose
  BY ZenonT(60), <1>5 DEF IdReport, IdReportFormat, FreeReport, IdReportClose, CloseReport,
                          ShownAtFree
<1>6. CASE SaveLines \/ ReportSaved \/ IdQuit \/ CleanupClock \/ TurnPage
  BY ZenonT(60), <1>6 DEF SaveLines, ReportSaved, IdQuit, CleanupClock, TurnPage
<1>7. CASE DisposeApplication \/ DisposeRest
  <2>1. CASE DisposeApplication
    BY <2>1 DEF DisposeApplication
  <2>2. CASE DisposeRest
    BY <2>2 DEF DisposeRest
  <2> QED BY <1>7, <2>1, <2>2
<1>8. CASE IdMeasure(what)
  BY <1>8 DEF IdMeasure
<1>9. CASE OpenMui(a) \/ OpenMain(a) \/ MuiWait(a) \/ IdReportSave(a)
  <2>1. CASE OpenMui(a)
    BY <2>1 DEF OpenMui
  <2>2. CASE OpenMain(a)
    BY <2>2 DEF OpenMain
  <2>3. CASE MuiWait(a)
    BY <2>3 DEF MuiWait
  <2>4. CASE IdReportSave(a)
    BY <2>4 DEF IdReportSave
  <2> QED BY <1>9, <2>1, <2>2, <2>3, <2>4
<1>10. CASE CreateReport(a) \/ InsertReport(a) \/ OpenReport(a)
  BY <1>10 DEF CreateReport, InsertReport, OpenReport, CloseReport
<1>11. CASE CreateApplication(a, b) \/ SaveRequest(a, b)
  <2>1. CASE CreateApplication(a, b)
    BY <2>1 DEF CreateApplication
  <2>2. CASE SaveRequest(a, b)
    BY <2>2 DEF SaveRequest
  <2> QED BY <1>11, <2>1, <2>2
<1> QED BY <1>1, <1>2, <1>3, <1>4, <1>5, <1>6, <1>7, <1>8, <1>9, <1>10, <1>11 DEF MuiAction

\* Most steps leave the reports alone.
LEMMA ReportStays ==
  ASSUME ReportInv, report' = report, mui'.open = mui.open \/ report.text = 0,
         pc \notin {"report clear", "report insert", "mui dispose", "mui free"},
         pc' \notin {"report clear", "report insert"},
         pc' \in {"report open", "mui free"} => (report.text = 0 <=> pc' = "mui free")
  PROVE  ReportInv'
BY DEF ReportInv

\* A new report beside the old one, and the old one freed.
LEMMA LiveReports ==
  ASSUME NEW text \in Nat, NEW next \in Nat, text < next
  PROVE  /\ ({text, 0} \ {0}) \cup {next} = {text, next} \ {0}
         /\ ({text, next} \ {0}) \ {text} = {next, 0} \ {0}
         /\ next # 0
OBVIOUS

ReportFields == {"text", "next", "shown", "window", "made", "live", "opens"}

LEMMA FreeReportKeeps ==
  ASSUME DOMAIN report = ReportFields, ReportInv, WindowInv, FreeReport
  PROVE  ReportInv'
<1>1. pc = "report clear" /\ pc' = "report insert" /\ mui' = mui
  BY DEF FreeReport
<1>2. /\ report'.shown = 0 /\ report'.text = report.next /\ report'.next = 0
      /\ report'.made = report.made
      /\ report'.live = report.live \ {report.text}
  BY DEF FreeReport, ShownAtFree, ReportFields
<1>3. mui.open = TRUE
  BY <1>1 DEF WindowInv
<1>4. /\ {report.made, report.text, report.next} \subseteq Nat
      /\ report.text < report.next /\ report.next <= report.made
      /\ report.live = {report.text, report.next} \ {0}
  BY <1>1 DEF ReportInv
<1>5. report'.live = {report'.text, report'.next} \ {0} /\ report'.text # 0
  BY <1>2, <1>4, LiveReports
<1>6. {report'.made, report'.text, report'.next} \subseteq Nat
  BY <1>2, <1>4
<1>7. report'.text <= report'.made /\ report'.next <= report'.made
  BY <1>2, <1>4
<1> QED BY <1>1, <1>2, <1>3, <1>5, <1>6, <1>7 DEF ReportInv

LEMMA CreateReportKeeps ==
  ASSUME DOMAIN report = ReportFields, ReportInv, WindowInv, CreateReport(TRUE)
  PROVE  ReportInv'
<1>0. pc = "report" /\ pc' = "report clear" /\ mui' = mui
  BY DEF CreateReport
<1>1. /\ report'.shown = report.shown /\ report'.text = report.text
      /\ report'.next = report.made + 1 /\ report'.made = report.made + 1
      /\ report'.window = report.window
      /\ report'.live = report.live \cup {report.made + 1}
  BY DEF CreateReport, ReportFields
<1>2. mui.open = TRUE
  BY <1>0 DEF WindowInv
<1>3. /\ {report.made, report.text} \subseteq Nat /\ report.text <= report.made
      /\ report.live = {report.text, 0} \ {0} /\ report.shown = report.text
      /\ report.window => report.text # 0
  BY <1>0 DEF ReportInv
<1>4. report.made + 1 \in Nat /\ report.text < report.made + 1
  BY <1>3
<1>5. report'.live = {report'.text, report'.next} \ {0}
  BY <1>1, <1>3, <1>4, LiveReports
<1>6. {report'.made, report'.text, report'.next} \subseteq Nat
  BY <1>1, <1>3, <1>4
<1>7. /\ report'.text < report'.next /\ report'.text <= report'.made
      /\ report'.next <= report'.made
  BY <1>1, <1>3, <1>4
<1> QED BY <1>0, <1>1, <1>2, <1>3, <1>5, <1>6, <1>7 DEF ReportInv

LEMMA MuiReport ==
  ASSUME NEW a \in BOOLEAN, NEW b \in BOOLEAN,
         NEW what \in {"benchmarks", "memory", "drive"}, MuiAction(a, b, what),
         FieldsInv, ReportInv, WindowInv
  PROVE  ReportInv'
<1> USE DEF Other, masks, muiVars, Id, Count, FieldsInv
<1> DEFINE Stays ==
             /\ report' = report /\ (mui'.open = mui.open \/ report.text = 0)
             /\ pc \notin {"report clear", "report insert", "mui dispose", "mui free"}
             /\ pc' \notin {"report clear", "report insert"}
             /\ pc' \in {"report open", "mui free"} => (report.text = 0 <=> pc' = "mui free")
<1>0. ASSUME Stays
      PROVE  ReportInv'
  BY <1>0, ReportStays
<1>1. CASE FillLists \/ IdValues \/ IdSoftware \/ IdMemory
  <2>1. Stays
    BY <1>1 DEF FillLists, IdValues, IdSoftware, IdMemory
  <2> QED BY <1>0, <2>1
<1>2. CASE Measured \/ Selected \/ IdDrive \/ DriveChecked
  <2>1. Stays
    BY <1>2 DEF Measured, Selected, IdDrive, DriveChecked
  <2> QED BY <1>0, <2>1
<1>3. CASE IdScsi \/ ScsiShown
  <2>1. Stays
    BY <1>3 DEF IdScsi, ScsiShown
  <2> QED BY <1>0, <2>1
<1>4. CASE SaveLines \/ ReportSaved \/ IdQuit \/ CleanupClock \/ TurnPage
  <2>1. Stays
    BY <1>4 DEF SaveLines, ReportSaved, IdQuit, CleanupClock, TurnPage
  <2> QED BY <1>0, <2>1
<1>5. CASE IdMeasure(what) \/ MuiWait(a) \/ IdReportSave(a) \/ SaveRequest(a, b)
  <2>1. Stays
    BY <1>5 DEF IdMeasure, MuiWait, IdReportSave, SaveRequest
  <2> QED BY <1>0, <2>1
<1>6. CASE OpenMui(a) \/ OpenMain(a) \/ CreateApplication(a, b)
  <2>1. pc \in {"mui", "mui open", "mui create"} /\ report' = report
        /\ pc' \in {"mui create", "mui done", "mui input", "mui dispose", "mui fill", "mui free"}
    BY <1>6 DEF OpenMui, OpenMain, CreateApplication
  <2>2. report.text = 0
    BY <2>1 DEF ReportInv, WindowInv
  <2>3. Stays
    BY <2>1, <2>2
  <2> QED BY <1>0, <2>3
<1> HIDE DEF Stays
<1> USE DEF ReportInv, WindowInv
\* What close_report leaves.
<1> DEFINE Closed == /\ report'.window = FALSE /\ report'.shown = 0 /\ report'.text = 0
                     /\ report'.live = report.live \ {report.text}
                     /\ report'.next = report.next /\ report'.made = report.made
                     /\ mui'.open = mui.open
<1>7. CASE IdReport
  BY <1>7 DEF IdReport
<1>8. CASE IdReportFormat
  BY <1>8 DEF IdReportFormat
<1>9. CASE IdReportClose
  <2>1. pc = "mui input" /\ pc' = "mui wait" /\ Closed
    BY <1>9 DEF IdReportClose, CloseReport
  <2> HIDE DEF FieldsInv, WindowInv
  <2> QED BY <2>1
<1>10. CASE FreeReport
  BY <1>10, FreeReportKeeps DEF ReportFields
<1>11. CASE CreateReport(a)
  <2>1. CASE ~a
    <3>1. Stays
      BY <1>11, <2>1 DEF CreateReport, Stays
    <3> QED BY <1>0, <3>1
  <2>2. CASE a
    BY <1>11, <2>2, CreateReportKeeps DEF ReportFields
  <2> QED BY <2>1, <2>2
<1>12. CASE InsertReport(a)
  <2>1. pc = "report insert" /\ pc' \in {"report open", "mui wait"}
    BY <1>12 DEF InsertReport
  <2>2. CASE a
    <3>1. /\ mui' = mui /\ report'.shown = report.text
          /\ \A f \in {"text", "next", "made", "window", "live"} : report'[f] = report[f]
      BY <1>12, <2>2 DEF InsertReport
    <3>2. report.text # 0
      BY <2>1
    <3> HIDE DEF FieldsInv, WindowInv
    <3> QED BY <2>1, <3>1, <3>2
  <2>3. CASE ~a
    <3>1. Closed /\ pc' = "mui wait"
      BY <1>12, <2>3 DEF InsertReport, CloseReport
    <3> HIDE DEF FieldsInv, WindowInv
    <3> QED BY <2>1, <3>1
  <2> QED BY <2>2, <2>3
<1>13. CASE OpenReport(a)
  <2>1. pc = "report open" /\ pc' = "mui wait"
    BY <1>13 DEF OpenReport
  <2>2. CASE a
    <3>1. /\ mui' = mui /\ report'.window = TRUE
          /\ \A f \in {"text", "next", "made", "shown", "live"} : report'[f] = report[f]
      BY <1>13, <2>2 DEF OpenReport
    <3> HIDE DEF FieldsInv, WindowInv
    <3> QED BY <2>1, <3>1
  <2>3. CASE ~a
    <3>1. Closed
      BY <1>13, <2>3 DEF OpenReport, CloseReport
    <3> HIDE DEF FieldsInv, WindowInv
    <3> QED BY <2>1, <3>1
  <2> QED BY <2>2, <2>3
<1>14. CASE DisposeApplication
  <2>1. /\ pc = "mui dispose" /\ pc' = "mui free"
        /\ report'.shown = 0 /\ report'.window = FALSE
        /\ \A f \in {"text", "next", "made", "live"} : report'[f] = report[f]
    BY <1>14 DEF DisposeApplication
  <2> HIDE DEF FieldsInv, WindowInv
  <2> QED BY <2>1
<1>15. CASE DisposeRest
  <2>1. /\ pc = "mui free" /\ pc' = "mui done" /\ mui' = mui
        /\ report'.text = 0 /\ report'.live = report.live \ {report.text}
        /\ \A f \in {"next", "made", "shown", "window"} : report'[f] = report[f]
    BY <1>15 DEF DisposeRest
  <2> HIDE DEF FieldsInv, WindowInv
  <2> QED BY <2>1
<1> QED BY <1>1, <1>2, <1>3, <1>4, <1>5, <1>6, <1>7, <1>8, <1>9, <1>10, <1>11, <1>12,
           <1>13, <1>14, <1>15 DEF MuiAction

\* What the interface holds is the library, the class and the application, and a
\* requester with a file.
MuiHolds ==
  /\ held \subseteq {"file", "requester", "application", "gauge class",
                     "muimaster.library"}
  /\ "file" \in held => pc = "report save"
  /\ "requester" \in held => pc \in SavePlaces
  /\ "application" \in held \/ "gauge class" \in held \/ "muimaster.library" \in held =>
       mui.open = TRUE \/ pc \in FramePlaces \ {"mui", "mui done"}
  /\ "application" \in held => pc \notin {"mui create", "mui free"}

LEMMA MuiHolding ==
  pc \in MuiPlaces \cup {"memory done", "scsi done", "refresh", "speed", "scsi"} =>
    (HeldInv <=> MuiHolds)
<1> SUFFICES ASSUME pc \in MuiPlaces \cup {"memory done", "scsi done", "refresh", "speed",
                                           "scsi"}
             PROVE  HeldInv <=> MuiHolds
  OBVIOUS
<1>1. /\ pc \notin BusPlaces /\ pc \notin IoPlaces /\ pc \notin LibsPlaces
      /\ pc \notin FilePlaces /\ pc \notin DosPlaces
      /\ pc \notin {"libs locked", "timed", "raw", "picasso file", "mapping",
                    "query drive", "query lock", "query info"}
  BY DEF MuiPlaces
<1> HIDE DEF BusPlaces, IoPlaces, LibsPlaces, FilePlaces, SavePlaces, FramePlaces, DosPlaces
<1>2. ASSUME HeldInv
      PROVE  MuiHolds
  <2>1. held \subseteq Resources
    BY <1>2 DEF HeldInv
  <2>2. /\ "port" \notin held /\ "request" \notin held /\ "device" \notin held
        /\ "io port" \notin held /\ "io request" \notin held /\ "io device" \notin held
    BY <1>1, <1>2 DEF HeldInv, IoPlaces
  <2>3. /\ "dos list" \notin held /\ "info" \notin held /\ "lock" \notin held
        /\ "block" \notin held /\ "expansion.library" \notin held
    BY <1>1, <1>2 DEF HeldInv
  <2>4. /\ "buffer" \notin held /\ "device process" \notin held
        /\ "mmu.library" \notin held /\ "mapping" \notin held
    BY <1>1, <1>2 DEF HeldInv
  <2>5. held \subseteq {"file", "requester", "application", "gauge class",
                        "muimaster.library"}
    BY <2>1, <2>2, <2>3, <2>4 DEF Resources
  <2>6. "file" \in held => pc = "report save"
    BY <1>1, <1>2 DEF HeldInv, FilePlaces
  <2> QED BY <1>2, <2>5, <2>6 DEF HeldInv, MuiHolds
<1>3. ASSUME MuiHolds
      PROVE  HeldInv
  BY <1>1, <1>3 DEF HeldInv, MuiHolds, Resources
<1> QED BY <1>2, <1>3

LEMMA MuiHeld ==
  ASSUME NEW a \in BOOLEAN, NEW b \in BOOLEAN,
         NEW what \in {"benchmarks", "memory", "drive"}, MuiAction(a, b, what),
         FieldsInv, MuiHolds, WindowInv
  PROVE  MuiHolds'
<1> USE DEF Other, ioVars, softwareVars, masks, muiVars, Id, Count, FieldsInv, MuiHolds, WindowInv
<1>1. CASE FillLists \/ IdValues \/ IdSoftware \/ IdMemory
  <2>1. CASE FillLists
    BY <2>1 DEF FillLists
  <2>2. CASE IdValues
    BY <2>2 DEF IdValues
  <2>3. CASE IdSoftware
    BY <2>3 DEF IdSoftware
  <2>4. CASE IdMemory
    BY <2>4 DEF IdMemory
  <2> QED BY <1>1, <2>1, <2>2, <2>3, <2>4
<1>2. CASE Measured
  BY <1>2 DEF Measured
<1>3. CASE Selected \/ IdDrive \/ DriveChecked
  <2>1. CASE Selected
    BY <2>1 DEF Selected
  <2>2. CASE IdDrive
    BY <2>2 DEF IdDrive
  <2>3. CASE DriveChecked
    BY <2>3 DEF DriveChecked
  <2> QED BY <1>3, <2>1, <2>2, <2>3
<1>4. CASE IdScsi \/ ScsiShown
  <2>1. CASE IdScsi
    BY <2>1 DEF IdScsi
  <2>2. CASE ScsiShown
    BY <2>2 DEF ScsiShown
  <2> QED BY <1>4, <2>1, <2>2
<1>5. CASE IdReport \/ IdReportFormat \/ FreeReport \/ IdReportClose
  <2>1. CASE IdReport
    BY <2>1 DEF IdReport
  <2>2. CASE IdReportFormat
    BY <2>2 DEF IdReportFormat
  <2>3. CASE FreeReport
    BY <2>3 DEF FreeReport
  <2>4. CASE IdReportClose
    BY <2>4 DEF IdReportClose
  <2> QED BY <1>5, <2>1, <2>2, <2>3, <2>4
<1>6. CASE SaveLines \/ ReportSaved \/ IdQuit \/ CleanupClock \/ TurnPage
  BY ZenonT(60), <1>6 DEF SaveLines, ReportSaved, IdQuit, CleanupClock, TurnPage
<1>7. CASE DisposeApplication \/ DisposeRest
  BY <1>7 DEF DisposeApplication, DisposeRest
<1>8. CASE IdMeasure(what)
  BY <1>8 DEF IdMeasure
<1>9. CASE OpenMui(a) \/ OpenMain(a) \/ MuiWait(a) \/ IdReportSave(a)
  <2>1. CASE OpenMui(a)
    <3>1. CASE a
      <4>1. pc' = "mui create"
        BY <2>1, <3>1 DEF OpenMui
      <4>2. \A x : x \in held' <=> x \in held \/ x = "muimaster.library"
        <5>1. held' = held \cup {"muimaster.library"}
          BY <2>1, <3>1 DEF OpenMui
        <5> QED BY <5>1
      <4>3. pc = "mui"
        BY <2>1 DEF OpenMui
      <4> QED BY <4>1, <4>2, <4>3
    <3>2. CASE ~a
      <4>1. pc = "mui" /\ pc' = "mui done" /\ held' = held
        BY <2>1, <3>2 DEF OpenMui
      <4>2. mui.open = FALSE
        BY <4>1
      <4> QED BY <4>1, <4>2
    <3> QED BY <3>1, <3>2
  <2>2. CASE OpenMain(a)
    BY <2>2 DEF OpenMain
  <2>3. CASE MuiWait(a)
    BY <2>3 DEF MuiWait
  <2>4. CASE IdReportSave(a)
    <3>1. CASE a
      <4>1. /\ pc = "mui input" /\ pc' = "report request" /\ mui'.open = mui.open
            /\ \A x : x \in held' <=> x \in held \/ x = "requester"
        <5>1. held' = held \cup {"requester"}
          BY <2>4, <3>1 DEF IdReportSave
        <5>2. pc = "mui input" /\ pc' = "report request" /\ mui'.open = mui.open
          BY <2>4, <3>1 DEF IdReportSave
        <5> QED BY <5>1, <5>2
      <4> QED BY <4>1
    <3>2. CASE ~a
      BY ZenonT(60), <2>4, <3>2 DEF IdReportSave
    <3> QED BY <3>1, <3>2
  <2> QED BY <1>9, <2>1, <2>2, <2>3, <2>4
<1>10. CASE CreateReport(a) \/ InsertReport(a) \/ OpenReport(a)
  BY <1>10 DEF CreateReport, InsertReport, OpenReport, CloseReport
<1>11. CASE CreateApplication(a, b) \/ SaveRequest(a, b)
  <2>1. CASE CreateApplication(a, b)
    <3>1. /\ pc = "mui create" /\ pc' = IF b THEN "mui fill" ELSE "mui free"
          /\ mui' = mui
          /\ \A x : x \in held' <=> \/ x \in held \/ (a /\ x = "gauge class")
                                   \/ (b /\ x = "application")
      BY <2>1 DEF CreateApplication
    <3>0. pc = "mui create"
      BY <3>1
    <3> HIDE DEF FieldsInv, WindowInv
    <3>2. "file" \notin held /\ "requester" \notin held /\ "application" \notin held
      BY <3>0
    <3>3. \A x \in held : x \in {"gauge class", "muimaster.library"}
      BY <3>2
    <3>4. CASE b
      <4>1. pc' = "mui fill"
        BY <3>1, <3>4
      <4>2. \A x \in held' : x \in {"gauge class", "muimaster.library", "application"}
        BY <3>1, <3>3
      <4> QED BY <4>1, <4>2
    <3>5. CASE ~b
      BY <3>1, <3>3, <3>5
    <3> QED BY <3>4, <3>5
  <2>2. CASE SaveRequest(a, b)
    <3>1. /\ pc = "report request" /\ pc' \in {"report save", "report saved"}
          /\ mui'.open = mui.open
          /\ \A x : x \in held' <=> x \in held \/ (pc' = "report save" /\ x = "file")
      BY <2>2 DEF SaveRequest
    <3> QED BY <3>1
  <2> QED BY <1>11, <2>1, <2>2
<1> QED BY <1>1, <1>2, <1>3, <1>4, <1>5, <1>6, <1>7, <1>8, <1>9, <1>10, <1>11 DEF MuiAction

\* Most steps leave the rows alone.
LEMMA RowsKept ==
  ASSUME RowsInv, lists' = lists, mui'.rows = mui.rows,
         mui'.open = FALSE /\ pc' \notin {"mui open", "mui dispose"} =>
           mui.open = FALSE /\ pc \notin {"mui open", "mui dispose"},
         pc' \notin ScsiPlaces \cup IoPlaces
  PROVE  RowsInv'
BY DEF RowsInv, Readable, IsList

\* Rows that point to all the entries of a list, or to some of them.
LEMMA PointersRead ==
  ASSUME NEW n \in ListNames, NEW p \in Pointers(n)
  PROVE  p[1] = n /\ p[1] \in ListNames /\ Readable(p)
BY DEF Pointers, Readable

LEMMA RowsRedrawn ==
  ASSUME RowsInv, lists' = lists, DOMAIN mui'.rows = Objects,
         mui'.open = FALSE /\ pc' \notin {"mui open", "mui dispose"} =>
           \A o \in Objects : mui'.rows[o] = {},
         pc' \in ScsiPlaces \cup IoPlaces => mui'.rows["scsi"] = {},
         \A o \in Objects : \/ mui'.rows[o] = mui.rows[o]
                            \/ mui'.rows[o] = {}
                            \/ \E n \in ListNames : /\ mui'.rows[o] \subseteq Pointers(n)
                                                    /\ o # "scsi" => n # "scsi"
  PROVE  RowsInv'
<1>1. DOMAIN lists' = ListNames /\ \A n \in ListNames : IsList(lists'[n])
  BY DEF RowsInv
<1>2. ASSUME NEW o \in Objects, NEW p \in mui'.rows[o]
      PROVE  p[1] \in ListNames /\ Readable(p)' /\ (o # "scsi" => p[1] # "scsi")
  <2>1. Readable(p)' <=> Readable(p)
    BY DEF Readable
  <2>2. CASE mui'.rows[o] = mui.rows[o]
    BY <1>2, <2>1, <2>2 DEF RowsInv
  <2>3. CASE \E n \in ListNames : /\ mui'.rows[o] \subseteq Pointers(n)
                                  /\ o # "scsi" => n # "scsi"
    BY <1>2, <2>1, <2>3, PointersRead
  <2> QED BY <1>2, <2>2, <2>3
<1> QED BY <1>1, <1>2 DEF RowsInv, IsList

LEMMA MuiRows ==
  ASSUME NEW a \in BOOLEAN, NEW b \in BOOLEAN,
         NEW what \in {"benchmarks", "memory", "drive"}, MuiAction(a, b, what),
         FieldsInv, RowsInv, WindowInv
  PROVE  RowsInv'
<1> USE DEF Other, masks, muiVars, Id, Count, FieldsInv
<1>a. mui.open \in BOOLEAN /\ (pc \in WindowPlaces => mui.open = TRUE)
  BY DEF WindowInv
<1>1. CASE IdValues \/ IdMemory \/ IdMeasure(what) \/ IdDrive \/ IdReport \/ IdReportFormat
             \/ IdReportClose \/ IdReportSave(a) \/ IdQuit \/ TurnPage
  <2>1. /\ lists' = lists /\ mui'.rows = mui.rows /\ pc = "mui input"
        /\ mui'.open = mui.open /\ pc' \notin ScsiPlaces \cup IoPlaces
    BY ZenonT(60), <1>1 DEF IdValues, IdMemory, IdMeasure, IdDrive, IdReport, IdReportFormat,
                IdReportClose, IdReportSave, IdQuit, TurnPage
  <2> QED BY <1>a, <2>1, RowsKept
<1>2. CASE DriveChecked \/ FreeReport \/ SaveLines \/ ReportSaved \/ CleanupClock
             \/ CreateReport(a) \/ InsertReport(a) \/ OpenReport(a) \/ MuiWait(a)
             \/ SaveRequest(a, b)
  <2>1. /\ lists' = lists /\ mui'.rows = mui.rows /\ pc \in WindowPlaces
        /\ mui'.open = mui.open /\ pc' \notin ScsiPlaces \cup IoPlaces
    BY <1>2 DEF DriveChecked, FreeReport, SaveLines, ReportSaved, CleanupClock,
                CreateReport, InsertReport, OpenReport, MuiWait, SaveRequest
  <2> QED BY <1>a, <2>1, RowsKept
<1>3. CASE Measured \/ Selected
  <2>1. /\ lists' = lists /\ mui'.rows = mui.rows
        /\ pc = "mui measure" \/ mui.open = TRUE
        /\ mui'.open = mui.open /\ pc' \notin ScsiPlaces \cup IoPlaces
    BY <1>3 DEF Measured, Selected
  <2> QED BY <1>a, <2>1, RowsKept
<1>4. CASE OpenMui(a) \/ OpenMain(a) \/ CreateApplication(a, b) \/ DisposeRest
  <2>1. /\ lists' = lists /\ mui'.rows = mui.rows
        /\ \/ pc \in {"mui", "mui create", "mui free"} /\ mui' = mui
           \/ pc = "mui open" /\ mui'.open = a /\ (~a => pc' = "mui dispose")
        /\ pc' \notin ScsiPlaces \cup IoPlaces
    BY <1>4 DEF OpenMui, OpenMain, CreateApplication, DisposeRest
  <2> QED BY <1>a, <2>1, RowsKept
<1>b. {"drives", "scsi", "memory", "boards", "libraries", "devices", "resources", "mmu"}
        \subseteq ListNames
  BY Names
<1>c. DOMAIN mui.rows = Objects
  BY DEF RowsInv
<1>6. CASE FillLists
  <2>1. /\ lists' = lists /\ pc' = "mui open"
        /\ mui'.rows = [o \in Objects |-> IF o \in {"mmu", "scsi"} THEN {}
                        ELSE Pointers(IF o = "software" THEN "libraries" ELSE o)]
    BY <1>6 DEF FillLists
  <2>2. \A o \in Objects \ {"mmu", "scsi"} : \E n \in ListNames :
          mui'.rows[o] \subseteq Pointers(n) /\ n # "scsi"
    <3> SUFFICES ASSUME NEW o \in {"software", "memory", "drives", "boards"}
                 PROVE  \E n \in ListNames : mui'.rows[o] \subseteq Pointers(n) /\ n # "scsi"
      BY DEF Objects
    <3>1. CASE o = "software"
      <4>1. mui'.rows[o] = Pointers("libraries")
        BY <2>1, <3>1 DEF Objects
      <4>2. mui'.rows[o] \subseteq Pointers("libraries")
        BY <4>1
      <4>3. "libraries" \in ListNames /\ "libraries" # "scsi"
        BY <1>b
      <4> QED BY <4>2, <4>3
    <3>2. CASE o # "software"
      <4>1. mui'.rows[o] = Pointers(o)
        BY <2>1, <3>2 DEF Objects
      <4>2. mui'.rows[o] \subseteq Pointers(o)
        BY <4>1
      <4>3. o \in ListNames /\ o # "scsi"
        BY <1>b, <3>2
      <4> QED BY <4>2, <4>3
    <3> QED BY <3>1, <3>2
  <2>3. \A o \in {"mmu", "scsi"} : mui'.rows[o] = {}
    BY <2>1 DEF Objects
  <2> QED BY <2>1, <2>2, <2>3, RowsRedrawn
<1>7. CASE IdSoftware
  <2>1. PICK n \in {"libraries", "devices", "resources", "mmu"} :
          mui' = Count([mui EXCEPT
                   !.rows[IF n = "mmu" THEN "mmu" ELSE "software"] = Pointers(n)])
    BY <1>7 DEF IdSoftware
  <2>2. lists' = lists /\ pc = "mui input" /\ pc' = "mui wait"
    BY <1>7 DEF IdSoftware
  <2>3. /\ mui'.rows = [mui.rows EXCEPT ![IF n = "mmu" THEN "mmu" ELSE "software"] =
                          Pointers(n)]
        /\ mui'.open = mui.open
    BY <2>1
  <2>4. /\ DOMAIN mui'.rows = Objects
        /\ \A o \in Objects : mui'.rows[o] = mui.rows[o] \/ mui'.rows[o] = Pointers(n)
    BY <1>c, <2>3
  <2>5. n \in ListNames /\ n # "scsi" /\ mui'.open = TRUE
    BY <1>a, <1>b, <2>2, <2>3
  <2> QED BY <2>2, <2>4, <2>5, RowsRedrawn
<1>8. CASE IdScsi
  <2>1. /\ lists' = lists /\ pc = "mui input" /\ pc' = "scsi" /\ mui'.open = mui.open
        /\ mui'.rows = [mui.rows EXCEPT !["scsi"] = {}]
    BY <1>8 DEF IdScsi, RowsDuringScan
  <2>2. /\ DOMAIN mui'.rows = Objects /\ mui'.rows["scsi"] = {} /\ mui'.open = TRUE
        /\ \A o \in Objects : mui'.rows[o] = mui.rows[o] \/ mui'.rows[o] = {}
    BY <1>a, <1>c, <2>1 DEF Objects
  <2> QED BY <2>1, <2>2, RowsRedrawn
<1>9. CASE ScsiShown
  <2>1. lists' = lists /\ pc' = "mui wait" /\ mui.open = TRUE
    BY <1>9, <1>a DEF ScsiShown
  <2> DEFINE rows == {<<"scsi", lists["scsi"].made, i>> :
                        i \in {j \in 1..lists["scsi"].count : lists["scsi"].items[j].valid}}
  <2>2. mui'.rows = [mui.rows EXCEPT !["scsi"] = rows] /\ mui'.open = mui.open
    BY <1>9 DEF ScsiShown
  <2>3. rows \subseteq Pointers("scsi")
    <3> SUFFICES ASSUME NEW p \in rows
                 PROVE  p \in Pointers("scsi")
      OBVIOUS
    <3>1. PICK i \in 1..lists["scsi"].count : p = <<"scsi", lists["scsi"].made, i>>
      OBVIOUS
    <3> QED BY <3>1 DEF Pointers
  <2> HIDE DEF rows
  <2>4. /\ DOMAIN mui'.rows = Objects /\ mui'.rows["scsi"] \subseteq Pointers("scsi")
        /\ \A o \in Objects \ {"scsi"} : mui'.rows[o] = mui.rows[o]
    BY <1>c, <2>2, <2>3 DEF Objects
  <2> QED BY <1>b, <2>1, <2>2, <2>4, RowsRedrawn
<1>10. CASE DisposeApplication
  <2>1. /\ lists' = lists /\ pc' = "mui free"
        /\ mui'.rows = [o \in Objects |-> {}]
    BY <1>10 DEF DisposeApplication
  <2> QED BY <2>1, RowsRedrawn DEF Objects
<1> QED BY <1>1, <1>2, <1>3, <1>4, <1>6, <1>7, <1>8, <1>9, <1>10 DEF MuiAction

LEMMA MuiKeeps ==
  ASSUME ListsInv, MuiStep \/ TurnPage, UNCHANGED <<driveVars, board, todo>>
  PROVE  ListsInv'
<1>1. PICK a \in BOOLEAN, b \in BOOLEAN, what \in {"benchmarks", "memory", "drive"} :
        MuiAction(a, b, what)
  BY MuiActs
<1>2. /\ FieldsInv /\ MaskInv /\ HeldInv /\ QuietInv /\ WindowInv /\ ReportInv /\ RowsInv
      /\ StackInv /\ dos' = dos /\ drv' = drv /\ todo' = todo
  BY DEF ListsInv, driveVars
<1>3. MuiMoves
  BY <1>1, <1>2, MuiMoving
<1>4. FieldsInv'
  <2>1. pc' \in Places /\ pc' \notin IoPlaces
    BY <1>3 DEF MuiMoves, MuiPlaces, Places
  <2>2. /\ io' = io /\ sw' = sw /\ stack' = stack
        /\ DOMAIN mui' = DOMAIN mui /\ DOMAIN report' = DOMAIN report
    BY <1>3 DEF MuiMoves
  <2> HIDE DEF IoPlaces
  <2> QED BY <1>2, <2>1, <2>2 DEF FieldsInv
<1>5. MaskInv'
  BY <1>1, <1>2, MuiMask
<1>6. HeldInv'
  <2>1. pc \in MuiPlaces \cup {"memory done", "scsi done", "refresh", "speed", "scsi"}
    BY <1>3 DEF MuiMoves
  <2>2. pc' \in MuiPlaces \cup {"memory done", "scsi done", "refresh", "speed", "scsi"}
    BY <1>3 DEF MuiMoves
  <2>3. MuiHolds
    BY <1>2, <2>1, MuiHolding
  <2>4. MuiHolds'
    BY <1>1, <1>2, <2>3, MuiHeld
  <2>5. (pc \in MuiPlaces \cup {"memory done", "scsi done", "refresh", "speed", "scsi"} =>
           (HeldInv <=> MuiHolds))'
    BY MuiHolding, PTL
  <2> QED BY <2>2, <2>4, <2>5
<1>7. QuietInv' /\ StackInv'
  <2>1. /\ pc \notin {"query lock", "picasso", "picasso file"} \cup LibsPlaces \cup FilePlaces
        /\ pc' \notin ProgramPlaces
    BY <1>3 DEF MuiMoves, MuiPlaces
  <2>2. sw' = sw /\ stack' = stack
    BY <1>3 DEF MuiMoves
  <2> HIDE DEF LibsPlaces, FilePlaces
  <2> QED BY <1>2, <2>1, <2>2 DEF QuietInv, StackInv
<1>8. WindowInv'
  BY <1>1, <1>2, MuiWindow
<1>9. ReportInv'
  BY <1>1, <1>2, MuiReport
<1>10. RowsInv'
  BY <1>1, <1>2, MuiRows
<1>t. TodoInv'
  <2>1. pc # "idle"
    BY <1>2, <1>3 DEF MuiMoves, MuiPlaces
  <2> QED BY <2>1, TodoStays DEF ListsInv
<1> QED BY <1>t, <1>4, <1>5, <1>6, <1>7, <1>8, <1>9, <1>10 DEF ListsInv
-----------------------------------------------------------------------------
\* Nothing is held when a list is asked for or handed back, and the window is
\* closed.
LEMMA NothingAround ==
  ASSUME HeldInv, MaskInv, mui.open = FALSE, pc = "idle" \/ pc \in Finished
  PROVE  held = {} /\ forbid = 0 /\ disabled = FALSE
<1>1. /\ pc \notin BusPlaces /\ pc \notin IoPlaces /\ pc \notin LibsPlaces
      /\ pc \notin FilePlaces /\ pc \notin DosPlaces /\ pc \notin SavePlaces
      /\ pc \notin FramePlaces \ {"mui", "mui done"}
      /\ pc \notin {"libs locked", "timed", "raw", "picasso file", "mapping", "report save",
                    "query drive", "query lock", "query info"}
  BY DEF Finished
<1>2. ~Forbidden /\ pc \notin {"ready", "waiting", "enable"}
  BY DEF Finished, Forbidden
<1> HIDE DEF BusPlaces, IoPlaces, LibsPlaces, FilePlaces, SavePlaces, FramePlaces, DosPlaces,
             Forbidden
<1>3. /\ "port" \notin held /\ "request" \notin held /\ "device" \notin held
      /\ "io port" \notin held /\ "io request" \notin held /\ "io device" \notin held
  BY <1>1 DEF HeldInv, IoPlaces
<1>4. /\ "dos list" \notin held /\ "info" \notin held /\ "lock" \notin held
      /\ "block" \notin held /\ "expansion.library" \notin held
  BY <1>1 DEF HeldInv
<1>5. "file" \notin held /\ "buffer" \notin held /\ "device process" \notin held
  BY <1>1 DEF HeldInv, FilePlaces
<1>6. /\ "mmu.library" \notin held /\ "mapping" \notin held /\ "requester" \notin held
      /\ "application" \notin held /\ "gauge class" \notin held
      /\ "muimaster.library" \notin held
  BY <1>1 DEF HeldInv
<1>7. held \subseteq Resources
  BY DEF HeldInv
<1>8. held = {}
  BY <1>3, <1>4, <1>5, <1>6, <1>7 DEF Resources
<1> QED BY <1>2, <1>8 DEF MaskInv

LEMMA CallKeeps ==
  ASSUME ListsInv, Call
  PROVE  ListsInv'
<1>1. /\ pc = "idle" /\ pc' \in Calls /\ todo # <<>>
      /\ UNCHANGED <<masks, listVars, ioVars, driveVars, memoryVars, board, softwareVars,
                     muiVars, todo>>
  <2>1. todo \in Seq(Calls) /\ todo # <<>>
    BY DEF Call, ListsInv, TodoInv
  <2> QED BY <2>1 DEF Call
<1>2. /\ mui' = mui /\ report' = report /\ dos' = dos /\ drv' = drv /\ io' = io /\ sw' = sw
      /\ stack' = stack /\ todo' = todo /\ held' = held /\ lists' = lists
      /\ forbid' = forbid /\ disabled' = disabled
  BY <1>1 DEF muiVars, driveVars, ioVars, softwareVars, listVars, masks
<1>3. mui.open = FALSE
  BY <1>1 DEF ListsInv, WindowInv
<1>4. held = {} /\ forbid = 0 /\ disabled = FALSE
  BY <1>1, <1>3, NothingAround DEF ListsInv
<1>5. FieldsInv'
  BY <1>1, <1>2 DEF ListsInv, FieldsInv, Calls, Places
<1>6. MaskInv'
  <2>1. ~Forbidden' /\ pc' \notin {"ready", "waiting", "enable"}
    BY <1>1, <1>2, <1>3 DEF Forbidden, Calls
  <2> QED BY <1>2, <1>4, <2>1 DEF MaskInv
<1>7. HeldInv'
  BY <1>2, <1>4 DEF HeldInv
<1>8. QuietInv' /\ StackInv'
  BY <1>1, <1>2 DEF ListsInv, QuietInv, StackInv, Calls
<1>9. WindowInv'
  BY <1>1, <1>2, <1>3 DEF ListsInv, WindowInv, Calls
<1>10. ReportInv'
  BY <1>1, <1>2, <1>3 DEF ListsInv, ReportInv, Calls
<1>11. RowsInv'
  BY <1>1, <1>2, <1>3 DEF ListsInv, RowsInv, Calls, Objects, Readable, IsList
<1>12. TodoInv'
  BY <1>1, <1>2 DEF ListsInv, TodoInv
<1> QED BY <1>5, <1>6, <1>7, <1>8, <1>9, <1>10, <1>11, <1>12 DEF ListsInv

LEMMA ReturnKeeps ==
  ASSUME ListsInv, Return
  PROVE  ListsInv'
<1>1. /\ pc \in Finished /\ ~mui.open /\ pc' = "idle" /\ todo' = Tail(todo)
      /\ UNCHANGED <<masks, listVars, ioVars, driveVars, memoryVars, board, softwareVars,
                     muiVars>>
  BY DEF Return
<1>2. /\ mui' = mui /\ report' = report /\ dos' = dos /\ drv' = drv /\ io' = io /\ sw' = sw
      /\ stack' = stack /\ held' = held /\ lists' = lists
      /\ forbid' = forbid /\ disabled' = disabled
  BY <1>1 DEF muiVars, driveVars, ioVars, softwareVars, listVars, masks
<1>3. mui.open = FALSE
  BY <1>1 DEF ListsInv, WindowInv
<1>4. held = {} /\ forbid = 0 /\ disabled = FALSE
  BY <1>1, <1>3, NothingAround DEF ListsInv
<1>5. FieldsInv'
  BY <1>1, <1>2 DEF ListsInv, FieldsInv, Places
<1>6. MaskInv'
  <2>1. ~Forbidden' /\ pc' \notin {"ready", "waiting", "enable"}
    BY <1>1, <1>2, <1>3 DEF Forbidden
  <2> QED BY <1>2, <1>4, <2>1 DEF MaskInv
<1>7. HeldInv'
  BY <1>2, <1>4 DEF HeldInv
<1>8. QuietInv' /\ StackInv'
  BY <1>1, <1>2 DEF ListsInv, QuietInv, StackInv, Finished
<1>9. WindowInv'
  BY <1>1, <1>2, <1>3 DEF ListsInv, WindowInv, Finished
<1>10. ReportInv'
  BY <1>1, <1>2, <1>3 DEF ListsInv, ReportInv, Finished
<1>11. RowsInv'
  BY <1>1, <1>2, <1>3 DEF ListsInv, RowsInv, Finished, Objects, Readable, IsList
<1>12. TodoInv'
  <2>1. todo \in Seq(Calls) /\ todo # <<>>
    BY <1>1 DEF ListsInv, TodoInv, Finished
  <2>2. Tail(todo) \in Seq(Calls)
    BY <2>1
  <2> QED BY <1>1, <2>2 DEF TodoInv
<1> QED BY <1>5, <1>6, <1>7, <1>8, <1>9, <1>10, <1>11, <1>12 DEF ListsInv
-----------------------------------------------------------------------------
\* A step that leaves the program where it is.
LEMMA Undisturbed ==
  ASSUME ListsInv, StackInv', DOMAIN stack' = DOMAIN stack, DOMAIN dos' = DOMAIN dos,
         dos'.modern = dos.modern,
         UNCHANGED <<pc, masks, lists, held, io, drv, sw, mui, report, todo>>
  PROVE  ListsInv'
<1>1. /\ pc' = pc /\ mui' = mui /\ report' = report /\ drv' = drv /\ io' = io /\ sw' = sw
      /\ todo' = todo /\ held' = held /\ lists' = lists
      /\ forbid' = forbid /\ disabled' = disabled
  BY DEF masks
<1>2. FieldsInv'
  BY <1>1 DEF ListsInv, FieldsInv
<1>3. MaskInv' /\ HeldInv' /\ QuietInv'
  BY ZenonT(60), <1>1 DEF ListsInv, MaskInv, Forbidden, HeldInv, QuietInv
<1>4. WindowInv'
  BY <1>1 DEF ListsInv, WindowInv
<1>5. ReportInv'
  BY <1>1 DEF ListsInv, ReportInv
<1>6. RowsInv'
  BY <1>1 DEF ListsInv, RowsInv, Readable, IsList
<1>7. TodoInv'
  BY <1>1 DEF ListsInv, TodoInv
<1> QED BY <1>2, <1>3, <1>4, <1>5, <1>6, <1>7 DEF ListsInv

\* Other tasks change what the program reads, never where it is; they do so only
\* where they run, so that a stack that is read stays.
LEMMA EnvironmentKeeps ==
  ASSUME ListsInv, Environment
  PROVE  ListsInv'
<1>1. /\ UNCHANGED <<pc, masks, listVars, ioVars, drv, board, sw, muiVars, todo>>
      /\ DOMAIN dos' = DOMAIN dos /\ dos'.modern = dos.modern
  <2>1. CASE DosChanges /\ UNCHANGED <<memoryVars, board, softwareVars, muiVars, todo>>
    BY <2>1 DEF DosChanges, softwareVars, ListsInv, FieldsInv
  <2>2. CASE ~mui.open /\ MemoryChanges
               /\ UNCHANGED <<ioVars, driveVars, board, softwareVars, muiVars, todo>>
    BY <2>2 DEF MemoryChanges, softwareVars, driveVars
  <2>3. CASE StackChanges /\ UNCHANGED <<ioVars, driveVars, memoryVars, board, muiVars, todo>>
    BY <2>3 DEF StackChanges, driveVars
  <2> QED BY <2>1, <2>2, <2>3 DEF Environment
<1>2. StackInv' /\ DOMAIN stack' = DOMAIN stack
  <2>1. CASE stack' = stack
    BY <1>1, <2>1 DEF ListsInv, StackInv
  <2>2. CASE StackChanges
    <3>1. /\ pc \in ProgramPlaces => forbid = 1
          /\ pc = "waiting" => disabled = TRUE
          /\ DOMAIN stack = {"runs", "list"} /\ StackInv
      BY DEF ListsInv, FieldsInv, MaskInv, Forbidden
    <3>2. pc' = pc /\ sw' = sw
      BY <1>1
    <3>3. CASE TasksRun /\ stack.runs /\ stack' = [stack EXCEPT !.runs = FALSE]
      BY <3>1, <3>2, <3>3 DEF TasksRun, StackInv
    <3>4. CASE InterruptsRun /\ stack.runs /\ stack.list = "wait"
                 /\ stack' = [stack EXCEPT !.list = "ready"]
      BY <3>1, <3>2, <3>4 DEF InterruptsRun, StackInv
    <3>5. CASE TasksRun /\ stack.runs /\ stack.list = "ready"
                 /\ stack' = [stack EXCEPT !.list = "wait"]
      BY <3>1, <3>2, <3>5 DEF TasksRun, StackInv
    <3> QED BY <2>2, <3>3, <3>4, <3>5 DEF StackChanges
  <2> QED BY <2>1, <2>2 DEF Environment, softwareVars
<1> QED BY <1>1, <1>2, Undisturbed DEF listVars, ioVars, muiVars

\* It holds at the start.
LEMMA ListsStart ==
  ASSUME Init
  PROVE  ListsInv
<1>1. PICK s \in Scenarios : /\ todo = s.todo /\ GrowInit(s.lists)
                             /\ DriveInit(s.order, s.modern, s.changes) /\ MemoryInit(s.exec)
  BY DEF Init
<1>2. /\ pc = "idle" /\ forbid = 0 /\ disabled = FALSE /\ held = {}
      /\ todo = s.todo /\ lists = s.lists
  BY <1>1 DEF Init, Free, GrowInit
<1>3. /\ s.todo \in Seq(Calls) /\ s.modern \in BOOLEAN /\ DOMAIN s.lists = ListNames
      /\ \A n \in ListNames : IsList(s.lists[n])
  BY ScenariosAssumption DEF Whole, IsList
<1>4. MuiInit /\ SoftwareInit /\ IOInit
  BY DEF Init
<1>5. TodoInv
  BY <1>2, <1>3 DEF TodoInv
<1>6. FieldsInv
  <2>1. dos.modern = s.modern
    BY <1>1 DEF DriveInit
  <2>2. /\ DOMAIN dos = {"order", "modern", "changes", "taken", "port", "vol"}
        /\ DOMAIN drv = {"at", "ports", "info", "quiet", "probed", "lost", "found"}
    BY <1>1 DEF DriveInit
  <2>3. /\ DOMAIN io = {"for", "unit", "opened", "tries", "result", "back"}
        /\ DOMAIN sw = {"at", "flags", "lost", "quiet", "path", "copied", "programs", "release",
               "stack"}
        /\ DOMAIN stack = {"runs", "list"}
    BY <1>4 DEF IOInit, NoIO, SoftwareInit
  <2>4. /\ DOMAIN mui = {"rows", "open", "sleep", "measuring", "clock", "timer", "then",
                         "inputs"}
        /\ DOMAIN report = {"text", "next", "shown", "window", "made", "live", "opens"}
    BY <1>4 DEF MuiInit
  <2> QED BY <1>2, <1>3, <2>1, <2>2, <2>3, <2>4 DEF FieldsInv, Places
<1>7. mui.open = FALSE /\ mui.sleep = FALSE /\ mui.measuring = FALSE /\ mui.timer = FALSE
  BY <1>4 DEF MuiInit
<1>8. MaskInv
  BY <1>2, <1>7 DEF MaskInv, Forbidden
<1>9. HeldInv
  BY <1>2 DEF HeldInv
<1>10. QuietInv
  BY <1>1, <1>4 DEF QuietInv, DriveInit, SoftwareInit
<1>11. WindowInv
  BY <1>2, <1>7 DEF WindowInv
<1>12. ReportInv
  BY <1>2, <1>4 DEF ReportInv, MuiInit
<1>13. RowsInv
  <2>1. mui.rows = [o \in Objects |-> {}]
    BY <1>4 DEF MuiInit
  <2> QED BY <1>2, <1>3, <2>1 DEF RowsInv, Objects
<1>14. StackInv
  <2>1. 0 \in Room
    BY SoftwareAssumption DEF Room
  <2> QED BY <1>2, <1>4, <2>1 DEF StackInv, SoftwareInit
<1> QED BY <1>5, <1>6, <1>8, <1>9, <1>10, <1>11, <1>12, <1>13, <1>14 DEF ListsInv

\* The invariant is inductive: every family of steps keeps it.
LEMMA ListsStep ==
  ASSUME ListsInv, [Next]_vars
  PROVE  ListsInv'
<1>1. CASE Environment
  BY <1>1, EnvironmentKeeps
<1>2. CASE Program
  <2>1. CASE Call \/ Return
    BY <2>1, CallKeeps, ReturnKeeps
  <2>2. CASE ScsiStep /\ UNCHANGED <<driveVars, memoryVars, board, softwareVars, muiVars, todo>>
    BY <2>2, ScsiKeeps
  <2>3. CASE DriveStep /\ UNCHANGED <<memoryVars, board, softwareVars, muiVars, todo>>
    BY <2>3, DriveKeeps
  <2>4. CASE MemoryStep /\ UNCHANGED <<ioVars, driveVars, board, softwareVars, muiVars, todo>>
    BY <2>4, MemoryKeeps
  <2>5. CASE BoardStep
               /\ UNCHANGED <<ioVars, driveVars, memoryVars, softwareVars, muiVars, todo>>
    BY <2>5, BoardKeeps
  <2>6. CASE SoftwareStep /\ UNCHANGED <<ioVars, driveVars, memoryVars, board, muiVars, todo>>
    BY <2>6, SoftwareKeeps
  <2>7. CASE (MuiStep \/ TurnPage) /\ UNCHANGED <<driveVars, board, todo>>
    BY <2>7, MuiKeeps
  <2> QED BY <1>2, <2>1, <2>2, <2>3, <2>4, <2>5, <2>6, <2>7 DEF Program
<1>3. CASE UNCHANGED vars
  <2>1. UNCHANGED <<pc, masks, lists, held, io, drv, sw, mui, report, todo, stack, dos>>
    BY <1>3 DEF vars, listVars, ioVars, driveVars, softwareVars, muiVars
  <2>2. StackInv'
    BY <2>1 DEF ListsInv, StackInv
  <2> QED BY <2>1, <2>2, Undisturbed
<1> QED BY <1>1, <1>2, <1>3 DEF Next

\* What each label says of what is held, of the masks and of the interface holds
\* in every state.
THEOREM ListsInductive == Spec => []ListsInv
<1>1. Init => ListsInv
  BY ListsStart
<1>2. ListsInv /\ [Next]_vars => ListsInv'
  BY ListsStep
<1> QED BY <1>1, <1>2, PTL DEF Spec
-----------------------------------------------------------------------------
\* Whatever fails, nothing is held between two calls, and between two inputs the
\* interface holds only itself.
THEOREM NothingStaysHeld == Spec => []NothingHeld
<1>1. ASSUME ListsInv
      PROVE  NothingHeld
  <2>1. /\ MaskInv /\ HeldInv /\ QuietInv /\ WindowInv /\ ReportInv
    BY <1>1 DEF ListsInv
  <2>2. ASSUME pc = "idle"
        PROVE  held = {} /\ Free /\ ~drv.quiet /\ ~sw.quiet
    <3>1. mui.open = FALSE
      BY <2>1, <2>2 DEF WindowInv
    <3> QED BY <2>1, <2>2, <3>1, NothingAround DEF QuietInv, Free
  <2>3. ASSUME pc \in {"mui input", "mui wait"}
        PROVE  /\ ~mui.sleep /\ ~mui.measuring /\ Free
               /\ held \subseteq {"application", "gauge class", "muimaster.library"}
               /\ report.live \subseteq {report.text}
               /\ report.window => report.shown = report.text
    <3>1. ~mui.sleep /\ ~mui.measuring
      BY <2>1, <2>3 DEF WindowInv
    <3>2. Free
      BY <2>1, <2>3 DEF MaskInv, Forbidden, Free
    <3>3. held \subseteq {"application", "gauge class", "muimaster.library"}
      <4>1. MuiHolds
        BY <2>1, <2>3, MuiHolding DEF MuiPlaces
      <4> QED BY <2>3, <4>1 DEF MuiHolds
    <3>4. /\ report.live \subseteq {report.text}
          /\ report.window => report.shown = report.text
      BY <2>1, <2>3 DEF ReportInv
    <3> QED BY <3>1, <3>2, <3>3, <3>4
  <2>4. ASSUME pc = "mui done"
        PROVE  ~mui.timer /\ report.live = {} /\ ~mui.open
    BY <2>1, <2>4 DEF WindowInv, ReportInv
  <2> QED BY <2>2, <2>3, <2>4 DEF NothingHeld, MuiRests
<1> QED BY <1>1, ListsInductive, PTL

\* No row or line that MUI draws points to what the actions freed.
THEOREM RowsStayValid == Spec => []NoStaleRow
<1>1. ListsInv => NoStaleRow
  BY DEF ListsInv, RowsInv, ReportInv, NoStaleRow
<1> QED BY <1>1, ListsInductive, PTL

\* A stack that is named is found among the tasks and read while it is loaded, and
\* one that ran is missed only when as many other programs as there is room for
\* were found before it (software.c 995-1005).
THEOREM StackIsTheOne == Spec => []StackNamed
<1>1. ListsInv => StackNamed
  BY DEF ListsInv, StackInv, StackNamed
<1> QED BY <1>1, ListsInductive, PTL
-----------------------------------------------------------------------------
(***************************************************************************)
(* What the lists hold.  Each list has an invariant of its own; those that *)
(* fill a list keep it, and the others change nothing it speaks of.        *)
(* First the block that every list is in, and the list of drives.          *)
(***************************************************************************)
HIDE DEF DosPlaces, DrivePlaces, IoPlaces, BusPlaces, ScsiPlaces, CountPlaces, SpeedPlaces,
         RegionPlaces, BoardPlaces, ProgramPlaces, LibsPlaces, FilePlaces, NodePlaces,
         SoftwarePlaces, ReportPlaces, SavePlaces, WindowPlaces, FramePlaces, SharedPlaces

\* Each list is in a block that holds it, and owns no other memory.
SoundInv ==
  /\ DOMAIN heap = ListNames
  /\ \A n \in ListNames : Whole(lists[n], MaxItems[n]) /\ heap[n] = lists[n].capacity

\* A port is that of one handler at most, and the volume of a device is there
\* under the port of its handler.
DosInv ==
  /\ dos.order \in Seq(DOMAIN Nodes) /\ IsInjective(dos.order)
  /\ DOMAIN dos.port = DOMAIN Nodes /\ DOMAIN dos.vol = DOMAIN Nodes
  /\ \A d \in DOMAIN Nodes : /\ dos.port[d] \in {0} \cup Ports
                             /\ dos.vol[d] \in {-1, 0, dos.port[d]}
  /\ \A d, e \in DOMAIN Nodes : dos.port[d] = dos.port[e] /\ dos.port[d] # 0 => d = e

Drives == lists["drives"].count

\* A port that was read is now that of its drive, of none, or of a handler that
\* is recorded to have been given it; so a volume found by its port is that of
\* the drive, or recorded.
PortsKept ==
  \A i \in 1..Drives : \A e \in DOMAIN Nodes :
    dos.port[e] # 0 /\ drv.ports[i] = dos.port[e] =>
      e = Drive(i).name \/ <<Drive(i).name, e>> \in dos.taken
VolumesInv ==
  /\ \A i \in 1..Drives :
       /\ OfItsNode(Drive(i))
       /\ Drive(i).volume \in {0, Drive(i).name} \/ Taken(Drive(i))
  /\ pc \in {"volumes lock", "volumes"} => PortsKept

\* The list in the order of DOS, before it is pruned, and sorted after.
UnsortedPlaces == {"match", "ports", "volumes lock", "volumes"}
QueryPlaces == {"query", "query drive", "query lock", "query info", "prune"}
Probing == pc \in {"probe", "probed"} \/ (pc \in IoPlaces /\ io.back = "probed")

InDosOrder ==
  Drives <= Len(dos.order) /\ \A i \in 1..Drives : Drive(i).name = dos.order[i]

AllOfDos == drv.lost # TRUE => Drives = Len(dos.order)

FoundListed ==
  \A d \in drv.found : \E i \in 1..Drives :
    Drive(i).name = d /\ (Drive(i).handler # 0 \/ Drive(i).volume # 0)

Pruned ==
  /\ \A i, j \in 1..Drives : i < j => Drive(i).name < Drive(j).name
  /\ \A d \in drv.found : \E i \in 1..Drives : Drive(i).name = d
  /\ drv.lost # TRUE => \A k \in DOMAIN dos.order :
       Nodes[dos.order[k]].handler # 0 => \E i \in 1..Drives : Drive(i).name = dos.order[k]

NamesInv ==
  /\ drv.at \in Nat
  /\ pc \in {"scan", "volumes", "query drive", "query lock", "query info"} \/ Probing =>
       drv.at > 0
  /\ pc \in {"query lock", "query info"} \/ (Probing /\ pc # "probe") => drv.at <= Drives
  /\ pc = "scan lock" => Drives = 0 /\ drv.lost = FALSE
  /\ pc = "scan" /\ drv.lost # TRUE => Drives = drv.at - 1 /\ drv.at <= Len(dos.order) + 1
  /\ pc = "scan" /\ drv.lost = TRUE => drv.at > Len(dos.order)
  /\ pc \in {"scan"} \cup UnsortedPlaces \cup QueryPlaces => InDosOrder
  /\ pc \in UnsortedPlaces \cup QueryPlaces => AllOfDos
  /\ pc \in QueryPlaces => FoundListed
  /\ Probing \/ pc = "drives done" => Pruned

\* The units probed are those of the drives so far, and these agree.
Agree(m) ==
  \A i, j \in 1..m :
    Drive(i).handler # 0 /\ Drive(i).handler = Drive(j).handler
      /\ Drive(i).unit = Drive(j).unit => Drive(i).scsi = Drive(j).scsi

Before == drv.at - 1
ProbedBefore(m) ==
  \A k \in DOMAIN drv.probed : \E j \in 1..m :
    drv.probed[k] = <<Drive(j).handler, Drive(j).unit>>
FirstOfUnit == Earlier(drv.at) = {} /\ Drive(drv.at).handler # 0

ProbesInv ==
  /\ drv.probed \in Seq(Nat \X Nat) /\ IsInjective(drv.probed)
  /\ pc \in {"scan lock", "scan"} \cup UnsortedPlaces \cup QueryPlaces => drv.probed = <<>>
  /\ Probing => Agree(Before)
  /\ pc = "probe" => ProbedBefore(Before)
  /\ Probing /\ pc # "probe" => ProbedBefore(drv.at) /\ FirstOfUnit
  /\ pc = "drives done" => Agree(Drives)

-----------------------------------------------------------------------------

\* The lists other than n.
Others(n) == \A m \in ListNames \ {n} : lists'[m] = lists[m] /\ heap'[m] = heap[m]

\* The list n has one item more.
Longer(n, item) ==
  /\ lists'[n].count = lists[n].count + 1
  /\ \A i \in 1..lists[n].count : lists'[n].items[i] = lists[n].items[i]
  /\ lists'[n].items[lists[n].count + 1] = item

Same(n) == lists'[n] = lists[n] /\ heap'[n] = heap[n]

\* growlist.c: rounding up gives at least what is needed, and the maximum at most.
LEMMA GrownEnough ==
  ASSUME NEW needed \in Nat, NEW max \in Nat, needed <= max
  PROVE  GrownSize(needed, max) \in needed..max
<1> DEFINE x == needed + GrowStep - 1
           q == x \div GrowStep
<1>1. GrowStep \in Nat /\ GrowStep > 0
  BY GrowAssumption
<1>2. x \in Nat
  BY <1>1
<1>3. q \in Nat /\ q * GrowStep <= x /\ x < q * GrowStep + GrowStep
  BY <1>1, <1>2
<1>4. q * GrowStep \in Nat
  BY <1>1, <1>3
<1>5. needed <= q * GrowStep
  BY <1>1, <1>3, <1>4
<1> HIDE DEF x, q
<1>6. GrownSize(needed, max) = IF q * GrowStep > max THEN max ELSE q * GrowStep
  BY DEF GrownSize, q, x
<1> QED BY <1>4, <1>5, <1>6

\* grow_list makes room for what is needed or leaves the list as it is.
Grown(n, needed, g) ==
  /\ Whole(g.list, MaxItems[n]) /\ g.list.count = lists[n].count
  /\ IF g.ok THEN needed <= g.list.capacity ELSE g.list = lists[n]
  /\ \A i \in 1..lists[n].count : g.list.items[i] = lists[n].items[i]
  /\ g.list = lists[n] \/ g.list.made # lists[n].made

\* grow_list leaves a whole list, with the items it had and room if it says so.
LEMMA GrowWhole ==
  ASSUME SoundInv, NEW n \in ListNames, NEW needed \in Nat, NEW memory \in BOOLEAN
  PROVE  Grown(n, needed, Grow(n, needed, memory))
<1> DEFINE l == lists[n]
           g == Grow(n, needed, memory)
           size == GrownSize(needed, MaxItems[n])
<1>1. Whole(l, MaxItems[n]) /\ MaxItems[n] \in Nat
  BY GrowAssumption DEF SoundInv
<1> HIDE DEF l
<1>2. CASE needed <= l.capacity
  <2>1. g = [ok |-> TRUE, list |-> l]
    BY <1>2 DEF Grow, l
  <2> HIDE DEF g
  <2> QED BY <1>1, <1>2, <2>1 DEF g, l, Grown
<1>3. CASE ~(needed <= l.capacity) /\ (needed > MaxItems[n] \/ ~memory)
  <2>1. g = [ok |-> FALSE, list |-> l]
    BY <1>3 DEF Grow, l
  <2> HIDE DEF g
  <2> QED BY <1>1, <2>1 DEF g, l, Grown
<1>4. CASE ~(needed <= l.capacity) /\ ~(needed > MaxItems[n] \/ ~memory)
  <2> DEFINE block == [i \in 1..size |-> IF i <= l.count THEN l.items[i] ELSE Zero]
             new == [items |-> block, count |-> l.count, capacity |-> size,
                     made |-> l.made + 1]
  <2>1. g = [ok |-> TRUE, list |-> new]
    BY <1>4 DEF Grow, l, Copied
  <2>2. size \in needed..MaxItems[n]
    BY <1>1, <1>4, GrownEnough
  <2>3. /\ l.count \in Nat /\ l.capacity \in Nat /\ l.made \in Nat /\ l.count <= l.capacity
        /\ \A i \in 1..l.count : l.items[i] # Zero
    BY <1>1 DEF Whole
  <2> HIDE DEF size, g
  <2>4. size \in Nat /\ l.count <= size /\ size <= MaxItems[n]
    BY <1>1, <1>4, <2>2, <2>3
  <2>5. /\ block = [i \in 1..size |-> block[i]]
        /\ \A i \in 1..l.count : block[i] = l.items[i]
    BY <2>3, <2>4
  <2> HIDE DEF block
  <2>7. /\ DOMAIN new = {"items", "count", "capacity", "made"} /\ new.items = block
        /\ new.count = l.count /\ new.made = l.made + 1 /\ new.capacity = size
    OBVIOUS
  <2> HIDE DEF new
  <2>9. \A i \in 1..l.count : block[i] # Zero
    BY <2>3, <2>5
  <2>6. Whole(new, MaxItems[n])
    <3>1. {new.count, new.capacity, new.made} \subseteq Nat
      BY <2>3, <2>4, <2>7
    <3>2. new.count <= new.capacity /\ new.capacity <= MaxItems[n]
      BY <2>4, <2>7
    <3>3. new.items = [i \in 1..new.capacity |-> new.items[i]]
      BY <2>5, <2>7
    <3>4. \A i \in 1..new.count : new.items[i] # Zero
      BY <2>7, <2>9
    <3> QED BY <2>7, <3>1, <3>2, <3>3, <3>4 DEF Whole
  <2>8. g.list = new /\ g.ok = TRUE
    BY <2>1
  <2>10. new.made # l.made /\ needed <= new.capacity
    BY <2>2, <2>3, <2>7
  <2> QED BY <2>5, <2>6, <2>7, <2>8, <2>10 DEF g, l, Grown
<1> QED BY <1>2, <1>3, <1>4

\* What a whole list, one item more, no item and other items in the same block
\* leave of all the lists.
LEMMA ReplaceSound ==
  ASSUME SoundInv, DOMAIN lists = ListNames, NEW n \in ListNames, NEW l,
         Whole(l, MaxItems[n]), l.made = lists[n].made => l.capacity = lists[n].capacity,
         Replace(n, l)
  PROVE  /\ SoundInv' /\ DOMAIN lists' = ListNames
         /\ lists'[n] = l /\ heap'[n] = l.capacity /\ Others(n)
<1>1. /\ lists' = [lists EXCEPT ![n] = l]
      /\ heap' = [heap EXCEPT ![n] = IF l.made = lists[n].made THEN @
                                     ELSE @ + l.capacity - lists[n].capacity]
  BY DEF Replace
<1>2. /\ DOMAIN lists' = ListNames /\ lists'[n] = l
      /\ \A m \in ListNames \ {n} : lists'[m] = lists[m]
  BY <1>1
<1>3. /\ DOMAIN heap' = ListNames
      /\ heap'[n] = IF l.made = lists[n].made THEN heap[n]
                    ELSE heap[n] + l.capacity - lists[n].capacity
      /\ \A m \in ListNames \ {n} : heap'[m] = heap[m]
  BY <1>1 DEF SoundInv
<1>4. heap'[n] = l.capacity
  <2>1. heap[n] = lists[n].capacity /\ lists[n].capacity \in Nat /\ l.capacity \in Nat
    BY DEF SoundInv, Whole
  <2> QED BY <1>3, <2>1
<1> QED BY <1>2, <1>3, <1>4 DEF SoundInv, Others

\* One item of a block is another.
LEMMA PutItem ==
  ASSUME NEW f, NEW m \in Nat, f = [i \in 1..m |-> f[i]], NEW k \in 1..m, NEW x,
         NEW h, h = [f EXCEPT ![k] = x]
  PROVE  h = [i \in 1..m |-> h[i]] /\ h[k] = x /\ \A i \in 1..m : i # k => h[i] = f[i]
OBVIOUS

LEMMA AddSound ==
  ASSUME SoundInv, DOMAIN lists = ListNames, NEW n \in ListNames, NEW item, item # Zero,
         NEW memory \in BOOLEAN, Add(n, item, memory)
  PROVE  /\ SoundInv' /\ DOMAIN lists' = ListNames /\ Others(n)
         /\ HasRoom(n, memory) => Longer(n, item)
         /\ ~HasRoom(n, memory) => Same(n)
<1> DEFINE g == Grow(n, lists[n].count + 1, memory)
           c == lists[n].count
<1>1. c \in Nat
  BY DEF SoundInv, Whole
<1>2. /\ Whole(g.list, MaxItems[n]) /\ g.list.count = c
      /\ g.ok => c + 1 <= g.list.capacity
      /\ \A i \in 1..c : g.list.items[i] = lists[n].items[i]
      /\ g.list = lists[n] \/ g.list.made # lists[n].made
  <2>1. Grown(n, c + 1, g)
    BY <1>1, GrowWhole
  <2> QED BY <2>1 DEF Grown
<1>3. HasRoom(n, memory) = g.ok
  BY DEF HasRoom
<1>4. IF g.ok THEN Replace(n, With(g.list, item)) ELSE UNCHANGED <<lists, heap>>
  BY DEF Add
<1> HIDE DEF g, c
<1>5. CASE g.ok
  <2> DEFINE l == g.list
             new == With(l, item)
  <2>1. /\ DOMAIN l = {"items", "count", "capacity", "made"}
        /\ l.capacity \in Nat /\ l.capacity <= MaxItems[n] /\ l.made \in Nat
        /\ l.items = [i \in 1..l.capacity |-> l.items[i]]
        /\ \A i \in 1..c : l.items[i] # Zero
        /\ l.count = c /\ c + 1 <= l.capacity
    BY <1>2, <1>5 DEF Whole
  <2> HIDE DEF l
  <2>2. /\ DOMAIN new = {"items", "count", "capacity", "made"}
        /\ new.count = c + 1 /\ new.capacity = l.capacity /\ new.made = l.made
        /\ new.items = [l.items EXCEPT ![c + 1] = item]
    BY <2>1, <1>1 DEF With
  <2> HIDE DEF new
  <2> DEFINE block == new.items
  <2>3. /\ block = [i \in 1..l.capacity |-> block[i]]
        /\ block[c + 1] = item /\ \A i \in 1..l.capacity : i # c + 1 => block[i] = l.items[i]
    <3>1. c + 1 \in 1..l.capacity
      BY <1>1, <2>1
    <3> HIDE DEF block
    <3> QED BY <2>1, <2>2, <3>1, PutItem DEF block
  <2> HIDE DEF block
  <2>10. \A i \in 1..c : i \in 1..l.capacity /\ i # c + 1
    BY <1>1, <2>1
  <2>11. \A i \in 1..c : block[i] = l.items[i]
    BY <2>3, <2>10
  <2>4. \A i \in 1..(c + 1) : block[i] # Zero
    <3>1. \A i \in 1..(c + 1) : i = c + 1 \/ i \in 1..c
      BY <1>1
    <3> QED BY <2>1, <2>3, <2>11, <3>1
  <2>12. c + 1 \in Nat
    BY <1>1
  <2>5. Whole(new, MaxItems[n])
    BY ZenonT(60), <2>1, <2>2, <2>3, <2>4, <2>12 DEF Whole, block
  <2>6. new.made = lists[n].made => new.capacity = lists[n].capacity
    BY <1>2, <2>2 DEF l
  <2>7. Replace(n, new)
    BY <1>4, <1>5 DEF new, l
  <2>8. SoundInv' /\ DOMAIN lists' = ListNames /\ lists'[n] = new /\ Others(n)
    BY <2>5, <2>6, <2>7, ReplaceSound
  <2>9. Longer(n, item)
    BY <1>2, <2>2, <2>3, <2>8, <2>11 DEF Longer, c, l, block
  <2> QED BY <1>3, <1>5, <2>8, <2>9
<1>6. CASE ~g.ok
  BY <1>3, <1>4, <1>6 DEF SoundInv, Others, Same
<1> QED BY <1>5, <1>6

LEMMA FreeSound ==
  ASSUME SoundInv, DOMAIN lists = ListNames, NEW n \in ListNames, FreeList(n)
  PROVE  /\ SoundInv' /\ DOMAIN lists' = ListNames /\ Others(n)
         /\ lists'[n].count = 0 /\ lists'[n].capacity = 0
<1> DEFINE l == lists[n]
           new == [l EXCEPT !.items = <<>>, !.count = 0, !.capacity = 0]
<1>1. lists' = [lists EXCEPT ![n] = new] /\ heap' = [heap EXCEPT ![n] = @ - l.capacity]
  BY DEF FreeList
<1>2. /\ DOMAIN l = {"items", "count", "capacity", "made"} /\ l.capacity \in Nat
      /\ l.made \in Nat /\ heap[n] = l.capacity /\ MaxItems[n] \in Nat
  BY GrowAssumption DEF SoundInv, Whole
<1>3. /\ DOMAIN new = {"items", "count", "capacity", "made"} /\ new.made \in Nat
      /\ new.count = 0 /\ new.capacity = 0 /\ new.items = <<>>
  BY <1>2
<1> HIDE DEF new, l
<1>4. Whole(new, MaxItems[n])
  <2>1. <<>> = [i \in 1..0 |-> <<>>[i]]
    OBVIOUS
  <2> QED BY <1>2, <1>3, <2>1 DEF Whole
<1>5. /\ DOMAIN heap' = ListNames /\ heap'[n] = 0
      /\ \A m \in ListNames \ {n} : heap'[m] = heap[m]
  BY <1>1, <1>2 DEF SoundInv
<1>6. /\ DOMAIN lists' = ListNames /\ lists'[n] = new
      /\ \A m \in ListNames \ {n} : lists'[m] = lists[m]
  BY <1>1
<1> QED BY <1>3, <1>4, <1>5, <1>6 DEF SoundInv, Others

\* Items may be changed in place, as long as they are not cleared.
Refill(n, items, c) ==
  /\ lists' = [lists EXCEPT ![n].items = items, ![n].count = c] /\ heap' = heap
  /\ c \in Nat /\ c <= lists[n].capacity
  /\ items = [i \in 1..lists[n].capacity |-> items[i]]
  /\ \A i \in 1..c : items[i] # Zero

LEMMA ChangeSound ==
  ASSUME SoundInv, DOMAIN lists = ListNames, NEW n \in ListNames, NEW items, NEW c,
         Refill(n, items, c)
  PROVE  /\ SoundInv' /\ DOMAIN lists' = ListNames /\ Others(n)
         /\ lists'[n].count = c /\ lists'[n].items = items
         /\ lists'[n].capacity = lists[n].capacity /\ heap'[n] = heap[n]
<1> DEFINE l == lists[n]
           new == [l EXCEPT !.items = items, !.count = c]
<1>1. lists' = [lists EXCEPT ![n] = new]
  BY DEF Refill
<1>2. /\ DOMAIN l = {"items", "count", "capacity", "made"} /\ l.capacity \in Nat
      /\ l.made \in Nat /\ l.capacity <= MaxItems[n]
  BY DEF SoundInv, Whole
<1>3. /\ DOMAIN new = {"items", "count", "capacity", "made"} /\ new.made \in Nat
      /\ new.count = c /\ new.capacity = l.capacity /\ new.items = items
  BY <1>2
<1>4. /\ items = [i \in 1..l.capacity |-> items[i]] /\ c \in Nat /\ c <= l.capacity
      /\ \A i \in 1..c : items[i] # Zero
  BY DEF Refill
<1> HIDE DEF new, l
<1>5. Whole(new, MaxItems[n])
  BY <1>2, <1>3, <1>4 DEF Whole
<1>6. /\ DOMAIN lists' = ListNames /\ lists'[n] = new
      /\ \A m \in ListNames \ {n} : lists'[m] = lists[m]
  BY <1>1
<1>7. heap' = heap /\ heap[n] = l.capacity
  BY DEF SoundInv, Refill, l
<1> QED BY <1>3, <1>5, <1>6, <1>7 DEF SoundInv, Others, l
-----------------------------------------------------------------------------
DriveInv == DosInv /\ VolumesInv /\ NamesInv /\ ProbesInv

DriveWhole == SoundInv' /\ DOMAIN lists' = ListNames /\ Others("drives") /\ DriveInv'

LEMMA Unlisted ==
  ASSUME SoundInv, DOMAIN lists = ListNames, UNCHANGED <<lists, heap>>, NEW n
  PROVE  SoundInv' /\ DOMAIN lists' = ListNames /\ Others(n)
BY DEF SoundInv, Others

\* What is said of the list stays true of the same list.
LEMMA ListStays ==
  ASSUME lists'["drives"] = lists["drives"], dos' = dos, drv'.lost = drv.lost,
         drv'.found = drv.found
  PROVE  /\ Drives' = Drives
         /\ InDosOrder => InDosOrder'
         /\ AllOfDos => AllOfDos'
         /\ FoundListed => FoundListed'
         /\ Pruned => Pruned'
<1> USE DEF Drives, Drive
<1>1. Drives' = Drives
  OBVIOUS
<1>2. InDosOrder => InDosOrder'
  BY DEF InDosOrder
<1>3. AllOfDos => AllOfDos'
  BY DEF AllOfDos
<1>4. FoundListed => FoundListed'
  BY DEF FoundListed
<1>5. Pruned => Pruned'
  BY ZenonT(60) DEF Pruned
<1> QED BY <1>1, <1>2, <1>3, <1>4, <1>5

\* So does what is said of the probes.
LEMMA ProbesStay ==
  ASSUME lists'["drives"] = lists["drives"], drv' = drv
  PROVE  /\ Agree(Before) => Agree(Before)'
         /\ Agree(Drives) => Agree(Drives)'
         /\ ProbedBefore(Before) => ProbedBefore(Before)'
         /\ ProbedBefore(drv.at) => ProbedBefore(drv.at)'
         /\ FirstOfUnit => FirstOfUnit'
<1> USE DEF Drives, Drive, Before
<1>1. Agree(Before) => Agree(Before)'
  BY DEF Agree
<1>2. Agree(Drives) => Agree(Drives)'
  BY DEF Agree
<1>3. ProbedBefore(Before) => ProbedBefore(Before)'
  BY DEF ProbedBefore
<1>4. ProbedBefore(drv.at) => ProbedBefore(drv.at)'
  BY DEF ProbedBefore
<1>5. FirstOfUnit => FirstOfUnit'
  BY DEF FirstOfUnit, Earlier
<1> QED BY <1>1, <1>2, <1>3, <1>4, <1>5

\* Where drives are not listed nothing is known of the locals.
LEMMA DrivesAside ==
  ASSUME DriveInv, lists'["drives"] = lists["drives"], UNCHANGED driveVars,
         pc' \notin {"scan lock", "scan", "probe", "probed", "drives done"}
                      \cup UnsortedPlaces \cup QueryPlaces,
         pc' \notin IoPlaces \/ io'.back # "probed"
  PROVE  DriveInv'
<1> USE DEF UnsortedPlaces, QueryPlaces, driveVars
<1>1. DosInv'
  BY DEF DriveInv, DosInv
<1>2. VolumesInv'
  BY DEF DriveInv, VolumesInv, Drives, Drive
<1>3. ~Probing'
  BY DEF Probing
<1>4. NamesInv'
  BY <1>3 DEF DriveInv, NamesInv
<1>5. ProbesInv'
  BY <1>3 DEF DriveInv, ProbesInv
<1> QED BY <1>1, <1>2, <1>4, <1>5 DEF DriveInv

\* The commands of a probe leave the list and the locals alone.
LEMMA DrivesDuring ==
  ASSUME DriveInv, Probing, pc # "probe", Probing', pc' # "probe",
         pc' \notin {"scan lock", "scan", "drives done"} \cup UnsortedPlaces \cup QueryPlaces,
         lists'["drives"] = lists["drives"], UNCHANGED driveVars
  PROVE  DriveInv'
<1> USE DEF UnsortedPlaces, QueryPlaces
<1>0. dos' = dos /\ drv' = drv
  BY DEF driveVars
<1>1. DosInv'
  BY <1>0 DEF DriveInv, DosInv
<1>2. VolumesInv'
  BY <1>0 DEF DriveInv, VolumesInv, Drives, Drive
<1>4. NamesInv'
  BY <1>0, ListStays DEF DriveInv, NamesInv
<1>5. ProbesInv'
  BY <1>0, ProbesStay DEF DriveInv, ProbesInv
<1> QED BY <1>1, <1>2, <1>4, <1>5 DEF DriveInv

\* The locals but for the place the loops are at.
SameLocals ==
  /\ drv'.ports = drv.ports /\ drv'.probed = drv.probed /\ drv'.lost = drv.lost
  /\ drv'.found = drv.found

\* Steps between the loops.
LEMMA DrivesBetween ==
  ASSUME ListsInv, SoundInv, DriveInv, NEW memory \in BOOLEAN,
         ScanLock \/ ScanUnlock \/ PortsLock \/ VolumesLock \/ Query(memory) \/ QueryEnd
  PROVE  DriveWhole
<1> USE DEF MyLockDosList, MyUnLockDosList
<1>1. UNCHANGED <<lists, heap, dos, io>> /\ DOMAIN lists = ListNames
  BY DEF ScanLock, ScanUnlock, PortsLock, VolumesLock, Query, QueryEnd, driveVars, ioVars,
         ListsInv, RowsInv
<1>2. SameLocals
  <2>1. DOMAIN drv = {"at", "ports", "info", "quiet", "probed", "lost", "found"}
    BY DEF ListsInv, FieldsInv
  <2> QED BY <2>1 DEF ScanLock, ScanUnlock, PortsLock, VolumesLock, Query, QueryEnd, driveVars,
                      SameLocals
<1>3. \/ pc = "scan lock" /\ pc' = "scan" /\ drv'.at = 1
      \/ pc = "scan" /\ pc' = "match" /\ drv'.at = drv.at /\ drv.at > Len(dos.order)
      \/ pc = "match" /\ pc' = "ports" /\ drv'.at = drv.at
      \/ pc = "volumes lock" /\ pc' = "volumes" /\ drv'.at = 1
      \/ pc = "query" /\ pc' \in {"query drive", "prune"} /\ drv'.at = 1
      \/ pc = "query drive" /\ pc' = "prune" /\ drv'.at = drv.at
  <2>1. DOMAIN drv = {"at", "ports", "info", "quiet", "probed", "lost", "found"}
    BY DEF ListsInv, FieldsInv
  <2> QED BY <2>1 DEF ScanLock, ScanUnlock, PortsLock, VolumesLock, Query, QueryEnd, driveVars
<1>4. SoundInv' /\ DOMAIN lists' = ListNames /\ Others("drives")
  BY <1>1, Unlisted
<1>5. DosInv'
  BY <1>1 DEF DriveInv, DosInv
<1>6. VolumesInv'
  BY <1>1, <1>2, <1>3 DEF DriveInv, VolumesInv, PortsKept, SameLocals, Drive, Drives
<1>7. ~Probing /\ ~Probing'
  BY <1>3 DEF Probing, IoPlaces
<1>8. NamesInv'
  <2>1. Len(dos.order) \in Nat
    BY DEF DriveInv, DosInv
  <2>2. Drives \in Nat /\ drv.at \in Nat
    BY Names DEF SoundInv, Whole, DriveInv, NamesInv, Drives
  <2>3. /\ Drives' = Drives /\ Len(dos'.order) = Len(dos.order) /\ drv'.lost = drv.lost
        /\ (InDosOrder => InDosOrder') /\ (AllOfDos => AllOfDos')
        /\ (FoundListed => FoundListed')
    BY <1>1, <1>2, ListStays DEF SameLocals
  <2>4. (drv.lost # TRUE => Drives = Len(dos.order)) => AllOfDos
    BY DEF AllOfDos
  <2>5. Drives = 0 => InDosOrder
    BY <2>1 DEF InDosOrder
  <2>6. NamesInv
    BY DEF DriveInv
  <2> HIDE DEF DriveInv
  <2> USE DEF NamesInv, UnsortedPlaces, QueryPlaces
  <2>7. CASE pc = "scan lock" /\ pc' = "scan" /\ drv'.at = 1
    <3>1. Drives' = 0 /\ drv'.lost # TRUE /\ InDosOrder'
      BY <2>2, <2>3, <2>5, <2>6, <2>7
    <3>2. drv'.at = 1
      BY <2>7
    <3>3. /\ drv'.at \in Nat /\ drv'.at > 0 /\ Drives' = drv'.at - 1
          /\ drv'.at <= Len(dos'.order) + 1
      BY <2>1, <2>3, <3>1, <3>2
    <3> QED BY <1>7, <2>7, <3>1, <3>3
  <2>8. CASE pc = "scan" /\ pc' = "match" /\ drv'.at = drv.at /\ drv.at > Len(dos.order)
    <3>1. drv.lost # TRUE => Drives = drv.at - 1 /\ drv.at <= Len(dos.order) + 1
      BY <2>6, <2>8
    <3>2. drv.lost # TRUE => Drives = Len(dos.order)
      BY <2>1, <2>2, <2>8, <3>1
    <3>3. AllOfDos'
      BY <2>3, <2>4, <3>2
    <3> QED BY <1>7, <2>2, <2>3, <2>6, <2>8, <3>3
  <2>9. CASE pc = "match" /\ pc' = "ports" /\ drv'.at = drv.at
    BY <1>7, <2>1, <2>2, <2>3, <2>6, <2>9
  <2>10. CASE pc = "volumes lock" /\ pc' = "volumes" /\ drv'.at = 1
    <3>1. drv'.at = 1
      BY <2>10
    <3>2. drv'.at \in Nat /\ drv'.at > 0
      BY <3>1
    <3> QED BY <1>7, <2>3, <2>6, <2>10, <3>2
  <2>11. CASE pc = "query" /\ pc' \in {"query drive", "prune"} /\ drv'.at = 1
    <3>1. drv'.at = 1
      BY <2>11
    <3>2. drv'.at \in Nat /\ drv'.at > 0
      BY <3>1
    <3> QED BY <1>7, <2>3, <2>6, <2>11, <3>2
  <2>12. CASE pc = "query drive" /\ pc' = "prune" /\ drv'.at = drv.at
    BY <1>7, <2>1, <2>2, <2>3, <2>6, <2>12
  <2> QED BY <1>3, <2>7, <2>8, <2>9, <2>10, <2>11, <2>12
<1>9. ProbesInv'
  BY <1>2, <1>3, <1>7 DEF DriveInv, ProbesInv, UnsortedPlaces, QueryPlaces, SameLocals
<1> QED BY <1>4, <1>5, <1>6, <1>8, <1>9 DEF DriveWhole, DriveInv

\* The numbers the scans go by.
LEMMA DriveTypes ==
  ASSUME SoundInv, DriveInv
  PROVE  /\ Drives \in Nat /\ drv.at \in Nat /\ Len(dos.order) \in Nat
         /\ "drives" \in ListNames
<1>1. "drives" \in ListNames
  BY Names
<1>2. Drives \in Nat
  BY <1>1 DEF SoundInv, Whole, Drives
<1>3. drv.at \in Nat
  BY DEF DriveInv, NamesInv
<1>4. Len(dos.order) \in Nat
  BY DEF DriveInv, DosInv
<1> QED BY <1>1, <1>2, <1>3, <1>4

\* The list begins empty.
LEMMA BeginWhole ==
  ASSUME ListsInv, SoundInv, DriveInv, DrivesBegin
  PROVE  DriveWhole
<1>1. DOMAIN lists = ListNames /\ "drives" \in ListNames
  BY Names DEF ListsInv, RowsInv
<1>2. /\ SoundInv' /\ DOMAIN lists' = ListNames /\ Others("drives")
      /\ lists'["drives"].count = 0
  BY <1>1, FreeSound DEF DrivesBegin
<1>3. /\ dos'.order = dos.order /\ dos'.port = dos.port /\ dos'.vol = dos.vol
      /\ drv'.at = drv.at /\ drv'.probed = <<>> /\ drv'.lost = FALSE /\ drv'.found = {}
  BY DEF DrivesBegin, ListsInv, FieldsInv
<1>4. pc' = "scan lock"
  BY DEF DrivesBegin
<1>5. DosInv'
  BY <1>3 DEF DriveInv, DosInv
<1>6. VolumesInv'
  <2>1. \A i \in 1..Drives' : FALSE
    BY <1>2 DEF Drives
  <2> QED BY <1>4, <2>1 DEF VolumesInv
<1>7. ~Probing'
  BY <1>4 DEF Probing, IoPlaces
<1>8. NamesInv'
  BY <1>2, <1>3, <1>4, <1>7 DEF DriveInv, NamesInv, Drives, UnsortedPlaces, QueryPlaces
<1>9. ProbesInv'
  <2>1. /\ drv'.probed \in Seq(Nat \X Nat) /\ IsInjective(drv'.probed) /\ drv'.probed = <<>>
    BY <1>3 DEF IsInjective
  <2> QED BY <1>4, <1>7, <2>1 DEF ProbesInv
<1> QED BY <1>2, <1>5, <1>6, <1>8, <1>9 DEF DriveWhole, DriveInv

\* A device node gives an entry that keeps what the node says.
LEMMA ScannedItem ==
  ASSUME NEW d \in DOMAIN Nodes
  PROVE  /\ OfItsNode(Scanned(d)) /\ Scanned(d).volume = 0 /\ Scanned(d).name = d
         /\ Scanned(d) # Zero
<1>1. Scanned(d) \in DriveItems
  BY DriveAssumption DEF Scanned, DriveItems
<1> QED BY <1>1, ZeroAssumption DEF Scanned, OfItsNode

\* The scan lists the devices in the order of DOS, up to the first without room.
LEMMA ScanWhole ==
  ASSUME ListsInv, SoundInv, DriveInv, NEW memory \in BOOLEAN, Scan(memory)
  PROVE  DriveWhole
<1> DEFINE d == dos.order[drv.at]
<1>1. DOMAIN lists = ListNames /\ "drives" \in ListNames
  BY Names DEF ListsInv, RowsInv
<1>2. dos' = dos /\ pc = "scan" /\ pc' = "scan"
  BY DEF Scan
<1>3. /\ Drives \in Nat /\ drv.at \in Nat /\ Len(dos.order) \in Nat
      /\ drv.at <= Len(dos.order) /\ drv.at > 0
      /\ dos.order \in Seq(DOMAIN Nodes)
  BY <1>2, DriveTypes DEF Scan, DriveInv, NamesInv, DosInv
<1>4. d \in DOMAIN Nodes
  BY <1>3
<1>5. drv.lost # TRUE /\ Drives = drv.at - 1 /\ InDosOrder
  <2>1. /\ drv.lost # TRUE => Drives = drv.at - 1
        /\ drv.lost = TRUE => drv.at > Len(dos.order)
        /\ InDosOrder
    BY <1>2 DEF DriveInv, NamesInv
  <2>2. ~(drv.at > Len(dos.order))
    BY <1>3
  <2> QED BY <2>1, <2>2, Zenon
<1>6. /\ SoundInv' /\ DOMAIN lists' = ListNames /\ Others("drives")
      /\ HasRoom("drives", memory) => Longer("drives", Scanned(d))
      /\ ~HasRoom("drives", memory) => Same("drives")
  BY <1>1, <1>4, ScannedItem, AddSound DEF Scan
<1>7. /\ drv'.probed = drv.probed /\ drv'.found = drv.found
      /\ HasRoom("drives", memory) => drv'.at = drv.at + 1 /\ drv'.lost = drv.lost
      /\ ~HasRoom("drives", memory) => drv'.at = Len(dos.order) + 1 /\ drv'.lost = TRUE
  BY DEF Scan, ListsInv, FieldsInv
<1> HIDE DEF d
<1>8. /\ \A i \in 1..Drives' : \/ i \in 1..Drives /\ Drive(i)' = Drive(i)
                               \/ i = drv.at /\ Drive(i)' = Scanned(d)
      /\ Drives' \in {Drives, Drives + 1}
  <2>1. CASE HasRoom("drives", memory)
    <3>1. /\ Drives' = Drives + 1 /\ \A i \in 1..Drives : Drive(i)' = Drive(i)
          /\ lists'["drives"].items[drv.at] = Scanned(d) /\ drv.at = Drives + 1
      BY <1>3, <1>5, <1>6, <2>1 DEF Longer, Drives, Drive
    <3>2. \A i \in 1..(Drives + 1) : i \in 1..Drives \/ i = drv.at
      BY <1>3, <3>1
    <3>3. ASSUME NEW i \in 1..Drives'
          PROVE  \/ i \in 1..Drives /\ Drive(i)' = Drive(i)
                 \/ i = drv.at /\ Drive(i)' = Scanned(d)
      BY <3>1, <3>2 DEF Drive
    <3> QED BY <3>1, <3>3
  <2>2. CASE ~HasRoom("drives", memory)
    <3>1. lists'["drives"] = lists["drives"]
      BY <1>6, <2>2 DEF Same
    <3>2. Drives' = Drives /\ \A i \in 1..Drives : Drive(i)' = Drive(i)
      BY <3>1 DEF Drives, Drive
    <3> QED BY <3>2
  <2> QED BY <2>1, <2>2
<1>9. DosInv'
  BY <1>2 DEF DriveInv, DosInv
<1>10. VolumesInv'
  <2>1. ASSUME NEW i \in 1..Drives'
        PROVE  OfItsNode(Drive(i)') /\ (Drive(i)'.volume \in {0, Drive(i)'.name}
                                         \/ Taken(Drive(i)'))
    BY <1>4, <1>8, ScannedItem DEF DriveInv, VolumesInv
  <2> QED BY <1>2, <2>1 DEF VolumesInv, OfItsNode
<1>11. InDosOrder'
  <2>1. Drives' <= Len(dos.order)
    BY <1>3, <1>5, <1>8
  <2>2. ASSUME NEW i \in 1..Drives'
        PROVE  Drive(i)'.name = dos.order[i]
    BY <1>4, <1>5, <1>8, ScannedItem DEF InDosOrder, d
  <2> QED BY <1>2, <2>1, <2>2 DEF InDosOrder
<1>12. /\ drv'.at \in Nat /\ drv'.at > 0
       /\ drv'.lost # TRUE => Drives' = drv'.at - 1 /\ drv'.at <= Len(dos.order) + 1
       /\ drv'.lost = TRUE => drv'.at > Len(dos.order)
  <2>1. CASE HasRoom("drives", memory)
    <3>1. Drives' = Drives + 1
      BY <1>6, <2>1 DEF Longer, Drives
    <3>2. drv'.at = drv.at + 1 /\ drv'.lost = drv.lost
      BY <1>7, <2>1
    <3>3. drv'.lost # TRUE
      BY <1>5, <3>2
    <3>4. drv'.at \in Nat /\ drv'.at > 0 /\ Drives' = drv'.at - 1 /\ drv'.at <= Len(dos.order) + 1
      BY <1>3, <1>5, <3>1, <3>2
    <3> QED BY <3>3, <3>4, Zenon
  <2>2. CASE ~HasRoom("drives", memory)
    <3>1. drv'.at = Len(dos.order) + 1 /\ drv'.lost = TRUE
      BY <1>7, <2>2
    <3>2. drv'.at \in Nat /\ drv'.at > 0 /\ drv'.at > Len(dos.order)
      BY <1>3, <3>1
    <3> QED BY <3>1, <3>2, Zenon
  <2> QED BY <2>1, <2>2
<1>13. ~Probing'
  BY <1>2 DEF Probing, IoPlaces
<1>14. NamesInv'
  BY <1>2, <1>11, <1>12, <1>13 DEF NamesInv, UnsortedPlaces, QueryPlaces
<1>15. ProbesInv'
  BY <1>2, <1>7, <1>13 DEF DriveInv, ProbesInv
<1> QED BY <1>6, <1>9, <1>10, <1>14, <1>15 DEF DriveWhole, DriveInv
-----------------------------------------------------------------------------
Smaller == {ss \in Nat \X Nat : ss[1] < ss[2]}

\* A set of numbers has a least one.
LEMMA SmallerWellFounded == IsWellFoundedOn(Smaller, Nat)
BY NatLessThanWellFounded DEF OpToRel, Smaller

LEMMA LeastExists ==
  ASSUME NEW S, S \subseteq Nat, S # {}
  PROVE  Min(S) \in S /\ \A m \in S : Min(S) <= m
<1>1. PICK n \in S : \A m \in S : <<m, n>> \notin Smaller
  BY WFMin, SmallerWellFounded
<1>2. \A m \in S : ~(m < n)
  BY <1>1 DEF Smaller
<1>3. \A m \in S : n <= m
  BY <1>2
<1> QED BY <1>3 DEF Min

\* The ports read are those of the handlers at this moment.
LEMMA PortsReadWhole ==
  ASSUME ListsInv, SoundInv, DriveInv, PortsRead
  PROVE  DriveWhole
<1>1. UNCHANGED <<lists, heap, dos>> /\ DOMAIN lists = ListNames
  BY DEF PortsRead, ListsInv, RowsInv
<1>2. /\ drv'.probed = drv.probed /\ drv'.lost = drv.lost /\ drv'.found = drv.found
      /\ drv'.at = drv.at /\ drv'.ports = [i \in 1..Drives |-> dos.port[Drive(i).name]]
  BY DEF PortsRead, ListsInv, FieldsInv, Drives, Drive
<1>3. pc = "ports" /\ pc' = "volumes lock"
  BY DEF PortsRead, MyUnLockDosList
<1>4. SoundInv' /\ DOMAIN lists' = ListNames /\ Others("drives")
  BY <1>1, Unlisted
<1>5. DosInv'
  BY <1>1 DEF DriveInv, DosInv
<1>6. /\ Drives' = Drives /\ (InDosOrder => InDosOrder') /\ (AllOfDos => AllOfDos')
      /\ \A i \in 1..Drives : Drive(i)' = Drive(i)
  BY <1>1, <1>2, ListStays DEF Drive
<1>7. VolumesInv'
  <2>1. \A i \in 1..Drives : /\ OfItsNode(Drive(i))
                             /\ Drive(i).volume \in {0, Drive(i).name} \/ Taken(Drive(i))
    BY DEF DriveInv, VolumesInv
  <2>2. \A i \in 1..Drives : drv'.ports[i] = dos.port[Drive(i).name]
    BY <1>2
  <2>3. /\ Drives' = Drives /\ dos' = dos
        /\ \A i \in 1..Drives : Drive(i)' = Drive(i)
    BY <1>1, <1>6
  <2>4. \A i \in 1..Drives' : /\ OfItsNode(Drive(i))'
                             /\ (Drive(i).volume \in {0, Drive(i).name} \/ Taken(Drive(i)))'
    <3> SUFFICES ASSUME NEW i \in 1..Drives'
                 PROVE  /\ OfItsNode(Drive(i))'
                        /\ (Drive(i).volume \in {0, Drive(i).name} \/ Taken(Drive(i)))'
      OBVIOUS
    <3>1. i \in 1..Drives /\ Drive(i)' = Drive(i)
      BY <2>3
    <3>4. OfItsNode(Drive(i))
      BY <2>1, <3>1
    <3>2. OfItsNode(Drive(i))'
      BY <3>1, <3>4 DEF OfItsNode
    <3>3. (Drive(i).volume \in {0, Drive(i).name} \/ Taken(Drive(i)))'
      BY <2>1, <2>3, <3>1
    <3> QED BY <3>2, <3>3
  <2>5. PortsKept'
    <3> SUFFICES ASSUME NEW i \in 1..Drives, NEW e \in DOMAIN Nodes,
                        dos.port[e] # 0, drv'.ports[i] = dos.port[e]
                 PROVE  e = Drive(i).name
      BY <2>3 DEF PortsKept
    <3>1. Drive(i).name \in DOMAIN Nodes
      BY <2>1 DEF OfItsNode, DriveItems
    <3> QED BY <2>2, <3>1 DEF DriveInv, DosInv
  <2> QED BY <2>4, <2>5 DEF VolumesInv
<1>8. ~Probing'
  BY <1>3 DEF Probing, IoPlaces
<1>9. InDosOrder /\ AllOfDos /\ drv.at \in Nat
  BY <1>3 DEF DriveInv, NamesInv, UnsortedPlaces, QueryPlaces
<1>10. NamesInv'
  BY <1>2, <1>3, <1>6, <1>8, <1>9 DEF NamesInv, UnsortedPlaces, QueryPlaces
<1>11. ProbesInv'
  BY <1>2, <1>3, <1>8 DEF DriveInv, ProbesInv, UnsortedPlaces, QueryPlaces
<1> QED BY <1>4, <1>5, <1>7, <1>10, <1>11 DEF DriveWhole, DriveInv

\* What has a volume or a handler now is listed.
LEMMA VolumesUnlockWhole ==
  ASSUME ListsInv, SoundInv, DriveInv, VolumesUnlock
  PROVE  DriveWhole
<1>1. UNCHANGED <<lists, heap, dos>> /\ DOMAIN lists = ListNames
  BY DEF VolumesUnlock, ListsInv, RowsInv
<1>2. /\ drv'.probed = drv.probed /\ drv'.lost = drv.lost
      /\ drv'.found = {Drive(i).name : i \in {j \in 1..Drives :
                                 Drive(j).handler # 0 \/ Drive(j).volume # 0}}
      /\ drv'.at = drv.at /\ drv'.ports = drv.ports
  BY DEF VolumesUnlock, ListsInv, FieldsInv, Drives
<1>3. pc = "volumes" /\ pc' = "query"
  BY DEF VolumesUnlock, MyUnLockDosList
<1>4. SoundInv' /\ DOMAIN lists' = ListNames /\ Others("drives")
  BY <1>1, Unlisted
<1>5. DosInv'
  BY <1>1 DEF DriveInv, DosInv
<1>6. Drives' = Drives /\ \A i \in 1..Drives : Drive(i)' = Drive(i)
  BY <1>1 DEF Drive, Drives
<1>7. VolumesInv'
  BY <1>1, <1>3, <1>6 DEF DriveInv, VolumesInv, OfItsNode
<1>8. ~Probing'
  BY <1>3 DEF Probing, IoPlaces
<1>9. InDosOrder' /\ AllOfDos' /\ drv.at \in Nat
  <2>1. InDosOrder /\ AllOfDos /\ drv.at \in Nat
    BY <1>3 DEF DriveInv, NamesInv, UnsortedPlaces, QueryPlaces
  <2> QED BY <2>1, <1>1, <1>2, <1>6 DEF InDosOrder, AllOfDos
<1>10. FoundListed'
  BY <1>2, <1>6 DEF FoundListed
<1>11. NamesInv'
  BY <1>2, <1>3, <1>8, <1>9, <1>10 DEF NamesInv, UnsortedPlaces, QueryPlaces
<1>12. ProbesInv'
  BY <1>2, <1>3, <1>8 DEF DriveInv, ProbesInv, UnsortedPlaces, QueryPlaces
<1> QED BY <1>4, <1>5, <1>7, <1>11, <1>12 DEF DriveWhole, DriveInv

\* One drive is changed in place.
Changed(i, d) ==
  /\ Drives' = Drives /\ lists'["drives"].items[i] = d
  /\ \A j \in 1..Drives : j # i => lists'["drives"].items[j] = lists["drives"].items[j]

\* Steps that change one drive.
LEMMA UpdateSound ==
  ASSUME SoundInv, DOMAIN lists = ListNames, NEW i \in 1..Drives, NEW d, d # Zero,
         Update(i, d), UNCHANGED heap
  PROVE  SoundInv' /\ DOMAIN lists' = ListNames /\ Others("drives") /\ Changed(i, d)
<1> DEFINE l == lists["drives"]
           items == [l.items EXCEPT ![i] = d]
<1>1. "drives" \in ListNames
  BY Names
<1>2. Whole(l, MaxItems["drives"])
  BY <1>1 DEF SoundInv
<1>3. l.count \in Nat /\ l.capacity \in Nat /\ l.count <= l.capacity
  BY <1>2 DEF Whole
<1>4. l.items = [j \in 1..l.capacity |-> l.items[j]] /\ \A j \in 1..l.count : l.items[j] # Zero
  BY <1>2 DEF Whole
<1>5. i \in 1..l.capacity /\ i \in 1..l.count
  BY <1>3 DEF Drives
<1>6. lists' = [lists EXCEPT !["drives"].items = items, !["drives"].count = l.count]
  <2>1. DOMAIN l = {"items", "count", "capacity", "made"}
    BY <1>2 DEF Whole
  <2>2. [l EXCEPT !.items = items, !.count = l.count] = [l EXCEPT !.items = items]
    BY <2>1
  <2> QED BY <2>2 DEF Update
<1>7. /\ items = [j \in 1..l.capacity |-> items[j]] /\ items[i] = d
      /\ \A j \in 1..l.capacity : j # i => items[j] = l.items[j]
  BY <1>4, <1>5, PutItem
<1> HIDE DEF items
<1>8. \A j \in 1..l.count : j \in 1..l.capacity
  BY <1>3
<1>9. \A j \in 1..l.count : items[j] # Zero
  BY <1>4, <1>7, <1>8
<1>10. Refill("drives", items, l.count)
  BY <1>3, <1>6, <1>7, <1>9 DEF Refill
<1>11. /\ SoundInv' /\ DOMAIN lists' = ListNames /\ Others("drives")
       /\ lists'["drives"].count = l.count /\ lists'["drives"].items = items
  BY <1>1, <1>10, ChangeSound
<1> QED BY <1>7, <1>8, <1>11 DEF Changed, Drives

\* A drive that is changed stays that of its node and keeps its volume.
KeepsDrive(i, d) ==
  /\ OfItsNode(d) /\ d.name = lists["drives"].items[i].name
  /\ d.volume \in {0, d.name} \/ Taken(d)
  /\ lists["drives"].items[i].volume # 0 => d.volume # 0

\* A drive that keeps its name and what its node says keeps all that is said of
\* the list.
LEMMA ListKept ==
  ASSUME DriveInv, NEW i \in 1..Drives, NEW d, Changed(i, d), KeepsDrive(i, d),
         dos' = dos, drv'.lost = drv.lost, drv'.found = drv.found, drv'.ports = drv.ports,
         pc' \in {"volumes lock", "volumes"} => pc \in {"volumes lock", "volumes"}
  PROVE  /\ Drives' = Drives /\ VolumesInv'
         /\ InDosOrder => InDosOrder'
         /\ AllOfDos => AllOfDos'
         /\ FoundListed => FoundListed'
         /\ Pruned => Pruned'
<1> DEFINE old(j) == lists["drives"].items[j]
           new(j) == lists'["drives"].items[j]
<1>1. /\ Drives' = Drives /\ new(i) = d
      /\ \A j \in 1..Drives : j # i => new(j) = old(j)
  BY DEF Changed
<1>2. \A j \in 1..Drives : /\ OfItsNode(old(j))
                           /\ (old(j).volume \in {0, old(j).name} \/ Taken(old(j)))
  BY DEF DriveInv, VolumesInv, Drive
<1>3. \A j \in 1..Drives : /\ OfItsNode(new(j))
                           /\ (new(j).volume \in {0, new(j).name} \/ Taken(new(j)))
                           /\ new(j).name = old(j).name
                           /\ (old(j).volume # 0 => new(j).volume # 0)
  <2> SUFFICES ASSUME NEW j \in 1..Drives
               PROVE  /\ OfItsNode(new(j))
                      /\ (new(j).volume \in {0, new(j).name} \/ Taken(new(j)))
                      /\ new(j).name = old(j).name
                      /\ (old(j).volume # 0 => new(j).volume # 0)
    OBVIOUS
  <2>1. CASE j = i
    BY <1>1, <2>1 DEF KeepsDrive
  <2>2. CASE j # i
    BY <1>1, <1>2, <2>2
  <2> QED BY <2>1, <2>2
<1>4. \A j \in 1..Drives : new(j).handler = old(j).handler
  <2> SUFFICES ASSUME NEW j \in 1..Drives PROVE new(j).handler = old(j).handler
    OBVIOUS
  <2>1. OfItsNode(new(j)) /\ OfItsNode(old(j)) /\ new(j).name = old(j).name
    BY <1>2, <1>3
  <2> HIDE DEF old, new
  <2> QED BY <2>1 DEF OfItsNode
<1> HIDE DEF old, new
<1>5. \A j : Drive(j) = old(j) /\ Drive(j)' = new(j)
  BY DEF Drive, old, new
<1>6. VolumesInv'
  <2>1. pc \in {"volumes lock", "volumes"} => PortsKept
    BY DEF DriveInv, VolumesInv
  <2>2. \A j \in 1..Drives' : /\ OfItsNode(Drive(j))'
                              /\ (Drive(j).volume \in {0, Drive(j).name} \/ Taken(Drive(j)))'
    <3> SUFFICES ASSUME NEW j \in 1..Drives'
                 PROVE  /\ OfItsNode(Drive(j))'
                        /\ (Drive(j).volume \in {0, Drive(j).name} \/ Taken(Drive(j)))'
      OBVIOUS
    <3>1. j \in 1..Drives /\ Drive(j)' = new(j)
      BY <1>1, <1>5
    <3>2. OfItsNode(new(j)) /\ (new(j).volume \in {0, new(j).name} \/ Taken(new(j)))
      BY <1>3, <3>1
    <3>3. OfItsNode(Drive(j))'
      BY <3>1, <3>2 DEF OfItsNode
    <3> QED BY <3>1, <3>2, <3>3
  <2>3. pc' \in {"volumes lock", "volumes"} => PortsKept'
    BY <1>1, <1>3, <1>5, <2>1 DEF PortsKept
  <2> QED BY <2>2, <2>3 DEF VolumesInv
<1>7. InDosOrder => InDosOrder'
  BY <1>1, <1>3, <1>5 DEF InDosOrder
<1>8. AllOfDos => AllOfDos'
  BY <1>1 DEF AllOfDos
<1>9. FoundListed => FoundListed'
  <2> SUFFICES ASSUME FoundListed, NEW x \in drv.found
               PROVE  \E j \in 1..Drives : /\ new(j).name = x
                                            /\ (new(j).handler # 0 \/ new(j).volume # 0)
    BY <1>1, <1>5 DEF FoundListed
  <2>1. PICK j \in 1..Drives : old(j).name = x /\ (old(j).handler # 0 \/ old(j).volume # 0)
    BY <1>5 DEF FoundListed
  <2> QED BY <1>3, <1>4, <2>1
<1>10. Pruned => Pruned'
  <2> SUFFICES ASSUME Pruned PROVE Pruned'
    OBVIOUS
  <2>1. \A j, k \in 1..Drives' : j < k => Drive(j)'.name < Drive(k)'.name
    BY <1>1, <1>3, <1>5 DEF Pruned
  <2>2. ASSUME NEW x, \E j \in 1..Drives : Drive(j).name = x
        PROVE  \E j \in 1..Drives' : Drive(j)'.name = x
    BY <1>1, <1>3, <1>5, <2>2
  <2>3. \A x \in drv'.found : \E j \in 1..Drives' : Drive(j)'.name = x
    BY <2>2 DEF Pruned
  <2>4. drv'.lost # TRUE => \A k \in DOMAIN dos'.order :
          Nodes[dos'.order[k]].handler # 0 => \E j \in 1..Drives' : Drive(j)'.name = dos'.order[k]
    BY <2>2 DEF Pruned
  <2> QED BY <2>1, <2>3, <2>4 DEF Pruned
<1> QED BY <1>1, <1>6, <1>7, <1>8, <1>9, <1>10

\* A step that changes one drive or none.
OneDrive ==
  /\ SoundInv' /\ DOMAIN lists' = ListNames /\ Others("drives")
  /\ Drives' = Drives /\ VolumesInv'
  /\ (InDosOrder => InDosOrder') /\ (AllOfDos => AllOfDos')
  /\ (FoundListed => FoundListed') /\ (Pruned => Pruned')

\* What an action asks of one drive, or that it leaves the list alone.
Updates(i) ==
  \/ UNCHANGED lists
  \/ i \in 1..Drives /\ \E d : Update(i, d) /\ KeepsDrive(i, d)

\* So a step that updates one drive such, or none, keeps it.
LEMMA UpdatesOne ==
  ASSUME ListsInv, SoundInv, DriveInv, NEW i, Updates(i), UNCHANGED heap, dos' = dos,
         drv'.lost = drv.lost, drv'.found = drv.found, drv'.ports = drv.ports,
         pc' \in {"volumes lock", "volumes"} => pc \in {"volumes lock", "volumes"}
  PROVE  OneDrive
<1>1. DOMAIN lists = ListNames
  BY DEF ListsInv, RowsInv
<1>2. CASE UNCHANGED lists
  <2>1. SoundInv' /\ DOMAIN lists' = ListNames /\ Others("drives")
    BY <1>1, <1>2, Unlisted
  <2>2. VolumesInv'
    <3>1. Drives' = Drives /\ \A j : Drive(j)' = Drive(j)
      BY <1>2 DEF Drives, Drive
    <3>2. VolumesInv
      BY DEF DriveInv
    <3> QED BY <3>1, <3>2 DEF VolumesInv, PortsKept, OfItsNode
  <2> QED BY <1>2, <2>1, <2>2, ListStays DEF OneDrive
<1>3. ASSUME i \in 1..Drives, NEW d, Update(i, d), KeepsDrive(i, d) PROVE OneDrive
  <2>1. d # Zero
    BY <1>3, ZeroAssumption DEF KeepsDrive, OfItsNode
  <2>2. SoundInv' /\ DOMAIN lists' = ListNames /\ Others("drives") /\ Changed(i, d)
    BY <1>1, <1>3, <2>1, UpdateSound
  <2> QED BY <1>3, <2>2, ListKept DEF OneDrive
<1> QED BY <1>2, <1>3 DEF Updates

\* A volume found by its port is that of the drive, or of a handler recorded to
\* have been given the port.
LEMMA VolumeMatchedWhole ==
  ASSUME ListsInv, SoundInv, DriveInv, VolumeMatched
  PROVE  DriveWhole
<1> DEFINE v == dos.order[drv.at]
           i == Min(Fits(v))
<1>1. /\ UNCHANGED <<heap, dos>> /\ pc = "volumes" /\ pc' = "volumes"
      /\ drv.at <= Len(dos.order)
  BY DEF VolumeMatched
<1>2. /\ drv'.probed = drv.probed /\ drv'.lost = drv.lost /\ drv'.found = drv.found
      /\ drv'.ports = drv.ports /\ drv'.at = drv.at + 1
  BY DEF VolumeMatched, ListsInv, FieldsInv
<1>3. drv.at \in Nat /\ Drives \in Nat
  BY DriveTypes
<1>4. drv.at > 0 /\ InDosOrder /\ AllOfDos
  BY <1>1 DEF DriveInv, NamesInv, UnsortedPlaces, QueryPlaces
<1>5. v \in DOMAIN Nodes
  BY <1>1, <1>3, <1>4 DEF DriveInv, DosInv
<1> HIDE DEF v
<1>6. Updates(i)
  <2>1. CASE ~(dos.vol[v] # -1 /\ Served(v) /\ Fits(v) # {})
    BY <2>1 DEF VolumeMatched, Updates, v
  <2>2. CASE dos.vol[v] # -1 /\ Served(v) /\ Fits(v) # {}
    <3>1. i \in Fits(v)
      <4>1. Fits(v) \subseteq Nat
        BY <1>3 DEF Fits, Drives
      <4> QED BY <2>2, <4>1, LeastExists
    <3> DEFINE old == lists["drives"].items[i]
               d == [old EXCEPT !.volume = v, !.disk = "ok"]
    <3>2. i \in 1..Drives /\ drv.ports[i] = dos.vol[v] /\ old.volume = 0
      BY <3>1 DEF Fits, Drives, Drive
    <3>3. Update(i, d)
      BY <2>2 DEF VolumeMatched, Drive, v
    <3> HIDE DEF i
    <3>4. OfItsNode(old)
      BY <3>2 DEF DriveInv, VolumesInv, Drive
    <3>5. PortsKept
      BY <1>1 DEF DriveInv, VolumesInv
    <3>6. dos.vol[v] = dos.port[v] /\ dos.port[v] # 0
      BY <1>5, <2>2 DEF DriveInv, DosInv, Served
    <3>8. v = old.name \/ <<old.name, v>> \in dos.taken
      BY <1>5, <3>2, <3>5, <3>6 DEF PortsKept, Drive
    <3> HIDE DEF old
    <3>9. OfItsNode(d) /\ d.name = old.name /\ d.volume = v
      BY <1>5, <3>4 DEF OfItsNode, DriveItems
    <3> HIDE DEF d
    <3>10. KeepsDrive(i, d)
      BY <3>2, <3>8, <3>9 DEF KeepsDrive, old
    <3> QED BY <3>2, <3>3, <3>10 DEF Updates
  <2> QED BY <2>1, <2>2
<1> HIDE DEF i
<1>7. OneDrive
  BY <1>1, <1>2, <1>6, UpdatesOne
<1>8. DosInv'
  BY <1>1 DEF DriveInv, DosInv
<1>9. ~Probing'
  BY <1>1 DEF Probing, IoPlaces
<1>10. drv'.at \in Nat /\ drv'.at > 0
  BY <1>2, <1>3
<1>11. InDosOrder' /\ AllOfDos'
  BY <1>4, <1>7 DEF OneDrive
<1>12. NamesInv'
  BY <1>1, <1>9, <1>10, <1>11 DEF NamesInv, UnsortedPlaces, QueryPlaces
<1>13. ProbesInv'
  BY <1>1, <1>2, <1>9 DEF DriveInv, ProbesInv
<1> QED BY <1>7, <1>8, <1>12, <1>13 DEF DriveWhole, DriveInv, OneDrive

\* The places of the questions go from one drive to the next.
NextQuestion ==
  /\ pc \in {"query drive", "query lock", "query info"}
  /\ \/ pc' \in {"query lock", "query info"} /\ drv'.at = drv.at /\ drv.at <= Drives
     \/ pc' = "query drive" /\ drv'.at = drv.at + 1

\* The query goes from drive to drive.
LEMMA QueryMoves ==
  ASSUME SoundInv, DriveInv, OneDrive, dos' = dos, drv'.probed = drv.probed, NextQuestion
  PROVE  DriveWhole
<1>1. drv.at \in Nat /\ drv.at > 0 /\ InDosOrder /\ AllOfDos /\ FoundListed
  BY DEF DriveInv, NamesInv, UnsortedPlaces, QueryPlaces, NextQuestion
<1>2. pc' \in {"query drive", "query lock", "query info"}
  BY DEF NextQuestion
<1>3. pc' # "query drive" => drv'.at <= Drives
  BY DEF NextQuestion
<1>4. drv'.at \in Nat /\ drv'.at > 0
  <2>1. drv'.at = drv.at \/ drv'.at = drv.at + 1
    BY DEF NextQuestion
  <2>2. drv.at \in Nat /\ drv.at > 0
    BY <1>1
  <2> QED BY <2>1, <2>2
<1>5. /\ InDosOrder' /\ AllOfDos' /\ FoundListed' /\ Drives' = Drives
      /\ SoundInv' /\ DOMAIN lists' = ListNames /\ Others("drives") /\ VolumesInv'
  BY <1>1 DEF OneDrive
<1>6. ~Probing'
  BY <1>2 DEF Probing, IoPlaces
<1>7. DosInv'
  BY DEF DriveInv, DosInv
<1>8. NamesInv'
  BY <1>2, <1>3, <1>4, <1>5, <1>6 DEF NamesInv, UnsortedPlaces, QueryPlaces
<1>9. ProbesInv'
  BY <1>2, <1>6 DEF DriveInv, ProbesInv, UnsortedPlaces, QueryPlaces, NextQuestion
<1> QED BY <1>5, <1>7, <1>8, <1>9 DEF DriveWhole, DriveInv

Question ==
  \/ QueryDrive
  \/ \E ok \in BOOLEAN : QueryLock(ok)
  \/ \E ok \in BOOLEAN, named \in BOOLEAN,
       state \in {"ok", "write protected", "unknown"} : QueryInfo(ok, state, named)

\* An answer adds to a drive and takes nothing of what its node says.
LEMMA QueryWhole ==
  ASSUME ListsInv, SoundInv, DriveInv,
         Question
  PROVE  DriveWhole
<1> DEFINE old == lists["drives"].items[drv.at]
<1>1. DOMAIN drv = {"at", "ports", "info", "quiet", "probed", "lost", "found"}
  BY DEF ListsInv, FieldsInv
<1>2. /\ UNCHANGED <<heap, dos>> /\ pc \in {"query drive", "query lock", "query info"}
      /\ drv'.probed = drv.probed /\ drv'.lost = drv.lost /\ drv'.found = drv.found
      /\ drv'.ports = drv.ports
      /\ \/ pc' \in {"query lock", "query info"} /\ drv'.at = drv.at
         \/ pc' = "query drive" /\ drv'.at = drv.at + 1
  BY <1>1 DEF Question, QueryDrive, QueryLock, QueryInfo
<1>3. drv.at \in Nat /\ drv.at > 0 /\ drv.at <= Drives
  <2>1. drv.at \in Nat /\ drv.at > 0 /\ (pc # "query drive" => drv.at <= Drives)
    BY <1>2 DEF DriveInv, NamesInv
  <2>2. pc = "query drive" => drv.at <= Drives
    BY DEF Question, QueryDrive, QueryLock, QueryInfo, Drives
  <2> QED BY <2>1, <2>2
<1>4. drv.at \in 1..Drives
  <2>1. Drives \in Nat
    BY DriveTypes
  <2> QED BY <1>3, <2>1
<1>5. OfItsNode(old) /\ (old.volume \in {0, old.name} \/ Taken(old))
  BY <1>4 DEF DriveInv, VolumesInv, Drive
<1> HIDE DEF old
<1>6. ASSUME NEW d, Update(drv.at, d), OfItsNode(d), d.name = old.name,
             d.volume = old.volume \/ (old.volume = 0 /\ d.volume = d.name)
      PROVE  Updates(drv.at)
  BY <1>4, <1>5, <1>6 DEF Updates, KeepsDrive, old
<1>7. ASSUME QueryDrive PROVE Updates(drv.at)
  <2>1. CASE UNCHANGED lists
    BY <2>1 DEF Updates
  <2>2. CASE Update(drv.at, [old EXCEPT !.disk = "no disk"])
    <3> DEFINE d == [old EXCEPT !.disk = "no disk"]
    <3>1. OfItsNode(d) /\ d.name = old.name /\ d.volume = old.volume
      BY <1>5 DEF OfItsNode, DriveItems
    <3> HIDE DEF d
    <3> QED BY <1>6, <2>2, <3>1 DEF d
  <2> QED BY <1>7, <2>1, <2>2 DEF QueryDrive, Drive, old
<1>8. ASSUME NEW ok \in BOOLEAN, QueryLock(ok) PROVE Updates(drv.at)
  <2>1. CASE UNCHANGED lists
    BY <2>1 DEF Updates
  <2>2. CASE Update(drv.at, old)
    BY <1>5, <1>6, <2>2
  <2>3. CASE Update(drv.at, [old EXCEPT !.disk = "no disk"])
    <3> DEFINE d == [old EXCEPT !.disk = "no disk"]
    <3>1. OfItsNode(d) /\ d.name = old.name /\ d.volume = old.volume
      BY <1>5 DEF OfItsNode, DriveItems
    <3> HIDE DEF d
    <3> QED BY <1>6, <2>3, <3>1 DEF d
  <2> QED BY <1>8, <2>1, <2>2, <2>3 DEF QueryLock, Drive, old
<1>9. ASSUME NEW ok \in BOOLEAN, NEW named \in BOOLEAN,
             NEW state \in {"ok", "write protected", "unknown"}, QueryInfo(ok, state, named)
      PROVE  Updates(drv.at)
  <2> DEFINE volume == IF old.volume = 0 /\ named THEN old.name ELSE old.volume
             d == [old EXCEPT !.disk = state, !.valid = TRUE, !.block = InfoBlock(old),
                              !.volume = volume]
  <2>1. CASE Update(drv.at, old)
    BY <1>5, <1>6, <2>1
  <2>2. CASE Update(drv.at, d)
    <3>1. volume \in {0} \cup DOMAIN Nodes
      BY <1>5 DEF OfItsNode, DriveItems
    <3>2. InfoBlock(old) \in {"none", "envec", "info"}
            /\ (old.block = "envec" => InfoBlock(old) = "envec")
      BY <1>5 DEF OfItsNode, DriveItems, InfoBlock
    <3>3. volume = old.volume \/ (old.volume = 0 /\ volume = old.name)
      OBVIOUS
    <3> HIDE DEF volume
    <3>4. OfItsNode(d) /\ d.name = old.name /\ d.volume = volume
      BY <1>5, <3>1, <3>2 DEF OfItsNode, DriveItems
    <3> HIDE DEF d
    <3> QED BY <1>6, <2>2, <3>3, <3>4
  <2> QED BY <1>9, <2>1, <2>2 DEF QueryInfo, Drive, old
<1>10. Updates(drv.at)
  BY <1>7, <1>8, <1>9 DEF Question
<1>11. pc' \notin {"volumes lock", "volumes"}
  BY <1>2
<1>12. OneDrive
  BY <1>2, <1>10, <1>11, UpdatesOne
<1>13. NextQuestion
  BY <1>2, <1>3 DEF NextQuestion
<1> QED BY <1>2, <1>12, <1>13, QueryMoves

\* The kept drives fill the places up to their number.
LEMMA PlacesTaken ==
  ASSUME NEW m \in Nat, NEW kept, kept \subseteq 1..m,
         NEW place \in Injection(1..Cardinality(kept), kept)
  PROVE  /\ Cardinality(kept) \in Nat /\ Cardinality(kept) <= m
         /\ \A i \in 1..Cardinality(kept) : place[i] \in kept
         /\ \A i, j \in 1..Cardinality(kept) : place[i] = place[j] => i = j
         /\ \A k \in kept : \E i \in 1..Cardinality(kept) : place[i] = k
<1> DEFINE n == Cardinality(kept)
<1>1. IsFiniteSet(1..m) /\ Cardinality(1..m) = m
  BY FS_Interval
<1>2. IsFiniteSet(kept) /\ n <= m
  BY <1>1, FS_Subset
<1>3. n \in Nat
  BY <1>2, FS_CardinalityType
<1> HIDE DEF n
<1>4. Cardinality(1..n) = n
  BY <1>3, FS_Interval
<1>5. place \in Injection(1..n, kept)
  BY DEF n
<1>6. place \in Surjection(1..n, kept)
  BY <1>2, <1>4, <1>5, FS_Injection DEF n
<1>7. /\ \A i \in 1..n : place[i] \in kept
      /\ \A i, j \in 1..n : place[i] = place[j] => i = j
      /\ \A k \in kept : \E i \in 1..n : place[i] = k
  BY <1>5, <1>6 DEF Injection, Surjection, IsInjective
<1> QED BY <1>2, <1>3, <1>7 DEF n

\* Pruning drops none that has a volume or a handler; sorting then orders names
\* that are all different.
LEMMA PruneWhole ==
  ASSUME ListsInv, SoundInv, DriveInv, PruneAndSort
  PROVE  DriveWhole
<1> DEFINE old(i) == lists["drives"].items[i]
           new(i) == lists'["drives"].items[i]
           kept == {i \in 1..Drives : Kept(old(i))}
           n == Cardinality(kept)
<1>1. /\ UNCHANGED <<heap, dos>> /\ pc = "prune" /\ pc' = "probe"
  BY DEF PruneAndSort
<1>2. /\ drv'.probed = drv.probed /\ drv'.lost = drv.lost /\ drv'.found = drv.found
      /\ drv'.ports = drv.ports /\ drv'.at = 1
  BY DEF PruneAndSort, ListsInv, FieldsInv
<1>3. PICK place \in Injection(1..n, kept) :
        /\ \A i, j \in 1..n : i < j => old(place[i]).name <= old(place[j]).name
        /\ lists' = [lists EXCEPT !["drives"].count = n,
                       !["drives"].items =
                         [i \in DOMAIN @ |-> IF i \in 1..n THEN @[place[i]] ELSE @[i]]]
  BY DEF PruneAndSort, Drives, Drive
<1>4. DOMAIN lists = ListNames /\ "drives" \in ListNames /\ Drives \in Nat
  BY DriveTypes DEF ListsInv, RowsInv
<1>5. InDosOrder /\ AllOfDos /\ FoundListed /\ drv.probed = <<>>
  BY <1>1 DEF DriveInv, NamesInv, ProbesInv, UnsortedPlaces, QueryPlaces
<1>6. \A i \in 1..Drives : /\ OfItsNode(old(i)) /\ old(i).name = dos.order[i]
                           /\ (old(i).volume \in {0, old(i).name} \/ Taken(old(i)))
  BY <1>5 DEF DriveInv, VolumesInv, InDosOrder, Drive
<1> HIDE DEF old
<1>7. kept \subseteq 1..Drives
  OBVIOUS
<1> HIDE DEF kept
<1>8. /\ n \in Nat /\ n <= Drives
      /\ \A i \in 1..n : place[i] \in kept
      /\ \A i, j \in 1..n : place[i] = place[j] => i = j
      /\ \A k \in kept : \E i \in 1..n : place[i] = k
  BY <1>3, <1>4, <1>7, PlacesTaken
<1>9. /\ SoundInv' /\ DOMAIN lists' = ListNames /\ Others("drives")
      /\ Drives' = n /\ \A i \in 1..n : new(i) = old(place[i])
  <2> DEFINE l == lists["drives"]
             items == [i \in 1..l.capacity |-> IF i \in 1..n THEN l.items[place[i]]
                                               ELSE l.items[i]]
  <2> HIDE DEF n
  <2>1. Whole(l, MaxItems["drives"])
    BY <1>4 DEF SoundInv
  <2>2. /\ l.count \in Nat /\ l.capacity \in Nat /\ l.count <= l.capacity
        /\ l.items = [i \in 1..l.capacity |-> l.items[i]]
        /\ \A i \in 1..l.count : l.items[i] # Zero
        /\ DOMAIN l = {"items", "count", "capacity", "made"}
    BY <2>1 DEF Whole
  <2>3. DOMAIN l.items = 1..l.capacity
    BY <2>2
  <2>4. lists' = [lists EXCEPT !["drives"].items = items, !["drives"].count = n]
    <3>1. lists' = [lists EXCEPT !["drives"] = [l EXCEPT !.count = n, !.items =
                         [i \in DOMAIN @ |-> IF i \in 1..n THEN @[place[i]] ELSE @[i]]]]
      BY <1>3
    <3>2. [l EXCEPT !.count = n, !.items =
                         [i \in DOMAIN @ |-> IF i \in 1..n THEN @[place[i]] ELSE @[i]]]
            = [l EXCEPT !.items = items, !.count = n]
      BY <2>2, <2>3
    <3> QED BY <3>1, <3>2
  <2>5. /\ items = [i \in 1..l.capacity |-> items[i]]
        /\ \A i \in 1..n : items[i] = l.items[place[i]]
    BY <1>8, <2>2 DEF Drives
  <2> HIDE DEF items
  <2>6. \A i \in 1..n : place[i] \in 1..l.count
    BY <1>7, <1>8 DEF Drives
  <2>7. Refill("drives", items, n)
    <3>1. n \in Nat /\ n <= l.capacity
      BY <1>8, <2>2 DEF Drives
    <3>2. \A i \in 1..n : items[i] # Zero
      BY <2>2, <2>5, <2>6
    <3> QED BY <1>1, <2>4, <2>5, <3>1, <3>2 DEF Refill
  <2>8. /\ SoundInv' /\ DOMAIN lists' = ListNames /\ Others("drives")
        /\ lists'["drives"].count = n /\ lists'["drives"].items = items
    BY <1>4, <2>7, ChangeSound
  <2> QED BY <2>5, <2>8 DEF Drives, old
<1> HIDE DEF n, new
<1>10. \A i : Drive(i) = old(i) /\ Drive(i)' = new(i)
  BY DEF Drive, old, new
<1>11. \A i \in 1..n : /\ place[i] \in 1..Drives /\ OfItsNode(new(i))
                       /\ (new(i).volume \in {0, new(i).name} \/ Taken(new(i)))
                       /\ new(i).name = dos.order[place[i]]
  <2> SUFFICES ASSUME NEW i \in 1..n
               PROVE  /\ place[i] \in 1..Drives /\ OfItsNode(new(i))
                      /\ (new(i).volume \in {0, new(i).name} \/ Taken(new(i)))
                      /\ new(i).name = dos.order[place[i]]
    OBVIOUS
  <2>1. place[i] \in 1..Drives
    BY <1>7, <1>8
  <2>2. new(i) = old(place[i])
    BY <1>9
  <2> QED BY <1>6, <2>1, <2>2
<1>12. VolumesInv'
  <2>1. \A i \in 1..Drives' : /\ OfItsNode(Drive(i))'
                              /\ (Drive(i).volume \in {0, Drive(i).name} \/ Taken(Drive(i)))'
    <3> SUFFICES ASSUME NEW i \in 1..Drives'
                 PROVE  /\ OfItsNode(Drive(i))'
                        /\ (Drive(i).volume \in {0, Drive(i).name} \/ Taken(Drive(i)))'
      OBVIOUS
    <3>1. OfItsNode(new(i)) /\ (new(i).volume \in {0, new(i).name} \/ Taken(new(i)))
      BY <1>9, <1>11
    <3> QED BY <1>1, <1>10, <3>1 DEF OfItsNode
  <2> QED BY <1>1, <2>1 DEF VolumesInv
<1>13. \A i, j \in 1..n : i < j => new(i).name < new(j).name
  <2> SUFFICES ASSUME NEW i \in 1..n, NEW j \in 1..n, i < j PROVE new(i).name < new(j).name
    OBVIOUS
  <2>1. place[i] # place[j]
    BY <1>8
  <2>2. place[i] \in 1..Drives /\ place[j] \in 1..Drives
    BY <1>7, <1>8
  <2>3. dos.order \in Seq(DOMAIN Nodes) /\ IsInjective(dos.order) /\ Drives <= Len(dos.order)
    BY <1>5 DEF DriveInv, DosInv, InDosOrder
  <2>4. place[i] \in DOMAIN dos.order /\ place[j] \in DOMAIN dos.order
    BY <1>4, <2>2, <2>3
  <2>5. dos.order[place[i]] # dos.order[place[j]]
    BY <2>1, <2>3, <2>4 DEF IsInjective
  <2>6. new(i).name \in Nat /\ new(j).name \in Nat /\ new(i).name # new(j).name
    <3>1. new(i).name = dos.order[place[i]] /\ new(j).name = dos.order[place[j]]
      BY <1>11
    <3>2. dos.order[place[i]] \in Nat /\ dos.order[place[j]] \in Nat
      BY SMTT(30), <2>3, <2>4, DriveAssumption
    <3> QED BY <2>5, <3>1, <3>2
  <2>7. new(i).name <= new(j).name
    BY <1>3, <1>9
  <2> QED BY <2>6, <2>7
<1>14. ASSUME NEW k \in 1..Drives, old(k).handler # 0 \/ old(k).volume # 0
       PROVE  \E i \in 1..n : new(i).name = old(k).name
  <2>1. k \in kept
    BY <1>14 DEF kept, Kept
  <2> QED BY <1>8, <1>9, <2>1
<1>15. Pruned'
  <2>1. \A d \in drv'.found : \E i \in 1..Drives' : Drive(i)'.name = d
    <3> SUFFICES ASSUME NEW d \in drv.found PROVE \E i \in 1..n : new(i).name = d
      BY <1>2, <1>9, <1>10
    <3>1. PICK k \in 1..Drives : old(k).name = d /\ (old(k).handler # 0 \/ old(k).volume # 0)
      BY <1>5, <1>10 DEF FoundListed
    <3> QED BY <1>14, <3>1
  <2>2. ASSUME drv'.lost # TRUE, NEW k \in DOMAIN dos.order, Nodes[dos.order[k]].handler # 0
        PROVE  \E i \in 1..n : new(i).name = dos.order[k]
    <3>1. k \in 1..Drives
      <4>1. Drives = Len(dos.order)
        BY <1>2, <1>5, <2>2 DEF AllOfDos
      <4> QED BY <4>1 DEF DriveInv, DosInv
    <3>2. old(k).handler # 0 /\ old(k).name = dos.order[k]
      BY <1>6, <2>2, <3>1 DEF OfItsNode
    <3> QED BY <1>14, <3>1, <3>2
  <2>3. \A i, j \in 1..Drives' : i < j => Drive(i)'.name < Drive(j)'.name
    BY <1>9, <1>10, <1>13
  <2>4. drv'.lost # TRUE => \A k \in DOMAIN dos'.order : Nodes[dos'.order[k]].handler # 0 =>
          \E i \in 1..Drives' : Drive(i)'.name = dos'.order[k]
    BY <1>1, <1>9, <1>10, <2>2
  <2> QED BY <2>1, <2>3, <2>4 DEF Pruned
<1>16. DosInv'
  BY <1>1 DEF DriveInv, DosInv
<1>17. NamesInv'
  BY <1>1, <1>2, <1>15 DEF NamesInv, UnsortedPlaces, QueryPlaces
<1>18. ProbesInv'
  <2>1. drv'.probed = <<>> /\ Before' = 0
    BY <1>2, <1>5 DEF Before
  <2>2. Agree(Before)' /\ ProbedBefore(Before)'
    BY <2>1 DEF Agree, ProbedBefore
  <2>3. drv'.probed \in Seq(Nat \X Nat) /\ IsInjective(drv'.probed)
    BY <1>2 DEF DriveInv, ProbesInv
  <2> QED BY <1>1, <2>2, <2>3 DEF ProbesInv, UnsortedPlaces, QueryPlaces
<1> QED BY <1>9, <1>12, <1>16, <1>17, <1>18 DEF DriveWhole, DriveInv

\* Handlers that end or begin take no port that is in use, so a port that was
\* read is still that of its drive or of none, or the handler given it is
\* recorded.
LEMMA DosChangesWhole ==
  ASSUME ListsInv, SoundInv, DriveInv, DosChanges
  PROVE  DriveWhole
<1>1. UNCHANGED <<lists, heap, drv, pc, io>> /\ pc \in {"drives", "match", "volumes lock"}
  BY DEF DosChanges, listVars, ioVars
<1>2. SoundInv' /\ DOMAIN lists' = ListNames /\ Others("drives")
  BY <1>1, Unlisted DEF ListsInv, RowsInv
<1>3. /\ DOMAIN dos = {"order", "modern", "changes", "taken", "port", "vol"}
      /\ dos.order \in Seq(DOMAIN Nodes)
      /\ DOMAIN dos.port = DOMAIN Nodes /\ DOMAIN dos.vol = DOMAIN Nodes
  BY DEF ListsInv, FieldsInv, DriveInv, DosInv
<1>4. PICK d \in Range(dos.order) :
        LET live == {dos.port[e] : e \in DOMAIN Nodes}
        IN  \/ /\ dos.port[d] = 0
               /\ \E p \in Ports \ live :
                    dos' = [dos EXCEPT !.port[d] = p, !.changes = @ - 1,
                              !.taken = @ \cup ((ReadFor(p) \ {d}) \X {d})]
            \/ /\ dos.port[d] # 0 /\ dos.vol[d] = -1
               /\ dos' = [dos EXCEPT !.vol[d] = dos.port[d], !.changes = @ - 1]
            \/ /\ dos.port[d] # 0
               /\ dos' = [dos EXCEPT !.port[d] = 0, !.changes = @ - 1,
                            !.vol[d] = IF @ = -1 THEN -1 ELSE 0]
  BY DEF DosChanges
<1>5. d \in DOMAIN Nodes
  BY <1>3 DEF Range
<1> DEFINE came(p) == /\ dos.port[d] = 0 /\ p # 0
                      /\ dos'.taken = dos.taken \cup ((ReadFor(p) \ {d}) \X {d})
                      /\ \A e \in DOMAIN Nodes : dos.port[e] # p
                      /\ dos'.port = [dos.port EXCEPT ![d] = p] /\ dos'.vol = dos.vol
           mounted == /\ dos'.taken = dos.taken
                      /\ dos'.vol = [dos.vol EXCEPT ![d] = dos.port[d]]
                      /\ dos'.port = dos.port
           went == /\ dos'.taken = dos.taken
                   /\ dos'.port = [dos.port EXCEPT ![d] = 0]
                   /\ dos'.vol = [dos.vol EXCEPT ![d] = IF @ = -1 THEN -1 ELSE 0]
<1>6. dos'.order = dos.order /\ ((\E p \in Ports : came(p)) \/ mounted \/ went)
  <2>1. CASE dos.port[d] = 0 /\ \E p \in Ports \ {dos.port[e] : e \in DOMAIN Nodes} :
                    dos' = [dos EXCEPT !.port[d] = p, !.changes = @ - 1,
                              !.taken = @ \cup ((ReadFor(p) \ {d}) \X {d})]
    <3>1. PICK p \in Ports \ {dos.port[e] : e \in DOMAIN Nodes} :
                    dos' = [dos EXCEPT !.port[d] = p, !.changes = @ - 1,
                              !.taken = @ \cup ((ReadFor(p) \ {d}) \X {d})]
      BY <2>1
    <3>2. p \in Ports /\ p # 0 /\ \A e \in DOMAIN Nodes : dos.port[e] # p
      BY <3>1, DriveAssumption
    <3>3. /\ dos'.order = dos.order /\ dos'.vol = dos.vol
          /\ dos'.taken = dos.taken \cup ((ReadFor(p) \ {d}) \X {d})
          /\ dos'.port = [dos.port EXCEPT ![d] = p]
      BY <1>3, <3>1
    <3> QED BY <2>1, <3>2, <3>3
  <2>2. CASE dos' = [dos EXCEPT !.vol[d] = dos.port[d], !.changes = @ - 1]
    BY <1>3, <2>2
  <2>3. CASE dos' = [dos EXCEPT !.port[d] = 0, !.changes = @ - 1,
                            !.vol[d] = IF @ = -1 THEN -1 ELSE 0]
    BY <1>3, <2>3
  <2> QED BY <1>4, <2>1, <2>2, <2>3
<1>7. DosInv'
  <2>1. /\ \A e \in DOMAIN Nodes : /\ dos.port[e] \in {0} \cup Ports
                                   /\ dos.vol[e] \in {-1, 0, dos.port[e]}
        /\ \A e, f \in DOMAIN Nodes : dos.port[e] = dos.port[f] /\ dos.port[e] # 0 => e = f
    BY DEF DriveInv, DosInv
  <2>2. ASSUME NEW p \in Ports, came(p) PROVE DosInv'
    <3>1. /\ dos'.port[d] = p /\ \A e \in DOMAIN Nodes \ {d} : dos'.port[e] = dos.port[e]
          /\ DOMAIN dos'.port = DOMAIN Nodes /\ dos'.vol = dos.vol
          /\ dos.port[d] = 0 /\ \A e \in DOMAIN Nodes : dos.port[e] # p
      BY <1>3, <1>5, <2>2
    <3>2. \A e \in DOMAIN Nodes : /\ dos'.port[e] \in {0} \cup Ports
                                  /\ dos'.vol[e] \in {-1, 0, dos'.port[e]}
      BY <2>1, <3>1
    <3>3. \A e, f \in DOMAIN Nodes :
            dos'.port[e] = dos'.port[f] /\ dos'.port[e] # 0 => e = f
      BY <2>1, <3>1
    <3>4. dos'.order = dos.order /\ dos.order \in Seq(DOMAIN Nodes) /\ IsInjective(dos.order)
            /\ DOMAIN dos'.vol = DOMAIN Nodes
      BY <1>3, <1>6, <3>1 DEF DriveInv, DosInv
    <3> QED BY <3>1, <3>2, <3>3, <3>4 DEF DosInv
  <2>3. CASE mounted
    BY <1>3, <1>5, <1>6, <2>1, <2>3 DEF DriveInv, DosInv
  <2>4. CASE went
    BY <1>3, <1>5, <1>6, <2>1, <2>4 DEF DriveInv, DosInv
  <2> QED BY <1>6, <2>2, <2>3, <2>4
<1>8. VolumesInv'
  <2>1. Drives' = Drives /\ \A i : Drive(i)' = Drive(i)
    BY <1>1 DEF Drives, Drive
  <2>2. dos.taken \subseteq dos'.taken
    BY <1>6
  <2>3. ASSUME pc = "volumes lock" PROVE PortsKept'
    <3> SUFFICES ASSUME NEW i \in 1..Drives, NEW e \in DOMAIN Nodes,
                        dos'.port[e] # 0, drv.ports[i] = dos'.port[e]
                 PROVE  e = Drive(i).name \/ <<Drive(i).name, e>> \in dos'.taken
      BY <1>1, <2>1 DEF PortsKept
    <3>1. PortsKept
      BY <2>3 DEF DriveInv, VolumesInv
    <3>2. CASE dos'.port[e] = dos.port[e]
      BY <2>2, <3>1, <3>2 DEF PortsKept
    <3>3. CASE dos'.port[e] # dos.port[e]
      <4>1. PICK p \in Ports : came(p)
        BY <1>3, <1>5, <1>6, <3>3
      <4>2. e = d /\ dos'.port[e] = p
        BY <1>3, <1>5, <3>3, <4>1
      <4>3. Drive(i).name \in ReadFor(p)
        BY <2>3, <4>2 DEF ReadFor, Drives
      <4> QED BY <4>1, <4>2, <4>3
    <3> QED BY <3>2, <3>3
  <2>4. \A i \in 1..Drives : /\ OfItsNode(Drive(i))
                             /\ (Drive(i).volume \in {0, Drive(i).name} \/ Taken(Drive(i)))
    BY DEF DriveInv, VolumesInv
  <2>5. \A i \in 1..Drives' : /\ OfItsNode(Drive(i))'
                              /\ (Drive(i).volume \in {0, Drive(i).name} \/ Taken(Drive(i)))'
    BY <2>1, <2>2, <2>4 DEF OfItsNode
  <2>6. pc' \in {"volumes lock", "volumes"} => PortsKept'
    BY <1>1, <2>1, <2>3
  <2> QED BY <2>5, <2>6 DEF VolumesInv
<1>9. /\ Drives' = Drives /\ (InDosOrder => InDosOrder') /\ (AllOfDos => AllOfDos')
  BY <1>1, <1>6 DEF Drives, Drive, InDosOrder, AllOfDos
<1>10. ~Probing'
  BY <1>1 DEF Probing, IoPlaces
<1>11. NamesInv'
  <2>1. /\ drv.at \in Nat
        /\ pc \in UnsortedPlaces => InDosOrder /\ AllOfDos
    BY DEF DriveInv, NamesInv
  <2> QED BY <1>1, <1>9, <1>10, <2>1 DEF NamesInv, UnsortedPlaces, QueryPlaces
<1>12. ProbesInv'
  BY <1>1, <1>10 DEF DriveInv, ProbesInv, UnsortedPlaces, QueryPlaces
<1> QED BY <1>2, <1>7, <1>8, <1>11, <1>12 DEF DriveWhole, DriveInv

\* After a drive was looked at the next one is, and those before it agree.
LEMMA ProbeMoves ==
  ASSUME ListsInv, SoundInv, DriveInv, OneDrive, dos' = dos, drv'.probed = drv.probed,
         pc' = "probe", NEW m \in 1..Drives, m = drv.at, drv'.at = m + 1,
         Agree(m)', ProbedBefore(m)', Pruned
  PROVE  DriveWhole
<1>1. /\ SoundInv' /\ DOMAIN lists' = ListNames /\ Others("drives")
      /\ VolumesInv' /\ Pruned'
  BY DEF OneDrive
<1>2. m \in Nat /\ Drives \in Nat
  BY DriveTypes
<1>3. DosInv'
  BY DEF DriveInv, DosInv
<1>4. drv'.at \in Nat /\ drv'.at > 0 /\ Before' = m
  BY <1>2 DEF Before
<1>5. NamesInv'
  BY <1>1, <1>4 DEF NamesInv, UnsortedPlaces, QueryPlaces
<1>6. Agree(Before)' /\ ProbedBefore(Before)'
  BY <1>4 DEF Agree, ProbedBefore
<1>7. ProbesInv'
  BY <1>6 DEF DriveInv, ProbesInv, UnsortedPlaces, QueryPlaces
<1> QED BY <1>1, <1>3, <1>5, <1>7 DEF DriveWhole, DriveInv

\* The drives up to one are on the units they were on.
SameUnits(m) ==
  \A i \in 1..m : /\ lists'["drives"].items[i].handler = Drive(i).handler
                  /\ lists'["drives"].items[i].unit = Drive(i).unit

\* What the one at m says is what those before it on its unit say.
SaysTheSame(m) ==
  /\ \A i \in 1..(m - 1) : lists'["drives"].items[i] = Drive(i)
  /\ Drive(m).handler # 0 =>
       \A i \in Earlier(m) : Drive(i).scsi = lists'["drives"].items[m].scsi

\* The drives before one agree, and this one with them.
LEMMA AgreeOn ==
  ASSUME NEW m \in Nat, m > 0, Agree(m - 1), SameUnits(m), SaysTheSame(m)
  PROVE  Agree(m)'
<1> DEFINE new(i) == lists'["drives"].items[i]
<1>1. \A i \in 1..m : i = m \/ i \in 1..(m - 1)
  OBVIOUS
<1>2. \A i \in 1..m : new(i).handler = Drive(i).handler /\ new(i).unit = Drive(i).unit
  BY DEF SameUnits
<1>3. \A i \in 1..(m - 1) : new(i).scsi = Drive(i).scsi
  BY DEF SaysTheSame
<1>4. \A i \in Earlier(m) : Drive(m).handler # 0 => Drive(i).scsi = new(m).scsi
  BY DEF SaysTheSame
<1> HIDE DEF new
<1>5. \A i, j \in 1..m :
        new(i).handler # 0 /\ new(i).handler = new(j).handler /\ new(i).unit = new(j).unit
          => new(i).scsi = new(j).scsi
  <2> SUFFICES ASSUME NEW i \in 1..m, NEW j \in 1..m, Drive(i).handler # 0,
                      Drive(i).handler = Drive(j).handler, Drive(i).unit = Drive(j).unit
               PROVE  new(i).scsi = new(j).scsi
    BY <1>2
  <2>1. CASE i # m /\ j # m
    BY <1>1, <1>3, <2>1 DEF Agree
  <2>2. CASE i = m /\ j # m
    <3>1. j \in Earlier(m)
      BY <1>1, <2>2 DEF Earlier
    <3> QED BY <1>1, <1>3, <1>4, <2>2, <3>1
  <2>3. CASE i # m /\ j = m
    <3>1. i \in Earlier(m)
      BY <1>1, <2>3 DEF Earlier
    <3> QED BY <1>1, <1>3, <1>4, <2>3, <3>1
  <2> QED BY <2>1, <2>2, <2>3
<1>6. \A i : Drive(i)' = new(i)
  BY DEF Drive, new
<1> QED BY <1>5, <1>6 DEF Agree

\* The units probed stay those of the drives so far.
LEMMA ProbedOf ==
  ASSUME NEW m, NEW k, ProbedBefore(k), drv'.probed = drv.probed, 1..k \subseteq 1..m,
         SameUnits(m)
  PROVE  ProbedBefore(m)'
<1> SUFFICES ASSUME NEW n \in DOMAIN drv.probed
             PROVE  \E j \in 1..m : drv.probed[n] =
                      <<lists'["drives"].items[j].handler, lists'["drives"].items[j].unit>>
  BY DEF ProbedBefore, Drive
<1>1. PICK j \in 1..k : drv.probed[n] = <<Drive(j).handler, Drive(j).unit>>
  BY DEF ProbedBefore
<1> QED BY <1>1 DEF SameUnits

\* One drive is given an answer.
LEMMA Answered ==
  ASSUME ListsInv, SoundInv, DriveInv, NEW m \in 1..Drives, NEW answer \in BOOLEAN,
         Update(m, [Drive(m) EXCEPT !.scsi = answer]), UNCHANGED heap
  PROVE  /\ Updates(m) /\ SameUnits(Drives)
         /\ \A i \in 1..Drives : i # m => lists'["drives"].items[i] = Drive(i)
         /\ lists'["drives"].items[m].scsi = answer
<1> DEFINE old == lists["drives"].items[m]
           d == [old EXCEPT !.scsi = answer]
<1>1. Update(m, d)
  BY DEF Drive
<1>2. OfItsNode(old) /\ (old.volume \in {0, old.name} \/ Taken(old))
  BY DEF DriveInv, VolumesInv, Drive
<1> HIDE DEF old
<1>3. /\ OfItsNode(d) /\ d.name = old.name /\ d.volume = old.volume
      /\ d.handler = old.handler /\ d.unit = old.unit /\ d.scsi = answer
  BY <1>2 DEF OfItsNode, DriveItems
<1> HIDE DEF d
<1>4. KeepsDrive(m, d)
  BY <1>2, <1>3 DEF KeepsDrive, old
<1>5. Changed(m, d)
  <2>1. d # Zero /\ DOMAIN lists = ListNames
    BY <1>3, ZeroAssumption DEF OfItsNode, ListsInv, RowsInv
  <2> QED BY <1>1, <2>1, UpdateSound
<1>6. /\ \A i \in 1..Drives : i # m => lists'["drives"].items[i] = Drive(i)
      /\ lists'["drives"].items[m] = d
  BY <1>5 DEF Changed, Drive
<1>7. d.handler = Drive(m).handler /\ d.unit = Drive(m).unit
  BY <1>3 DEF Drive, old
<1>8. SameUnits(Drives)
  BY <1>6, <1>7 DEF SameUnits
<1> QED BY <1>1, <1>3, <1>4, <1>6, <1>8 DEF Updates

\* The answer to the probe is that of a unit none before was on.
LEMMA ProbedWhole ==
  ASSUME ListsInv, SoundInv, DriveInv, io.result \in BOOLEAN, Probed
  PROVE  DriveWhole
<1>1. /\ UNCHANGED <<heap, dos>> /\ pc = "probed" /\ pc' = "probe"
      /\ Update(drv.at, [Drive(drv.at) EXCEPT !.scsi = io.result])
  BY DEF Probed
<1>2. /\ drv'.probed = drv.probed /\ drv'.lost = drv.lost /\ drv'.found = drv.found
      /\ drv'.ports = drv.ports /\ drv'.at = drv.at + 1
  BY DEF Probed, ListsInv, FieldsInv
<1>3. /\ drv.at > 0 /\ drv.at <= Drives /\ Pruned /\ Agree(drv.at - 1)
      /\ ProbedBefore(drv.at) /\ Earlier(drv.at) = {}
  BY <1>1 DEF DriveInv, NamesInv, ProbesInv, Probing, Before, FirstOfUnit
<1>4. drv.at \in Nat /\ Drives \in Nat
  BY DriveTypes
<1>5. PICK m \in 1..Drives : m = drv.at
  BY <1>3, <1>4
<1>6. /\ Updates(m) /\ SameUnits(Drives)
      /\ \A i \in 1..Drives : i # m => lists'["drives"].items[i] = Drive(i)
  BY <1>1, <1>5, Answered
<1>7. OneDrive
  <2>1. pc' \notin {"volumes lock", "volumes"}
    BY <1>1
  <2> QED BY <1>1, <1>2, <1>6, <2>1, UpdatesOne
<1>8. \A i \in 1..(m - 1) : i \in 1..Drives /\ i # m
  BY <1>4, <1>5
<1>9. 1..m \subseteq 1..Drives /\ m \in Nat /\ m > 0
  BY <1>4, <1>5
<1>10. SameUnits(m)
  BY <1>6, <1>9 DEF SameUnits
<1>11. SaysTheSame(m)
  BY <1>3, <1>5, <1>6, <1>8 DEF SaysTheSame
<1>12. Agree(m)'
  BY <1>3, <1>5, <1>9, <1>10, <1>11, AgreeOn
<1>13. ProbedBefore(m)'
  BY <1>2, <1>3, <1>5, <1>10, ProbedOf
<1> QED BY <1>1, <1>2, <1>3, <1>5, <1>7, <1>12, <1>13, ProbeMoves

\* A unit no drive before was on is not among those probed.
LEMMA NewUnit ==
  ASSUME SoundInv, DriveInv, NEW m \in 1..Drives, m = drv.at, Earlier(m) = {},
         ProbedBefore(m - 1), drv'.probed = Append(drv.probed, <<Drive(m).handler, Drive(m).unit>>)
  PROVE  /\ drv'.probed \in Seq(Nat \X Nat) /\ IsInjective(drv'.probed)
         /\ \A k \in DOMAIN drv'.probed : \E j \in 1..m :
              drv'.probed[k] = <<Drive(j).handler, Drive(j).unit>>
<1> DEFINE u == <<Drive(m).handler, Drive(m).unit>>
           n == Len(drv.probed)
<1>1. drv.probed \in Seq(Nat \X Nat) /\ IsInjective(drv.probed)
  BY DEF DriveInv, ProbesInv
<1>2. u \in Nat \X Nat
  <2>1. Drive(m) \in DriveItems
    BY DEF DriveInv, VolumesInv, OfItsNode
  <2> QED BY <2>1 DEF DriveItems
<1>3. m \in Nat /\ m > 0
  BY DriveTypes
<1>4. \A k \in DOMAIN drv.probed : drv.probed[k] # u
  <2> SUFFICES ASSUME NEW k \in DOMAIN drv.probed, drv.probed[k] = u PROVE FALSE
    OBVIOUS
  <2>1. PICK j \in 1..(m - 1) : drv.probed[k] = <<Drive(j).handler, Drive(j).unit>>
    BY DEF ProbedBefore
  <2>2. j \in Earlier(m)
    BY <2>1 DEF Earlier
  <2> QED BY <2>2
<1> HIDE DEF u
<1>5. drv'.probed = Append(drv.probed, u)
  BY DEF u
<1>6. /\ n \in Nat /\ DOMAIN drv.probed = 1..n /\ DOMAIN drv'.probed = 1..(n + 1)
      /\ drv'.probed[n + 1] = u /\ \A k \in 1..n : drv'.probed[k] = drv.probed[k]
      /\ drv'.probed \in Seq(Nat \X Nat)
  BY <1>1, <1>2, <1>5
<1> HIDE DEF n
<1>7. \A k \in 1..(n + 1) : k \in 1..n \/ k = n + 1
  BY <1>6
<1>8. IsInjective(drv'.probed)
  BY <1>1, <1>4, <1>6, <1>7 DEF IsInjective
<1>9. ASSUME NEW k \in 1..(n + 1)
      PROVE  \E j \in 1..m : drv'.probed[k] = <<Drive(j).handler, Drive(j).unit>>
  <2>1. CASE k = n + 1
    <3>1. m \in 1..m
      BY <1>3
    <3>2. drv'.probed[k] = <<Drive(m).handler, Drive(m).unit>>
      BY <1>6, <2>1 DEF u
    <3> QED BY <3>1, <3>2
  <2>2. CASE k \in 1..n
    <3>1. PICK j \in 1..(m - 1) : drv.probed[k] = <<Drive(j).handler, Drive(j).unit>>
      BY <1>6, <2>2 DEF ProbedBefore
    <3>2. j \in 1..m
      BY <1>3
    <3> QED BY <1>6, <2>2, <3>1, <3>2
  <2> QED BY <1>7, <2>1, <2>2
<1> QED BY <1>6, <1>8, <1>9

\* The probe asks a unit once, and gives the answer to the others on it.
LEMMA ProbeDriveWhole ==
  ASSUME ListsInv, SoundInv, DriveInv, ProbeDrive
  PROVE  DriveWhole
<1>1. UNCHANGED <<heap, dos>> /\ pc = "probe" /\ drv.at <= Drives
  BY DEF ProbeDrive, Drives
<1>2. DOMAIN drv = {"at", "ports", "info", "quiet", "probed", "lost", "found"}
  BY DEF ListsInv, FieldsInv
<1>3. /\ drv.at > 0 /\ Pruned /\ Agree(drv.at - 1) /\ ProbedBefore(drv.at - 1)
  BY <1>1 DEF DriveInv, NamesInv, ProbesInv, Probing, Before
<1>4. drv.at \in Nat /\ Drives \in Nat
  BY DriveTypes
<1>5. PICK m \in 1..Drives : m = drv.at
  BY <1>1, <1>3, <1>4
<1>6. m \in Nat /\ m > 0 /\ 1..(m - 1) \subseteq 1..m /\ 1..m \subseteq 1..Drives
  BY <1>4, <1>5
<1>7. CASE Drive(m).handler # 0 /\ Earlier(m) = {}
  <2>1. /\ UNCHANGED lists /\ pc' = "io port" /\ io'.back = "probed"
        /\ drv' = [drv EXCEPT !.probed = Append(@, <<Drive(m).handler, Drive(m).unit>>)]
    BY <1>5, <1>7 DEF ProbeDrive, check_scsi_direct_support, Command, NoIO
  <2>2. /\ drv'.at = drv.at /\ drv'.lost = drv.lost /\ drv'.found = drv.found
        /\ drv'.ports = drv.ports
        /\ drv'.probed = Append(drv.probed, <<Drive(m).handler, Drive(m).unit>>)
    BY <1>2, <2>1
  <2>3. /\ drv'.probed \in Seq(Nat \X Nat) /\ IsInjective(drv'.probed)
        /\ \A k \in DOMAIN drv'.probed : \E j \in 1..m :
              drv'.probed[k] = <<Drive(j).handler, Drive(j).unit>>
    BY <1>3, <1>5, <1>7, <2>2, NewUnit
  <2>4. \A i : Drive(i)' = Drive(i)
    BY <2>1 DEF Drive
  <2>5. Agree(Before)' /\ ProbedBefore(drv.at)' /\ FirstOfUnit'
    <3>1. Before' = m - 1
      BY <1>5, <2>2 DEF Before
    <3>2. Agree(Before)'
      BY <1>3, <1>5, <2>4, <3>1 DEF Agree
    <3>3. ProbedBefore(drv.at)'
      BY <1>5, <2>2, <2>3, <2>4 DEF ProbedBefore
    <3>4. FirstOfUnit'
      BY <1>5, <1>7, <2>2, <2>4 DEF FirstOfUnit, Earlier
    <3> QED BY <3>2, <3>3, <3>4
  <2>6. OneDrive
    <3>1. Updates(m) /\ pc' \notin {"volumes lock", "volumes"}
      BY <2>1 DEF Updates
    <3> QED BY <1>1, <2>2, <3>1, UpdatesOne
  <2>7. /\ SoundInv' /\ DOMAIN lists' = ListNames /\ Others("drives")
        /\ VolumesInv' /\ Pruned' /\ Drives' = Drives
    BY <1>3, <2>6 DEF OneDrive
  <2>8. DosInv'
    BY <1>1 DEF DriveInv, DosInv
  <2>9. Probing'
    BY <2>1 DEF Probing, IoPlaces
  <2>10. drv'.at \in Nat /\ drv'.at > 0 /\ drv'.at <= Drives'
    BY <1>4, <1>1, <1>3, <2>2, <2>7
  <2>11. NamesInv'
    BY <2>1, <2>7, <2>9, <2>10 DEF NamesInv, UnsortedPlaces, QueryPlaces
  <2>12. ProbesInv'
    BY <2>1, <2>3, <2>5, <2>9 DEF ProbesInv, UnsortedPlaces, QueryPlaces
  <2> QED BY <2>7, <2>8, <2>11, <2>12 DEF DriveWhole, DriveInv
<1>8. CASE ~(Drive(m).handler # 0 /\ Earlier(m) = {})
  <2>1. /\ pc' = "probe" /\ drv' = [drv EXCEPT !.at = @ + 1]
        /\ IF Drive(m).handler = 0 THEN UNCHANGED lists
           ELSE Update(m, [Drive(m) EXCEPT !.scsi = Drive(Min(Earlier(m))).scsi])
    BY <1>1, <1>5, <1>8 DEF ProbeDrive
  <2>2. /\ drv'.lost = drv.lost /\ drv'.found = drv.found /\ drv'.ports = drv.ports
        /\ drv'.probed = drv.probed /\ drv'.at = m + 1
    BY <1>2, <1>5, <2>1
  <2>3. Updates(m) /\ SameUnits(Drives) /\ SaysTheSame(m)
    <3>1. CASE Drive(m).handler = 0
      <4>1. UNCHANGED lists
        BY <2>1, <3>1
      <4> QED BY <3>1, <4>1 DEF Updates, SameUnits, SaysTheSame, Drive
    <3>2. CASE Drive(m).handler # 0
      <4> DEFINE k == Min(Earlier(m))
      <4>1. k \in Earlier(m)
        <5>1. Earlier(m) \subseteq Nat /\ Earlier(m) # {}
          BY <1>8, <3>2 DEF Earlier
        <5> QED BY <5>1, LeastExists
      <4> HIDE DEF k
      <4>2. /\ k \in 1..(m - 1) /\ Drive(k).handler = Drive(m).handler
            /\ Drive(k).unit = Drive(m).unit
        BY <4>1 DEF Earlier
      <4>3. k \in 1..Drives
        BY <1>6, <4>2
      <4>4. Drive(k).scsi \in BOOLEAN
        BY <4>3 DEF DriveInv, VolumesInv, OfItsNode, DriveItems
      <4>5. Update(m, [Drive(m) EXCEPT !.scsi = Drive(k).scsi])
        BY <2>1, <3>2 DEF k
      <4>6. /\ Updates(m) /\ SameUnits(Drives)
            /\ \A i \in 1..Drives : i # m => lists'["drives"].items[i] = Drive(i)
            /\ lists'["drives"].items[m].scsi = Drive(k).scsi
        BY <1>1, <4>4, <4>5, Answered
      <4>7. \A i \in 1..(m - 1) : i \in 1..Drives /\ i # m
        BY <1>6
      <4>8. \A i \in Earlier(m) : Drive(i).scsi = Drive(k).scsi
        BY <1>3, <1>5, <3>2, <4>2 DEF Earlier, Agree
      <4>9. SaysTheSame(m)
        BY <4>6, <4>7, <4>8 DEF SaysTheSame
      <4> QED BY <4>6, <4>9
    <3> QED BY <3>1, <3>2
  <2>4. OneDrive
    <3>1. pc' \notin {"volumes lock", "volumes"}
      BY <2>1
    <3> QED BY <1>1, <2>2, <2>3, <3>1, UpdatesOne
  <2>5. SameUnits(m)
    BY <1>6, <2>3 DEF SameUnits
  <2>6. Agree(m)'
    BY <1>3, <1>5, <1>6, <2>3, <2>5, AgreeOn
  <2>7. ProbedBefore(m)'
    BY <1>3, <1>5, <1>6, <2>2, <2>5, ProbedOf
  <2> QED BY <1>1, <1>3, <1>5, <2>1, <2>2, <2>4, <2>6, <2>7, ProbeMoves
<1> QED BY <1>7, <1>8

LEMMA DrivesEndWhole ==
  ASSUME ListsInv, SoundInv, DriveInv, DrivesEnd
  PROVE  DriveWhole
<1>1. /\ UNCHANGED <<lists, heap, dos, drv>> /\ pc = "probe" /\ pc' = "drives done"
      /\ drv.at > Drives
  BY DEF DrivesEnd, listVars, driveVars, Drives
<1>2. SoundInv' /\ DOMAIN lists' = ListNames /\ Others("drives")
  BY <1>1, Unlisted DEF ListsInv, RowsInv
<1>3. DosInv'
  BY <1>1 DEF DriveInv, DosInv
<1>4. Drives' = Drives /\ \A i : Drive(i)' = Drive(i)
  BY <1>1 DEF Drives, Drive
<1>5. VolumesInv'
  BY <1>1, <1>4 DEF DriveInv, VolumesInv, OfItsNode
<1>6. ~Probing' /\ Probing
  BY <1>1 DEF Probing, IoPlaces
<1>7. Pruned'
  <2>1. Pruned
    BY <1>6 DEF DriveInv, NamesInv
  <2> QED BY <1>1, <2>1, ListStays
<1>8. drv'.at \in Nat
  BY <1>1, DriveTypes
<1>9. NamesInv'
  BY <1>1, <1>6, <1>7, <1>8 DEF NamesInv, UnsortedPlaces, QueryPlaces
<1>10. Agree(Drives)'
  <2>1. Agree(Before)
    BY <1>6 DEF DriveInv, ProbesInv
  <2>2. \A i \in 1..Drives : i \in 1..Before
    <3>1. drv.at \in Nat /\ Drives \in Nat /\ drv.at > Drives
      BY <1>1, DriveTypes
    <3> QED BY <3>1 DEF Before
  <2> QED BY <1>4, <2>1, <2>2 DEF Agree
<1>11. ProbesInv'
  <2>1. drv.probed \in Seq(Nat \X Nat) /\ IsInjective(drv.probed)
    BY DEF DriveInv, ProbesInv
  <2> QED BY <1>1, <1>6, <1>10, <2>1 DEF ProbesInv, UnsortedPlaces, QueryPlaces
<1> QED BY <1>2, <1>3, <1>5, <1>9, <1>11 DEF DriveWhole, DriveInv

\* All steps of the drive list.
LEMMA DriveStepWhole ==
  ASSUME ListsInv, SoundInv, DriveInv, io.result \in BOOLEAN, DriveStep
  PROVE  DriveWhole
<1>1. CASE \/ ScanLock \/ ScanUnlock \/ PortsLock \/ VolumesLock \/ QueryEnd
           \/ \E ok \in BOOLEAN : Query(ok)
  BY <1>1, DrivesBetween
<1>2. CASE Question
  BY <1>2, QueryWhole
<1>3. CASE \E ok \in BOOLEAN : Scan(ok)
  BY <1>3, ScanWhole
<1> QED BY <1>1, <1>2, <1>3, BeginWhole, PortsReadWhole, VolumeMatchedWhole,
           VolumesUnlockWhole, PruneWhole, ProbeDriveWhole, ProbedWhole, DrivesEndWhole
        DEF DriveStep, Question
-----------------------------------------------------------------------------
(***************************************************************************)
(* The list of SCSI devices, and the commands the scan is made of.         *)
(***************************************************************************)

\* A list may be given other items in its block.
LEMMA SetSound ==
  ASSUME SoundInv, DOMAIN lists = ListNames, NEW n \in ListNames, NEW l,
         Whole(l, MaxItems[n]), l.capacity = lists[n].capacity,
         lists' = [lists EXCEPT ![n] = l], heap' = heap
  PROVE  /\ SoundInv' /\ DOMAIN lists' = ListNames /\ lists'[n] = l /\ heap'[n] = heap[n]
         /\ Others(n)
<1>1. /\ DOMAIN lists' = ListNames /\ lists'[n] = l
      /\ \A m \in ListNames \ {n} : lists'[m] = lists[m]
  OBVIOUS
<1> QED BY <1>1 DEF SoundInv, Others

\* A list with an item put into one of its slots.
Put1(l, k, x, new) ==
  /\ new.count = l.count /\ new.capacity = l.capacity /\ new.made = l.made
  /\ new.items[k] = x /\ \A i \in 1..l.capacity : i # k => new.items[i] = l.items[i]

\* A slot of a whole list is filled, and a whole list with room has one item more.
LEMMA PutWhole ==
  ASSUME NEW l, NEW max, Whole(l, max), NEW k \in 1..l.capacity, NEW x, x # Zero
  PROVE  LET new == [l EXCEPT !.items[k] = x]
         IN  Whole(new, max) /\ Put1(l, k, x, new)
<1> DEFINE new == [l EXCEPT !.items[k] = x]
           block == new.items
<1>1. /\ DOMAIN l = {"items", "count", "capacity", "made"}
      /\ l.count \in Nat /\ l.capacity \in Nat /\ l.made \in Nat
      /\ l.count <= l.capacity /\ l.capacity <= max
      /\ l.items = [i \in 1..l.capacity |-> l.items[i]]
      /\ \A i \in 1..l.count : l.items[i] # Zero
  BY DEF Whole
<1>2. /\ DOMAIN new = {"items", "count", "capacity", "made"}
      /\ new.count = l.count /\ new.capacity = l.capacity /\ new.made = l.made
      /\ new.items = [l.items EXCEPT ![k] = x]
  BY <1>1
<1> HIDE DEF new
<1>3. /\ block = [i \in 1..l.capacity |-> block[i]] /\ block[k] = x
      /\ \A i \in 1..l.capacity : i # k => block[i] = l.items[i]
  <2> HIDE DEF block
  <2> QED BY <1>1, <1>2, PutItem DEF block
<1> HIDE DEF block
<1>4. \A i \in 1..l.count : block[i] # Zero
  <2>1. \A i \in 1..l.count : i \in 1..l.capacity
    BY <1>1
  <2> QED BY <1>1, <1>3, <2>1
<1>5. Whole(new, max)
  BY SMTT(30), <1>1, <1>2, <1>3, <1>4 DEF Whole, block
<1>6. Put1(l, k, x, new)
  BY <1>2, <1>3 DEF Put1, block
<1> QED BY <1>5, <1>6 DEF new

LEMMA WithWhole ==
  ASSUME NEW l, NEW max, Whole(l, max), l.count < l.capacity, NEW x, x # Zero
  PROVE  LET new == With(l, x)
         IN  /\ Whole(new, max) /\ new.count = l.count + 1 /\ new.capacity = l.capacity
             /\ new.made = l.made /\ new.items[l.count + 1] = x
             /\ \A i \in 1..l.count : new.items[i] = l.items[i]
<1> DEFINE k == l.count + 1
           put == [l EXCEPT !.items[k] = x]
           new == With(l, x)
<1>1. /\ DOMAIN l = {"items", "count", "capacity", "made"}
      /\ l.count \in Nat /\ l.capacity \in Nat /\ k \in 1..l.capacity /\ k \in Nat
      /\ \A i \in 1..l.count : i \in 1..l.capacity /\ i # k
  BY DEF Whole
<1>2. Whole(put, max) /\ Put1(l, k, x, put)
  <2> HIDE DEF k
  <2> QED BY <1>1, PutWhole
<1>3. /\ DOMAIN new = {"items", "count", "capacity", "made"}
      /\ new.count = k /\ new.capacity = put.capacity /\ new.made = put.made
      /\ new.items = put.items
  BY <1>1 DEF With
<1> HIDE DEF new, put
<1>4. k <= put.capacity /\ \A i \in 1..k : i \in 1..l.count \/ i = k
  BY <1>1, <1>2 DEF Put1
<1> HIDE DEF k
<1>5. \A i \in 1..k : put.items[i] # Zero
  BY <1>1, <1>2, <1>4 DEF Put1, Whole
<1>6. Whole(new, max)
  BY <1>1, <1>2, <1>3, <1>4, <1>5 DEF Whole
<1>7. new.count = l.count + 1
  BY <1>3 DEF k
<1> QED BY <1>1, <1>2, <1>3, <1>6, <1>7 DEF Put1, new, k
-----------------------------------------------------------------------------
\* A row is that of its target; a scan puts it behind those of earlier targets.
Entry(i) == lists["scsi"].items[i]
Rows == lists["scsi"].count
UnitOf(t) == calculate_unit_number(t, 0)
Asking(back) == pc \in IoPlaces /\ io.back = back

RightRow(r) ==
  /\ r \in RowItems /\ r.valid = TRUE
  /\ r.from \in {0, UnitOf(r.target)} /\ r.capacity \in {0, UnitOf(r.target) + 1}

RowsRight == \A i \in 1..Rows : RightRow(Entry(i))
RowsOrdered == \A i, j \in 1..Rows : i < j => Entry(i).target < Entry(j).target
Below(t) == \A i \in 1..Rows : Entry(i).target < t

\* The row that is begun is in the slot behind the last.
Begun ==
  /\ Rows < lists["scsi"].capacity
  /\ Entry(Rows + 1) \in RowItems /\ Entry(Rows + 1).target = target
  /\ Entry(Rows + 1).from \in {0, UnitOf(target)}

\* A target that opened, until it is closed.
Inside ==
  pc \in {"scsi answer", "scsi row", "scsi close"} \/ Asking("scsi answer") \/ Asking("scsi row")

IoInv == target \in Nat /\ io.result \in BOOLEAN

TargetsInv ==
  /\ RowsRight /\ RowsOrdered
  /\ pc \in {"scsi target", "scsi answer", "scsi row"}
       \/ Asking("scsi answer") \/ Asking("scsi row") => Below(target)
  /\ pc = "scsi close" => Below(target + 1)
  /\ Inside => target <= Targets
  /\ pc = "scsi answer" \/ Asking("scsi answer") => io.opened \in {0, UnitOf(target)}
  /\ Asking("scsi row") => io.for = "capacity"
  /\ pc = "scsi row" \/ Asking("scsi row") => io.opened = UnitOf(target) /\ Begun

ScsiWhole ==
  SoundInv' /\ DOMAIN lists' = ListNames /\ Others("scsi") /\ IoInv' /\ TargetsInv'

LEMMA UnitIsNat ==
  ASSUME NEW t \in Nat
  PROVE  UnitOf(t) \in Nat
BY DEF UnitOf, calculate_unit_number, Narrow, HD_WIDESCSI

\* A command leaves the list and the target alone, and stays with its caller.
Commands ==
  /\ UNCHANGED <<lists, heap, target>>
  /\ pc \in IoPlaces /\ pc' \in IoPlaces \cup {io.back}
  /\ io'.back = io.back /\ io'.for = io.for /\ io'.result \in BOOLEAN
  /\ io'.opened \in {0, io.opened} /\ (io.for = "capacity" => io'.opened = io.opened)

\* Commands of this kind are all the steps under a command.
LEMMA CommandSteps ==
  ASSUME FieldsInv, IoInv,
         CloseIO \/ \E ok \in BOOLEAN : \/ CreatePort(ok) \/ CreateRequest(ok)
                                        \/ OpenDevice(ok) \/ DoIO(ok)
  PROVE  Commands
<1>1. DOMAIN io = {"for", "unit", "opened", "tries", "result", "back"}
  BY DEF FieldsInv
<1> USE <1>1 DEF Commands, IoPlaces, Result, IoInv
<1>2. ASSUME NEW ok \in BOOLEAN, CreatePort(ok) \/ CreateRequest(ok)
      PROVE  Commands
  BY <1>2 DEF CreatePort, CreateRequest
<1>3. ASSUME NEW ok \in BOOLEAN, OpenDevice(ok)
      PROVE  Commands
  BY <1>3 DEF OpenDevice
<1>4. ASSUME NEW ok \in BOOLEAN, DoIO(ok)
      PROVE  Commands
  BY <1>4 DEF DoIO, listVars
<1>5. CASE CloseIO
  BY <1>5 DEF CloseIO
<1> QED BY <1>2, <1>3, <1>4, <1>5

\* What is said of the rows stays true of the same rows.
SameRows == Rows' = Rows /\ \A i \in 1..Rows : Entry(i)' = Entry(i)

\* The same rows say the same.
LEMMA RowsSame ==
  ASSUME SameRows
  PROVE  /\ RowsRight => RowsRight'
         /\ RowsOrdered => RowsOrdered'
         /\ \A t : Below(t) => Below(t)'
<1>1. Rows' = Rows /\ \A i \in 1..Rows : Entry(i)' = Entry(i)
  BY DEF SameRows
<1>2. RowsRight => RowsRight'
  BY <1>1 DEF RowsRight, RightRow, RowItems, UnitOf, calculate_unit_number, Narrow,
              HD_WIDESCSI
<1>3. RowsOrdered => RowsOrdered'
  BY <1>1 DEF RowsOrdered
<1>4. \A t : Below(t) => Below(t)'
  BY <1>1 DEF Below
<1> QED BY <1>2, <1>3, <1>4

\* So the commands keep what is said of the rows, and of the target asked.
LEMMA CommandsWhole ==
  ASSUME ListsInv, SoundInv, IoInv, TargetsInv, Commands
  PROVE  ScsiWhole
<1>1. SoundInv' /\ DOMAIN lists' = ListNames /\ Others("scsi")
  BY Unlisted DEF Commands, ListsInv, RowsInv
<1>2. lists' = lists /\ target' = target /\ UnitOf(target)' = UnitOf(target)
  BY DEF Commands, UnitOf, calculate_unit_number
<1>3. IoInv'
  BY DEF Commands, IoInv
<1>4. RowsRight' /\ RowsOrdered' /\ (Below(target) => Below(target)')
  BY <1>2, RowsSame DEF SameRows, TargetsInv, Below, Rows, Entry
<1>5. Begun => Begun'
  BY <1>2 DEF Begun, Rows, Entry
<1>i. Inside => target' <= Targets
  BY <1>2 DEF TargetsInv
<1>6. io.back \in {"probed", "scsi answer", "scsi row"} /\ Asking(io.back)
  BY DEF Commands, ListsInv, FieldsInv, Asking
<1>7. CASE io.back = "probed"
  <2>1. pc' \notin {"scsi target", "scsi answer", "scsi row", "scsi close"}
    BY <1>7 DEF Commands, IoPlaces
  <2>2. ~Asking("scsi answer")' /\ ~Asking("scsi row")'
    BY <1>7 DEF Commands, Asking
  <2>3. TargetsInv'
    BY <1>4, <2>1, <2>2 DEF TargetsInv, Inside
  <2> QED BY <1>1, <1>3, <2>3 DEF ScsiWhole
<1>8. CASE io.back = "scsi answer"
  <2>1. pc' \notin {"scsi target", "scsi row", "scsi close"}
    BY <1>8 DEF Commands, IoPlaces
  <2>2. ~Asking("scsi row")'
    BY <1>8 DEF Commands, Asking
  <2>3. Below(target) /\ io.opened \in {0, UnitOf(target)}
    BY <1>6, <1>8 DEF TargetsInv
  <2>4. io'.opened \in {0, UnitOf(target)'}
    BY <1>2, <2>3 DEF Commands
  <2>5. TargetsInv'
    BY <1>4, <1>i, <1>6, <1>8, <2>1, <2>2, <2>3, <2>4 DEF TargetsInv, Inside
  <2> QED BY <1>1, <1>3, <2>5 DEF ScsiWhole
<1>9. CASE io.back = "scsi row"
  <2>1. pc' \notin {"scsi target", "scsi answer", "scsi close"}
    BY <1>9 DEF Commands, IoPlaces
  <2>2. ~Asking("scsi answer")'
    BY <1>9 DEF Commands, Asking
  <2>3. Below(target) /\ io.opened = UnitOf(target) /\ Begun /\ io.for = "capacity"
    BY <1>6, <1>9 DEF TargetsInv
  <2>4. io'.opened = UnitOf(target)' /\ io'.for = "capacity"
    BY <1>2, <2>3 DEF Commands
  <2>5. TargetsInv'
    BY <1>4, <1>5, <1>i, <1>6, <1>9, <2>1, <2>2, <2>3, <2>4 DEF TargetsInv, Inside
  <2> QED BY <1>1, <1>3, <2>5 DEF ScsiWhole
<1> QED BY <1>6, <1>7, <1>8, <1>9

LEMMA ScsiName ==
  ASSUME ListsInv
  PROVE  DOMAIN lists = ListNames /\ "scsi" \in ListNames
BY Names DEF ListsInv, RowsInv

LEMMA RowTypes ==
  ASSUME ListsInv, SoundInv
  PROVE  Rows \in Nat /\ lists["scsi"].capacity \in Nat /\ Rows <= lists["scsi"].capacity
BY ScsiName DEF SoundInv, Whole, Rows

\* Rows of targets before one are of targets before every later one.
LEMMA Later ==
  ASSUME RowsRight, NEW t \in Nat, NEW u \in Nat, t < u, Below(t + 1) \/ Below(t)
  PROVE  Below(u)
<1>1. \A i \in 1..Rows : Entry(i).target \in Nat
  BY DEF RowsRight, RightRow, RowItems
<1> QED BY <1>1 DEF Below

LEMMA Further ==
  ASSUME RowsRight, target \in Nat, Below(target) \/ Below(target + 1)
  PROVE  Below(target + 1)
BY Later

\* Steps of the scan that leave the list alone.
LEMMA ScanMoves ==
  ASSUME ListsInv, SoundInv, IoInv, TargetsInv, UNCHANGED <<lists, heap>>, target' \in Nat,
         pc \in BusPlaces, pc' \in {"scsi target", "scsi close", "scsi done"}
                                     \/ (pc' = "io port" /\ Asking("scsi answer")'),
         pc' = "io port" => pc = "scsi target" /\ io'.opened = UnitOf(target)'
                              /\ target' = target /\ target <= Targets,
         io'.result \in BOOLEAN,
         pc' = "scsi close" => pc = "scsi answer" /\ target' = target,
         pc' = "scsi target" => target' > target
  PROVE  ScsiWhole
<1>1. SoundInv' /\ DOMAIN lists' = ListNames /\ Others("scsi")
  BY Unlisted DEF ListsInv, RowsInv
<1>2. RowsRight' /\ RowsOrdered'
  BY RowsSame DEF SameRows, TargetsInv, Rows, Entry
<1>3. IoInv' /\ target \in Nat
  BY DEF IoInv
<1>4. /\ Rows' = Rows /\ Rows \in Nat
      /\ \A i \in 1..Rows : Entry(i)' = Entry(i) /\ Entry(i).target \in Nat
  BY RowTypes DEF TargetsInv, RowsRight, RightRow, RowItems, Rows, Entry
<1>5. Below(target + 1)
  <2>1. Below(target) \/ Below(target + 1)
    BY DEF TargetsInv, BusPlaces
  <2> QED BY <1>3, <2>1, Further DEF TargetsInv
<1>6. pc' = "scsi target" => Below(target)'
  <2>1. ASSUME target' > target
        PROVE  Below(target)'
    <3>1. Below(target')
      BY <1>3, <1>5, <2>1, Later DEF TargetsInv
    <3> QED BY <1>4, <3>1 DEF Below
  <2> QED BY <2>1
<1>7. pc' = "scsi close" => Below(target + 1)'
  <2>1. ASSUME target' = target
        PROVE  Below(target + 1)'
    BY <1>3, <1>4, <1>5, <2>1 DEF Below
  <2> QED BY <2>1
<1>8. pc' = "io port" => Below(target)' /\ io'.opened = UnitOf(target)'
  <2>1. ASSUME target' = target, Below(target)
        PROVE  Below(target)'
    BY <1>3, <1>4, <2>1 DEF Below
  <2> QED BY <2>1 DEF TargetsInv
<1>9. ~Asking("scsi row")' /\ (Asking("scsi answer")' => pc' = "io port")
  BY DEF Asking, IoPlaces
<1>11. Inside' => target' <= Targets
  <2>1. CASE pc' = "scsi close"
    <3>1. target <= Targets
      BY <2>1 DEF TargetsInv, Inside
    <3> QED BY <2>1, <3>1
  <2>2. CASE pc' = "io port"
    BY <2>2
  <2> QED BY <1>9, <2>1, <2>2 DEF Inside
<1>10. TargetsInv'
  BY <1>2, <1>6, <1>7, <1>8, <1>9, <1>11 DEF TargetsInv
<1> QED BY <1>1, <1>3, <1>10 DEF ScsiWhole

\* Those steps are of the bus: open, close, end.
LEMMA ScanSteps ==
  ASSUME ListsInv, SoundInv, IoInv, TargetsInv,
         BusClose \/ BusEnd \/ \E ok \in BOOLEAN : BusOpen(ok)
  PROVE  ScsiWhole
<1>1. /\ target \in Nat /\ io.result \in BOOLEAN /\ Targets \in Nat
      /\ DOMAIN io = {"for", "unit", "opened", "tries", "result", "back"}
  BY DeviceIOAssumption DEF IoInv, ListsInv, FieldsInv
<1>2. CASE BusClose
  <2>1. pc = "scsi close" /\ pc' = "scsi target" /\ UNCHANGED <<lists, heap, io>>
    BY <1>2 DEF BusClose
  <2>2. target <= Targets
    BY <2>1 DEF TargetsInv, Inside
  <2>3. target' = target + 1 \/ target' = Targets + 1
    BY <1>2 DEF BusClose
  <2>4. target' \in Nat /\ target' > target
    BY <1>1, <2>2, <2>3
  <2> QED BY <1>1, <2>1, <2>4, ScanMoves DEF BusPlaces
<1>3. CASE BusEnd
  <2>1. /\ pc = "scsi target" /\ pc' = "scsi done"
        /\ UNCHANGED <<lists, heap, io, target>>
    BY <1>3 DEF BusEnd, ioVars
  <2> QED BY <1>1, <2>1, ScanMoves DEF BusPlaces
<1>4. ASSUME NEW ok \in BOOLEAN, BusOpen(ok)
      PROVE  ScsiWhole
  <2>1. pc = "scsi target" /\ UNCHANGED <<lists, heap>> /\ target <= Targets
    BY <1>4 DEF BusOpen
  <2>2. CASE ok
    <3>1. /\ pc' = "io port" /\ target' = target
          /\ io' = [NoIO EXCEPT !.for = "inquiry", !.unit = UnitOf(target),
                                !.opened = UnitOf(target), !.back = "scsi answer"]
      BY <1>4, <2>2 DEF BusOpen, scsi_inquiry, Command, UnitOf
    <3>2. io'.opened = UnitOf(target) /\ io'.back = "scsi answer" /\ io'.result = FALSE
      BY <3>1 DEF NoIO
    <3>5. target' = target
      BY <3>1
    <3>3. UnitOf(target)' = UnitOf(target)
      BY <3>5 DEF UnitOf, calculate_unit_number
    <3>4. Asking("scsi answer")'
      BY <3>1, <3>2 DEF Asking, IoPlaces
    <3> QED BY <1>1, <2>1, <3>1, <3>2, <3>3, <3>4, ScanMoves DEF BusPlaces
  <2>3. CASE ~ok
    <3>1. pc' = pc /\ io' = io /\ target' = target + 1
      BY <1>4, <2>3 DEF BusOpen
    <3>2. target' \in Nat /\ target' > target
      BY <1>1, <3>1
    <3>3. pc' = "scsi target" /\ io'.result \in BOOLEAN
      BY <1>1, <2>1, <3>1
    <3> QED BY <2>1, <3>2, <3>3, ScanMoves DEF BusPlaces
  <2> QED BY <2>2, <2>3
<1> QED BY <1>2, <1>3, <1>4

\* The scan begins with no row.
LEMMA ScanBegins ==
  ASSUME ListsInv, SoundInv, IoInv, TargetsInv, NEW a \in BOOLEAN, NEW b \in BOOLEAN,
         BusScan(a, b)
  PROVE  ScsiWhole
<1>1. /\ SoundInv' /\ DOMAIN lists' = ListNames /\ Others("scsi")
      /\ lists'["scsi"].count = 0
  BY ScsiName, FreeSound DEF BusScan, free_scsi_device_list
<1>2. target' = 0 /\ io' = io /\ pc' \in {"scsi target", "scsi done"}
  BY DEF BusScan
<1>3. IoInv'
  BY <1>2 DEF IoInv
<1>4. \A i \in 1..Rows' : FALSE
  BY <1>1 DEF Rows
<1>5. RowsRight' /\ RowsOrdered' /\ Below(target)'
  BY <1>4 DEF RowsRight, RowsOrdered, Below
<1>6. ~Inside' /\ ~Asking("scsi answer")' /\ ~Asking("scsi row")'
  BY <1>2 DEF Inside, Asking, IoPlaces
<1>7. TargetsInv'
  BY <1>2, <1>5, <1>6 DEF TargetsInv
<1> QED BY <1>1, <1>3, <1>7 DEF ScsiWhole

LEMMA RowItem ==
  ASSUME NEW r \in RowItems
  PROVE  r # Zero /\ r.target \in Nat
BY ZeroAssumption DEF RowItems

\* A row is begun in the slot behind the last.
LEMMA AnswerWhole ==
  ASSUME ListsInv, SoundInv, IoInv, TargetsInv, NEW a \in BOOLEAN, NEW b \in BOOLEAN,
         BusAnswer(a, b)
  PROVE  ScsiWhole
<1> DEFINE g == Grow("scsi", Rows + 1, b)
           k == g.list.count + 1
           row == Row(0)
           new == [g.list EXCEPT !.items[k] = row]
<1>1. /\ pc = "scsi answer" /\ target' = target
      /\ IF io.result /\ a /\ g.ok
         THEN Replace("scsi", new) /\ scsi_read_capacity(target, "scsi row")
         ELSE pc' = "scsi close" /\ UNCHANGED <<lists, heap, io>>
  BY DEF BusAnswer, Rows
<1>2. /\ target \in Nat /\ io.result \in BOOLEAN /\ Rows \in Nat
  BY RowTypes DEF IoInv
<1>3. /\ Below(target) /\ io.opened \in {0, UnitOf(target)} /\ target <= Targets
      /\ UnitOf(target) \in Nat
  BY <1>1, <1>2, UnitIsNat DEF TargetsInv, Inside
<1>4. CASE ~(io.result /\ a /\ g.ok)
  BY <1>1, <1>2, <1>4, ScanMoves DEF BusPlaces
<1>5. CASE io.result /\ a /\ g.ok
  <2>1. Replace("scsi", new) /\ scsi_read_capacity(target, "scsi row")
    BY <1>1, <1>5
  <2>2. Grown("scsi", Rows + 1, g)
    BY <1>2, GrowWhole, ScsiName DEF Rows
  <2>3. row \in RowItems /\ row.target = target /\ row.from \in {0, UnitOf(target)}
    BY <1>2, <1>3 DEF Row, RowItems
  <2>4. /\ Whole(g.list, MaxItems["scsi"]) /\ g.list.count = Rows
        /\ Rows + 1 <= g.list.capacity
        /\ \A i \in 1..Rows : g.list.items[i] = Entry(i)
        /\ g.list = lists["scsi"] \/ g.list.made # lists["scsi"].made
    BY <1>5, <2>2 DEF Grown, Rows, Entry
  <2> HIDE DEF g, row
  <2>5. k = Rows + 1 /\ k \in Nat /\ k \in 1..g.list.capacity /\ g.list.capacity \in Nat
    BY <1>2, <2>4 DEF Whole
  <2> HIDE DEF k
  <2>6. Whole(new, MaxItems["scsi"]) /\ Put1(g.list, k, row, new)
    BY <2>3, <2>4, <2>5, PutWhole, RowItem
  <2> HIDE DEF new
  <2>7. new.made = lists["scsi"].made => new.capacity = lists["scsi"].capacity
    BY <2>4, <2>6 DEF Put1
  <2>8. /\ SoundInv' /\ DOMAIN lists' = ListNames /\ Others("scsi")
        /\ lists'["scsi"] = new
    BY <2>1, <2>6, <2>7, ScsiName, ReplaceSound
  <2>9. \A i \in 1..Rows : i \in 1..g.list.capacity /\ i # k
    BY <1>2, <2>4, <2>5
  <2>10. /\ Rows' = Rows /\ Entry(Rows + 1)' = row /\ lists'["scsi"].capacity = g.list.capacity
         /\ \A i \in 1..Rows : Entry(i)' = Entry(i)
    BY <2>4, <2>5, <2>6, <2>8, <2>9 DEF Put1, Rows, Entry
  <2>11. RowsRight' /\ RowsOrdered' /\ Below(target)'
    <3>1. SameRows
      BY <2>10 DEF SameRows
    <3>2. RowsRight' /\ RowsOrdered'
      BY <3>1, RowsSame DEF TargetsInv
    <3>3. target' = target
      BY <1>1
    <3>4. Below(target)'
      BY <1>3, <2>10, <3>3 DEF Below
    <3> QED BY <3>2, <3>4
  <2>12. /\ pc' = "io port"
         /\ io' = [NoIO EXCEPT !.for = "capacity", !.unit = UnitOf(target),
                               !.opened = UnitOf(target), !.back = "scsi row"]
    BY <2>1 DEF scsi_read_capacity, Command, UnitOf
  <2>13. /\ io'.opened = UnitOf(target) /\ io'.back = "scsi row" /\ io'.result = FALSE
         /\ io'.for = "capacity"
    BY <2>12 DEF NoIO
  <2>14. target' = target /\ UnitOf(target)' = UnitOf(target)
    <3>1. target' = target
      BY <1>1
    <3> QED BY <3>1 DEF UnitOf, calculate_unit_number
  <2>15. Begun'
    <3>1. Rows < g.list.capacity
      BY <1>2, <2>4, <2>5
    <3> QED BY <2>3, <2>10, <2>14, <3>1 DEF Begun, Rows, Entry
  <2>16. ~Asking("scsi answer")' /\ pc' \notin {"scsi answer", "scsi close"}
    BY <2>12, <2>13 DEF Asking
  <2>17. TargetsInv'
    BY <1>3, <2>11, <2>13, <2>14, <2>15, <2>16 DEF TargetsInv
  <2>18. IoInv'
    BY <1>2, <2>13, <2>14 DEF IoInv
  <2> QED BY <2>8, <2>17, <2>18 DEF ScsiWhole
<1> QED BY <1>4, <1>5

\* The row that was begun becomes the last.
LEMMA RowWhole ==
  ASSUME ListsInv, SoundInv, IoInv, TargetsInv, BusRow
  PROVE  ScsiWhole
<1> DEFINE l == lists["scsi"]
           old == Entry(Rows + 1)
           row == [old EXCEPT !.valid = TRUE,
                              !.capacity = IF io.result THEN io.opened + 1 ELSE 0]
           new == With(l, row)
<1>1. /\ pc = "scsi row" /\ pc' = "scsi close" /\ heap' = heap
      /\ target' = target /\ io' = io
      /\ lists' = [lists EXCEPT !["scsi"] = new]
  BY DEF BusRow, ioVars, Rows, Entry
<1>2. target \in Nat /\ Rows \in Nat /\ io.result \in BOOLEAN
  BY RowTypes DEF IoInv
<1>3. /\ Below(target) /\ io.opened = UnitOf(target) /\ Begun /\ target <= Targets
      /\ UnitOf(target) \in Nat
  BY <1>1, <1>2, UnitIsNat DEF TargetsInv, Inside
<1>4. RightRow(row) /\ row \in RowItems /\ row.target = target
  <2>1. old \in RowItems /\ old.target = target /\ old.from \in {0, UnitOf(target)}
    BY <1>3 DEF Begun
  <2> HIDE DEF old
  <2> DEFINE c == IF io.result THEN io.opened + 1 ELSE 0
  <2>2. c \in Nat /\ c \in {0, UnitOf(target) + 1}
    BY <1>3
  <2> HIDE DEF c
  <2>3. row = [old EXCEPT !.valid = TRUE, !.capacity = c]
    BY DEF c
  <2>4. /\ row \in RowItems /\ row.target = old.target /\ row.from = old.from
        /\ row.valid = TRUE /\ row.capacity = c
    BY <2>1, <2>2, <2>3 DEF RowItems
  <2> HIDE DEF row
  <2> QED BY <2>1, <2>2, <2>4 DEF RightRow
<1> HIDE DEF row
<1>5. /\ Whole(new, MaxItems["scsi"]) /\ new.count = Rows + 1 /\ new.capacity = l.capacity
      /\ new.items[Rows + 1] = row /\ \A i \in 1..Rows : new.items[i] = Entry(i)
  <2>1. Whole(l, MaxItems["scsi"]) /\ l.count < l.capacity
    BY <1>3, ScsiName DEF SoundInv, Begun, Rows
  <2> HIDE DEF l
  <2> QED BY <1>4, <2>1, RowItem, WithWhole DEF Rows, Entry, l
<1> HIDE DEF new
<1>6. /\ SoundInv' /\ DOMAIN lists' = ListNames /\ Others("scsi")
      /\ lists'["scsi"] = new
  BY <1>1, <1>5, ScsiName, SetSound
<1>7. /\ Rows' = Rows + 1 /\ lists'["scsi"].items[Rows + 1] = row
      /\ \A i \in 1..Rows : Entry(i)' = Entry(i)
  BY <1>5, <1>6 DEF Rows, Entry
<1> DEFINE now(i) == lists'["scsi"].items[i]
<1>8. \A i \in 1..Rows' : \/ i = Rows' /\ now(i) = row
                          \/ i \in 1..Rows /\ now(i) = Entry(i)
  BY <1>2, <1>7 DEF Entry
<1>9. \A i \in 1..Rows : RightRow(Entry(i)) /\ Entry(i).target < row.target
  BY <1>3, <1>4 DEF TargetsInv, RowsRight, Below
<1>16. /\ RowsRight' = \A i \in 1..Rows' : RightRow(now(i))
       /\ RowsOrdered' = \A i, j \in 1..Rows' : i < j => now(i).target < now(j).target
       /\ Below(target)' = \A i \in 1..Rows' : now(i).target < target'
       /\ Below(target + 1)' = \A i \in 1..Rows' : now(i).target < target' + 1
  BY DEF RowsRight, RowsOrdered, Below, Entry, RightRow, RowItems, UnitOf,
         calculate_unit_number, Narrow, HD_WIDESCSI
<1> HIDE DEF now
<1>10. RowsRight'
  <2>1. \A i \in 1..Rows' : RightRow(now(i))
    BY <1>4, <1>8, <1>9
  <2> QED BY <1>16, <2>1
<1>11. RowsOrdered'
  <2>1. \A i, j \in 1..Rows : i < j => Entry(i).target < Entry(j).target
    BY DEF TargetsInv, RowsOrdered
  <2>2. SUFFICES ASSUME NEW i \in 1..Rows', NEW j \in 1..Rows', i < j
                 PROVE  now(i).target < now(j).target
    BY <1>16
  <2>3. i \in 1..Rows
    BY <1>2, <1>7, <2>2
  <2>4. now(i) = Entry(i)
    BY <1>2, <1>7, <1>8, <2>3
  <2> QED BY <1>8, <1>9, <2>1, <2>2, <2>3, <2>4
<1>12. Below(target + 1)'
  <2>1. \A i \in 1..Rows' : now(i).target < target + 1
    <3>1. \A i \in 1..Rows : Entry(i).target \in Nat /\ Entry(i).target < target
      BY <1>3, <1>9 DEF Below, RightRow, RowItems
    <3> QED BY <1>2, <1>4, <1>8, <3>1
  <2>2. target' = target
    BY <1>1
  <2> QED BY <1>16, <2>1, <2>2
<1>13. ~Asking("scsi answer")' /\ ~Asking("scsi row")' /\ target' <= Targets
  BY <1>1, <1>3 DEF Asking, IoPlaces
<1>14. TargetsInv'
  BY <1>1, <1>10, <1>11, <1>12, <1>13 DEF TargetsInv
<1>15. IoInv'
  BY <1>1, <1>2 DEF IoInv
<1> QED BY <1>6, <1>14, <1>15 DEF ScsiWhole

\* All steps of the scan and of the commands.
LEMMA ScsiStepWhole ==
  ASSUME ListsInv, SoundInv, IoInv, TargetsInv, ScsiStep
  PROVE  ScsiWhole
<1>1. CASE CloseIO \/ \E ok \in BOOLEAN : \/ CreatePort(ok) \/ CreateRequest(ok)
                                           \/ OpenDevice(ok) \/ DoIO(ok)
  BY <1>1, CommandSteps, CommandsWhole DEF ListsInv
<1>2. CASE BusClose \/ BusEnd \/ \E ok \in BOOLEAN : BusOpen(ok)
  BY <1>2, ScanSteps
<1> QED BY <1>1, <1>2, ScanBegins, AnswerWhole, RowWhole DEF ScsiStep
-----------------------------------------------------------------------------
(***************************************************************************)
(* The list of memory regions.                                             *)
(***************************************************************************)

Headers == lists["memory"].count

RightRegion(i, r) == r \in RegionItems /\ r.header = i /\ r.own = heap["memory"]

RegionsRight == \A i \in 1..Headers : RightRegion(i, Region(i))

ExecInv ==
  /\ exec \in Seq(Seq(Int))
  /\ DOMAIN reg = {"total", "headers", "index", "buffer", "published"}
  /\ {reg.total, reg.headers, reg.index} \subseteq Nat /\ reg.buffer \in Int
  /\ reg.total <= Len(exec) /\ reg.headers <= Len(exec)
  /\ reg.headers <= MaxItems["memory"]

RoomInv ==
  LET l == lists["memory"]
  IN  /\ pc \in {"regions", "scan regions"} => Headers = 0
      /\ pc = "regions" => l.capacity = 0
      /\ pc = "scan regions" => l.capacity = 0 \/ l.capacity >= reg.headers
      /\ pc \notin {"regions", "scan regions"} => l.capacity = 0 \/ Headers >= reg.headers
      /\ pc \in {"timed", "publish"} => reg.index \in 1..Headers
      /\ Headers <= reg.total

RegionsInv == ExecInv /\ RegionsRight /\ RoomInv

MemoryWhole ==
  SoundInv' /\ DOMAIN lists' = ListNames /\ Others("memory") /\ RegionsInv'

\* The lesser and the greater of two numbers, and the largest of the free chunks.
LEMMA LesserOfTwo ==
  ASSUME NEW a \in Int, NEW b \in Int
  PROVE  LET m == Min({a, b}) IN m \in {a, b} /\ m <= a /\ m <= b
<1>1. CASE a <= b
  BY <1>1 DEF Min
<1>2. CASE ~(a <= b)
  BY <1>2 DEF Min
<1> QED BY <1>1, <1>2

LEMMA GreaterOfTwo ==
  ASSUME NEW a \in Int, NEW b \in Int
  PROVE  LET m == Max({a, b}) IN m \in {a, b} /\ a <= m /\ b <= m
<1>1. CASE a <= b
  BY <1>1 DEF Max
<1>2. CASE ~(a <= b)
  BY <1>2 DEF Max
<1> QED BY <1>1, <1>2

\* The largest chunk of a header, 0 without one, exists.
LEMMA LargestExists ==
  ASSUME NEW s \in Seq(Int)
  PROVE  LargestChunk(s) \in Int /\ LargestChunk(s) >= 0
<1> DEFINE Upto(m) == {0} \cup {s[i] : i \in 1..m}
           Bad == {m \in 0..Len(s) : ~\E g \in Upto(m) : \A x \in Upto(m) : x <= g}
<1>0. Len(s) \in Nat /\ \A i \in 1..Len(s) : s[i] \in Int
  OBVIOUS
<1>1. Bad = {}
  <2>1. SUFFICES ASSUME Bad # {}
                 PROVE  FALSE
    OBVIOUS
  <2>2. PICK m \in Bad : \A k \in Bad : m <= k
    <3>1. Bad \subseteq Nat
      BY <1>0
    <3> HIDE DEF Bad
    <3> QED BY <2>1, <3>1, LeastExists
  <2>3. m \in Nat /\ m <= Len(s) /\ ~\E g \in Upto(m) : \A x \in Upto(m) : x <= g
    BY <1>0, <2>2
  <2>4. m # 0
    <3>1. Upto(0) = {0}
      OBVIOUS
    <3> QED BY <2>3, <3>1
  <2>10. m - 1 \in 0..Len(s) /\ m \in 1..Len(s)
    BY <1>0, <2>3, <2>4
  <2>5. m - 1 \notin Bad /\ m - 1 \in 0..Len(s) /\ m \in 1..Len(s)
    <3> HIDE DEF Bad
    <3> QED BY <2>2, <2>3, <2>10
  <2>6. PICK g \in Upto(m - 1) : \A x \in Upto(m - 1) : x <= g
    <3> HIDE DEF Upto
    <3> QED BY <2>5
  <2>7. /\ \A x : x \in Upto(m) <=> x \in Upto(m - 1) \/ x = s[m]
        /\ g \in Int /\ s[m] \in Int
    BY <1>0, <2>3, <2>4, <2>5
  <2> HIDE DEF Upto
  <2>8. CASE g <= s[m]
    <3>1. s[m] \in Upto(m) /\ \A x \in Upto(m - 1) : x \in Int
      BY <2>7, <1>0, <2>5 DEF Upto
    <3> QED BY <2>3, <2>6, <2>7, <2>8, <3>1
  <2>9. CASE ~(g <= s[m])
    BY <2>3, <2>6, <2>7, <2>9
  <2> QED BY <2>8, <2>9
<1>2. PICK g \in Upto(Len(s)) : \A x \in Upto(Len(s)) : x <= g
  <2>1. Len(s) \in 0..Len(s)
    BY <1>0
  <2> HIDE DEF Upto
  <2> QED BY <1>1, <2>1
<1>3. Upto(Len(s)) = {0} \cup Range(s)
  BY DEF Range
<1>4. \A x \in {0} \cup Range(s) : x \in Int
  BY <1>0, <1>3
<1> HIDE DEF Upto
<1>5. LargestChunk(s) \in {0} \cup Range(s) /\ \A x \in {0} \cup Range(s) : x <= LargestChunk(s)
  BY <1>2, <1>3 DEF LargestChunk, Max
<1> QED BY <1>4, <1>5

LEMMA MemoryName ==
  ASSUME ListsInv
  PROVE  DOMAIN lists = ListNames /\ "memory" \in ListNames /\ MaxItems["memory"] \in Nat
BY Names, GrowAssumption DEF ListsInv, RowsInv

\* The numbers the regions are counted by.
LEMMA RegionTypes ==
  ASSUME ListsInv, SoundInv, ExecInv
  PROVE  /\ Headers \in Nat /\ lists["memory"].capacity \in Nat /\ Len(exec) \in Nat
         /\ Headers <= lists["memory"].capacity /\ heap["memory"] \in Nat
         /\ heap["memory"] = lists["memory"].capacity
         /\ reg.total \in Nat /\ reg.headers \in Nat
<1>1. Whole(lists["memory"], MaxItems["memory"]) /\ heap["memory"] = lists["memory"].capacity
  BY MemoryName DEF SoundInv
<1>2. exec \in Seq(Seq(Int)) /\ reg.total \in Nat /\ reg.headers \in Nat
  BY DEF ExecInv
<1> QED BY <1>1, <1>2 DEF Whole, Headers

\* A region that is written with what its header has is an entry of the list.
LEMMA FreeItem ==
  ASSUME NEW chunks \in Seq(Int)
  PROVE  FreeOf(chunks) \in [number : Nat, largest : Int]
BY LargestExists DEF FreeOf

LEMMA RegionItem ==
  ASSUME NEW r \in RegionItems
  PROVE  r # Zero
BY ZeroAssumption

\* A header of Exec is that of a region.
LEMMA HeaderThere ==
  ASSUME ListsInv, SoundInv, RegionsInv, NEW i \in 1..Headers
  PROVE  /\ Region(i) \in RegionItems /\ Region(i).header = i
         /\ i \in DOMAIN exec /\ exec[i] \in Seq(Int)
<1>1. RightRegion(i, Region(i)) /\ Headers <= reg.total /\ reg.total <= Len(exec)
  BY DEF RegionsInv, RegionsRight, RoomInv, ExecInv
<1>2. Headers \in Nat /\ reg.total \in Nat /\ Len(exec) \in Nat
  BY RegionTypes DEF RegionsInv
<1>3. i \in 1..Len(exec)
  BY <1>1, <1>2
<1>4. exec \in Seq(Seq(Int))
  BY DEF RegionsInv, ExecInv
<1>5. DOMAIN exec = 1..Len(exec) /\ exec[i] \in Seq(Int)
  BY <1>3, <1>4
<1> QED BY <1>1, <1>3, <1>5 DEF RightRegion

\* A region that is written stays that of its header.
LEMMA RegionUpdated ==
  ASSUME ListsInv, SoundInv, RegionsRight, NEW i \in 1..Headers, NEW r \in RegionItems,
         r.header = i, r.own = Region(i).own, UpdateRegion(i, r), UNCHANGED heap
  PROVE  /\ SoundInv' /\ DOMAIN lists' = ListNames /\ Others("memory") /\ RegionsRight'
         /\ Headers' = Headers /\ lists'["memory"].capacity = lists["memory"].capacity
<1> DEFINE l == lists["memory"]
           new == [l EXCEPT !.items[i] = r]
<1>1. Whole(l, MaxItems["memory"]) /\ Headers \in Nat /\ l.capacity \in Nat /\ Headers <= l.capacity
  BY MemoryName DEF SoundInv, Whole, Headers
<1>2. i \in 1..l.capacity /\ \A j \in 1..Headers : j \in 1..l.capacity
  BY <1>1
<1>3. lists' = [lists EXCEPT !["memory"] = new]
  BY DEF UpdateRegion
<1>4. Whole(new, MaxItems["memory"]) /\ Put1(l, i, r, new)
  BY <1>1, <1>2, PutWhole, RegionItem
<1> HIDE DEF new
<1>5. /\ SoundInv' /\ DOMAIN lists' = ListNames /\ Others("memory")
      /\ lists'["memory"] = new /\ heap'["memory"] = heap["memory"]
  BY <1>1, <1>3, <1>4, MemoryName, SetSound DEF Put1
<1>6. /\ Headers' = Headers /\ lists'["memory"].capacity = l.capacity
      /\ Region(i)' = r /\ \A j \in 1..Headers : j # i => Region(j)' = Region(j)
  BY <1>2, <1>4, <1>5 DEF Put1, Headers, Region
<1>7. RegionsRight'
  BY <1>5, <1>6 DEF RegionsRight, RightRegion, RegionItems
<1> QED BY <1>5, <1>6, <1>7

\* Counting empties the list.
LEMMA CountWhole ==
  ASSUME ListsInv, SoundInv, RegionsInv, CountRegions
  PROVE  MemoryWhole
<1> DEFINE n == Min({Len(exec), MaxItems["memory"]})
<1>1. /\ SoundInv' /\ DOMAIN lists' = ListNames /\ Others("memory")
      /\ lists'["memory"].count = 0 /\ lists'["memory"].capacity = 0
  BY MemoryName, FreeSound DEF CountRegions
<1>2. n \in Nat /\ n <= Len(exec) /\ n <= MaxItems["memory"]
  <2>1. Len(exec) \in Nat /\ MaxItems["memory"] \in Nat
    BY RegionTypes, MemoryName DEF RegionsInv
  <2>2. Len(exec) \in Int /\ MaxItems["memory"] \in Int
    BY <2>1
  <2>3. n \in {Len(exec), MaxItems["memory"]} /\ n <= Len(exec) /\ n <= MaxItems["memory"]
    BY <2>2, LesserOfTwo, Zenon
  <2> QED BY <2>1, <2>3
<1>3. reg' = [reg EXCEPT !.headers = n, !.total = 0] /\ exec' = exec
  BY DEF CountRegions
<1> HIDE DEF n
<1>4. ExecInv'
  <2>1. /\ DOMAIN reg' = DOMAIN reg /\ reg'.headers = n /\ reg'.total = 0
        /\ reg'.index = reg.index /\ reg'.buffer = reg.buffer
    BY <1>3 DEF RegionsInv, ExecInv
  <2>2. Len(exec) \in Nat
    BY RegionTypes DEF RegionsInv
  <2> QED BY <1>2, <1>3, <2>1, <2>2 DEF RegionsInv, ExecInv
<1>5. RegionsRight'
  BY <1>1 DEF RegionsRight, Headers
<1>6. RoomInv'
  <2>1. pc' = "regions"
    BY DEF CountRegions
  <2>2. reg'.total = 0
    BY <1>3 DEF RegionsInv, ExecInv
  <2> QED BY <1>1, <2>1, <2>2 DEF RoomInv, Headers
<1> QED BY <1>1, <1>4, <1>5, <1>6 DEF MemoryWhole, RegionsInv

\* There is room for as many as were counted, or for none.
LEMMA GrowRegionsWhole ==
  ASSUME ListsInv, SoundInv, RegionsInv, NEW ok \in BOOLEAN, GrowRegions(ok)
  PROVE  MemoryWhole
<1> DEFINE g == Grow("memory", reg.headers, ok)
<1>1. /\ pc = "regions" /\ pc' = "scan regions" /\ Replace("memory", g.list)
      /\ reg' = reg /\ exec' = exec
  BY DEF GrowRegions, memoryVars
<1>2. Grown("memory", reg.headers, g)
  BY RegionTypes, MemoryName, GrowWhole DEF RegionsInv
<1> HIDE DEF g
<1>3. /\ SoundInv' /\ DOMAIN lists' = ListNames /\ Others("memory")
      /\ lists'["memory"] = g.list
  BY <1>1, <1>2, MemoryName, ReplaceSound DEF Grown
<1>4. Headers = 0 /\ lists["memory"].capacity = 0 /\ Headers <= reg.total
  BY <1>1 DEF RegionsInv, RoomInv
<1>5. lists'["memory"].count = 0
  BY <1>2, <1>3, <1>4 DEF Grown, Headers
<1>6. lists'["memory"].capacity = 0 \/ lists'["memory"].capacity >= reg.headers
  <2>1. g.list.capacity \in Nat /\ reg.headers \in Nat
    BY <1>2, RegionTypes DEF Grown, Whole, RegionsInv
  <2> QED BY <1>2, <1>3, <1>4, <2>1 DEF Grown
<1>7. ExecInv'
  BY <1>1 DEF RegionsInv, ExecInv
<1>8. RegionsRight'
  BY <1>5 DEF RegionsRight, Headers
<1>9. RoomInv'
  BY <1>1, <1>4, <1>5, <1>6 DEF RoomInv, Headers
<1> QED BY <1>3, <1>7, <1>8, <1>9 DEF MemoryWhole, RegionsInv

\* The length of a block is the capacity of its list.
LEMMA BlockLength ==
  ASSUME NEW f, NEW m \in Nat, f = [i \in 1..m |-> f[i]]
  PROVE  Len(f) = m
<1>1. f \in Seq({f[i] : i \in 1..m})
  OBVIOUS
<1> QED BY <1>1

\* Memory regions are read from their headers, as many as there is room for.
LEMMA ScanRegionsWhole ==
  ASSUME ListsInv, SoundInv, RegionsInv, ScanRegions
  PROVE  MemoryWhole
<1> DEFINE l == lists["memory"]
           n == Regions
           region(h) == [header |-> h, free |-> FreeOf(exec[h]), own |-> heap["memory"],
                         measured |-> FALSE, speed |-> 0]
           items == [i \in 1..Max({Len(l.items), n}) |->
                       IF i <= n THEN region(i) ELSE l.items[i]]
           new == [l EXCEPT !.count = n, !.items = items]
<1>1. /\ Whole(l, MaxItems["memory"]) /\ l.capacity \in Nat /\ Len(exec) \in Nat
      /\ heap["memory"] \in Nat /\ reg.headers \in Nat
      /\ DOMAIN l = {"items", "count", "capacity", "made"}
      /\ l.items = [i \in 1..l.capacity |-> l.items[i]]
  BY MemoryName, RegionTypes DEF RegionsInv, SoundInv, Whole
<1>2. n \in Nat /\ n <= Len(exec) /\ n <= l.capacity /\ n \in {Len(exec), l.capacity}
  <2>1. Len(exec) \in Int /\ l.capacity \in Int
    BY <1>1
  <2> HIDE DEF l
  <2>2. n \in {Len(exec), l.capacity} /\ n <= Len(exec) /\ n <= l.capacity
    BY <2>1, LesserOfTwo, Zenon DEF Regions, l
  <2> QED BY <1>1, <2>2
<1>3. /\ pc = "scan regions" /\ pc' = "memory done" /\ heap' = heap /\ exec' = exec
      /\ reg' = [reg EXCEPT !.total = Len(exec)]
      /\ lists' = [lists EXCEPT !["memory"] = new]
  BY DEF ScanRegions
<1>4. Max({Len(l.items), n}) = l.capacity
  <2>1. Len(l.items) = l.capacity
    <3> HIDE DEF l
    <3> QED BY <1>1, BlockLength
  <2> HIDE DEF l, n
  <2>2. l.capacity \in Int /\ n \in Int
    BY <1>1, <1>2
  <2>3. Max({l.capacity, n}) \in {l.capacity, n} /\ l.capacity <= Max({l.capacity, n})
    BY <2>2, GreaterOfTwo, Zenon
  <2> QED BY <1>1, <1>2, <2>1, <2>3
<1>5. \A i \in 1..n : region(i) \in RegionItems /\ region(i).header = i
                        /\ region(i).own = heap["memory"]
  <2> SUFFICES ASSUME NEW i \in 1..n
               PROVE  /\ region(i) \in RegionItems /\ region(i).header = i
                      /\ region(i).own = heap["memory"]
    OBVIOUS
  <2>1. i \in 1..Len(exec) /\ i \in Nat
    <3> HIDE DEF n
    <3> QED BY <1>1, <1>2
  <2>2. exec[i] \in Seq(Int)
    BY <2>1 DEF RegionsInv, ExecInv
  <2>3. FreeOf(exec[i]) \in [number : Nat, largest : Int]
    BY <2>2, FreeItem
  <2> QED BY <1>1, <2>1, <2>3 DEF RegionItems
<1> HIDE DEF n, region
<1>6. /\ items = [i \in 1..l.capacity |-> items[i]]
      /\ \A i \in 1..n : items[i] = region(i)
  <2>1. \A i \in 1..n : i \in 1..l.capacity /\ i <= n
    BY <1>1, <1>2
  <2> HIDE DEF l
  <2> QED BY <1>4, <2>1
<1> HIDE DEF items
<1>7. /\ DOMAIN new = {"items", "count", "capacity", "made"} /\ new.items = items
      /\ new.count = n /\ new.capacity = l.capacity /\ new.made = l.made
  BY <1>1
<1> HIDE DEF new
<1>8. Whole(new, MaxItems["memory"])
  <2>1. \A i \in 1..n : items[i] # Zero
    BY <1>5, <1>6, RegionItem
  <2>2. l.capacity <= MaxItems["memory"] /\ l.made \in Nat
    BY <1>1 DEF Whole
  <2> QED BY <1>1, <1>2, <1>6, <1>7, <2>1, <2>2 DEF Whole
<1>9. /\ SoundInv' /\ DOMAIN lists' = ListNames /\ Others("memory")
      /\ lists'["memory"] = new
  BY <1>3, <1>7, <1>8, MemoryName, SetSound
<1>10. Headers' = n /\ lists'["memory"].capacity = l.capacity
  BY <1>7, <1>9 DEF Headers
<1>11. /\ DOMAIN reg' = DOMAIN reg /\ reg'.headers = reg.headers /\ reg'.total = Len(exec)
       /\ reg'.index = reg.index /\ reg'.buffer = reg.buffer
  BY <1>3 DEF RegionsInv, ExecInv
<1>12. ExecInv'
  <2>1. /\ exec' \in Seq(Seq(Int)) /\ Len(exec') = Len(exec)
        /\ reg'.headers <= Len(exec) /\ reg'.headers <= MaxItems["memory"]
    BY <1>3, <1>11 DEF RegionsInv, ExecInv
  <2>2. /\ DOMAIN reg' = {"total", "headers", "index", "buffer", "published"}
        /\ {reg'.total, reg'.headers, reg'.index} \subseteq Nat /\ reg'.buffer \in Int
    BY <1>1, <1>11 DEF RegionsInv, ExecInv
  <2>3. reg'.total <= Len(exec)
    BY <1>1, <1>11
  <2> QED BY <2>1, <2>2, <2>3 DEF ExecInv
<1>13. RegionsRight'
  <2>1. \A i \in 1..n : Region(i)' = region(i)
    BY <1>6, <1>7, <1>9 DEF Region
  <2> QED BY <1>3, <1>5, <1>10, <2>1 DEF RegionsRight, RightRegion, RegionItems
<1>14. RoomInv'
  <2>1. l.capacity = 0 \/ n >= reg.headers
    BY <1>1, <1>2, <1>3 DEF RegionsInv, RoomInv, ExecInv
  <2>2. Headers' <= reg'.total
    BY <1>2, <1>10, <1>11
  <2> QED BY <1>3, <1>10, <1>11, <2>1, <2>2 DEF RoomInv
<1> QED BY <1>9, <1>12, <1>13, <1>14 DEF MemoryWhole, RegionsInv

\* Behind the last region nothing is written; the locals say where it is.
LEMMA RegionsStay ==
  ASSUME ListsInv, SoundInv, RegionsInv, UNCHANGED <<lists, heap>>, exec' = exec,
         reg'.index = reg.index,
         reg'.total = reg.total, reg'.headers = reg.headers, reg'.buffer = reg.buffer,
         DOMAIN reg' = DOMAIN reg,
         pc \notin {"regions", "scan regions"}, pc' \notin {"regions", "scan regions"},
         pc' \in {"timed", "publish"} => pc \in {"timed", "publish"}
  PROVE  MemoryWhole
<1>1. SoundInv' /\ DOMAIN lists' = ListNames /\ Others("memory")
  BY Unlisted, MemoryName
<1>2. ExecInv'
  BY DEF RegionsInv, ExecInv
<1>3. RegionsRight'
  BY DEF RegionsInv, RegionsRight, RightRegion, RegionItems, Region, Headers
<1>4. RoomInv'
  BY DEF RegionsInv, RoomInv, Headers
<1> QED BY <1>1, <1>2, <1>3, <1>4 DEF MemoryWhole, RegionsInv

\* A region is written in its place.
LEMMA RegionWritten ==
  ASSUME ListsInv, SoundInv, RegionsInv, NEW i \in 1..Headers, NEW r \in RegionItems,
         r.header = i, r.own = Region(i).own, UpdateRegion(i, r), UNCHANGED heap,
         ExecInv', reg'.total = reg.total, reg'.headers = reg.headers,
         pc \notin {"regions", "scan regions"}, pc' \notin {"regions", "scan regions"},
         pc' \in {"timed", "publish"} => reg'.index = i
  PROVE  MemoryWhole
<1>1. /\ SoundInv' /\ DOMAIN lists' = ListNames /\ Others("memory") /\ RegionsRight'
      /\ Headers' = Headers /\ lists'["memory"].capacity = lists["memory"].capacity
  BY RegionUpdated DEF RegionsInv
<1>2. RoomInv'
  BY <1>1 DEF RegionsInv, RoomInv
<1> QED BY <1>1, <1>2 DEF MemoryWhole, RegionsInv

\* A region is read again from its own header.
LEMMA RefreshWhole ==
  ASSUME ListsInv, SoundInv, RegionsInv, NEW index \in 1..(Headers + 1), RefreshRegion(index)
  PROVE  MemoryWhole
<1>1. /\ pc = "refresh" /\ pc' = "memory done" /\ heap' = heap /\ exec' = exec /\ reg' = reg
  BY DEF RefreshRegion, memoryVars
<1>2. CASE index > Headers
  <2>1. lists' = lists
    BY <1>2 DEF RefreshRegion, Headers
  <2> QED BY <1>1, <2>1, RegionsStay
<1>3. CASE ~(index > Headers)
  <2> DEFINE r == [Region(index) EXCEPT !.free = FreeOf(exec[Region(index).header])]
  <2>1. UpdateRegion(index, r)
    BY <1>3 DEF RefreshRegion, Headers
  <2>2. index \in 1..Headers
    BY <1>3, RegionTypes DEF RegionsInv
  <2>3. /\ Region(index) \in RegionItems /\ Region(index).header = index
        /\ exec[index] \in Seq(Int)
    BY <2>2, HeaderThere
  <2>4. FreeOf(exec[index]) \in [number : Nat, largest : Int]
    BY <2>3, FreeItem
  <2>5. r \in RegionItems /\ r.header = index /\ r.own = Region(index).own
    BY <2>3, <2>4 DEF RegionItems
  <2> HIDE DEF r
  <2>6. ExecInv'
    BY <1>1 DEF RegionsInv, ExecInv
  <2> QED BY <1>1, <2>1, <2>2, <2>5, <2>6, RegionWritten
<1> QED BY <1>2, <1>3

\* Chunks are taken from and given back to headers that are there.
LEMMA ExecChanged ==
  ASSUME ExecInv, NEW h \in DOMAIN exec, NEW chunks \in Seq(Int),
         exec' = [exec EXCEPT ![h] = chunks], DOMAIN reg' = DOMAIN reg,
         reg'.total = reg.total, reg'.headers = reg.headers, reg'.index \in Nat,
         reg'.buffer \in Int
  PROVE  ExecInv'
<1>1. exec \in Seq(Seq(Int))
  BY DEF ExecInv
<1>2. exec' \in Seq(Seq(Int)) /\ Len(exec') = Len(exec)
  BY <1>1
<1> QED BY <1>2 DEF ExecInv

\* A block is timed in the region it was taken from.
LEMMA TimeWhole ==
  ASSUME ListsInv, SoundInv, RegionsInv, TimeBlock
  PROVE  MemoryWhole
<1> DEFINE i == reg.index
           h == Region(i).header
           r == [Region(i) EXCEPT !.measured = TRUE,
                                  !.speed = IF reg.buffer = 0 THEN 0 ELSE i]
<1>1. /\ pc = "timed" /\ pc' = "publish" /\ heap' = heap /\ reg' = [reg EXCEPT !.buffer = 0]
      /\ exec' = IF reg.buffer = 0 THEN exec
                 ELSE [exec EXCEPT ![h] = Append(@, reg.buffer)]
      /\ UpdateRegion(i, r)
  BY DEF TimeBlock
<1>2. i \in 1..Headers /\ i \in Nat /\ reg.buffer \in Int
  BY <1>1 DEF RegionsInv, RoomInv, ExecInv
<1>3. /\ Region(i) \in RegionItems /\ h = i /\ i \in DOMAIN exec /\ exec[i] \in Seq(Int)
  <2> HIDE DEF i
  <2> QED BY <1>2, HeaderThere
<1>4. r \in RegionItems /\ r.header = i /\ r.own = Region(i).own
  <2> DEFINE x == IF reg.buffer = 0 THEN 0 ELSE i
  <2>1. x \in Nat
    BY <1>2
  <2> HIDE DEF x
  <2>2. r = [Region(i) EXCEPT !.measured = TRUE, !.speed = x]
    BY DEF x
  <2> HIDE DEF r
  <2> QED BY <1>3, <2>1, <2>2 DEF RegionItems
<1> HIDE DEF r
<1>5. /\ DOMAIN reg' = DOMAIN reg /\ reg'.total = reg.total /\ reg'.headers = reg.headers
      /\ reg'.index = reg.index /\ reg'.buffer = 0
  BY <1>1 DEF RegionsInv, ExecInv
<1>6. ExecInv'
  <2>1. CASE reg.buffer = 0
    BY <1>1, <1>5, <2>1 DEF RegionsInv, ExecInv
  <2>2. CASE reg.buffer # 0
    <3>1. exec' = [exec EXCEPT ![h] = Append(@, reg.buffer)]
      BY <1>1, <2>2
    <3> DEFINE new == Append(exec[i], reg.buffer)
    <3>2. new \in Seq(Int) /\ exec' = [exec EXCEPT ![i] = new]
      BY <1>2, <1>3, <3>1
    <3>3. reg'.index \in Nat /\ reg'.buffer \in Int /\ ExecInv
      BY <1>2, <1>5 DEF RegionsInv
    <3> HIDE DEF new, i, h
    <3> QED BY <1>3, <1>5, <3>2, <3>3, ExecChanged
  <2> QED BY <2>1, <2>2
<1> HIDE DEF i
<1>7. pc \notin {"regions", "scan regions"} /\ pc' \notin {"regions", "scan regions"}
  BY <1>1
<1> QED BY <1>1, <1>2, <1>4, <1>5, <1>6, <1>7, RegionWritten DEF i

LEMMA PublishWhole ==
  ASSUME ListsInv, SoundInv, RegionsInv, PublishSpeed
  PROVE  MemoryWhole
<1>1. /\ pc = "publish" /\ pc' = "memory done" /\ UNCHANGED <<lists, heap>> /\ exec' = exec
      /\ \E x : reg' = [reg EXCEPT !.published = x]
  BY DEF PublishSpeed, listVars
<1>2. /\ DOMAIN reg' = DOMAIN reg /\ reg'.total = reg.total /\ reg'.headers = reg.headers
      /\ reg'.index = reg.index /\ reg'.buffer = reg.buffer
  BY <1>1 DEF RegionsInv, ExecInv
<1> QED BY <1>1, <1>2, RegionsStay

LEMMA LessOfOne ==
  ASSUME NEW s \in Seq(Int), NEW k, NEW n \in Int
  PROVE  [s EXCEPT ![k] = @ - n] \in Seq(Int)
<1> DEFINE new == [s EXCEPT ![k] = @ - n]
<1>1. Len(s) \in Nat /\ DOMAIN s = 1..Len(s) /\ \A j \in 1..Len(s) : s[j] \in Int
  OBVIOUS
<1>5. /\ new = [j \in DOMAIN s |-> new[j]]
      /\ \A j \in DOMAIN s : new[j] = IF j = k THEN s[k] - n ELSE s[j]
  OBVIOUS
<1> HIDE DEF new
<1>2. new = [j \in 1..Len(s) |-> new[j]] /\ \A j \in 1..Len(s) : new[j] \in Int
  BY <1>1, <1>5
<1> HIDE DEF new
<1>3. new \in [1..Len(s) -> Int]
  BY <1>2
<1>4. new \in Seq(Int)
  BY <1>1, <1>3
<1> QED BY <1>4 DEF new

LEMMA TakeWhole ==
  ASSUME ListsInv, SoundInv, RegionsInv, NEW index \in 1..(Headers + 1), NEW ok \in BOOLEAN,
         TakeBlock(index, ok)
  PROVE  MemoryWhole
<1> DEFINE h == Region(index).header
           half == LargestChunk(exec[h]) \div 2
           size == Min({Largest, half})
           taken == ~(size < Smallest) /\ ok
           r == [Region(index) EXCEPT !.free = FreeOf(exec[h]), !.measured = size < Smallest,
                                      !.speed = IF size < Smallest THEN 0 ELSE @]
           k == FirstLargest(exec[h])
<1>1. CASE index > Headers
  <2>1. /\ pc = "speed" /\ pc' = "memory done" /\ UNCHANGED <<lists, heap>> /\ exec' = exec
        /\ reg' = reg
    BY <1>1 DEF TakeBlock, Headers
  <2> QED BY <2>1, RegionsStay
<1>2. CASE ~(index > Headers)
  <2>1. /\ pc = "speed" /\ pc' = IF size < Smallest THEN "publish" ELSE "timed"
        /\ heap' = heap /\ UpdateRegion(index, r)
        /\ reg' = [reg EXCEPT !.index = index, !.buffer = IF taken THEN size ELSE 0]
        /\ exec' = IF taken THEN [exec EXCEPT ![h][k] = @ - size] ELSE exec
    BY <1>2 DEF TakeBlock, Headers
  <2>2. index \in 1..Headers /\ index \in Nat
    BY <1>2, RegionTypes DEF RegionsInv
  <2>3. /\ Region(index) \in RegionItems /\ h = index
        /\ index \in DOMAIN exec /\ exec[index] \in Seq(Int)
    BY <2>2, HeaderThere
  <2>4. size \in Int
    <3>1. half \in Int /\ Largest \in Int
      BY <2>3, LargestExists, MemoryAssumption
    <3> HIDE DEF half
    <3>2. size \in {Largest, half}
      BY <3>1, LesserOfTwo, Zenon
    <3> QED BY <3>1, <3>2
  <2> HIDE DEF size
  <2>5. r \in RegionItems /\ r.header = index /\ r.own = Region(index).own
    <3> DEFINE f == FreeOf(exec[h])
               m == size < Smallest
               x == IF size < Smallest THEN 0 ELSE Region(index).speed
    <3>1. f \in [number : Nat, largest : Int]
      BY <2>3, FreeItem
    <3>2. m \in BOOLEAN /\ x \in Nat
      BY <2>3 DEF RegionItems
    <3>3. r = [Region(index) EXCEPT !.free = f, !.measured = m, !.speed = x]
      BY <2>3 DEF RegionItems
    <3> HIDE DEF f, m, x, r
    <3> QED BY <2>3, <3>1, <3>2, <3>3 DEF RegionItems
  <2> HIDE DEF r
  <2> DEFINE buffer == IF taken THEN size ELSE 0
  <2>6. buffer \in Int
    BY <2>4
  <2>7. reg' = [reg EXCEPT !.index = index, !.buffer = buffer]
    BY <2>1
  <2> HIDE DEF buffer
  <2>8. /\ DOMAIN reg' = DOMAIN reg /\ reg'.total = reg.total /\ reg'.headers = reg.headers
        /\ reg'.index = index /\ reg'.buffer = buffer
    BY <2>7 DEF RegionsInv, ExecInv
  <2>9. ExecInv'
    <3>1. CASE ~taken
      BY <2>1, <2>2, <2>6, <2>8, <3>1 DEF RegionsInv, ExecInv
    <3>2. CASE taken
      <4> DEFINE chunks == exec[index]
                 new == [chunks EXCEPT ![k] = @ - size]
      <4>1. exec' = [exec EXCEPT ![index] = new]
        BY <2>1, <2>3, <3>2
      <4>2. new \in Seq(Int)
        <5> HIDE DEF k, chunks
        <5>1. chunks \in Seq(Int)
          BY <2>3 DEF chunks
        <5> QED BY <2>4, <5>1, LessOfOne
      <4> HIDE DEF new, chunks, h
      <4>3. reg'.index \in Nat /\ reg'.buffer \in Int /\ ExecInv
        BY <2>2, <2>6, <2>8 DEF RegionsInv
      <4> QED BY <2>3, <2>8, <4>1, <4>2, <4>3, ExecChanged
    <3> QED BY <3>1, <3>2
  <2> HIDE DEF h
  <2>10. pc \notin {"regions", "scan regions"} /\ pc' \notin {"regions", "scan regions"}
    BY <2>1
  <2> QED BY <2>1, <2>2, <2>5, <2>8, <2>9, <2>10, RegionWritten
<1> QED BY <1>1, <1>2

\* All steps of the list of regions.
LEMMA MemoryStepWhole ==
  ASSUME ListsInv, SoundInv, RegionsInv, MemoryStep
  PROVE  MemoryWhole
<1>1. CASE \E index \in 1..(Headers + 1) :
             RefreshRegion(index) \/ \E ok \in BOOLEAN : TakeBlock(index, ok)
  BY <1>1, RefreshWhole, TakeWhole
<1> QED BY <1>1, CountWhole, GrowRegionsWhole, ScanRegionsWhole, TimeWhole, PublishWhole
        DEF MemoryStep, Headers

\* Other tasks change chunks and add headers.
LEMMA MemoryChangesWhole ==
  ASSUME ListsInv, SoundInv, RegionsInv, MemoryChanges
  PROVE  RegionsInv'
<1>1. /\ pc' = pc /\ lists' = lists /\ heap' = heap /\ reg' = reg
      /\ \/ \E h \in DOMAIN exec : \E c \in Chunks : exec' = [exec EXCEPT ![h] = c]
         \/ exec' = Append(exec, <<1>>)
  BY DEF MemoryChanges, listVars
<1>2. ExecInv /\ exec \in Seq(Seq(Int)) /\ {reg.total, reg.headers, reg.index} \subseteq Nat
  BY DEF RegionsInv, ExecInv
<1>3. \A c \in Chunks : c \in Seq(Int)
  <2> DEFINE x == 2 * Smallest
  <2>1. x \in Int
    BY MemoryAssumption
  <2> HIDE DEF x
  <2>2. <<>> \in Seq(Int) /\ <<1>> \in Seq(Int) /\ <<1, x>> \in Seq(Int)
    BY <2>1
  <2>3. Chunks = {<<>>, <<1>>, <<1, x>>}
    BY DEF Chunks, x
  <2> QED BY <2>2, <2>3
<1>4. ExecInv'
  <2>1. CASE \E h \in DOMAIN exec : \E c \in Chunks : exec' = [exec EXCEPT ![h] = c]
    <3>1. PICK h \in DOMAIN exec : \E c \in Seq(Int) : exec' = [exec EXCEPT ![h] = c]
      BY <1>3, <2>1
    <3>2. reg'.buffer \in Int /\ reg'.index \in Nat
      BY <1>1, <1>2 DEF ExecInv
    <3> QED BY <1>1, <1>2, <3>1, <3>2, ExecChanged
  <2>2. CASE exec' = Append(exec, <<1>>)
    <3>1. <<1>> \in Seq(Int)
      OBVIOUS
    <3>2. exec' \in Seq(Seq(Int)) /\ Len(exec') = Len(exec) + 1 /\ Len(exec) \in Nat
      BY <1>2, <2>2, <3>1
    <3>3. reg.total <= Len(exec) + 1 /\ reg.headers <= Len(exec) + 1
      BY <1>2, <3>2 DEF ExecInv
    <3> QED BY <1>1, <1>2, <3>2, <3>3 DEF ExecInv
  <2> QED BY <1>1, <2>1, <2>2
<1>5. RegionsRight' /\ RoomInv'
  BY <1>1 DEF RegionsInv, RegionsRight, RoomInv, RightRegion, RegionItems, Region, Headers
<1> QED BY <1>4, <1>5 DEF RegionsInv
-----------------------------------------------------------------------------
(***************************************************************************)
(* The list of expansion boards.                                           *)
(***************************************************************************)

Board(i) == lists["boards"].items[i]
Boards == lists["boards"].count

\* A board is one of the cards looked at, and virtual ones are left out.
RightBoard(b, identify) ==
  /\ b \in BoardItems
  /\ b.kind = "pci" => PciCards[b.n] = "pci"
  /\ b.kind # "pci" => b.n \in Real(identify)

Precedes(b, c) == (b.kind # "pci" /\ c.kind = "pci") \/ b.n < c.n

BoardsRight == \A i \in 1..Boards : RightBoard(Board(i), board.identify)
BoardsOrdered == \A i, j \in 1..Boards : i < j => Precedes(Board(i), Board(j))

\* The cards up to one that were to be listed are.
FoundUpTo(m) ==
  \A k \in Real(board.identify) : k <= m =>
    \E i \in 1..Boards : Board(i).kind # "pci" /\ Board(i).n = k

CardsOnly == \A i \in 1..Boards : Board(i).kind # "pci" /\ Board(i).n <= board.at
PciUpTo == \A i \in 1..Boards : Board(i).kind = "pci" => Board(i).n <= board.pci

BoardInv ==
  /\ DOMAIN board = {"at", "pci", "lost", "identify"} /\ board.identify \in BOOLEAN
  /\ board.lost \in BOOLEAN
  /\ board.at \in 0..Len(Cards) /\ board.pci \in 0..Len(PciCards)

ProgressInv ==
  /\ pc = "zorro" => board.identify = TRUE
  /\ pc = "raw" => board.identify = FALSE
  /\ pc \in {"zorro", "raw"} => /\ CardsOnly
                                /\ board.lost = TRUE \/ FoundUpTo(board.at)
  /\ pc = "pci" => PciUpTo
  /\ pc \in {"pci", "boards done"} =>
       board.at = 0 \/ board.lost = TRUE \/ Full \/ FoundUpTo(Len(Cards))

BoardsInv == BoardInv /\ BoardsRight /\ BoardsOrdered /\ ProgressInv

BoardWhole ==
  SoundInv' /\ DOMAIN lists' = ListNames /\ Others("boards") /\ BoardsInv'

LEMMA BoardName ==
  ASSUME ListsInv
  PROVE  DOMAIN lists = ListNames /\ "boards" \in ListNames /\ MaxItems["boards"] \in Nat
BY Names, GrowAssumption DEF ListsInv, RowsInv

\* The numbers of boards and cards.
LEMMA BoardTypes ==
  ASSUME ListsInv, SoundInv, BoardInv
  PROVE  /\ Boards \in Nat /\ Len(Cards) \in Nat /\ Len(PciCards) \in Nat
         /\ board.at \in Nat /\ board.at <= Len(Cards)
         /\ board.pci \in Nat /\ board.pci <= Len(PciCards)
<1>1. Whole(lists["boards"], MaxItems["boards"])
  BY BoardName DEF SoundInv
<1>2. Boards \in Nat
  BY <1>1 DEF Whole, Boards
<1>3. Len(Cards) \in Nat /\ Len(PciCards) \in Nat
  BY BoardAssumption
<1> QED BY <1>2, <1>3 DEF BoardInv

\* What is said of the boards stays true of the same boards.
SameBoards ==
  /\ Boards' = Boards /\ \A i \in 1..Boards : Board(i)' = Board(i)
  /\ board'.identify = board.identify

\* The same boards say the same.
LEMMA BoardsSame ==
  ASSUME SameBoards
  PROVE  /\ BoardsRight => BoardsRight'
         /\ BoardsOrdered => BoardsOrdered'
         /\ \A m : FoundUpTo(m) => FoundUpTo(m)'
         /\ Full => Full'
<1>1. /\ Boards' = Boards /\ \A i \in 1..Boards : Board(i)' = Board(i)
      /\ board'.identify = board.identify
  BY DEF SameBoards
<1>2. BoardsRight => BoardsRight'
  BY <1>1 DEF BoardsRight, RightBoard, BoardItems, Real
<1>3. BoardsOrdered => BoardsOrdered'
  BY <1>1 DEF BoardsOrdered, Precedes
<1>4. \A m : FoundUpTo(m) => FoundUpTo(m)'
  BY <1>1 DEF FoundUpTo, Real
<1>5. Full => Full'
  BY <1>1 DEF Full, Boards
<1> QED BY <1>2, <1>3, <1>4, <1>5

\* A board is added behind those it comes after.
Behind(b) ==
  /\ Longer("boards", b) /\ RightBoard(b, board.identify)
  /\ \A i \in 1..Boards : Precedes(Board(i), b)
  /\ board'.identify = board.identify

\* A board behind all the others leaves them in order.
LEMMA BoardAdded ==
  ASSUME Boards \in Nat, BoardsRight, BoardsOrdered, NEW b, Behind(b)
  PROVE  /\ BoardsRight' /\ BoardsOrdered'
         /\ \A m : FoundUpTo(m) => FoundUpTo(m)'
         /\ Boards' = Boards + 1 /\ lists'["boards"].items[Boards + 1] = b
         /\ \A i \in 1..Boards : Board(i)' = Board(i)
<1> DEFINE now(i) == lists'["boards"].items[i]
<1>1. /\ Boards' = Boards + 1 /\ now(Boards + 1) = b
      /\ \A i \in 1..Boards : now(i) = Board(i)
      /\ board'.identify = board.identify
  BY DEF Behind, Longer, Boards, Board
<1>2. /\ RightBoard(b, board.identify) /\ \A i \in 1..Boards : Precedes(Board(i), b)
  BY DEF Behind
<1>3. /\ BoardsRight' = \A i \in 1..Boards' : RightBoard(now(i), board'.identify)
      /\ BoardsOrdered' = \A i, j \in 1..Boards' : i < j => Precedes(now(i), now(j))
      /\ \A i : Board(i)' = now(i)
  BY DEF BoardsRight, BoardsOrdered, Board, RightBoard, Real, BoardItems, Precedes
<1> HIDE DEF now
<1>4. \A i \in 1..Boards' : \/ i = Boards + 1 /\ now(i) = b
                            \/ i \in 1..Boards /\ now(i) = Board(i)
  BY <1>1
<1>5. BoardsRight'
  BY <1>1, <1>2, <1>3, <1>4 DEF BoardsRight
<1>6. BoardsOrdered'
  <2>1. \A i, j \in 1..Boards : i < j => Precedes(Board(i), Board(j))
    BY DEF BoardsOrdered
  <2>2. SUFFICES ASSUME NEW i \in 1..Boards', NEW j \in 1..Boards', i < j
                 PROVE  Precedes(now(i), now(j))
    BY <1>3
  <2>3. i \in 1..Boards /\ now(i) = Board(i)
    BY <1>1, <1>4, <2>2
  <2> QED BY <1>2, <1>4, <2>1, <2>2, <2>3
<1>7. ASSUME NEW m, FoundUpTo(m)
      PROVE  FoundUpTo(m)'
  <2>1. \A i \in 1..Boards : i \in 1..Boards' /\ Board(i)' = Board(i)
    BY <1>1, <1>3
  <2> QED BY <1>1, <1>7, <2>1 DEF FoundUpTo, Real
<1> QED BY <1>1, <1>3, <1>5, <1>6, <1>7 DEF now

\* The cards that are boards are cards.
LEMMA CardsReal ==
  ASSUME NEW identify \in BOOLEAN, NEW k \in Real(identify)
  PROVE  k \in 1..Len(Cards) /\ k \in Nat /\ Cards[k] \in {"card", "virtual"}
BY BoardAssumption DEF Real

LEMMA BoardItem ==
  ASSUME NEW b \in BoardItems
  PROVE  b # Zero /\ b.n \in Nat
BY ZeroAssumption DEF BoardItems

\* The next card is listed, or is lost.
LEMMA AppendSound ==
  ASSUME ListsInv, SoundInv, BoardInv, BoardsRight, BoardsOrdered, CardsOnly,
         board.lost = TRUE \/ FoundUpTo(board.at), NEW memory \in BOOLEAN,
         board.at < Len(Cards), board.at + 1 \in Real(board.identify), AppendBoard(memory)
  PROVE  /\ SoundInv' /\ DOMAIN lists' = ListNames /\ Others("boards")
         /\ BoardInv' /\ BoardsRight' /\ BoardsOrdered' /\ CardsOnly'
         /\ board'.identify = board.identify /\ board'.at = board.at + 1
         /\ board'.lost = TRUE \/ FoundUpTo(board.at)'
         /\ ~HasRoom("boards", memory) => board'.lost = TRUE
<1> DEFINE m == board.at
           b == BoardRecord(Cards[m + 1], m + 1)
           room == HasRoom("boards", memory)
<1>1. /\ Add("boards", b, memory)
      /\ board' = [board EXCEPT !.at = m + 1, !.lost = @ \/ ~room]
  BY DEF AppendBoard
<1>2. /\ Boards \in Nat /\ Len(Cards) \in Nat /\ m \in Nat /\ board.identify \in BOOLEAN
      /\ board.lost \in BOOLEAN
  BY BoardTypes DEF BoardInv
<1>3. m + 1 \in 1..Len(Cards) /\ m + 1 \in Nat /\ Cards[m + 1] \in {"card", "virtual"}
  BY <1>2, CardsReal
<1>4. b \in BoardItems /\ b.kind # "pci" /\ b.n = m + 1
  BY <1>3, CardsReal, BoardAssumption DEF BoardRecord, BoardItems
<1> HIDE DEF b
<1>5. /\ SoundInv' /\ DOMAIN lists' = ListNames /\ Others("boards")
      /\ room => Longer("boards", b)
      /\ ~room => Same("boards")
  BY <1>1, <1>4, BoardName, BoardItem, AddSound
<1> HIDE DEF room
<1>6. /\ DOMAIN board' = DOMAIN board /\ board'.identify = board.identify
      /\ board'.at = m + 1 /\ board'.pci = board.pci
      /\ board'.lost = (board.lost \/ ~room)
  BY <1>1 DEF BoardInv
<1>7. BoardInv'
  <2>1. board'.lost \in BOOLEAN
    BY <1>6
  <2>2. board'.at \in 0..Len(Cards)
    BY <1>2, <1>3, <1>6
  <2> QED BY <1>6, <2>1, <2>2 DEF BoardInv
<1>8. CASE room
  <2>1. RightBoard(b, board.identify)
    BY <1>4 DEF RightBoard
  <2>2. \A i \in 1..Boards : Board(i).n < b.n /\ Board(i).kind # "pci"
    <3>1. \A i \in 1..Boards : Board(i).n \in Nat /\ Board(i).n <= m /\ Board(i).kind # "pci"
      BY BoardItem DEF BoardsRight, RightBoard, CardsOnly
    <3> QED BY <1>2, <1>4, <3>1
  <2>3. Behind(b)
    BY <1>5, <1>6, <1>8, <2>1, <2>2 DEF Behind, Precedes
  <2>4. /\ BoardsRight' /\ BoardsOrdered'
        /\ \A k : FoundUpTo(k) => FoundUpTo(k)'
        /\ Boards' = Boards + 1 /\ lists'["boards"].items[Boards + 1] = b
        /\ \A i \in 1..Boards : Board(i)' = Board(i)
    BY <1>2, <2>3, BoardAdded
  <2>5. CardsOnly'
    <3>1. \A i \in 1..Boards' : i \in 1..Boards \/ i = Boards + 1
      BY <1>2, <2>4
    <3>2. \A i \in 1..Boards' : lists'["boards"].items[i].kind # "pci"
                                  /\ lists'["boards"].items[i].n <= m + 1
      <4>1. \A i \in 1..Boards : Board(i).n \in Nat /\ Board(i).n < m + 1
        BY <1>4, <2>2, BoardItem DEF BoardsRight, RightBoard
      <4>2. ASSUME NEW i \in 1..Boards'
            PROVE  /\ lists'["boards"].items[i].kind # "pci"
                   /\ lists'["boards"].items[i].n <= m + 1
        <5>1. CASE i \in 1..Boards
          <6>1. lists'["boards"].items[i] = Board(i)
            BY <2>4, <5>1 DEF Board
          <6>2. Board(i).n <= m + 1
            BY <1>2, <4>1, <5>1
          <6> QED BY <2>2, <5>1, <6>1, <6>2
        <5>2. CASE i = Boards + 1
          BY <1>2, <1>4, <2>4, <5>2
        <5> QED BY <3>1, <5>1, <5>2
      <4> QED BY <4>2
    <3> QED BY <1>6, <3>2 DEF CardsOnly, Board
  <2>6. board'.lost = board.lost
    BY <1>2, <1>6, <1>8
  <2>7. ASSUME FoundUpTo(m)
        PROVE  FoundUpTo(board.at)'
    <3>1. \A k \in Real(board.identify) : k <= m =>
            \E i \in 1..Boards' : Board(i)'.kind # "pci" /\ Board(i)'.n = k
      <4>1. \A i \in 1..Boards : i \in 1..Boards'
        BY <1>2, <2>4
      <4> QED BY <2>4, <2>7, <4>1 DEF FoundUpTo
    <3>2. \A k \in Real(board.identify) : k <= m + 1 => k <= m \/ k = m + 1
      BY <1>2, CardsReal
    <3>3. Boards + 1 \in 1..Boards'
      BY <1>2, <2>4
    <3>4. \A k \in Real(board.identify) : k <= m + 1 =>
            \E i \in 1..Boards' : Board(i)'.kind # "pci" /\ Board(i)'.n = k
      BY <1>4, <2>4, <3>1, <3>2, <3>3 DEF Board
    <3> QED BY <1>6, <3>4 DEF FoundUpTo, Real
  <2> QED BY <1>5, <1>6, <1>7, <1>8, <2>4, <2>5, <2>6, <2>7 DEF room
<1>9. CASE ~room
  <2>1. SameBoards
    BY <1>5, <1>6, <1>9 DEF SameBoards, Same, Boards, Board
  <2>2. BoardsRight' /\ BoardsOrdered'
    BY <2>1, BoardsSame
  <2>3. CardsOnly'
    <3>1. \A i \in 1..Boards : Board(i).n \in Nat /\ Board(i).n <= m /\ Board(i).kind # "pci"
      BY BoardItem DEF BoardsRight, RightBoard, CardsOnly
    <3>2. \A i \in 1..Boards : Board(i).n <= m + 1
      BY <1>2, <3>1
    <3> QED BY <1>6, <2>1, <3>1, <3>2 DEF CardsOnly, SameBoards
  <2>4. board'.lost = TRUE
    BY <1>2, <1>6, <1>9
  <2> QED BY <1>5, <1>6, <1>7, <2>2, <2>3, <2>4
<1> QED BY <1>8, <1>9

\* The cards of the Zorro bus and the raw ConfigDevs, looked at one by one.
LEMMA CardsWhole ==
  ASSUME ListsInv, SoundInv, BoardsInv, NEW memory \in BOOLEAN,
         ZorroBoard(memory) \/ RawBoard(memory)
  PROVE  BoardWhole
<1>1. BoardInv /\ BoardsRight /\ BoardsOrdered /\ ProgressInv
  BY DEF BoardsInv
<1>2. /\ Len(Cards) \in Nat /\ board.at \in Nat /\ board.at < Len(Cards) /\ board.at + 1 # 0
  <2>1. Len(Cards) \in Nat /\ board.at \in Nat
    BY <1>1, BoardTypes
  <2>2. board.at < Len(Cards)
    BY DEF ZorroBoard, RawBoard
  <2> QED BY <2>1, <2>2
<1>3. /\ pc \in {"zorro", "raw"} /\ CardsOnly /\ (board.lost = TRUE \/ FoundUpTo(board.at))
      /\ pc = "zorro" => board.identify = TRUE
      /\ pc = "raw" => board.identify = FALSE
  BY <1>1 DEF ZorroBoard, RawBoard, ProgressInv
<1>4. board.at + 1 \in DOMAIN Cards /\ Cards[board.at + 1] \in {"card", "virtual"}
  <2>1. board.at + 1 \in 1..Len(Cards) /\ Cards \in Seq({"card", "virtual"})
    BY <1>2, BoardAssumption
  <2> QED BY <2>1
<1>5. CASE ZorroBoard(memory) /\ Virtual(Cards[board.at + 1])
  <2>1. /\ pc' = pc /\ UNCHANGED <<lists, heap>> /\ pc = "zorro"
        /\ board' = [board EXCEPT !.at = @ + 1]
    BY <1>5 DEF ZorroBoard
  <2>2. /\ DOMAIN board' = DOMAIN board /\ board'.identify = board.identify
        /\ board'.at = board.at + 1 /\ board'.pci = board.pci /\ board'.lost = board.lost
    BY <1>1, <2>1 DEF BoardInv
  <2>3. SoundInv' /\ DOMAIN lists' = ListNames /\ Others("boards")
    BY <2>1, BoardName, Unlisted
  <2>4. SameBoards
    BY <2>1, <2>2 DEF SameBoards, Boards, Board
  <2>5. BoardsRight' /\ BoardsOrdered' /\ \A m : FoundUpTo(m) => FoundUpTo(m)'
    BY <1>1, <2>4, BoardsSame
  <2>6. BoardInv'
    <3>1. board'.at \in 0..Len(Cards)
      BY <1>2, <2>2
    <3> QED BY <1>1, <2>2, <3>1 DEF BoardInv
  <2>7. CardsOnly'
    <3>1. \A i \in 1..Boards : Board(i).n \in Nat /\ Board(i).n <= board.at /\ Board(i).kind # "pci"
      BY <1>1, <1>3, BoardItem DEF BoardsRight, RightBoard, CardsOnly
    <3>2. \A i \in 1..Boards : Board(i).n <= board.at + 1
      BY <1>2, <3>1
    <3> QED BY <2>2, <2>4, <3>1, <3>2 DEF CardsOnly, SameBoards
  <2>8. ASSUME FoundUpTo(board.at)
        PROVE  FoundUpTo(board.at)'
    <3>1. board.at + 1 \notin Real(board.identify)
      BY <1>3, <1>5, <2>1 DEF Real, Virtual
    <3>2. \A k \in Real(board.identify) : k <= board.at + 1 => k <= board.at
      BY <1>1, <1>2, <3>1, CardsReal DEF BoardInv
    <3> QED BY <2>2, <2>4, <2>8, <3>2 DEF FoundUpTo, SameBoards, Real
  <2>9. ProgressInv'
    BY <1>3, <2>1, <2>2, <2>7, <2>8 DEF ProgressInv
  <2> QED BY <2>3, <2>5, <2>6, <2>9 DEF BoardWhole, BoardsInv
<1>6. CASE RawBoard(memory) \/ ~Virtual(Cards[board.at + 1])
  <2>1. /\ AppendBoard(memory)
        /\ pc' = pc \/ (pc' = "boards done" /\ ~HasRoom("boards", memory))
    BY <1>6 DEF ZorroBoard, RawBoard
  <2>2. board.at + 1 \in Real(board.identify)
    <3>1. CASE RawBoard(memory)
      <4>1. board.identify = FALSE
        BY <1>3, <3>1 DEF RawBoard
      <4> QED BY <1>4, <4>1 DEF Real
    <3>2. CASE ~Virtual(Cards[board.at + 1])
      BY <1>4, <3>2 DEF Real, Virtual
    <3> QED BY <1>6, <3>1, <3>2
  <2>3. /\ SoundInv' /\ DOMAIN lists' = ListNames /\ Others("boards")
        /\ BoardInv' /\ BoardsRight' /\ BoardsOrdered' /\ CardsOnly'
        /\ board'.identify = board.identify
        /\ board'.lost = TRUE \/ FoundUpTo(board.at)'
        /\ ~HasRoom("boards", memory) => board'.lost = TRUE
    BY <1>1, <1>2, <1>3, <2>1, <2>2, AppendSound
  <2>4. ProgressInv'
    BY <1>3, <2>1, <2>3 DEF ProgressInv
  <2> QED BY <2>3, <2>4 DEF BoardWhole, BoardsInv
<1> QED BY <1>5, <1>6

\* The list begins empty, with identify.library or without.
LEMMA BoardsBeginWhole ==
  ASSUME ListsInv, SoundInv, BoardsInv, NEW a \in BOOLEAN, NEW b \in BOOLEAN, BoardsBegin(a, b)
  PROVE  BoardWhole
<1>1. /\ SoundInv' /\ DOMAIN lists' = ListNames /\ Others("boards")
      /\ lists'["boards"].count = 0
  BY BoardName, FreeSound DEF BoardsBegin
<1>2. /\ board' = [at |-> 0, pci |-> 0, lost |-> FALSE, identify |-> a]
      /\ \/ pc' = "zorro" /\ a = TRUE
         \/ pc' = "raw" /\ a = FALSE
         \/ pc' = "boards done"
  BY DEF BoardsBegin
<1>3. /\ DOMAIN board' = {"at", "pci", "lost", "identify"} /\ board'.identify = a
      /\ board'.at = 0 /\ board'.pci = 0 /\ board'.lost = FALSE
  BY <1>2
<1>4. BoardInv'
  <2>1. 0 \in 0..Len(Cards) /\ 0 \in 0..Len(PciCards)
    BY BoardAssumption
  <2> QED BY <1>3, <2>1 DEF BoardInv
<1>5. \A i \in 1..Boards' : FALSE
  BY <1>1 DEF Boards
<1>6. BoardsRight' /\ BoardsOrdered' /\ CardsOnly' /\ PciUpTo'
  BY <1>5 DEF BoardsRight, BoardsOrdered, CardsOnly, PciUpTo
<1>7. FoundUpTo(board.at)'
  <2>1. \A k \in Real(a) : ~(k <= 0)
    BY CardsReal
  <2> QED BY <1>3, <2>1 DEF FoundUpTo, Real
<1>8. ProgressInv'
  BY <1>2, <1>3, <1>6, <1>7 DEF ProgressInv
<1> QED BY <1>1, <1>4, <1>6, <1>8 DEF BoardWhole, BoardsInv

\* The steps between the loops.
LEMMA BoardsEndWhole ==
  ASSUME ListsInv, SoundInv, BoardsInv,
         PciEnd \/ RawEnd \/ \E pci \in BOOLEAN : ZorroEnd(pci)
  PROVE  BoardWhole
<1>1. /\ UNCHANGED <<lists, heap>> /\ board' = board
      /\ pc \in {"zorro", "raw", "pci"} /\ pc' \in {"pci", "boards done"}
      /\ pc \in {"zorro", "raw"} => Full \/ board.at = Len(Cards)
      /\ pc' = "pci" => pc = "zorro"
  BY DEF PciEnd, RawEnd, ZorroEnd, listVars
<1>2. BoardInv /\ BoardsRight /\ BoardsOrdered /\ ProgressInv
  BY DEF BoardsInv
<1>3. SoundInv' /\ DOMAIN lists' = ListNames /\ Others("boards")
  BY <1>1, BoardName, Unlisted
<1>4. SameBoards
  BY <1>1 DEF SameBoards, Boards, Board
<1>5. /\ BoardsRight' /\ BoardsOrdered' /\ \A m : FoundUpTo(m) => FoundUpTo(m)'
      /\ Full => Full'
  BY <1>2, <1>4, BoardsSame
<1>6. BoardInv'
  BY <1>1, <1>2 DEF BoardInv
<1>7. board.at = 0 \/ board.lost = TRUE \/ Full \/ FoundUpTo(Len(Cards))
  BY <1>1, <1>2 DEF ProgressInv
<1>8. pc' = "pci" => PciUpTo'
  <2>1. ASSUME pc = "zorro"
        PROVE  PciUpTo
    BY <1>2, <2>1 DEF ProgressInv, CardsOnly, PciUpTo
  <2> QED BY <1>1, <1>4, <2>1 DEF PciUpTo, SameBoards
<1>9. ProgressInv'
  BY <1>1, <1>5, <1>7, <1>8 DEF ProgressInv
<1> QED BY <1>3, <1>5, <1>6, <1>9 DEF BoardWhole, BoardsInv

\* A board of PCI comes behind those before it.
LEMMA PciAdded ==
  ASSUME ListsInv, SoundInv, BoardInv, BoardsRight, BoardsOrdered, PciUpTo,
         NEW m \in Nat, m = board.pci, m < Len(PciCards), PciCards[m + 1] = "pci",
         Longer("boards", BoardRecord("pci", m + 1)),
         board'.identify = board.identify, board'.pci = m + 1, board'.at = board.at
  PROVE  /\ BoardsRight' /\ BoardsOrdered' /\ PciUpTo'
         /\ \A k : FoundUpTo(k) => FoundUpTo(k)'
         /\ Full => Full'
<1> DEFINE b == BoardRecord("pci", m + 1)
<1>1. Boards \in Nat /\ MaxItems["boards"] \in Nat
  BY BoardTypes, BoardName
<1>2. b \in BoardItems /\ b.kind = "pci" /\ b.n = m + 1
  BY DEF BoardRecord, BoardItems
<1> HIDE DEF b
<1>3. \A i \in 1..Boards : Board(i).kind = "pci" => Board(i).n < m + 1
  <2>1. \A i \in 1..Boards : Board(i).n \in Nat
    BY BoardItem DEF BoardsRight, RightBoard
  <2>2. \A i \in 1..Boards : Board(i).kind = "pci" => Board(i).n <= m
    BY DEF PciUpTo
  <2> QED BY <2>1, <2>2
<1>4. RightBoard(b, board.identify)
  BY <1>2 DEF RightBoard
<1>5. \A i \in 1..Boards : Precedes(Board(i), b)
  BY <1>2, <1>3 DEF Precedes
<1>6. Behind(b)
  BY <1>4, <1>5 DEF Behind, b
<1>7. /\ BoardsRight' /\ BoardsOrdered'
      /\ \A k : FoundUpTo(k) => FoundUpTo(k)'
      /\ Boards' = Boards + 1 /\ lists'["boards"].items[Boards + 1] = b
      /\ \A i \in 1..Boards : Board(i)' = Board(i)
  BY <1>1, <1>6, BoardAdded
<1>8. PciUpTo'
  <2>1. \A i \in 1..Boards' : i \in 1..Boards \/ i = Boards + 1
    BY <1>1, <1>7
  <2>2. lists'["boards"].items[Boards + 1].n <= m + 1
    BY <1>2, <1>7
  <2>3. \A i \in 1..Boards : Board(i).kind = "pci" => Board(i).n <= m + 1
    <3>1. \A i \in 1..Boards : Board(i).n \in Nat
      BY BoardItem DEF BoardsRight, RightBoard
    <3> QED BY <1>3, <3>1
  <2>4. ASSUME NEW i \in 1..Boards', Board(i)'.kind = "pci"
        PROVE  Board(i)'.n <= m + 1
    <3>1. CASE i \in 1..Boards
      <4>1. Board(i)' = Board(i)
        BY <1>7, <3>1
      <4> QED BY <2>3, <2>4, <3>1, <4>1
    <3>2. CASE i = Boards + 1
      BY <2>2, <3>2 DEF Board
    <3> QED BY <2>1, <3>1, <3>2
  <2> QED BY <2>4 DEF PciUpTo
<1>9. Full => Full'
  BY <1>1, <1>7 DEF Full, Boards
<1> QED BY <1>7, <1>8, <1>9

\* The boards of the PCI bus, which follow the cards.
LEMMA PciWhole ==
  ASSUME ListsInv, SoundInv, BoardsInv, NEW memory \in BOOLEAN, PciBoard(memory)
  PROVE  BoardWhole
<1> DEFINE m == board.pci
           card == PciCards[m + 1]
           g == Grow("boards", Boards + 1, memory)
<1>1. BoardInv /\ BoardsRight /\ BoardsOrdered /\ PciUpTo
      /\ (board.at = 0 \/ board.lost = TRUE \/ Full \/ FoundUpTo(Len(Cards)))
  BY DEF BoardsInv, ProgressInv, PciBoard
<1>2. /\ Boards \in Nat /\ Len(PciCards) \in Nat /\ m \in Nat /\ MaxItems["boards"] \in Nat
      /\ DOMAIN lists = ListNames /\ "boards" \in ListNames
  BY <1>1, BoardTypes, BoardName
<1>3. /\ pc = "pci" /\ m < Len(PciCards)
      /\ Replace("boards", IF g.ok /\ card # "null" THEN With(g.list, BoardRecord(card, m + 1))
                           ELSE g.list)
      /\ board' = [board EXCEPT !.pci = m + 1, !.lost = @ \/ ~g.ok]
      /\ pc' = IF g.ok THEN pc ELSE "boards done"
  BY DEF PciBoard, Boards
<1>4. Grown("boards", Boards + 1, g)
  <2>1. Boards + 1 \in Nat
    BY <1>2
  <2> QED BY <1>2, <2>1, GrowWhole
<1>14. m < Len(PciCards)
  BY <1>3
<1>15. m + 1 \in 1..Len(PciCards)
  BY <1>2, <1>14
<1>5. card \in {"pci", "null"}
  <2>1. m + 1 \in 1..Len(PciCards) /\ PciCards \in Seq({"pci", "null"})
    BY <1>15, BoardAssumption
  <2> QED BY <2>1
<1> HIDE DEF g
<1>6. /\ DOMAIN board' = DOMAIN board /\ board'.identify = board.identify
      /\ board'.at = board.at /\ board'.pci = m + 1 /\ board'.lost = (board.lost \/ ~g.ok)
  BY <1>1, <1>3 DEF BoardInv
<1>7. BoardInv'
  <2>1. board'.lost \in BOOLEAN
    BY <1>1, <1>6 DEF BoardInv
  <2>2. board'.pci \in 0..Len(PciCards)
    BY <1>2, <1>15, <1>6
  <2> QED BY <1>1, <1>6, <2>1, <2>2 DEF BoardInv
<1>8. CASE g.ok /\ card # "null"
  <2>1. card = "pci"
    BY <1>5, <1>8
  <2>2. Add("boards", BoardRecord("pci", m + 1), memory) /\ HasRoom("boards", memory)
    BY <1>3, <1>8, <2>1 DEF Add, HasRoom, g, Boards
  <2>3. BoardRecord("pci", m + 1) # Zero
    <3>1. BoardRecord("pci", m + 1) \in BoardItems
      BY <1>2 DEF BoardRecord, BoardItems
    <3> QED BY <3>1, BoardItem
  <2>4. /\ SoundInv' /\ DOMAIN lists' = ListNames /\ Others("boards")
        /\ Longer("boards", BoardRecord("pci", m + 1))
    BY <1>2, <2>2, <2>3, AddSound
  <2>5. /\ BoardsRight' /\ BoardsOrdered' /\ PciUpTo'
        /\ \A k : FoundUpTo(k) => FoundUpTo(k)'
        /\ Full => Full'
    BY <1>1, <1>2, <1>3, <1>6, <2>1, <2>4, PciAdded
  <2>6. ProgressInv'
    <3>1. pc' = "pci" /\ board'.lost = board.lost
      BY <1>1, <1>3, <1>6, <1>8 DEF BoardInv
    <3> QED BY <1>1, <1>6, <2>5, <3>1 DEF ProgressInv
  <2> QED BY <1>7, <2>4, <2>5, <2>6 DEF BoardWhole, BoardsInv
<1>9. CASE ~(g.ok /\ card # "null")
  <2>1. /\ Whole(g.list, MaxItems["boards"]) /\ g.list.count = Boards
        /\ \A i \in 1..Boards : g.list.items[i] = Board(i)
        /\ g.list = lists["boards"] \/ g.list.made # lists["boards"].made
    BY <1>4 DEF Grown, Boards, Board
  <2>2. Replace("boards", g.list)
    BY <1>3, <1>9
  <2>3. /\ SoundInv' /\ DOMAIN lists' = ListNames /\ lists'["boards"] = g.list
        /\ Others("boards")
    BY <1>2, <2>1, <2>2, ReplaceSound
  <2>4. SameBoards
    BY <1>6, <2>1, <2>3 DEF SameBoards, Boards, Board
  <2>5. /\ BoardsRight' /\ BoardsOrdered'
        /\ \A k : FoundUpTo(k) => FoundUpTo(k)'
        /\ Full => Full'
    BY <1>1, <2>4, BoardsSame
  <2>6. PciUpTo'
    <3>1. \A i \in 1..Boards : Board(i).n \in Nat
      BY <1>1, BoardItem DEF BoardsRight, RightBoard
    <3>2. \A i \in 1..Boards : Board(i).kind = "pci" => Board(i).n <= m
      BY <1>1 DEF PciUpTo
    <3>3. \A i \in 1..Boards : Board(i).kind = "pci" => Board(i).n <= m + 1
      BY <1>2, <3>1, <3>2
    <3> QED BY <1>6, <2>4, <3>3 DEF PciUpTo, SameBoards
  <2>7. pc' = "pci" \/ (pc' = "boards done" /\ board'.lost = TRUE)
    BY <1>3, <1>1, <1>6 DEF BoardInv
  <2>8. board'.at = 0 \/ board'.lost = TRUE \/ Full' \/ FoundUpTo(Len(Cards))'
    <3>1. board.lost = TRUE => board'.lost = TRUE
      BY <1>6
    <3> QED BY <1>1, <1>6, <2>5, <3>1
  <2>9. ProgressInv'
    BY <2>6, <2>7, <2>8 DEF ProgressInv
  <2> QED BY <1>7, <2>3, <2>5, <2>9 DEF BoardWhole, BoardsInv
<1> QED BY <1>8, <1>9

\* All steps of the list of boards.
LEMMA BoardStepWhole ==
  ASSUME ListsInv, SoundInv, BoardsInv, BoardStep
  PROVE  BoardWhole
BY ZenonT(60), CardsWhole, BoardsBeginWhole, BoardsEndWhole, PciWhole DEF BoardStep
-----------------------------------------------------------------------------
(***************************************************************************)
(* The lists of software.                                                  *)
(***************************************************************************)

\* The lists that are read from Exec, where each is filled and where it is left
\* in order.
CopiedLists == {"libraries", "devices", "resources"}
FillPlace(n) ==
  IF n = "libraries" THEN "library" ELSE IF n = "devices" THEN "device" ELSE "resource"
MmuPlaces == {"mmu", "mmu entries", "mapping", "mmu permit", "software done"}
LeftPlaces(n) ==
  IF n = "libraries" THEN {"kickstart", "devices", "device", "resources", "resource"}
                            \cup MmuPlaces
  ELSE IF n = "devices" THEN {"resources", "resource"} \cup MmuPlaces
  ELSE MmuPlaces

Slot(n, i) == lists[n].items[i]
Entries(n) == lists[n].count

FromExec(n) == \A i \in 1..Entries(n) : Slot(n, i) \in Nat \ {0}
Sorted(n) == \A i, j \in 1..Entries(n) : i < j => Slot(n, i) <= Slot(n, j)
ListedTo(n, m) ==
  \A k \in DOMAIN ExecNodes[n] : k <= m =>
    \E i \in 1..Entries(n) : Slot(n, i) = ExecNodes[n][k]

CopyInv(n) ==
  /\ pc = FillPlace(n) => FromExec(n) /\ (n \in sw.lost \/ ListedTo(n, sw.at))
  /\ pc = "kickstart" /\ n = "libraries" => FromExec(n)
  /\ pc \in LeftPlaces(n) => Sorted(n) /\ (n \in sw.lost \/ ListedTo(n, Len(ExecNodes[n])))

\* The special libraries up to one told of the FPU or the MMU.
Telling(m) ==
  \A k \in DOMAIN ExecNodes["libraries"] :
    k <= m /\ ExecNodes["libraries"][k] \in Special => ExecNodes["libraries"][k] \in sw.flags

FlagsInv ==
  /\ sw.at \in Nat
  /\ sw.flags \subseteq Special \cap Range(ExecNodes["libraries"])
  /\ pc = "library" => Telling(sw.at)
  /\ pc \in LeftPlaces("libraries") => Telling(Len(ExecNodes["libraries"]))

\* The hints stand together, or there are none.
NoHints == \A i \in 1..Entries("mmu") : Slot("mmu", i) # "hint"
HintsTogether ==
  \E a \in Nat : {i \in 1..Entries("mmu") : Slot("mmu", i) = "hint"} = (a + 1)..(a + Hints)

HintsInv ==
  /\ pc \in {"mmu entries", "mapping"} => NoHints
  /\ pc \in {"mmu permit", "software done"} => NoHints \/ HintsTogether

EntriesInv == (\A n \in CopiedLists : CopyInv(n)) /\ FlagsInv /\ HintsInv

\* No list but those of the software changes.
OnlySoftware ==
  \A n \in ListNames \ (CopiedLists \cup {"mmu"}) : lists'[n] = lists[n] /\ heap'[n] = heap[n]

SoftWhole == SoundInv' /\ DOMAIN lists' = ListNames /\ OnlySoftware /\ EntriesInv'

\* The lists, the nodes and the entries there are.
LEMMA SoftNames ==
  ASSUME ListsInv
  PROVE  /\ DOMAIN lists = ListNames /\ CopiedLists \subseteq ListNames /\ "mmu" \in ListNames
         /\ DOMAIN sw = {"at", "flags", "lost", "quiet", "path", "copied", "programs", "release",
               "stack"}
<1>1. DOMAIN lists = ListNames /\ CopiedLists \subseteq ListNames /\ "mmu" \in ListNames
  BY Names DEF ListsInv, RowsInv, CopiedLists
<1>2. DOMAIN sw = {"at", "flags", "lost", "quiet", "path", "copied", "programs", "release",
               "stack"}
  BY DEF ListsInv, FieldsInv
<1> QED BY <1>1, <1>2

LEMMA SoftCount ==
  ASSUME SoundInv, NEW n \in ListNames
  PROVE  Entries(n) \in Nat /\ Whole(lists[n], MaxItems[n])
BY DEF SoundInv, Whole, Entries

LEMMA NodeType ==
  ASSUME NEW n \in CopiedLists
  PROVE  /\ Len(ExecNodes[n]) \in Nat /\ DOMAIN ExecNodes[n] = 1..Len(ExecNodes[n])
         /\ \A k \in DOMAIN ExecNodes[n] : ExecNodes[n][k] \in Nat \ {0}
<1>1. ExecNodes[n] \in Seq(Nat \ {0})
  BY SoftwareAssumption DEF CopiedLists
<1> QED BY <1>1

LEMMA NameIsNoZero ==
  ASSUME NEW x \in Int
  PROVE  x # Zero
BY ZeroAssumption

\* A list that stays as it is, at labels where as much or less is said of it.
LEMMA CopyStays ==
  ASSUME NEW n \in CopiedLists, CopyInv(n), lists'[n] = lists[n],
         n \in sw.lost => n \in sw'.lost, pc' # FillPlace(n),
         pc' \in LeftPlaces(n) => pc \in LeftPlaces(n),
         n = "libraries" /\ pc' = "kickstart" => pc = "kickstart"
  PROVE  CopyInv(n)'
<1>1. FromExec(n) => FromExec(n)'
  BY DEF FromExec, Slot, Entries
<1>2. Sorted(n) => Sorted(n)'
  BY DEF Sorted, Slot, Entries
<1>3. \A m : ListedTo(n, m) => ListedTo(n, m)'
  BY DEF ListedTo, Slot, Entries
<1> QED BY <1>1, <1>2, <1>3 DEF CopyInv

\* A list that is begun is empty.
LEMMA CopyBegun ==
  ASSUME NEW n \in CopiedLists, lists'[n].count = 0, pc' = FillPlace(n), sw'.at = 0
  PROVE  CopyInv(n)'
<1>1. \A i \in 1..Entries(n)' : FALSE
  BY DEF Entries
<1>2. FromExec(n)'
  BY <1>1 DEF FromExec
<1>3. ListedTo(n, sw.at)'
  <2>1. \A k \in DOMAIN ExecNodes[n] : ~(k <= 0)
    BY NodeType
  <2> QED BY <2>1 DEF ListedTo
<1>4. pc' \notin LeftPlaces(n) /\ pc' # "kickstart"
  BY DEF FillPlace, LeftPlaces, MmuPlaces, CopiedLists
<1> QED BY <1>2, <1>3, <1>4 DEF CopyInv

\* A node is copied, or is lost.
LEMMA CopyNode ==
  ASSUME SoundInv, NEW n \in CopiedLists, n \in ListNames, CopyInv(n), pc = FillPlace(n), pc' = pc,
         NEW m \in Nat, m = sw.at, m < Len(ExecNodes[n]),
         \/ Longer(n, ExecNodes[n][m + 1]) /\ sw'.at = m + 1 /\ sw'.lost = sw.lost
         \/ Same(n) /\ n \in sw'.lost
  PROVE  CopyInv(n)'
<1> DEFINE now(i) == lists'[n].items[i]
           name == ExecNodes[n][m + 1]
           c == Entries(n)
<1>1. c \in Nat
  BY SoftCount
<1>2. FromExec(n) /\ (n \in sw.lost \/ ListedTo(n, m))
  BY DEF CopyInv
<1>3. pc' \notin LeftPlaces(n) /\ pc' # "kickstart"
  BY DEF FillPlace, LeftPlaces, MmuPlaces, CopiedLists
<1>4. name \in Nat \ {0}
  <2>1. m + 1 \in 1..Len(ExecNodes[n])
    BY NodeType
  <2> QED BY <2>1, NodeType
<1> HIDE DEF name
<1>5. /\ FromExec(n)' = \A i \in 1..lists'[n].count : now(i) \in Nat \ {0}
      /\ \A k : ListedTo(n, k)' = \A q \in DOMAIN ExecNodes[n] : q <= k =>
                  \E i \in 1..lists'[n].count : now(i) = ExecNodes[n][q]
  BY DEF FromExec, ListedTo, Slot, Entries
<1>6. CASE Longer(n, name) /\ sw'.at = m + 1 /\ sw'.lost = sw.lost
  <2>1. /\ lists'[n].count = c + 1 /\ now(c + 1) = name
        /\ \A i \in 1..c : now(i) = Slot(n, i)
    BY <1>6 DEF Longer, Entries, Slot
  <2> HIDE DEF now, c
  <2>2. \A i \in 1..(c + 1) : i \in 1..c \/ i = c + 1
    BY <1>1
  <2>3. FromExec(n)'
    <3>1. \A i \in 1..c : Slot(n, i) \in Nat \ {0}
      BY <1>2 DEF FromExec, c
    <3> QED BY <1>4, <1>5, <2>1, <2>2, <3>1
  <2>4. ASSUME ListedTo(n, m)
        PROVE  ListedTo(n, sw.at)'
    <3>1. \A q \in DOMAIN ExecNodes[n] : q <= m => \E i \in 1..c : Slot(n, i) = ExecNodes[n][q]
      BY <2>4 DEF ListedTo, c
    <3>2. \A i \in 1..c : i \in 1..(c + 1)
      BY <1>1
    <3>3. \A q \in DOMAIN ExecNodes[n] : q <= m => \E i \in 1..(c + 1) : now(i) = ExecNodes[n][q]
      BY <2>1, <3>1, <3>2
    <3>4. \A q \in DOMAIN ExecNodes[n] : q <= m + 1 => q <= m \/ q = m + 1
      BY NodeType
    <3>5. c + 1 \in 1..(c + 1)
      BY <1>1
    <3>6. \A q \in DOMAIN ExecNodes[n] : q <= m + 1 =>
            \E i \in 1..(c + 1) : now(i) = ExecNodes[n][q]
      BY <2>1, <3>3, <3>4, <3>5 DEF name
    <3>7. ListedTo(n, m + 1)'
      BY <1>5, <2>1, <3>6
    <3> QED BY <1>6, <3>7 DEF ListedTo
  <2> QED BY <1>2, <1>3, <1>6, <2>3, <2>4 DEF CopyInv
<1>7. CASE Same(n) /\ n \in sw'.lost
  <2>1. FromExec(n)'
    BY <1>2, <1>7 DEF FromExec, Same, Slot, Entries
  <2> QED BY <1>3, <1>7, <2>1 DEF CopyInv
<1> QED BY <1>6, <1>7 DEF name

\* An injection of finitely many places into themselves takes all of them.
LEMMA AllPlacesTaken ==
  ASSUME NEW m \in Nat, NEW place \in Injection(1..m, 1..m)
  PROVE  /\ \A i \in 1..m : place[i] \in 1..m
         /\ \A k \in 1..m : \E i \in 1..m : place[i] = k
<1>1. IsFiniteSet(1..m) /\ Cardinality(1..m) = m
  BY FS_Interval
<1>2. place \in Surjection(1..m, 1..m)
  BY <1>1, FS_Injection
<1> QED BY <1>2 DEF Surjection

\* Each entry of the list is in one of its places, in order.
Permuted(n) ==
  /\ Entries(n)' = Entries(n) /\ Sorted(n)'
  /\ \A i \in 1..Entries(n) : \E k \in 1..Entries(n) : lists'[n].items[i] = Slot(n, k)
  /\ \A k \in 1..Entries(n) : \E i \in 1..Entries(n) : lists'[n].items[i] = Slot(n, k)

\* Sorting gives the same entries in order.
LEMMA EndSorts ==
  ASSUME SoundInv, DOMAIN lists = ListNames, NEW n \in ListNames, NEW from, NEW to,
         SoftwareEnd(n, from, to)
  PROVE  SoundInv' /\ DOMAIN lists' = ListNames /\ Others(n) /\ Permuted(n)
<1> DEFINE c == Entries(n)
           l == lists[n]
<1>1. PICK place \in Injection(1..c, 1..c) :
        /\ \A i, j \in 1..c : i < j => l.items[place[i]] <= l.items[place[j]]
        /\ lists' = [lists EXCEPT ![n].items =
                       [i \in DOMAIN @ |-> IF i \in 1..c THEN @[place[i]] ELSE @[i]]]
  BY DEF SoftwareEnd, Entries
<1>2. heap' = heap
  BY DEF SoftwareEnd
<1>3. c \in Nat /\ Whole(l, MaxItems[n])
  BY SoftCount
<1>4. /\ l.count = c /\ l.capacity \in Nat /\ c <= l.capacity /\ l.made \in Nat
      /\ l.items = [i \in 1..l.capacity |-> l.items[i]]
      /\ \A i \in 1..c : l.items[i] # Zero
      /\ DOMAIN l = {"items", "count", "capacity", "made"}
  BY <1>3 DEF Whole, Entries
<1> HIDE DEF c, l
<1>6. /\ \A i \in 1..c : place[i] \in 1..c
      /\ \A k \in 1..c : \E i \in 1..c : place[i] = k
  BY <1>1, <1>3, AllPlacesTaken
<1> DEFINE items == [i \in 1..l.capacity |-> IF i \in 1..c THEN l.items[place[i]] ELSE l.items[i]]
           new == [l EXCEPT !.items = items]
<1>7. lists' = [lists EXCEPT ![n] = new]
  <2>1. DOMAIN l.items = 1..l.capacity
    BY <1>4
  <2>2. lists' = [lists EXCEPT ![n] = [l EXCEPT !.items =
                       [i \in DOMAIN @ |-> IF i \in 1..c THEN @[place[i]] ELSE @[i]]]]
    BY <1>1 DEF l
  <2>3. [l EXCEPT !.items = [i \in DOMAIN @ |-> IF i \in 1..c THEN @[place[i]] ELSE @[i]]] = new
    BY <1>4, <2>1
  <2> QED BY <2>2, <2>3
<1>8. /\ items = [i \in 1..l.capacity |-> items[i]]
      /\ \A i \in 1..c : items[i] = l.items[place[i]]
  <2>1. \A i \in 1..c : i \in 1..l.capacity
    BY <1>3, <1>4
  <2> QED BY <2>1
<1> HIDE DEF items
<1>9. /\ DOMAIN new = DOMAIN l /\ new.items = items /\ new.count = c
      /\ new.capacity = l.capacity /\ new.made = l.made
  BY <1>4
<1> HIDE DEF new
<1>10. \A i \in 1..c : items[i] # Zero
  <2>1. \A k \in 1..c : l.items[k] # Zero
    BY <1>4
  <2> QED BY <1>6, <1>8, <2>1
<1>11. Whole(new, MaxItems[n])
  <2>1. l.capacity <= MaxItems[n] /\ {l.count, l.capacity, l.made} \subseteq Nat
    BY <1>3 DEF Whole
  <2> QED BY <1>3, <1>4, <1>8, <1>9, <1>10, <2>1 DEF Whole
<1>12. /\ SoundInv' /\ DOMAIN lists' = ListNames /\ Others(n) /\ lists'[n] = new
  BY <1>2, <1>7, <1>9, <1>11, SetSound DEF l
<1>13. \A i, j \in 1..c : i < j => items[i] <= items[j]
  BY <1>1, <1>8
<1>14. Sorted(n)'
  BY <1>9, <1>12, <1>13 DEF Sorted, Slot, Entries
<1>15. Entries(n)' = c
  BY <1>9, <1>12 DEF Entries
<1>16. /\ \A i \in 1..c : \E k \in 1..c : items[i] = l.items[k]
       /\ \A k \in 1..c : \E i \in 1..c : items[i] = l.items[k]
  <2>1. \A i \in 1..c : items[i] = l.items[place[i]]
    BY <1>8
  <2>2. \A i \in 1..c : \E k \in 1..c : items[i] = l.items[k]
    BY <1>6, <2>1
  <2>3. ASSUME NEW k \in 1..c
        PROVE  \E i \in 1..c : items[i] = l.items[k]
    <3>1. PICK i \in 1..c : place[i] = k
      BY <1>6
    <3> QED BY <2>1, <3>1
  <2> QED BY <2>2, <2>3
<1> QED BY <1>9, <1>12, <1>14, <1>15, <1>16 DEF Permuted, Slot, c, l

\* So the list is left in order, with what was copied.
LEMMA CopySorted ==
  ASSUME SoundInv, NEW n \in CopiedLists, n \in ListNames, CopyInv(n), pc = FillPlace(n),
         pc' \in LeftPlaces(n), Permuted(n), NEW m, m = sw.at, m = Len(ExecNodes[n]),
         sw'.lost = sw.lost
  PROVE  CopyInv(n)'
<1> DEFINE now(i) == lists'[n].items[i]
           c == Entries(n)
<1>1. FromExec(n) /\ (n \in sw.lost \/ ListedTo(n, Len(ExecNodes[n])))
  BY DEF CopyInv
<1>2. /\ Entries(n)' = c /\ lists'[n].count = c /\ Sorted(n)'
      /\ \A i \in 1..c : \E k \in 1..c : now(i) = Slot(n, k)
      /\ \A k \in 1..c : \E i \in 1..c : now(i) = Slot(n, k)
  BY DEF Permuted, Entries
<1> HIDE DEF c, now
<1>3. FromExec(n)'
  <2>1. \A i \in 1..c : now(i) \in Nat \ {0}
    BY <1>1, <1>2 DEF FromExec, c
  <2> QED BY <1>2, <2>1 DEF FromExec, Slot, now
<1>4. ListedTo(n, Len(ExecNodes[n])) => ListedTo(n, Len(ExecNodes[n]))'
  <2>1. SUFFICES ASSUME ListedTo(n, Len(ExecNodes[n])),
                        NEW k \in DOMAIN ExecNodes[n], k <= Len(ExecNodes[n])
                 PROVE  \E i \in 1..c : now(i) = ExecNodes[n][k]
    BY <1>2 DEF ListedTo, Slot, now
  <2>2. PICK i \in 1..c : Slot(n, i) = ExecNodes[n][k]
    BY <2>1 DEF ListedTo, c
  <2> QED BY <1>2, <2>2
<1>5. pc' # FillPlace(n)
  BY DEF FillPlace, LeftPlaces, MmuPlaces, CopiedLists
<1> QED BY <1>1, <1>2, <1>3, <1>4, <1>5 DEF CopyInv

\* The entries of Kickstart come before the others.
Inserted(k) ==
  /\ lists'["libraries"].count = Entries("libraries") + k
  /\ \A i \in 1..k : lists'["libraries"].items[i] \in {-2, -1}
  /\ \A i, j \in 1..k : i < j =>
       lists'["libraries"].items[i] <= lists'["libraries"].items[j]
  /\ \A i \in 1..Entries("libraries") :
       lists'["libraries"].items[i + k] = Slot("libraries", i)

\* The entries of Kickstart go before the others, or none do.
LEMMA KickstartInserts ==
  ASSUME SoundInv, DOMAIN lists = ListNames, "libraries" \in ListNames,
         NEW updated \in BOOLEAN, NEW memory \in BOOLEAN, KickstartEntries(updated, memory)
  PROVE  /\ SoundInv' /\ DOMAIN lists' = ListNames /\ Others("libraries")
         /\ Same("libraries") \/ \E k \in {1, 2} : Inserted(k)
<1> DEFINE c == Entries("libraries")
           g == Grow("libraries", c + 2, memory)
           new == Kickstart(updated)
           k == Len(new)
<1>1. c \in Nat /\ c + 2 \in Nat
  BY SoftCount
<1>2. Grown("libraries", c + 2, g)
  BY <1>1, GrowWhole
<1>3. /\ k \in {1, 2} /\ \A i \in 1..k : new[i] \in {-2, -1}
      /\ \A i, j \in 1..k : i < j => new[i] <= new[j]
  <2>1. CASE updated
    <3>1. new = <<-2, -1>> /\ k = 2
      BY <2>1 DEF Kickstart
    <3>2. \A i \in 1..2 : i = 1 \/ i = 2
      OBVIOUS
    <3> QED BY <3>1, <3>2
  <2>2. CASE ~updated
    <3>1. new = <<-2>> /\ k = 1
      BY <2>2 DEF Kickstart
    <3>2. \A i \in 1..1 : i = 1
      OBVIOUS
    <3> QED BY <3>1, <3>2
  <2> QED BY <2>1, <2>2
<1>4. CASE ~g.ok
  <2>1. UNCHANGED <<lists, heap>>
    BY <1>4 DEF KickstartEntries, Entries
  <2> QED BY <2>1, Unlisted DEF Same
<1>5. CASE g.ok
  <2> DEFINE l == [g.list EXCEPT !.count = @ + k,
                     !.items = [i \in DOMAIN @ |->
                                  IF i <= k THEN new[i]
                                  ELSE IF i <= g.list.count + k THEN @[i - k]
                                  ELSE @[i]]]
  <2>1. Replace("libraries", l)
    BY <1>5 DEF KickstartEntries, Entries
  <2> DEFINE h == g.list
  <2>2. /\ Whole(h, MaxItems["libraries"]) /\ h.count = c /\ c + 2 <= h.capacity
        /\ \A i \in 1..c : h.items[i] = Slot("libraries", i)
        /\ h = lists["libraries"] \/ h.made # lists["libraries"].made
    BY <1>2, <1>5 DEF Grown, Entries, Slot
  <2> HIDE DEF g, new, c
  <2> DEFINE items == [i \in 1..h.capacity |-> IF i <= k THEN new[i]
                                              ELSE IF i <= c + k THEN h.items[i - k]
                                              ELSE h.items[i]]
  <2> HIDE DEF k
  <2>3. /\ DOMAIN h = {"items", "count", "capacity", "made"} /\ DOMAIN h.items = 1..h.capacity
        /\ h.capacity \in Nat /\ h.made \in Nat /\ h.capacity <= MaxItems["libraries"]
        /\ \A i \in 1..c : h.items[i] # Zero
    BY <2>2 DEF Whole
  <2>4. /\ DOMAIN l = DOMAIN h /\ l.items = items /\ l.count = c + k
        /\ l.capacity = h.capacity /\ l.made = h.made
    BY <2>2, <2>3
  <2> HIDE DEF l, h
  <2>5. items = [i \in 1..h.capacity |-> items[i]]
    OBVIOUS
  <2>6. k \in Nat /\ c + k \in Nat /\ c + k <= h.capacity
    <3>1. k = 1 \/ k = 2
      BY <1>3
    <3> QED BY <1>1, <2>2, <2>3, <3>1
  <2>7. /\ \A i \in 1..k : items[i] = new[i]
        /\ \A i \in 1..c : items[i + k] = h.items[i]
    <3>1. ASSUME NEW i \in 1..k
          PROVE  items[i] = new[i]
      <4>1. i \in 1..h.capacity /\ i <= k
        BY <1>1, <2>3, <2>6
      <4> QED BY <4>1
    <3>2. ASSUME NEW i \in 1..c
          PROVE  items[i + k] = h.items[i]
      <4>1. i + k \in 1..h.capacity /\ ~(i + k <= k) /\ i + k <= c + k /\ (i + k) - k = i
        BY <1>1, <2>3, <2>6
      <4> QED BY <4>1
    <3> QED BY <3>1, <3>2
  <2> HIDE DEF items
  <2>8. \A i \in 1..(c + k) : items[i] # Zero
    <3>1. \A i \in 1..k : items[i] # Zero
      BY <1>3, <2>7, NameIsNoZero
    <3>2. \A i \in 1..c : items[i + k] # Zero
      BY <2>3, <2>7
    <3>3. ASSUME NEW i \in 1..(c + k)
          PROVE  items[i] # Zero
      <4>1. CASE i <= k
        <5>1. i \in 1..k
          BY <2>6, <4>1
        <5> QED BY <3>1, <5>1
      <4>2. CASE ~(i <= k)
        <5>1. i - k \in 1..c /\ (i - k) + k = i
          BY <1>1, <2>6, <4>2
        <5>2. items[(i - k) + k] # Zero
          BY <3>2, <5>1
        <5> QED BY <5>1, <5>2
      <4> QED BY <4>1, <4>2
    <3> QED BY <3>3
  <2>9. Whole(l, MaxItems["libraries"])
    BY <2>3, <2>4, <2>5, <2>6, <2>8 DEF Whole
  <2>10. l.made = lists["libraries"].made => l.capacity = lists["libraries"].capacity
    BY <2>2, <2>4
  <2>11. /\ SoundInv' /\ DOMAIN lists' = ListNames /\ Others("libraries")
         /\ lists'["libraries"] = l
    BY <2>1, <2>9, <2>10, ReplaceSound
  <2>12. Inserted(k)
    <3>1. lists'["libraries"].count = c + k
      BY <2>4, <2>11
    <3>2. lists'["libraries"].items = items
      BY <2>4, <2>11
    <3>3. \A i \in 1..k : items[i] \in {-2, -1}
      BY <1>3, <2>7
    <3>4. \A i, j \in 1..k : i < j => items[i] <= items[j]
      BY <1>3, <2>7
    <3>5. \A i \in 1..c : items[i + k] = Slot("libraries", i)
      BY <2>2, <2>7 DEF h
    <3> QED BY <3>1, <3>2, <3>3, <3>4, <3>5 DEF Inserted, c
  <2> QED BY <1>3, <2>11, <2>12
<1> QED BY <1>4, <1>5

\* They are less than any name, so the list stays in order.
LEMMA CopyWithKickstart ==
  ASSUME SoundInv, "libraries" \in ListNames, CopyInv("libraries"), pc = "kickstart",
         pc' = "devices", sw' = sw, NEW k \in {1, 2}, Inserted(k)
  PROVE  CopyInv("libraries")'
<1> DEFINE c == Entries("libraries")
           now(i) == lists'["libraries"].items[i]
           m == Len(ExecNodes["libraries"])
<1>1. /\ FromExec("libraries") /\ Sorted("libraries")
      /\ "libraries" \in sw.lost \/ ListedTo("libraries", m)
  BY DEF CopyInv, LeftPlaces
<1>2. c \in Nat /\ k \in Nat
  BY SoftCount
<1>3. /\ lists'["libraries"].count = c + k
      /\ \A i \in 1..k : now(i) \in {-2, -1}
      /\ \A i, j \in 1..k : i < j => now(i) <= now(j)
      /\ \A i \in 1..c : now(i + k) = Slot("libraries", i)
  BY DEF Inserted
<1>4. \A i \in 1..c : Slot("libraries", i) \in Nat \ {0}
  BY <1>1 DEF FromExec
<1>5. \A i, j \in 1..c : i < j => Slot("libraries", i) <= Slot("libraries", j)
  BY <1>1 DEF Sorted
<1> HIDE DEF c, now
<1>6. \A i \in 1..(c + k) : IF i <= k THEN i \in 1..k
                            ELSE i - k \in 1..c /\ now(i) = Slot("libraries", i - k)
  <2>1. SUFFICES ASSUME NEW i \in 1..(c + k), ~(i <= k)
                 PROVE  i - k \in 1..c /\ now(i) = Slot("libraries", i - k)
    BY <1>2
  <2>2. i - k \in 1..c /\ (i - k) + k = i
    BY <1>2, <2>1
  <2>3. now((i - k) + k) = Slot("libraries", i - k)
    BY <1>3, <2>2
  <2> QED BY <2>2, <2>3
<1>7. \A i, j \in 1..(c + k) : i < j => now(i) <= now(j)
  <2>1. SUFFICES ASSUME NEW i \in 1..(c + k), NEW j \in 1..(c + k), i < j
                 PROVE  now(i) <= now(j)
    OBVIOUS
  <2>2. CASE j <= k
    <3>1. i <= k
      BY <1>2, <2>1, <2>2
    <3> QED BY <1>3, <1>6, <2>1, <2>2, <3>1
  <2>3. CASE i <= k /\ ~(j <= k)
    <3>1. now(i) \in {-2, -1} /\ now(j) \in Nat
      BY <1>3, <1>4, <1>6, <2>3
    <3> QED BY <3>1
  <2>4. CASE ~(i <= k)
    <3>1. ~(j <= k) /\ i - k < j - k
      BY <1>2, <2>1, <2>4
    <3> QED BY <1>5, <1>6, <2>4, <3>1
  <2> QED BY <2>2, <2>3, <2>4
<1>8. Sorted("libraries")'
  BY <1>3, <1>7 DEF Sorted, Slot, Entries, now
<1>9. ListedTo("libraries", m) => ListedTo("libraries", m)'
  <2>1. SUFFICES ASSUME ListedTo("libraries", m), NEW q \in DOMAIN ExecNodes["libraries"], q <= m
                 PROVE  \E i \in 1..(c + k) : now(i) = ExecNodes["libraries"][q]
    BY <1>3 DEF ListedTo, Slot, Entries, now
  <2>2. PICK i \in 1..c : Slot("libraries", i) = ExecNodes["libraries"][q]
    BY <2>1 DEF ListedTo, c
  <2>3. i + k \in 1..(c + k)
    BY <1>2
  <2>4. now(i + k) = ExecNodes["libraries"][q]
    BY <1>3, <2>2
  <2> QED BY <2>3, <2>4
<1> QED BY <1>1, <1>8, <1>9 DEF CopyInv, FillPlace

\* The hints fill the places behind the last line.
HintsAdded ==
  /\ lists'["mmu"].count = Entries("mmu") + Hints
  /\ \A i \in 1..Entries("mmu") : lists'["mmu"].items[i] = Slot("mmu", i)
  /\ \A i \in (Entries("mmu") + 1)..(Entries("mmu") + Hints) : lists'["mmu"].items[i] = "hint"

\* The hints go behind the others, or none do.
LEMMA HintsSound ==
  ASSUME SoundInv, DOMAIN lists = ListNames, "mmu" \in ListNames,
         NEW memory \in BOOLEAN, MmuHints(memory)
  PROVE  /\ SoundInv' /\ DOMAIN lists' = ListNames /\ Others("mmu")
         /\ Same("mmu") \/ HintsAdded
<1> DEFINE c == Entries("mmu")
           g == Grow("mmu", c + Hints, memory)
<1>1. c \in Nat /\ Hints \in Nat /\ c + Hints \in Nat
  BY SoftCount, SoftwareAssumption
<1>2. Grown("mmu", c + Hints, g)
  BY <1>1, GrowWhole
<1>3. CASE ~g.ok
  <2>1. UNCHANGED <<lists, heap>>
    BY <1>3 DEF MmuHints, Entries
  <2> QED BY <2>1, Unlisted DEF Same
<1>4. CASE g.ok
  <2> DEFINE h == g.list
             l == [h EXCEPT !.count = h.count + Hints,
                     !.items = [i \in DOMAIN @ |->
                       IF i \in h.count + 1 .. h.count + Hints THEN "hint" ELSE @[i]]]
  <2>1. Replace("mmu", l)
    BY <1>4 DEF MmuHints, Entries
  <2>2. /\ Whole(h, MaxItems["mmu"]) /\ h.count = c /\ c + Hints <= h.capacity
        /\ \A i \in 1..c : h.items[i] = Slot("mmu", i)
        /\ h = lists["mmu"] \/ h.made # lists["mmu"].made
    BY <1>2, <1>4 DEF Grown, Entries, Slot
  <2> HIDE DEF g, c
  <2> DEFINE items == [i \in 1..h.capacity |->
                         IF i \in c + 1 .. c + Hints THEN "hint" ELSE h.items[i]]
  <2>3. /\ DOMAIN h = {"items", "count", "capacity", "made"} /\ DOMAIN h.items = 1..h.capacity
        /\ h.capacity \in Nat /\ h.made \in Nat /\ h.capacity <= MaxItems["mmu"]
        /\ \A i \in 1..c : h.items[i] # Zero
    BY <2>2 DEF Whole
  <2>4. /\ DOMAIN l = DOMAIN h /\ l.items = items /\ l.count = c + Hints
        /\ l.capacity = h.capacity /\ l.made = h.made
    BY <2>2, <2>3
  <2> HIDE DEF l, h
  <2>5. items = [i \in 1..h.capacity |-> items[i]]
    OBVIOUS
  <2>6. /\ \A i \in 1..c : items[i] = h.items[i]
        /\ \A i \in (c + 1)..(c + Hints) : items[i] = "hint"
    <3>1. \A i \in 1..c : i \in 1..h.capacity /\ ~(i \in c + 1 .. c + Hints)
      BY <1>1, <2>2, <2>3
    <3>2. \A i \in (c + 1)..(c + Hints) : i \in 1..h.capacity
      BY <1>1, <2>2, <2>3
    <3> QED BY <3>1, <3>2
  <2> HIDE DEF items
  <2>7. \A i \in 1..(c + Hints) : items[i] # Zero
    <3>1. "hint" # Zero
      BY ZeroAssumption DEF MmuItems
    <3>2. \A i \in 1..(c + Hints) : i \in 1..c \/ i \in (c + 1)..(c + Hints)
      BY <1>1
    <3>3. ASSUME NEW i \in 1..(c + Hints)
          PROVE  items[i] # Zero
      <4>1. CASE i \in 1..c
        BY <2>3, <2>6, <4>1
      <4>2. CASE i \in (c + 1)..(c + Hints)
        BY <2>6, <3>1, <4>2
      <4> QED BY <3>2, <4>1, <4>2
    <3> QED BY <3>3
  <2>8. Whole(l, MaxItems["mmu"])
    BY <1>1, <2>2, <2>3, <2>4, <2>5, <2>7 DEF Whole
  <2>9. l.made = lists["mmu"].made => l.capacity = lists["mmu"].capacity
    BY <2>2, <2>4
  <2>10. SoundInv' /\ DOMAIN lists' = ListNames /\ Others("mmu") /\ lists'["mmu"] = l
    BY <2>1, <2>8, <2>9, ReplaceSound
  <2>11. HintsAdded
    BY <2>2, <2>4, <2>6, <2>10 DEF HintsAdded, h, c
  <2> QED BY <2>10, <2>11
<1> QED BY <1>3, <1>4

\* At the labels that follow, as much or less is said of the lists other than n.
Apart(n) ==
  \A m \in CopiedLists \ {n} :
    /\ m \in sw.lost => m \in sw'.lost
    /\ pc' # FillPlace(m) /\ (pc' \in LeftPlaces(m) => pc \in LeftPlaces(m))
    /\ m = "libraries" /\ pc' = "kickstart" => pc = "kickstart"

\* A step that fills one of the lists of software, where nothing is said of the
\* others that was not said before.
LEMMA OneList ==
  ASSUME ListsInv, EntriesInv, NEW n \in CopiedLists \cup {"mmu"},
         SoundInv', DOMAIN lists' = ListNames, Others(n), Apart(n),
         n \in CopiedLists => CopyInv(n)', FlagsInv', HintsInv'
  PROVE  SoftWhole
<1>1. CopiedLists \subseteq ListNames
  BY SoftNames
<1>2. OnlySoftware
  BY DEF OnlySoftware, Others
<1>3. ASSUME NEW m \in CopiedLists
      PROVE  CopyInv(m)'
  <2>1. CASE m = n
    BY <2>1
  <2>2. CASE m # n
    <3>1. lists'[m] = lists[m]
      BY <1>1, <2>2 DEF Others
    <3>2. CopyInv(m)
      BY DEF EntriesInv
    <3> QED BY <2>2, <3>1, <3>2, CopyStays DEF Apart
  <2> QED BY <2>1, <2>2
<1> QED BY <1>2, <1>3 DEF SoftWhole, EntriesInv

\* What is said of the flags needs no more than these.
LEMMA FlagsStay ==
  ASSUME FlagsInv, sw'.flags = sw.flags, sw'.at \in Nat, pc' # "library",
         pc' \in LeftPlaces("libraries") => pc \in LeftPlaces("libraries")
  PROVE  FlagsInv'
<1>1. \A m : Telling(m) => Telling(m)'
  BY DEF Telling
<1> QED BY <1>1 DEF FlagsInv

LEMMA HintsStay ==
  ASSUME HintsInv, lists'["mmu"] = lists["mmu"],
         pc' \in {"mmu entries", "mapping"} => pc \in {"mmu entries", "mapping"},
         pc' \in {"mmu permit", "software done"} =>
           pc \in {"mmu entries", "mapping", "mmu permit", "software done"}
  PROVE  HintsInv'
<1>1. NoHints => NoHints'
  BY DEF NoHints, Slot, Entries
<1>2. HintsTogether => HintsTogether'
  BY DEF HintsTogether, Slot, Entries
<1> QED BY <1>1, <1>2 DEF HintsInv

\* Before the lists of the software are filled.
EarlyPlaces == {"software", "graphics", "picasso", "picasso file", "network", "found",
                "installed", "libraries", "programs", "ready", "waiting", "enable",
                "segments", "libs", "libs handler", "libs locked", "file", "file read",
                "file end"}

\* Before the first of the lists nothing is said of them.
LEMMA EarlyMoves ==
  ASSUME ListsInv, SoundInv, EntriesInv, UNCHANGED <<lists, heap>>, pc' \in EarlyPlaces,
         sw'.at = sw.at, sw'.flags = sw.flags
  PROVE  SoftWhole
<1>1. SoundInv' /\ DOMAIN lists' = ListNames /\ OnlySoftware
  BY SoftNames, Unlisted DEF OnlySoftware
<1>2. pc' \notin LeftPlaces("libraries") /\ pc' \notin {"library", "kickstart"}
      /\ \A n \in CopiedLists : pc' # FillPlace(n) /\ pc' \notin LeftPlaces(n)
  BY DEF EarlyPlaces, LeftPlaces, FillPlace, MmuPlaces, CopiedLists
<1>3. \A n \in CopiedLists : CopyInv(n)'
  BY <1>2 DEF CopyInv
<1>4. FlagsInv'
  BY <1>2 DEF FlagsInv, EntriesInv
<1>5. HintsInv'
  BY DEF HintsInv, EarlyPlaces
<1> QED BY <1>1, <1>3, <1>4, <1>5 DEF SoftWhole, EntriesInv

LEMMA EarlySteps ==
  ASSUME ListsInv, SoundInv, EntriesInv,
         \/ SystemSoftware \/ PicassoEnd \/ ProgramsDisable \/ ProgramsCopied
         \/ ProgramsEnable \/ SegmentsRead \/ StackPermit
         \/ LibsHandler \/ InstalledEnd
         \/ \E ok \in BOOLEAN :
              \/ GraphicsSystem(ok) \/ PicassoOpen(ok) \/ PicassoRead(ok) \/ FindStack(ok)
              \/ InstalledBegin(ok) \/ LibsNext(ok) \/ LibsFloppy(ok) \/ FileOpen(ok)
              \/ FileRead(ok)
  PROVE  SoftWhole
<1> DEFINE Goal == /\ UNCHANGED <<lists, heap>> /\ pc' \in EarlyPlaces
                   /\ sw'.at = sw.at /\ sw'.flags = sw.flags
<1>1. DOMAIN sw = {"at", "flags", "lost", "quiet", "path", "copied", "programs", "release",
               "stack"}
  BY SoftNames
<1> USE DEF EarlyPlaces, listVars, softwareVars
<1>2. CASE \/ SystemSoftware \/ PicassoEnd \/ ProgramsDisable \/ ProgramsCopied
           \/ ProgramsEnable \/ SegmentsRead \/ StackPermit
           \/ LibsHandler \/ InstalledEnd
  <2>1. Goal
    BY <1>1, <1>2 DEF SystemSoftware, PicassoEnd, ProgramsDisable, ProgramsCopied,
       ReadyCopied, WaitingCopied, Copy, ProgramsEnable, SegmentsRead, StackPermit, LibsHandler, InstalledEnd
  <2> QED BY <2>1, EarlyMoves
<1>3. ASSUME NEW ok \in BOOLEAN,
             \/ GraphicsSystem(ok) \/ PicassoOpen(ok) \/ PicassoRead(ok) \/ FindStack(ok)
             \/ InstalledBegin(ok) \/ LibsNext(ok) \/ LibsFloppy(ok) \/ FileOpen(ok)
             \/ FileRead(ok)
      PROVE  SoftWhole
  <2>1. Goal
    BY <1>1, <1>3 DEF GraphicsSystem, PicassoOpen, PicassoRead, FindStack, InstalledBegin,
       LibsNext, LibsFloppy, FileOpen, FileRead
  <2> QED BY <2>1, EarlyMoves
<1> QED BY <1>2, <1>3

\* The lists are begun, filled and left in order one after the other.
LEMMA BeginSteps ==
  ASSUME ListsInv, SoundInv, EntriesInv,
         LibrariesBegin \/ DevicesBegin \/ ResourcesBegin \/ MmuReset
  PROVE  SoftWhole
<1>1. PICK n \in CopiedLists \cup {"mmu"} :
        /\ pc = n /\ pc' = IF n = "mmu" THEN "mmu entries" ELSE FillPlace(n)
        /\ FreeList(n) /\ sw' = [sw EXCEPT !.at = 0, !.lost = @ \ {n}]
  BY DEF LibrariesBegin, DevicesBegin, ResourcesBegin, MmuReset, SoftwareBegin, CopiedLists,
     FillPlace
<1>2. /\ sw'.at = 0 /\ sw'.flags = sw.flags /\ sw'.lost = sw.lost \ {n}
  BY <1>1, SoftNames
<1>3. /\ SoundInv' /\ DOMAIN lists' = ListNames /\ Others(n)
      /\ lists'[n].count = 0
  BY <1>1, SoftNames, FreeSound
<1>4. Apart(n)
  <2>1. \A l \in CopiedLists \ {n} :
          /\ pc' # FillPlace(l) /\ pc' # "kickstart"
          /\ pc' \in LeftPlaces(l) => pc \in LeftPlaces(l)
    <3> USE <1>1 DEF FillPlace, LeftPlaces, MmuPlaces, CopiedLists
    <3>1. CASE n = "libraries"
      BY <3>1
    <3>2. CASE n = "devices"
      BY <3>2
    <3>3. CASE n = "resources"
      BY <3>3
    <3>4. CASE n = "mmu"
      BY <3>4
    <3> QED BY <3>1, <3>2, <3>3, <3>4
  <2>2. \A l \in CopiedLists \ {n} : l \in sw.lost => l \in sw'.lost
    BY <1>2
  <2> QED BY <2>1, <2>2 DEF Apart
<1>5. n \in CopiedLists => CopyInv(n)'
  <2>1. n \in CopiedLists => n # "mmu"
    BY DEF CopiedLists
  <2> QED BY <1>1, <1>2, <1>3, <2>1, CopyBegun
<1>6. FlagsInv'
  <2>1. CASE n = "libraries"
    <3>1. Telling(sw.at)'
      <4>1. \A k \in DOMAIN ExecNodes["libraries"] : ~(k <= 0)
        BY NodeType DEF CopiedLists
      <4> QED BY <1>2, <4>1 DEF Telling
    <3>2. pc' = "library" /\ pc' \notin LeftPlaces("libraries")
      BY <1>1, <2>1 DEF FillPlace, LeftPlaces, MmuPlaces
    <3> QED BY <1>2, <3>1, <3>2 DEF FlagsInv, EntriesInv
  <2>2. CASE n # "libraries"
    <3>1. pc \in LeftPlaces("libraries") /\ pc' # "library"
      BY <1>1, <2>2 DEF FillPlace, LeftPlaces, MmuPlaces, CopiedLists
    <3> QED BY <1>2, <3>1, FlagsStay DEF EntriesInv
  <2> QED BY <2>1, <2>2
<1>7. HintsInv'
  <2>1. CASE n = "mmu"
    <3>1. \A i \in 1..Entries("mmu")' : FALSE
      BY <1>3, <2>1 DEF Entries
    <3> QED BY <1>1, <2>1, <3>1 DEF HintsInv, NoHints
  <2>2. CASE n # "mmu"
    BY <1>1, <2>2 DEF HintsInv, FillPlace, CopiedLists
  <2> QED BY <2>1, <2>2
<1> QED BY <1>3, <1>4, <1>5, <1>6, <1>7, OneList

LEMMA NodeSteps ==
  ASSUME ListsInv, SoundInv, EntriesInv, NEW memory \in BOOLEAN,
         LibraryNode(memory) \/ DeviceNode(memory) \/ ResourceNode(memory)
  PROVE  SoftWhole
<1> DEFINE m == sw.at
           libs == ExecNodes["libraries"]
<1>1. PICK n \in CopiedLists :
        /\ pc = FillPlace(n) /\ pc' = pc /\ m < Len(ExecNodes[n])
        /\ Add(n, ExecNodes[n][m + 1], memory)
        /\ \/ n = "libraries" /\ LibraryNode(memory)
           \/ n # "libraries" /\ SoftwareNode(n, FillPlace(n), memory)
  BY DEF LibraryNode, DeviceNode, ResourceNode, SoftwareNode, CopiedLists, FillPlace
<1>2. n \in ListNames /\ m \in Nat
  BY SoftNames DEF EntriesInv, FlagsInv
<1>3. m + 1 \in DOMAIN ExecNodes[n] /\ ExecNodes[n][m + 1] \in Nat \ {0}
  <2>1. m + 1 \in 1..Len(ExecNodes[n])
    BY <1>1, <1>2, NodeType
  <2> QED BY <2>1, NodeType
<1>4. /\ SoundInv' /\ DOMAIN lists' = ListNames /\ Others(n)
      /\ HasRoom(n, memory) => Longer(n, ExecNodes[n][m + 1])
      /\ ~HasRoom(n, memory) => Same(n)
  <2>1. ExecNodes[n][m + 1] # Zero
    BY <1>3, NameIsNoZero
  <2> QED BY <1>1, <1>2, <2>1, SoftNames, AddSound
<1> DEFINE room == HasRoom(n, memory)
<1>5. /\ sw'.lost = IF room THEN sw.lost ELSE sw.lost \cup {n}
      /\ room => sw'.at = m + 1
      /\ n # "libraries" => sw'.flags = sw.flags /\ sw'.at \in {m + 1, Len(ExecNodes[n])}
      /\ n = "libraries" =>
           /\ sw'.at = m + 1
           /\ sw'.flags = IF libs[m + 1] \in Special THEN sw.flags \cup {libs[m + 1]}
                          ELSE sw.flags
  <2>1. CASE n = "libraries" /\ LibraryNode(memory)
    BY <2>1, SoftNames DEF LibraryNode, Tells
  <2>2. CASE n # "libraries" /\ SoftwareNode(n, FillPlace(n), memory)
    BY <2>2, SoftNames DEF SoftwareNode
  <2> QED BY <1>1, <2>1, <2>2
<1> HIDE DEF room
<1>6. Apart(n)
  <2>1. \A l \in CopiedLists \ {n} : pc' # FillPlace(l) /\ pc' # "kickstart"
    BY <1>1 DEF FillPlace, CopiedLists
  <2>2. sw.lost \subseteq sw'.lost
    BY <1>5
  <2> QED BY <1>1, <2>1, <2>2 DEF Apart
<1>7. CopyInv(n)'
  <2>1. CopyInv(n)
    BY DEF EntriesInv
  <2>2. \/ Longer(n, ExecNodes[n][m + 1]) /\ sw'.at = m + 1 /\ sw'.lost = sw.lost
        \/ Same(n) /\ n \in sw'.lost
    BY <1>4, <1>5 DEF room
  <2> QED BY <1>1, <1>2, <2>1, <2>2, CopyNode
<1>8. sw'.at \in Nat
  <2>1. Len(ExecNodes[n]) \in Nat
    BY NodeType
  <2> QED BY <1>2, <1>5, <2>1
<1>9. FlagsInv'
  <2>1. CASE n = "libraries"
    <3>1. Telling(m) /\ sw.flags \subseteq Special \cap Range(libs)
      BY <1>1, <2>1 DEF EntriesInv, FlagsInv, FillPlace
    <3>2. sw.flags \subseteq sw'.flags /\ (libs[m + 1] \in Special => libs[m + 1] \in sw'.flags)
      BY <1>5, <2>1
    <3>3. sw'.flags \subseteq Special \cap Range(libs)
      <4>1. libs[m + 1] \in Range(libs)
        BY <1>3, <2>1 DEF Range
      <4> QED BY <1>5, <2>1, <3>1, <4>1
    <3>4. \A k \in DOMAIN libs : k <= m + 1 => k <= m \/ k = m + 1
      BY <1>2, NodeType DEF CopiedLists
    <3>5. \A k \in DOMAIN libs : k <= m + 1 /\ libs[k] \in Special => libs[k] \in sw'.flags
      BY <3>1, <3>2, <3>4 DEF Telling
    <3>6. Telling(sw.at)'
      BY <1>5, <2>1, <3>5 DEF Telling
    <3>7. pc' = "library" /\ pc' \notin LeftPlaces("libraries")
      BY <1>1, <2>1 DEF FillPlace, LeftPlaces, MmuPlaces
    <3> QED BY <1>8, <3>3, <3>6, <3>7 DEF FlagsInv
  <2>2. CASE n # "libraries"
    <3>1. pc' # "library"
      BY <1>1, <2>2 DEF FillPlace, CopiedLists
    <3> QED BY <1>1, <1>5, <1>8, <2>2, <3>1, FlagsStay DEF EntriesInv
  <2> QED BY <2>1, <2>2
<1>10. HintsInv'
  BY <1>1 DEF HintsInv, FillPlace, CopiedLists
<1> QED BY <1>4, <1>6, <1>7, <1>9, <1>10, OneList

LEMMA EndSteps ==
  ASSUME ListsInv, SoundInv, EntriesInv, LibrariesEnd \/ DevicesEnd \/ ResourcesEnd
  PROVE  SoftWhole
<1>1. PICK n \in CopiedLists :
        /\ pc = FillPlace(n) /\ SoftwareEnd(n, pc, pc') /\ sw.at = Len(ExecNodes[n])
        /\ pc' = IF n = "libraries" THEN "kickstart" ELSE IF n = "devices" THEN "resources"
                 ELSE "mmu"
        /\ sw' = sw
  BY DEF LibrariesEnd, DevicesEnd, ResourcesEnd, SoftwareEnd, CopiedLists, FillPlace, softwareVars
<1>2. n \in ListNames
  BY SoftNames
<1>3. SoundInv' /\ DOMAIN lists' = ListNames /\ Others(n) /\ Permuted(n)
  BY <1>1, <1>2, SoftNames, EndSorts
<1>4. Apart(n) /\ pc' \in LeftPlaces(n)
  BY <1>1 DEF Apart, FillPlace, LeftPlaces, MmuPlaces, CopiedLists
<1>5. CopyInv(n)'
  <2>1. CopyInv(n)
    BY DEF EntriesInv
  <2> QED BY <1>1, <1>2, <1>3, <1>4, <2>1, CopySorted
<1>6. FlagsInv'
  <2>1. CASE n = "libraries"
    <3>1. Telling(Len(ExecNodes["libraries"]))
      BY <1>1, <2>1 DEF EntriesInv, FlagsInv, FillPlace
    <3>2. Telling(Len(ExecNodes["libraries"]))'
      BY <1>1, <3>1 DEF Telling
    <3> QED BY <1>1, <2>1, <3>2 DEF EntriesInv, FlagsInv
  <2>2. CASE n # "libraries"
    <3>1. pc \in LeftPlaces("libraries") /\ pc' # "library"
      BY <1>1, <2>2 DEF FillPlace, LeftPlaces, MmuPlaces, CopiedLists
    <3>2. sw'.at \in Nat
      BY <1>1 DEF EntriesInv, FlagsInv
    <3> QED BY <1>1, <3>1, <3>2, FlagsStay DEF EntriesInv
  <2> QED BY <2>1, <2>2
<1>7. HintsInv'
  BY <1>1 DEF HintsInv, CopiedLists
<1> QED BY <1>3, <1>4, <1>5, <1>6, <1>7, OneList

LEMMA KickstartStep ==
  ASSUME ListsInv, SoundInv, EntriesInv, NEW updated \in BOOLEAN, NEW memory \in BOOLEAN,
         KickstartEntries(updated, memory)
  PROVE  SoftWhole
<1> DEFINE n == "libraries"
<1>1. pc = "kickstart" /\ pc' = "devices" /\ sw' = sw
  BY DEF KickstartEntries, softwareVars
<1>2. n \in CopiedLists /\ n \in ListNames
  BY SoftNames DEF CopiedLists
<1>3. /\ SoundInv' /\ DOMAIN lists' = ListNames /\ Others(n)
      /\ Same(n) \/ \E k \in {1, 2} : Inserted(k)
  BY <1>2, SoftNames, KickstartInserts
<1>4. Apart(n)
  BY <1>1 DEF Apart, FillPlace, LeftPlaces, MmuPlaces, CopiedLists
<1>5. CopyInv(n)'
  <2>1. CopyInv(n)
    BY <1>2 DEF EntriesInv
  <2>2. CASE Same(n)
    BY <1>1, <1>2, <2>1, <2>2, CopyStays DEF Same, FillPlace, LeftPlaces
  <2>3. CASE \E k \in {1, 2} : Inserted(k)
    BY <1>1, <1>2, <2>1, <2>3, CopyWithKickstart
  <2> QED BY <1>3, <2>2, <2>3
<1>6. FlagsInv'
  <2>1. sw'.at \in Nat /\ pc \in LeftPlaces("libraries")
    BY <1>1 DEF EntriesInv, FlagsInv, LeftPlaces
  <2> QED BY <1>1, <2>1, FlagsStay DEF EntriesInv
<1>7. HintsInv'
  BY <1>1 DEF HintsInv
<1> QED BY <1>2, <1>3, <1>4, <1>5, <1>6, <1>7, OneList

\* Steps within the list of the MMU.
LEMMA MmuMoves ==
  ASSUME ListsInv, EntriesInv, SoundInv', DOMAIN lists' = ListNames, Others("mmu"),
         pc \in MmuPlaces, pc' \in MmuPlaces, sw'.lost = sw.lost, sw'.flags = sw.flags,
         sw'.at \in Nat, HintsInv'
  PROVE  SoftWhole
<1>1. Apart("mmu")
  BY DEF Apart, FillPlace, LeftPlaces, MmuPlaces, CopiedLists
<1>2. pc \in LeftPlaces("libraries") /\ pc' # "library"
  BY DEF LeftPlaces, MmuPlaces
<1>3. FlagsInv'
  BY <1>2, FlagsStay DEF EntriesInv
<1>4. "mmu" \notin CopiedLists
  BY DEF CopiedLists
<1> QED BY <1>1, <1>3, <1>4, OneList

\* A line that is no hint is added.
LEMMA NoHintAdded ==
  ASSUME ListsInv, SoundInv, NoHints, NEW x, x # "hint", Longer("mmu", x) \/ Same("mmu")
  PROVE  NoHints'
<1>1. Entries("mmu") \in Nat
  BY SoftNames, SoftCount
<1>2. CASE Longer("mmu", x)
  <2>1. \A i \in 1..(Entries("mmu") + 1) : i \in 1..Entries("mmu") \/ i = Entries("mmu") + 1
    BY <1>1
  <2> QED BY <1>2, <2>1 DEF NoHints, Longer, Slot, Entries
<1>3. CASE Same("mmu")
  BY <1>3 DEF NoHints, Same, Slot, Entries
<1> QED BY <1>2, <1>3

LEMMA LineAdded ==
  ASSUME ListsInv, SoundInv, NoHints, NEW x \in MmuItems, x # "hint", NEW memory \in BOOLEAN,
         Add("mmu", x, memory)
  PROVE  SoundInv' /\ DOMAIN lists' = ListNames /\ Others("mmu") /\ NoHints'
<1>1. x # Zero
  BY ZeroAssumption
<1>2. /\ SoundInv' /\ DOMAIN lists' = ListNames /\ Others("mmu")
      /\ Longer("mmu", x) \/ Same("mmu")
  BY <1>1, SoftNames, AddSound
<1> QED BY <1>2, NoHintAdded

\* The lines about the MMU, the hints last and together.
LEMMA MmuSteps ==
  ASSUME ListsInv, SoundInv, EntriesInv,
         \/ MmuPermit
         \/ \E memory \in BOOLEAN : MmuRange(memory) \/ MmuHints(memory)
         \/ \E l \in BOOLEAN, o \in BOOLEAN, m \in BOOLEAN : MmuBegin(l, o, m)
  PROVE  SoftWhole
<1>1. CASE MmuPermit
  <2>1. /\ pc = "mmu permit" /\ pc' = "software done" /\ UNCHANGED <<lists, heap, sw>>
    BY <1>1 DEF MmuPermit, listVars, softwareVars
  <2>2. SoundInv' /\ DOMAIN lists' = ListNames /\ Others("mmu")
    BY <2>1, SoftNames, Unlisted
  <2>3. HintsInv'
    BY <2>1, HintsStay DEF EntriesInv
  <2>4. sw'.at \in Nat
    BY <2>1 DEF EntriesInv, FlagsInv
  <2>5. pc \in MmuPlaces /\ pc' \in MmuPlaces
    BY <2>1 DEF MmuPlaces
  <2> QED BY <2>1, <2>2, <2>3, <2>4, <2>5, MmuMoves
<1>2. ASSUME NEW memory \in BOOLEAN, MmuRange(memory)
      PROVE  SoftWhole
  <2>1. /\ pc = "mapping" /\ pc' = pc /\ Add("mmu", "range", memory)
        /\ sw' = [sw EXCEPT !.at = IF HasRoom("mmu", memory) THEN @ + 1 ELSE Mappings]
    BY <1>2 DEF MmuRange
  <2>2. NoHints /\ sw.at \in Nat
    BY <2>1 DEF EntriesInv, HintsInv, FlagsInv
  <2>3. SoundInv' /\ DOMAIN lists' = ListNames /\ Others("mmu") /\ NoHints'
    BY <2>1, <2>2, LineAdded DEF MmuItems
  <2>4. /\ sw'.lost = sw.lost /\ sw'.flags = sw.flags /\ sw'.at \in {sw.at + 1, Mappings}
    BY <2>1, SoftNames
  <2>5. sw'.at \in Nat
    BY <2>2, <2>4, SoftwareAssumption
  <2>6. HintsInv' /\ pc \in MmuPlaces /\ pc' \in MmuPlaces
    BY <2>1, <2>3 DEF HintsInv, MmuPlaces
  <2> QED BY <2>3, <2>4, <2>5, <2>6, MmuMoves
<1>3. ASSUME NEW memory \in BOOLEAN, MmuHints(memory)
      PROVE  SoftWhole
  <2>1. pc = "mapping" /\ pc' = "mmu permit" /\ sw' = sw
    BY <1>3 DEF MmuHints, softwareVars
  <2>2. NoHints /\ sw'.at \in Nat
    BY <2>1 DEF EntriesInv, HintsInv, FlagsInv
  <2>3. /\ SoundInv' /\ DOMAIN lists' = ListNames /\ Others("mmu")
        /\ Same("mmu") \/ HintsAdded
    BY <1>3, SoftNames, HintsSound
  <2>4. CASE Same("mmu")
    <3>1. HintsInv'
      BY <2>1, <2>4, HintsStay DEF EntriesInv, Same
    <3> QED BY <2>1, <2>2, <2>3, <3>1, MmuMoves DEF MmuPlaces
  <2>5. CASE HintsAdded
    <3> DEFINE c == Entries("mmu")
               now(i) == lists'["mmu"].items[i]
    <3>1. c \in Nat /\ Hints \in Nat
      BY SoftNames, SoftCount, SoftwareAssumption
    <3>2. /\ lists'["mmu"].count = c + Hints
          /\ \A i \in 1..c : now(i) # "hint"
          /\ \A i \in (c + 1)..(c + Hints) : now(i) = "hint"
      BY <2>2, <2>5 DEF HintsAdded, NoHints
    <3> HIDE DEF c, now
    <3>3. {i \in 1..(c + Hints) : now(i) = "hint"} = (c + 1)..(c + Hints)
      <4>1. \A i \in 1..(c + Hints) : i \in 1..c \/ i \in (c + 1)..(c + Hints)
        BY <3>1
      <4>2. \A i \in (c + 1)..(c + Hints) : i \in 1..(c + Hints)
        BY <3>1
      <4> QED BY <3>2, <4>1, <4>2
    <3>4. HintsTogether'
      BY <3>1, <3>2, <3>3 DEF HintsTogether, Slot, Entries, now
    <3>5. HintsInv'
      BY <2>1, <3>4 DEF HintsInv
    <3> QED BY <2>1, <2>2, <2>3, <3>5, MmuMoves DEF MmuPlaces
  <2> QED BY <2>3, <2>4, <2>5
<1>4. ASSUME NEW l \in BOOLEAN, NEW o \in BOOLEAN, NEW m \in BOOLEAN, MmuBegin(l, o, m)
      PROVE  SoftWhole
  <2>1. /\ pc = "mmu entries" /\ pc' \in {"mapping", "mmu permit"} /\ sw' = sw
        /\ \/ UNCHANGED <<lists, heap>>
           \/ Add("mmu", "size", m) \/ Add("mmu", "not loaded", m)
    BY <1>4 DEF MmuBegin, softwareVars
  <2>2. NoHints /\ sw'.at \in Nat
    BY <2>1 DEF EntriesInv, HintsInv, FlagsInv
  <2>3. SoundInv' /\ DOMAIN lists' = ListNames /\ Others("mmu") /\ NoHints'
    <3>1. CASE UNCHANGED <<lists, heap>>
      <4>1. NoHints'
        BY <2>2, <3>1 DEF NoHints, Slot, Entries
      <4> QED BY <3>1, <4>1, SoftNames, Unlisted
    <3>2. CASE Add("mmu", "size", m)
      BY <2>2, <3>2, LineAdded DEF MmuItems
    <3>3. CASE Add("mmu", "not loaded", m)
      BY <2>2, <3>3, LineAdded DEF MmuItems
    <3> QED BY <2>1, <3>1, <3>2, <3>3
  <2>4. HintsInv' /\ pc \in MmuPlaces /\ pc' \in MmuPlaces
    BY <2>1, <2>3 DEF HintsInv, MmuPlaces
  <2> QED BY <2>1, <2>2, <2>3, <2>4, MmuMoves
<1> QED BY <1>1, <1>2, <1>3, <1>4

\* All steps of the software.
LEMMA SoftwareStepWhole ==
  ASSUME ListsInv, SoundInv, EntriesInv, SoftwareStep
  PROVE  SoftWhole
BY ZenonT(60), EarlySteps, BeginSteps, NodeSteps, EndSteps, KickstartStep, MmuSteps
   DEF SoftwareStep
-----------------------------------------------------------------------------
(***************************************************************************)
(* All the lists: a step that fills one of them leaves the others alone.   *)
(***************************************************************************)

\* The parts of the invariant that speak of one list outlast steps that leave it
\* alone at labels where nothing more is said of it.
LEMMA DrivesStay ==
  ASSUME DriveInv, lists'["drives"] = lists["drives"], UNCHANGED <<pc, io, dos, drv>>
  PROVE  DriveInv'
<1>1. DosInv'
  BY DEF DriveInv, DosInv
<1>2. VolumesInv'
  BY DEF DriveInv, VolumesInv, PortsKept, Drives, Drive
<1>3. NamesInv'
  <2>1. Probing' = Probing
    BY DEF Probing, IoPlaces
  <2>2. Drives' = Drives
    BY DEF Drives
  <2>3. /\ InDosOrder => InDosOrder'
        /\ AllOfDos => AllOfDos'
        /\ FoundListed => FoundListed'
        /\ Pruned => Pruned'
    BY ListStays
  <2> QED BY <2>1, <2>2, <2>3 DEF DriveInv, NamesInv, UnsortedPlaces, QueryPlaces
<1>4. ProbesInv'
  <2>1. Probing' = Probing
    BY DEF Probing, IoPlaces
  <2>2. /\ Agree(Before) => Agree(Before)'
        /\ Agree(Drives) => Agree(Drives)'
        /\ ProbedBefore(Before) => ProbedBefore(Before)'
        /\ ProbedBefore(drv.at) => ProbedBefore(drv.at)'
        /\ FirstOfUnit => FirstOfUnit'
    BY ProbesStay
  <2> QED BY <2>1, <2>2 DEF DriveInv, ProbesInv, UnsortedPlaces, QueryPlaces
<1> QED BY <1>1, <1>2, <1>3, <1>4 DEF DriveInv

LEMMA TargetsAside ==
  ASSUME TargetsInv, lists'["scsi"] = lists["scsi"], pc' \notin BusPlaces,
         pc' \in IoPlaces => io'.back = "probed"
  PROVE  TargetsInv'
<1>1. RowsRight' /\ RowsOrdered'
  BY DEF TargetsInv, RowsRight, RightRow, RowsOrdered, Rows, Entry
<1>2. ~Asking("scsi answer")' /\ ~Asking("scsi row")'
  BY DEF Asking
<1> QED BY <1>1, <1>2 DEF TargetsInv, Inside, BusPlaces

LEMMA TargetsStay ==
  ASSUME TargetsInv, lists'["scsi"] = lists["scsi"], UNCHANGED <<pc, io, target>>
  PROVE  TargetsInv'
<1>1. SameRows
  BY DEF SameRows, Rows, Entry
<1>2. /\ RowsRight' /\ RowsOrdered'
      /\ \A t : Below(t) => Below(t)'
  BY <1>1, RowsSame DEF TargetsInv
<1>3. target' = target
  OBVIOUS
<1>4. /\ Asking("scsi answer")' = Asking("scsi answer")
      /\ Asking("scsi row")' = Asking("scsi row")
      /\ Begun => Begun'
      /\ Below(target) => Below(target)'
      /\ Below(target + 1) => Below(target + 1)'
  BY <1>2, <1>3 DEF Asking, Begun, Rows, Entry, UnitOf, IoPlaces, Below
<1>5. UnitOf(target)' = UnitOf(target)
  BY <1>3 DEF UnitOf
<1> QED BY <1>2, <1>4, <1>5 DEF TargetsInv, Inside

LEMMA RegionsAside ==
  ASSUME RegionsInv, lists'["memory"] = lists["memory"], heap'["memory"] = heap["memory"],
         UNCHANGED memoryVars, pc \notin {"regions", "scan regions"},
         pc' \notin {"regions", "scan regions", "timed", "publish"}
  PROVE  RegionsInv'
<1>1. exec' = exec /\ reg' = reg
  BY DEF memoryVars
<1>2. ExecInv' /\ RegionsRight'
  BY <1>1 DEF RegionsInv, ExecInv, RegionsRight, RightRegion, Headers, Region
<1>3. RoomInv'
  BY <1>1 DEF RegionsInv, RoomInv, Headers
<1> QED BY <1>2, <1>3 DEF RegionsInv

LEMMA RegionsUnchanged ==
  ASSUME RegionsInv, lists'["memory"] = lists["memory"], heap'["memory"] = heap["memory"],
         UNCHANGED <<pc, exec, reg>>
  PROVE  RegionsInv'
BY DEF RegionsInv, ExecInv, RegionsRight, RightRegion, RoomInv, Headers, Region

LEMMA BoardsAside ==
  ASSUME BoardsInv, lists'["boards"] = lists["boards"], board' = board,
         pc' \notin {"zorro", "raw", "pci", "boards done"}
  PROVE  BoardsInv'
<1>1. SameBoards
  BY DEF SameBoards, Boards, Board
<1>2. BoardInv' /\ BoardsRight' /\ BoardsOrdered'
  BY <1>1, BoardsSame DEF BoardsInv, BoardInv
<1>3. ProgressInv'
  BY DEF ProgressInv
<1> QED BY <1>2, <1>3 DEF BoardsInv

LEMMA BoardsStay ==
  ASSUME BoardsInv, lists'["boards"] = lists["boards"], UNCHANGED <<pc, board>>
  PROVE  BoardsInv'
<1>1. SameBoards
  BY DEF SameBoards, Boards, Board
<1>2. /\ BoardInv' /\ BoardsRight' /\ BoardsOrdered'
      /\ \A m : FoundUpTo(m) => FoundUpTo(m)'
      /\ Full => Full'
  BY <1>1, BoardsSame DEF BoardsInv, BoardInv
<1>3. FoundUpTo(board.at) => FoundUpTo(board.at)'
  BY <1>2 DEF FoundUpTo
<1>4. (CardsOnly => CardsOnly') /\ (PciUpTo => PciUpTo')
  BY <1>1 DEF CardsOnly, PciUpTo, SameBoards
<1>5. ProgressInv'
  BY <1>2, <1>3, <1>4 DEF BoardsInv, ProgressInv
<1> QED BY <1>2, <1>5 DEF BoardsInv

\* The lists of the software are those they were.
SameSoftware == \A n \in CopiedLists \cup {"mmu"} : lists'[n] = lists[n]

LEMMA EntriesAside ==
  ASSUME EntriesInv, sw'.at = sw.at, sw'.flags = sw.flags,
         pc' \notin {"library", "kickstart", "devices", "device", "resources", "resource"}
                      \cup MmuPlaces
  PROVE  EntriesInv'
<1>1. \A n \in CopiedLists : pc' # FillPlace(n) /\ pc' \notin LeftPlaces(n)
  BY DEF LeftPlaces, FillPlace, MmuPlaces, CopiedLists
<1>2. \A n \in CopiedLists : CopyInv(n)'
  BY <1>1 DEF CopyInv
<1>3. FlagsInv'
  <2>1. pc' # "library" /\ pc' \notin LeftPlaces("libraries")
    BY DEF LeftPlaces
  <2> QED BY <2>1 DEF FlagsInv, EntriesInv
<1>4. HintsInv'
  BY DEF HintsInv, MmuPlaces
<1> QED BY <1>2, <1>3, <1>4 DEF EntriesInv

LEMMA EntriesStay ==
  ASSUME EntriesInv, SameSoftware, UNCHANGED <<pc, sw>>
  PROVE  EntriesInv'
<1>1. ASSUME NEW n \in CopiedLists
      PROVE  CopyInv(n)'
  <2>1. lists'[n] = lists[n] /\ CopyInv(n)
    BY DEF SameSoftware, EntriesInv
  <2>2. /\ FromExec(n)' = FromExec(n) /\ Sorted(n)' = Sorted(n)
        /\ ListedTo(n, sw.at)' = ListedTo(n, sw.at)
        /\ ListedTo(n, Len(ExecNodes[n]))' = ListedTo(n, Len(ExecNodes[n]))
    BY <2>1 DEF FromExec, Sorted, ListedTo, Slot, Entries
  <2> QED BY <2>1, <2>2 DEF CopyInv
<1>2. FlagsInv'
  BY DEF EntriesInv, FlagsInv, Telling
<1>3. HintsInv'
  <2>1. lists'["mmu"] = lists["mmu"] /\ HintsInv
    BY DEF SameSoftware, EntriesInv
  <2> QED BY <2>1, HintsStay
<1> QED BY <1>1, <1>2, <1>3 DEF EntriesInv
-----------------------------------------------------------------------------
\* What the lists hold, whichever of them is being filled.
ContentInv ==
  /\ SoundInv /\ IoInv /\ DriveInv /\ TargetsInv /\ RegionsInv /\ BoardsInv /\ EntriesInv

LEMMA ScsiContent ==
  ASSUME ListsInv, ContentInv, ScsiStep, UNCHANGED <<driveVars, memoryVars, board, softwareVars>>
  PROVE  ContentInv'
<1>1. /\ SoundInv' /\ DOMAIN lists' = ListNames /\ Others("scsi") /\ IoInv' /\ TargetsInv'
  BY ScsiStepWhole DEF ContentInv, ScsiWhole
<1>2. IoMoves
  BY ScsiMoves DEF ListsInv
<1>3. /\ \A n \in {"drives", "memory", "boards", "libraries", "devices", "resources", "mmu"} :
           lists'[n] = lists[n] /\ heap'[n] = heap[n]
  BY <1>1, Names DEF Others
<1>4. DriveInv'
  <2>1. CASE pc' = "probed" \/ (pc' \in IoPlaces /\ io'.back = "probed")
    <3>1. pc \in IoPlaces /\ io.back = "probed"
      BY <1>2, <2>1 DEF IoMoves, ScsiPlaces, BusPlaces, IoPlaces
    <3>2. Probing /\ pc # "probe" /\ Probing' /\ pc' # "probe"
      BY <2>1, <3>1 DEF Probing, IoPlaces
    <3>3. pc' \notin {"scan lock", "scan", "drives done"} \cup UnsortedPlaces \cup QueryPlaces
      BY <2>1 DEF IoPlaces, UnsortedPlaces, QueryPlaces
    <3> QED BY <1>3, <3>2, <3>3, DrivesDuring DEF ContentInv
  <2>2. CASE ~(pc' = "probed" \/ (pc' \in IoPlaces /\ io'.back = "probed"))
    <3>1. pc' \notin {"scan lock", "scan", "probe", "probed", "drives done"}
                       \cup UnsortedPlaces \cup QueryPlaces
      BY <1>2, <2>2 DEF IoMoves, ScsiPlaces, BusPlaces, IoPlaces, UnsortedPlaces, QueryPlaces
    <3> QED BY <1>3, <2>2, <3>1, DrivesAside DEF ContentInv
  <2> QED BY <2>1, <2>2
<1>5. /\ pc \in ScsiPlaces \cup IoPlaces /\ pc' \in ScsiPlaces \cup IoPlaces \cup {"probed"}
  BY <1>2 DEF IoMoves
<1>6. RegionsInv'
  BY <1>3, <1>5, RegionsAside DEF ContentInv, ScsiPlaces, BusPlaces, IoPlaces
<1>7. BoardsInv'
  BY <1>3, <1>5, BoardsAside DEF ContentInv, ScsiPlaces, BusPlaces, IoPlaces
<1>8. EntriesInv'
  BY <1>5, EntriesAside DEF ContentInv, ScsiPlaces, BusPlaces, IoPlaces, MmuPlaces, softwareVars
<1> QED BY <1>1, <1>4, <1>6, <1>7, <1>8 DEF ContentInv

\* The drives ask no target; a probe begins with no answer.
LEMMA DriveIo ==
  ASSUME DriveStep, io.result \in BOOLEAN
  PROVE  target' = target /\ io'.result \in BOOLEAN
<1> USE DEF ioVars
<1>1. CASE \/ DrivesBegin \/ ScanLock \/ ScanUnlock \/ PortsLock \/ PortsRead \/ VolumesLock
           \/ VolumeMatched \/ VolumesUnlock \/ QueryDrive \/ QueryEnd \/ PruneAndSort
           \/ Probed \/ DrivesEnd
  BY <1>1 DEF DrivesBegin, ScanLock, ScanUnlock, PortsLock, PortsRead, VolumesLock,
     VolumeMatched, VolumesUnlock, QueryDrive, QueryEnd, PruneAndSort, Probed, DrivesEnd
<1>2. CASE ProbeDrive
  BY <1>2 DEF ProbeDrive, check_scsi_direct_support, Command, NoIO
<1>3. ASSUME NEW ok \in BOOLEAN, Scan(ok) \/ Query(ok) \/ QueryLock(ok)
      PROVE  target' = target /\ io' = io
  BY <1>3 DEF Scan, Query, QueryLock
<1>4. ASSUME NEW ok \in BOOLEAN, NEW named \in BOOLEAN,
             NEW state \in {"ok", "write protected", "unknown"}, QueryInfo(ok, state, named)
      PROVE  target' = target /\ io' = io
  BY <1>4 DEF QueryInfo
<1> QED BY ZenonT(60), <1>1, <1>2, <1>3, <1>4 DEF DriveStep

\* The steps of each list keep what all the lists hold.
LEMMA DriveContent ==
  ASSUME ListsInv, ContentInv, DriveStep, UNCHANGED <<memoryVars, board, softwareVars>>
  PROVE  ContentInv'
<1>1. SoundInv' /\ DOMAIN lists' = ListNames /\ Others("drives") /\ DriveInv'
  BY DriveStepWhole DEF ContentInv, IoInv, DriveWhole
<1>2. /\ pc \in DrivePlaces /\ pc' \in DrivePlaces \cup {"io port"}
      /\ pc' = "io port" => io'.back = "probed"
  BY DriveMoving DEF ListsInv, DriveMoves
<1>3. \A n \in {"scsi", "memory", "boards", "libraries", "devices", "resources", "mmu"} :
        lists'[n] = lists[n] /\ heap'[n] = heap[n]
  BY <1>1, Names DEF Others
<1>4. IoInv'
  BY DriveIo DEF ContentInv, IoInv
<1> USE DEF DrivePlaces, DosPlaces
<1>5. TargetsInv'
  BY <1>2, <1>3, TargetsAside DEF ContentInv, BusPlaces, IoPlaces
<1>6. RegionsInv'
  BY <1>2, <1>3, RegionsAside DEF ContentInv
<1>7. BoardsInv'
  BY <1>2, <1>3, BoardsAside DEF ContentInv
<1>8. EntriesInv'
  BY <1>2, EntriesAside DEF ContentInv, MmuPlaces, softwareVars
<1> QED BY <1>1, <1>4, <1>5, <1>6, <1>7, <1>8 DEF ContentInv

LEMMA MemoryContent ==
  ASSUME ListsInv, ContentInv, MemoryStep, UNCHANGED <<ioVars, driveVars, board, softwareVars>>
  PROVE  ContentInv'
<1>1. SoundInv' /\ DOMAIN lists' = ListNames /\ Others("memory") /\ RegionsInv'
  BY MemoryStepWhole DEF ContentInv, MemoryWhole
<1>2. pc' \in {"regions", "scan regions", "timed", "publish", "memory done"}
  <2>1. RegionMoves
    BY RegionMoving DEF ListsInv
  <2> QED BY <2>1 DEF RegionMoves, CountPlaces, RegionPlaces, SpeedPlaces
<1>3. \A n \in {"drives", "scsi", "boards", "libraries", "devices", "resources", "mmu"} :
        lists'[n] = lists[n] /\ heap'[n] = heap[n]
  BY <1>1, Names DEF Others
<1>4. DriveInv'
  <2>1. pc' \notin {"scan lock", "scan", "probe", "probed", "drives done"}
                     \cup UnsortedPlaces \cup QueryPlaces
    BY <1>2 DEF UnsortedPlaces, QueryPlaces
  <2> QED BY <1>2, <1>3, <2>1, DrivesAside DEF ContentInv, IoPlaces
<1>5. IoInv' /\ TargetsInv'
  <2>1. pc' \notin BusPlaces /\ pc' \notin IoPlaces
    BY <1>2 DEF BusPlaces, IoPlaces
  <2> QED BY <1>3, <2>1, TargetsAside DEF ContentInv, IoInv, ioVars
<1>6. BoardsInv'
  BY <1>2, <1>3, BoardsAside DEF ContentInv
<1>7. EntriesInv'
  BY <1>2, EntriesAside DEF ContentInv, MmuPlaces, softwareVars
<1> QED BY <1>1, <1>4, <1>5, <1>6, <1>7 DEF ContentInv

LEMMA BoardContent ==
  ASSUME ListsInv, ContentInv, BoardStep, UNCHANGED <<ioVars, driveVars, memoryVars, softwareVars>>
  PROVE  ContentInv'
<1>1. SoundInv' /\ DOMAIN lists' = ListNames /\ Others("boards") /\ BoardsInv'
  BY BoardStepWhole DEF ContentInv, BoardWhole
<1>2. pc \in BoardPlaces /\ pc' \in BoardPlaces
  BY BoardMoving DEF ListsInv, BoardMoves
<1>3. \A n \in {"drives", "scsi", "memory", "libraries", "devices", "resources", "mmu"} :
        lists'[n] = lists[n] /\ heap'[n] = heap[n]
  BY <1>1, Names DEF Others
<1>4. DriveInv'
  <2>1. pc' \notin {"scan lock", "scan", "probe", "probed", "drives done"}
                     \cup UnsortedPlaces \cup QueryPlaces
    BY <1>2 DEF UnsortedPlaces, QueryPlaces, BoardPlaces
  <2>2. pc' \notin IoPlaces
    BY <1>2 DEF BoardPlaces, IoPlaces
  <2> QED BY <1>3, <2>1, <2>2, DrivesAside DEF ContentInv
<1>5. IoInv' /\ TargetsInv'
  <2>1. pc' \notin BusPlaces /\ pc' \notin IoPlaces
    BY <1>2 DEF BusPlaces, IoPlaces, BoardPlaces
  <2> QED BY <1>3, <2>1, TargetsAside DEF ContentInv, IoInv, ioVars
<1>6. RegionsInv'
  BY <1>2, <1>3, RegionsAside DEF ContentInv, BoardPlaces
<1>7. EntriesInv'
  BY <1>2, EntriesAside DEF ContentInv, MmuPlaces, softwareVars, BoardPlaces
<1> QED BY <1>1, <1>4, <1>5, <1>6, <1>7 DEF ContentInv

LEMMA SoftwareLabels ==
  ASSUME SoftwareStep
  PROVE  pc \in SoftwarePlaces
BY DEF SoftwareStep, SystemSoftware, PicassoEnd, ProgramsCopied, ReadyCopied,
   WaitingCopied, SegmentsRead, ProgramsDisable, ProgramsEnable, StackPermit, MmuPermit, LibsHandler,
   InstalledEnd, LibrariesBegin, DevicesBegin, ResourcesBegin, MmuReset, SoftwareBegin,
   LibrariesEnd, DevicesEnd, ResourcesEnd, SoftwareEnd, GraphicsSystem, PicassoOpen,
   PicassoRead, FindStack, InstalledBegin, LibsNext, LibsFloppy, FileOpen, FileRead,
   LibraryNode, DeviceNode, ResourceNode, SoftwareNode, MmuRange, MmuHints,
   KickstartEntries, MmuBegin, SoftwarePlaces, ProgramPlaces, LibsPlaces, FilePlaces, NodePlaces

LEMMA SoftwareContent ==
  ASSUME ListsInv, ContentInv, SoftwareStep,
         UNCHANGED <<ioVars, driveVars, memoryVars, board>>
  PROVE  ContentInv'
<1>1. SoundInv' /\ DOMAIN lists' = ListNames /\ OnlySoftware /\ EntriesInv'
  BY SoftwareStepWhole DEF ContentInv, SoftWhole
<1>2. pc \in SoftwarePlaces /\ pc' \in SoftwarePlaces
  <2>1. pc \in SoftwarePlaces
    BY SoftwareLabels
  <2>2. mui.open = FALSE
    BY <2>1 DEF ListsInv, WindowInv, SoftwarePlaces, WindowPlaces, SharedPlaces, IoPlaces,
       ScsiPlaces, BusPlaces, RegionPlaces, SpeedPlaces, ProgramPlaces, LibsPlaces, FilePlaces,
       NodePlaces, ReportPlaces, SavePlaces
  <2>3. SoftwareMasks
    BY <2>1, <2>2 DEF ListsInv, MaskInv, Forbidden, SoftwareMasks, Watched, Copying,
       SoftwarePlaces, ProgramPlaces, LibsPlaces, FilePlaces, NodePlaces, DosPlaces, SpeedPlaces
  <2> QED BY <2>3, SoftwareMoving DEF ListsInv, FieldsInv, SoftwareMoves
<1>3. \A n \in {"drives", "scsi", "memory", "boards"} :
        lists'[n] = lists[n] /\ heap'[n] = heap[n]
  BY <1>1, Names DEF OnlySoftware, CopiedLists
<1> USE DEF SoftwarePlaces, ProgramPlaces, LibsPlaces, FilePlaces, NodePlaces
<1>4. DriveInv'
  <2>1. pc' \notin {"scan lock", "scan", "probe", "probed", "drives done"}
                     \cup UnsortedPlaces \cup QueryPlaces
    BY <1>2 DEF UnsortedPlaces, QueryPlaces
  <2>2. pc' \notin IoPlaces
    BY <1>2 DEF IoPlaces
  <2> QED BY <1>3, <2>1, <2>2, DrivesAside DEF ContentInv
<1>5. IoInv' /\ TargetsInv'
  <2>1. pc' \notin BusPlaces /\ pc' \notin IoPlaces
    BY <1>2 DEF BusPlaces, IoPlaces
  <2> QED BY <1>3, <2>1, TargetsAside DEF ContentInv, IoInv, ioVars
<1>6. RegionsInv'
  BY <1>2, <1>3, RegionsAside DEF ContentInv
<1>7. BoardsInv'
  BY <1>2, <1>3, BoardsAside DEF ContentInv
<1> QED BY <1>1, <1>4, <1>5, <1>6, <1>7 DEF ContentInv

\* Calls, returns and the interface fill no list.
LEMMA AllAside ==
  ASSUME ListsInv, ContentInv,
         UNCHANGED <<lists, heap, io, target, dos, drv, exec, reg, board, sw>>,
         pc \notin {"regions", "scan regions"},
         pc' \in {"idle"} \cup Calls \cup MuiPlaces
  PROVE  ContentInv'
<1>1. SoundInv' /\ IoInv'
  BY DEF ContentInv, SoundInv, IoInv
<1>2. pc' \notin {"scan lock", "scan", "probe", "probed", "drives done", "zorro", "raw", "pci",
                  "boards done", "regions", "scan regions", "timed", "publish", "library",
                  "kickstart", "devices", "device", "resources", "resource"}
                    \cup UnsortedPlaces \cup QueryPlaces \cup MmuPlaces
                    \cup IoPlaces \cup BusPlaces
  BY DEF Calls, MuiPlaces, FramePlaces, WindowPlaces, ReportPlaces, SavePlaces, UnsortedPlaces,
     QueryPlaces, MmuPlaces, IoPlaces, BusPlaces
<1>3. DriveInv'
  BY <1>2, DrivesAside DEF ContentInv, driveVars
<1>4. TargetsInv'
  BY <1>2, TargetsAside DEF ContentInv
<1>5. RegionsInv'
  BY <1>2, RegionsAside DEF ContentInv, memoryVars
<1>6. BoardsInv'
  BY <1>2, BoardsAside DEF ContentInv
<1>7. EntriesInv'
  BY <1>2, EntriesAside DEF ContentInv
<1> QED BY <1>1, <1>3, <1>4, <1>5, <1>6, <1>7 DEF ContentInv

\* The interface changes none of what the lists are made of.
LEMMA MuiLeaves ==
  ASSUME NEW a \in BOOLEAN, NEW b \in BOOLEAN,
         NEW what \in {"benchmarks", "memory", "drive"}, MuiAction(a, b, what)
  PROVE  UNCHANGED <<lists, heap, io, target, exec, reg, sw>>
<1> USE DEF Other, ioVars, softwareVars, memoryVars
<1>1. CASE FillLists \/ IdValues \/ IdSoftware \/ IdMemory
  BY <1>1 DEF FillLists, IdValues, IdSoftware, IdMemory
<1>2. CASE Measured \/ Selected \/ IdDrive \/ DriveChecked
  BY <1>2 DEF Measured, Selected, IdDrive, DriveChecked
<1>3. CASE IdScsi \/ ScsiShown
  BY <1>3 DEF IdScsi, ScsiShown
<1>4. CASE IdReport \/ IdReportFormat \/ FreeReport \/ IdReportClose
  BY <1>4 DEF IdReport, IdReportFormat, FreeReport, IdReportClose
<1>5. CASE SaveLines \/ ReportSaved \/ IdQuit \/ CleanupClock \/ TurnPage
  BY <1>5 DEF SaveLines, ReportSaved, IdQuit, CleanupClock, TurnPage
<1>6. CASE DisposeApplication \/ DisposeRest
  BY <1>6 DEF DisposeApplication, DisposeRest
<1>7. CASE IdMeasure(what) \/ OpenMui(a) \/ OpenMain(a) \/ MuiWait(a) \/ IdReportSave(a)
  BY <1>7 DEF IdMeasure, OpenMui, OpenMain, MuiWait, IdReportSave
<1>8. CASE CreateReport(a) \/ InsertReport(a) \/ OpenReport(a)
  BY <1>8 DEF CreateReport, InsertReport, OpenReport
<1>9. CASE CreateApplication(a, b) \/ SaveRequest(a, b)
  BY <1>9 DEF CreateApplication, SaveRequest
<1> QED BY <1>1, <1>2, <1>3, <1>4, <1>5, <1>6, <1>7, <1>8, <1>9 DEF MuiAction

LEMMA MuiContent ==
  ASSUME ListsInv, ContentInv, MuiStep \/ TurnPage, UNCHANGED <<driveVars, board>>
  PROVE  ContentInv'
<1>1. PICK a \in BOOLEAN, b \in BOOLEAN, what \in {"benchmarks", "memory", "drive"} :
        MuiAction(a, b, what)
  BY MuiActs
<1>2. UNCHANGED <<lists, heap, io, target, exec, reg, sw>>
  BY <1>1, MuiLeaves
<1>3. MuiMoves
  BY <1>1, MuiMoving DEF ListsInv
<1>4. /\ pc \notin {"regions", "scan regions"}
      /\ pc' \in {"idle"} \cup Calls \cup MuiPlaces
  BY <1>3 DEF MuiMoves, Calls, MuiPlaces, FramePlaces, WindowPlaces, ReportPlaces, SavePlaces
<1> QED BY <1>2, <1>4, AllAside DEF driveVars

LEMMA CallContent ==
  ASSUME ListsInv, ContentInv, Call \/ Return
  PROVE  ContentInv'
<1>1. /\ UNCHANGED <<lists, heap, io, target, dos, drv, exec, reg, board, sw>>
      /\ pc \in {"idle"} \cup Finished
  BY DEF Call, Return, listVars, ioVars, driveVars, memoryVars, softwareVars
<1>2. pc' \in {"idle"} \cup Calls
  <2>1. CASE Call
    <3>1. todo \in Seq(Calls) /\ todo # <<>> /\ pc' = Head(todo)
      BY <2>1 DEF Call, ListsInv, TodoInv
    <3> QED BY <3>1
  <2>2. CASE Return
    BY <2>2 DEF Return
  <2> QED BY <2>1, <2>2
<1>3. pc \notin {"regions", "scan regions"}
  BY <1>1 DEF Finished
<1> QED BY <1>1, <1>2, <1>3, AllAside

\* A step of another task or of none, but for what it changes.
LEMMA StaysContent ==
  ASSUME ListsInv, ContentInv, UNCHANGED <<pc, lists, heap, io, target, drv, reg, board, sw>>
  PROVE  /\ SoundInv' /\ IoInv' /\ TargetsInv' /\ BoardsInv' /\ EntriesInv'
         /\ dos' = dos => DriveInv'
         /\ exec' = exec => RegionsInv'
<1>1. SoundInv' /\ IoInv'
  BY DEF ContentInv, SoundInv, IoInv
<1>2. TargetsInv' /\ BoardsInv' /\ EntriesInv'
  BY TargetsStay, BoardsStay, EntriesStay DEF ContentInv, SameSoftware
<1>3. dos' = dos => DriveInv'
  BY DrivesStay DEF ContentInv
<1>4. exec' = exec => RegionsInv'
  BY RegionsUnchanged DEF ContentInv
<1> QED BY <1>1, <1>2, <1>3, <1>4

LEMMA EnvironmentContent ==
  ASSUME ListsInv, ContentInv, Environment
  PROVE  ContentInv'
<1>1. CASE DosChanges /\ UNCHANGED <<memoryVars, board, softwareVars, muiVars, todo>>
  <2>1. UNCHANGED <<pc, lists, heap, io, target, drv, exec, reg, board, sw>>
    BY <1>1 DEF DosChanges, listVars, ioVars, memoryVars, softwareVars
  <2>2. DriveInv'
    BY <1>1, DosChangesWhole DEF ContentInv, DriveWhole
  <2> QED BY <2>1, <2>2, StaysContent DEF ContentInv
<1>2. CASE ~mui.open /\ MemoryChanges
             /\ UNCHANGED <<ioVars, driveVars, board, softwareVars, muiVars, todo>>
  <2>1. UNCHANGED <<pc, lists, heap, io, target, dos, drv, reg, board, sw>>
    BY <1>2 DEF MemoryChanges, listVars, ioVars, driveVars, softwareVars
  <2>2. RegionsInv'
    BY <1>2, MemoryChangesWhole DEF ContentInv
  <2> QED BY <2>1, <2>2, StaysContent DEF ContentInv
<1>3. CASE StackChanges /\ UNCHANGED <<ioVars, driveVars, memoryVars, board, muiVars, todo>>
  <2>1. UNCHANGED <<pc, lists, heap, io, target, dos, drv, exec, reg, board, sw>>
    BY <1>3 DEF StackChanges, listVars, ioVars, driveVars, memoryVars
  <2> QED BY <2>1, StaysContent DEF ContentInv
<1> QED BY <1>1, <1>2, <1>3 DEF Environment

\* Every step keeps it.
LEMMA ContentStep ==
  ASSUME ListsInv, ContentInv, [Next]_vars
  PROVE  ContentInv'
<1>1. CASE Environment
  BY <1>1, EnvironmentContent
<1>2. CASE Program
  <2>1. CASE Call \/ Return
    BY <2>1, CallContent
  <2>2. CASE ScsiStep /\ UNCHANGED <<driveVars, memoryVars, board, softwareVars, muiVars, todo>>
    BY <2>2, ScsiContent
  <2>3. CASE DriveStep /\ UNCHANGED <<memoryVars, board, softwareVars, muiVars, todo>>
    BY <2>3, DriveContent
  <2>4. CASE MemoryStep /\ UNCHANGED <<ioVars, driveVars, board, softwareVars, muiVars, todo>>
    BY <2>4, MemoryContent
  <2>5. CASE BoardStep
               /\ UNCHANGED <<ioVars, driveVars, memoryVars, softwareVars, muiVars, todo>>
    BY <2>5, BoardContent
  <2>6. CASE SoftwareStep /\ UNCHANGED <<ioVars, driveVars, memoryVars, board, muiVars, todo>>
    BY <2>6, SoftwareContent
  <2>7. CASE (MuiStep \/ TurnPage) /\ UNCHANGED <<driveVars, board, todo>>
    BY <2>7, MuiContent
  <2> QED BY <1>2, <2>1, <2>2, <2>3, <2>4, <2>5, <2>6, <2>7 DEF Program
<1>3. CASE UNCHANGED vars
  <2>1. UNCHANGED <<pc, lists, heap, io, target, dos, drv, exec, reg, board, sw>>
    BY <1>3 DEF vars, listVars, ioVars, driveVars, memoryVars, softwareVars
  <2> QED BY <2>1, StaysContent DEF ContentInv
<1> QED BY <1>1, <1>2, <1>3 DEF Next

\* The entries in use are the first of the block.
LEMMA InUse ==
  ASSUME NEW l, NEW max, Whole(l, max)
  PROVE  LET used == SubSeq(l.items, 1, l.count)
         IN  DOMAIN used = 1..l.count /\ \A i \in 1..l.count : used[i] = l.items[i]
<1> DEFINE all == {l.items[i] : i \in 1..l.capacity}
<1>1. l.count \in Nat /\ l.capacity \in Nat /\ l.count <= l.capacity
  BY DEF Whole
<1>2. l.items = [i \in 1..l.capacity |-> l.items[i]]
  BY DEF Whole
<1>3. l.items \in Seq(all)
  BY <1>1, <1>2
<1>4. Len(l.items) = l.capacity
  BY <1>1, <1>2, BlockLength
<1> HIDE DEF all
<1> QED BY <1>1, <1>3, <1>4
-----------------------------------------------------------------------------
(***************************************************************************)
(* How the lists begin, and what follows from what they hold.              *)
(***************************************************************************)

\* The lists as main finds them when the interfaces ask for them again.
Start(s) ==
  /\ s \in Scenarios /\ GrowInit(s.lists)
  /\ DriveInit(s.order, s.modern, s.changes) /\ MemoryInit(s.exec)

\* The lists filled before are such as the program fills them.
LEMMA SoundStart ==
  ASSUME NEW s, Start(s)
  PROVE  SoundInv /\ lists = s.lists /\ "drives" \in ListNames /\ "scsi" \in ListNames
           /\ "memory" \in ListNames /\ "boards" \in ListNames
<1>1. lists = s.lists /\ heap = [n \in ListNames |-> s.lists[n].capacity]
  BY DEF Start, GrowInit
<1>2. \A n \in ListNames : Whole(s.lists[n], MaxItems[n])
  BY ScenariosAssumption DEF Start
<1> QED BY <1>1, <1>2, Names DEF SoundInv

LEMMA DrivesStart ==
  ASSUME NEW s, Start(s), pc = "idle"
  PROVE  DriveInv
<1> DEFINE used == SubSeq(s.lists["drives"].items, 1, s.lists["drives"].count)
<1>1. /\ SoundInv /\ lists = s.lists /\ "drives" \in ListNames
  BY SoundStart
<1>2. /\ dos.order = s.order /\ dos.port = [d \in DOMAIN Nodes |-> 0]
      /\ dos.vol = [d \in DOMAIN Nodes |-> -1]
      /\ drv.at = 0 /\ drv.probed = <<>>
  BY DEF Start, DriveInit
<1>3. s.order \in Seq(DOMAIN Nodes) /\ IsInjective(s.order)
  BY ScenariosAssumption DEF Start
<1>4. \A d \in Range(used) : OfItsNode(d) /\ d.volume \in {0, d.name}
  BY FilledAssumption DEF Start
<1>5. \A i \in 1..Drives : OfItsNode(Drive(i)) /\ Drive(i).volume \in {0, Drive(i).name}
  <2>1. Whole(lists["drives"], MaxItems["drives"])
    BY <1>1 DEF SoundInv
  <2>2. DOMAIN used = 1..Drives /\ \A i \in 1..Drives : used[i] = Drive(i)
    BY <1>1, <2>1, InUse DEF Drives, Drive
  <2> HIDE DEF used
  <2>3. \A i \in 1..Drives : Drive(i) \in Range(used)
    BY <2>2 DEF Range
  <2> QED BY <1>4, <2>3
<1> HIDE DEF used
<1>6. DosInv
  BY <1>2, <1>3 DEF DosInv
<1>7. VolumesInv
  BY <1>5 DEF VolumesInv
<1>8. NamesInv
  BY <1>2 DEF NamesInv, Probing, IoPlaces, UnsortedPlaces, QueryPlaces
<1>9. ProbesInv
  <2>1. drv.probed \in Seq(Nat \X Nat) /\ IsInjective(drv.probed)
    BY <1>2 DEF IsInjective
  <2> QED BY <2>1 DEF ProbesInv, Probing, IoPlaces, UnsortedPlaces, QueryPlaces
<1> QED BY <1>6, <1>7, <1>8, <1>9 DEF DriveInv

LEMMA TargetsStart ==
  ASSUME NEW s, Start(s), pc = "idle", IOInit
  PROVE  IoInv /\ TargetsInv
<1>1. Rows = 0
  BY SoundStart, FilledAssumption DEF Start, Rows
<1>2. target \in Nat /\ io.result \in BOOLEAN
  BY DEF IOInit, NoIO
<1> QED BY <1>1, <1>2 DEF IoInv, TargetsInv, RowsRight, RowsOrdered, Inside, Asking, IoPlaces

LEMMA RegionsStart ==
  ASSUME NEW s, Start(s), pc = "idle"
  PROVE  RegionsInv
<1>1. lists = s.lists /\ "memory" \in ListNames
  BY SoundStart
<1>2. /\ exec = s.exec
      /\ reg = [total |-> Headers, headers |-> 0, index |-> 0, buffer |-> 0, published |-> 0]
  BY DEF Start, MemoryInit, Headers
<1>3. s.exec \in Seq(Seq(Int)) /\ Headers \in Nat
  BY <1>1, ScenariosAssumption DEF Start, Headers, Whole
<1>4. /\ Headers <= Len(s.exec)
      /\ \A i \in 1..Headers :
           /\ Region(i) \in RegionItems /\ Region(i).header = i
           /\ Region(i).own = lists["memory"].capacity
  BY <1>1, FilledAssumption DEF Start, Headers, Region
<1>5. heap["memory"] = lists["memory"].capacity
  BY <1>1, SoundStart DEF SoundInv
<1>6. MaxItems["memory"] \in Nat /\ Len(s.exec) \in Nat
  BY <1>1, <1>3, GrowAssumption
<1>7. ExecInv
  BY <1>2, <1>3, <1>4, <1>6 DEF ExecInv
<1>8. RegionsRight
  BY <1>4, <1>5 DEF RegionsRight, RightRegion
<1>9. RoomInv
  BY <1>2, <1>3 DEF RoomInv
<1> QED BY <1>7, <1>8, <1>9 DEF RegionsInv

LEMMA BoardsStart ==
  ASSUME NEW s, Start(s), pc = "idle", BoardInit
  PROVE  BoardsInv
<1> DEFINE used == SubSeq(s.lists["boards"].items, 1, s.lists["boards"].count)
<1>1. lists = s.lists /\ "boards" \in ListNames /\ SoundInv
  BY SoundStart
<1>2. used \in Seq(BoardItems) /\ InOrder(used, FALSE)
  BY FilledAssumption DEF Start
<1>3. DOMAIN used = 1..Boards /\ \A i \in 1..Boards : used[i] = Board(i)
  <2>1. Whole(lists["boards"], MaxItems["boards"])
    BY <1>1 DEF SoundInv
  <2> QED BY <1>1, <2>1, InUse DEF Boards, Board
<1> HIDE DEF used
<1>4. board.identify = FALSE
  BY DEF BoardInit
<1>5. \A i \in 1..Boards : Board(i) \in BoardItems
  <2>1. \A i \in DOMAIN used : used[i] \in BoardItems
    BY <1>2
  <2> QED BY <1>3, <2>1
<1>6. BoardsRight
  BY <1>2, <1>3, <1>4, <1>5 DEF BoardsRight, RightBoard, InOrder
<1>7. BoardsOrdered
  BY <1>2, <1>3 DEF BoardsOrdered, Precedes, InOrder
<1>8. BoardInv
  BY BoardAssumption DEF BoardInit, BoardInv
<1>9. ProgressInv
  BY DEF ProgressInv
<1> QED BY <1>6, <1>7, <1>8, <1>9 DEF BoardsInv

LEMMA EntriesStart ==
  ASSUME pc = "idle", SoftwareInit
  PROVE  EntriesInv
BY DEF SoftwareInit, EntriesInv, CopyInv, FillPlace, LeftPlaces, MmuPlaces, FlagsInv, HintsInv

\* So it holds at the start.
LEMMA ContentStart ==
  ASSUME Init
  PROVE  ContentInv
<1>1. PICK s \in Scenarios : Start(s)
  BY DEF Init, Start
<1>2. pc = "idle" /\ IOInit /\ BoardInit /\ SoftwareInit
  BY DEF Init
<1> QED BY <1>1, <1>2, SoundStart, DrivesStart, TargetsStart, RegionsStart, BoardsStart,
           EntriesStart DEF ContentInv

\* What the lists hold, and what is said of them while they are filled, holds in
\* every state.
THEOREM ContentInductive == Spec => []ContentInv
<1>1. Init => ContentInv
  BY ContentStart
<1>2. ListsInv /\ ContentInv /\ [Next]_vars => ContentInv'
  BY ContentStep
<1> QED BY <1>1, <1>2, ListsInductive, PTL DEF Spec

\* A drive shows the volume in it, or none, or that of a handler which was given,
\* between the two locks of the DOS list, the port read for this drive.
THEOREM VolumesStayRight == Spec => []VolumeOfItsDevice
<1>1. ContentInv => VolumeOfItsDevice
  BY DEF ContentInv, DriveInv, VolumesInv, VolumeOfItsDevice, Drives
<1> QED BY <1>1, ContentInductive, PTL

\* What follows from it, list by list.
LEMMA BlocksSound ==
  ASSUME SoundInv
  PROVE  ListsSound
<1> SUFFICES ASSUME NEW n \in ListNames
             PROVE  /\ lists[n].capacity = Len(lists[n].items) /\ heap[n] = lists[n].capacity
                    /\ lists[n].count <= lists[n].capacity
                    /\ lists[n].capacity <= MaxItems[n]
                    /\ \A i \in 1..lists[n].count : lists[n].items[i] # Zero
  BY DEF ListsSound
<1>1. Whole(lists[n], MaxItems[n]) /\ heap[n] = lists[n].capacity
  BY DEF SoundInv
<1>2. lists[n].capacity \in Nat
        /\ lists[n].items = [i \in 1..lists[n].capacity |-> lists[n].items[i]]
  BY <1>1 DEF Whole
<1>3. Len(lists[n].items) = lists[n].capacity
  BY <1>2, BlockLength
<1> QED BY <1>1, <1>3 DEF Whole

\* The items in use of a list are the first of its block.
LEMMA ItemsAre ==
  ASSUME SoundInv, NEW n \in ListNames
  PROVE  DOMAIN Items(n) = 1..lists[n].count
           /\ \A i \in 1..lists[n].count : Items(n)[i] = lists[n].items[i]
<1>1. Whole(lists[n], MaxItems[n])
  BY DEF SoundInv
<1> QED BY <1>1, InUse DEF Items

LEMMA DrivesRight ==
  ASSUME SoundInv, DriveInv
  PROVE  DrivesListed /\ ProbedOnce
<1>1. Drives \in Nat
  BY DriveTypes
<1>2. \A i \in 1..Drives : OfItsNode(Drive(i))
  BY DEF DriveInv, VolumesInv
<1>3. ProbedOnce
  BY DEF DriveInv, ProbesInv, ProbedOnce, Agree, Drives
<1>4. DrivesListed
  <2> SUFFICES ASSUME pc = "drives done"
               PROVE  DrivesListed
    BY DEF DrivesListed
  <2> DEFINE names == [i \in 1..Drives |-> Drive(i).name]
  <2>1. Pruned
    BY DEF DriveInv, NamesInv
  <2>2. \A i, j \in DOMAIN names : i < j => names[i] < names[j]
    BY <2>1 DEF Pruned
  <2>3. Range(names) = {Drive(i).name : i \in 1..Drives}
    BY DEF Range
  <2>4. drv.found \subseteq Range(names)
    BY <2>1, <2>3 DEF Pruned
  <2>5. drv.lost # TRUE => {d \in Range(dos.order) : Nodes[d].handler # 0} \subseteq Range(names)
    <3> SUFFICES ASSUME drv.lost # TRUE, NEW k \in DOMAIN dos.order,
                        Nodes[dos.order[k]].handler # 0
                 PROVE  dos.order[k] \in Range(names)
      BY DEF Range
    <3>1. \E i \in 1..Drives : Drive(i).name = dos.order[k]
      BY <2>1 DEF Pruned
    <3> QED BY <2>3, <3>1
  <2>6. \A i \in DOMAIN names : Nodes[names[i]].envec => Drive(i).block = "envec"
    BY <1>2 DEF OfItsNode
  <2> QED BY <2>2, <2>4, <2>5, <2>6 DEF DrivesListed, Drives
<1> QED BY <1>3, <1>4

LEMMA TargetsRight ==
  ASSUME ListsInv, SoundInv, TargetsInv
  PROVE  RowsOfTheirTarget
<1>1. DOMAIN Items("scsi") = 1..Rows /\ \A i \in 1..Rows : Items("scsi")[i] = Entry(i)
  BY ScsiName, ItemsAre DEF Rows, Entry
<1>2. RowsRight /\ RowsOrdered
  BY DEF TargetsInv
<1> QED BY <1>1, <1>2 DEF RowsOfTheirTarget, RowsRight, RowsOrdered, RightRow, UnitOf

LEMMA RegionsAreRight ==
  ASSUME ListsInv, SoundInv, RegionsInv
  PROVE  RegionsListed
<1>1. ExecInv /\ RegionsRight /\ RoomInv
  BY DEF RegionsInv
<1>2. \A i \in 1..Headers : Region(i).header = i /\ Region(i).own = heap["memory"]
  BY <1>1 DEF RegionsRight, RightRegion
<1>3. /\ Headers \in Nat /\ reg.total \in Nat /\ reg.headers \in Nat
      /\ lists["memory"].capacity \in Nat
  BY <1>1, RegionTypes
<1>4. /\ Headers <= reg.total
      /\ pc = "memory done" => lists["memory"].capacity = 0 \/ Headers >= reg.headers
  BY <1>1 DEF RoomInv
<1>5. pc = "memory done" /\ lists["memory"].capacity > 0 => Headers >= reg.headers
  <2>1. lists["memory"].capacity > 0 => lists["memory"].capacity # 0
    BY <1>3
  <2> QED BY <1>4, <2>1
<1>6. reg.total >= Headers
  BY <1>3, <1>4
<1> QED BY <1>2, <1>5, <1>6 DEF RegionsListed, Headers, Region

LEMMA BoardsAreRight ==
  ASSUME ListsInv, SoundInv, BoardsInv
  PROVE  BoardsListed
<1> DEFINE bs == Items("boards")
<1>1. DOMAIN bs = 1..Boards /\ \A i \in 1..Boards : bs[i] = Board(i)
  BY BoardName, ItemsAre DEF Boards, Board
<1>2. BoardInv /\ BoardsRight /\ BoardsOrdered /\ ProgressInv
  BY DEF BoardsInv
<1> HIDE DEF bs
<1>3. InOrder(bs, board.identify)
  BY <1>1, <1>2 DEF InOrder, BoardsRight, BoardsOrdered, RightBoard, Precedes
<1>4. ASSUME pc = "boards done", board.at > 0, board.lost # TRUE, ~Full
      PROVE  Real(board.identify) \subseteq
               {bs[i].n : i \in {j \in DOMAIN bs : bs[j].kind # "pci"}}
  <2>1. board.at # 0
    <3>1. board.at \in Nat /\ board.at > 0
      BY <1>2, <1>4, BoardTypes
    <3> QED BY <3>1
  <2>2. FoundUpTo(Len(Cards))
    BY <1>2, <1>4, <2>1 DEF ProgressInv
  <2>3. \A k \in Real(board.identify) : k <= Len(Cards)
    BY <1>2, CardsReal, BoardAssumption DEF BoardInv
  <2>4. \A k \in Real(board.identify) : \E i \in 1..Boards :
          Board(i).kind # "pci" /\ Board(i).n = k
    BY <2>2, <2>3 DEF FoundUpTo
  <2> QED BY <1>1, <2>4
<1> QED BY <1>3, <1>4 DEF BoardsListed, bs

\* The hints that stand together are as many as there are hints.
LEMMA HintsCounted ==
  ASSUME NEW a \in Nat
  PROVE  Cardinality((a + 1)..(a + Hints)) = Hints
<1>1. Hints \in Nat
  BY SoftwareAssumption
<1> QED BY <1>1, FS_Interval

LEMMA NodesCounted ==
  ASSUME NEW n \in CopiedLists, NEW k \in DOMAIN ExecNodes[n]
  PROVE  k <= Len(ExecNodes[n])
<1> DEFINE nodes == ExecNodes[n]
<1>1. nodes \in Seq(Nat \ {0})
  BY SoftwareAssumption DEF CopiedLists
<1> HIDE DEF nodes
<1>2. \A i \in DOMAIN nodes : i <= Len(nodes)
  BY <1>1
<1> QED BY <1>2 DEF nodes

LEMMA EntriesRight ==
  ASSUME ListsInv, SoundInv, EntriesInv
  PROVE  SoftwareListed
<1> SUFFICES ASSUME pc = "software done"
             PROVE  SoftwareListed
  BY DEF SoftwareListed
<1>1. CopiedLists \subseteq ListNames /\ "mmu" \in ListNames
  BY SoftNames
<1>2. pc \in MmuPlaces
  BY DEF MmuPlaces
<1>3. \A n \in CopiedLists : pc \in LeftPlaces(n)
  BY <1>2 DEF LeftPlaces
<1>7. \A n \in CopiedLists : \A k \in DOMAIN ExecNodes[n] : k <= Len(ExecNodes[n])
  BY NodesCounted
<1>4. sw.flags = Special \cap Range(ExecNodes["libraries"])
  <2>1. "libraries" \in CopiedLists
    BY DEF CopiedLists
  <2>2. /\ sw.flags \subseteq Special \cap Range(ExecNodes["libraries"])
        /\ Telling(Len(ExecNodes["libraries"]))
    BY <1>3, <2>1 DEF EntriesInv, FlagsInv
  <2>3. \A k \in DOMAIN ExecNodes["libraries"] : k <= Len(ExecNodes["libraries"])
    BY <2>1, <1>7
  <2>4. Special \cap Range(ExecNodes["libraries"]) \subseteq sw.flags
    BY <2>2, <2>3 DEF Telling, Range
  <2> QED BY <2>2, <2>4
<1>5. ASSUME NEW n \in CopiedLists
      PROVE  /\ \A i, j \in DOMAIN Items(n) : i < j => Items(n)[i] <= Items(n)[j]
             /\ n \notin sw.lost => Range(ExecNodes[n]) \subseteq Range(Items(n))
  <2>1. DOMAIN Items(n) = 1..Entries(n) /\ \A i \in 1..Entries(n) : Items(n)[i] = Slot(n, i)
    BY <1>1, ItemsAre DEF Entries, Slot
  <2>2. Sorted(n) /\ (n \in sw.lost \/ ListedTo(n, Len(ExecNodes[n])))
    BY <1>3 DEF EntriesInv, CopyInv
  <2>3. \A i, j \in DOMAIN Items(n) : i < j => Items(n)[i] <= Items(n)[j]
    BY <2>1, <2>2 DEF Sorted
  <2>4. ASSUME n \notin sw.lost
        PROVE  Range(ExecNodes[n]) \subseteq Range(Items(n))
    <3>1. \A k \in DOMAIN ExecNodes[n] : \E i \in 1..Entries(n) : Slot(n, i) = ExecNodes[n][k]
      <4>1. \A k \in DOMAIN ExecNodes[n] : k <= Len(ExecNodes[n])
        BY <1>7
      <4> QED BY <2>2, <2>4, <4>1 DEF ListedTo
    <3> QED BY ZenonT(60), <2>1, <3>1 DEF Range
  <2> QED BY <2>3, <2>4
<1>6. Cardinality({i \in DOMAIN Items("mmu") : Items("mmu")[i] = "hint"}) \in {0, Hints}
  <2> DEFINE hints == {i \in DOMAIN Items("mmu") : Items("mmu")[i] = "hint"}
  <2>1. hints = {i \in 1..Entries("mmu") : Slot("mmu", i) = "hint"}
    BY <1>1, ItemsAre DEF Entries, Slot
  <2>2. NoHints \/ HintsTogether
    BY DEF EntriesInv, HintsInv
  <2> HIDE DEF hints
  <2>3. CASE NoHints
    <3>1. hints = {}
      BY <2>1, <2>3 DEF NoHints
    <3> QED BY <3>1, FS_EmptySet DEF hints
  <2>4. CASE HintsTogether
    <3>1. PICK a \in Nat : hints = (a + 1)..(a + Hints)
      BY <2>1, <2>4 DEF HintsTogether
    <3> QED BY <3>1, HintsCounted DEF hints
  <2> QED BY <2>2, <2>3, <2>4
<1> QED BY <1>4, <1>5, <1>6 DEF SoftwareListed, CopiedLists

\* Whatever fails, each list is as long as its block and holds what it was made
\* of: the drives of the DOS list, the units probed once, the targets, the
\* regions, the boards and the software in their order.
THEOREM ListsStayWhole == Spec => []ListsWhole
<1>1. ListsInv /\ ContentInv => ListsWhole
  BY BlocksSound, DrivesRight, TargetsRight, RegionsAreRight, BoardsAreRight, EntriesRight
     DEF ContentInv, ListsWhole
<1> QED BY <1>1, ListsInductive, ContentInductive, PTL
=============================================================================
