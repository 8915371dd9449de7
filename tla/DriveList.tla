----------------------------- MODULE DriveList ------------------------------
(***************************************************************************)
(* The list of drives (drives.c 298-868): the devices of the DOS list, the *)
(* volumes matched to them by the port of their handler, what Info() says, *)
(* and whether each controller unit takes SCSI commands.                   *)
(*                                                                         *)
(* The devices and the volumes are read under two locks.  Between them     *)
(* handlers may start and end and disks come and go; a port that was freed *)
(* may be that of another handler.  Devices are named by their place in    *)
(* the alphabet; 0 is no name, no port and no unit.                        *)
(***************************************************************************)
EXTENDS DeviceIO, SequencesExt

CONSTANTS
  Nodes,     \* of a device name: its startup message and whether it is a floppy
  Ports      \* the addresses a handler's port can have

ASSUME DriveAssumption ==
  /\ Ports \subseteq Nat \ {0} /\ DOMAIN Nodes \subseteq Nat \ {0}
  /\ \A d \in DOMAIN Nodes :
       Nodes[d] \in [handler : Nat, unit : Nat, envec : BOOLEAN, floppy : BOOLEAN]

VARIABLES
  dos,      \* the DOS list, and what changed since it was locked
  drv       \* the locals of the enumeration; found: what has a volume or a handler

driveVars == <<dos, drv>>

\* vol: of a device, the handler port its volume has, or -1 without a volume.
\* modern: Kickstart 2, with LockDosList.  taken: history, a drive and a handler
\* that was given the port read for that drive, after the ports were read.
\* changes: how often handlers and disks will yet change, the bound of the model.
DriveInit(order, modern, changes) ==
  /\ dos = [order |-> order, modern |-> modern, changes |-> changes, taken |-> {},
            port |-> [d \in DOMAIN Nodes |-> 0],
            vol |-> [d \in DOMAIN Nodes |-> -1]]
  /\ drv = [at |-> 0, ports |-> <<>>, info |-> FALSE, quiet |-> FALSE,
            probed |-> <<>>, lost |-> FALSE, found |-> {}]

\* The lock of the DOS list, or Forbid in its place.
MyLockDosList(from, to) ==
  /\ Go(from, to)
  /\ IF dos.modern THEN Hold("dos list") /\ UNCHANGED forbid
     ELSE forbid' = forbid + 1 /\ UNCHANGED held

MyUnLockDosList(from, to) ==
  /\ Go(from, to)
  /\ IF dos.modern THEN Drop({"dos list"}) /\ UNCHANGED forbid
     ELSE forbid' = forbid - 1 /\ UNCHANGED held

Update(i, drive) == lists' = [lists EXCEPT !["drives"].items[i] = drive]
Drive(i) == lists["drives"].items[i]

\* The drives for which a port was read, once the ports are read.
ReadFor(p) ==
  {Drive(i).name : i \in {j \in 1..lists["drives"].count :
                            pc = "volumes lock" /\ drv.ports[j] = p}}

\* Handlers and disks come and go while the list is not locked.
DosChanges ==
  /\ TasksRun /\ ~Held("dos list") /\ dos.changes > 0
  /\ pc \in {"drives", "match", "volumes lock"}
  /\ \E d \in Range(dos.order) :
       LET live == {dos.port[e] : e \in DOMAIN Nodes}
       IN  \/ /\ dos.port[d] = 0
              /\ \E p \in Ports \ live :
                   dos' = [dos EXCEPT !.port[d] = p, !.changes = @ - 1,
                             !.taken = @ \cup ((ReadFor(p) \ {d}) \X {d})]
           \/ /\ dos.port[d] # 0 /\ dos.vol[d] = -1
              /\ dos' = [dos EXCEPT !.vol[d] = dos.port[d], !.changes = @ - 1]
           \/ /\ dos.port[d] # 0
              /\ dos' = [dos EXCEPT !.port[d] = 0, !.changes = @ - 1,
                           !.vol[d] = IF @ = -1 THEN -1 ELSE 0]
  /\ UNCHANGED <<pc, masks, listVars, ioVars, drv>>
-----------------------------------------------------------------------------
\* The entries of the list; one is of a device and keeps what its node says.
DriveItems ==
  [name : DOMAIN Nodes, handler : Nat, unit : Nat, valid : BOOLEAN,
   block : {"none", "envec", "info"},
   disk : {"ok", "no disk", "write protected", "unknown"},
   volume : {0} \cup DOMAIN Nodes, scsi : BOOLEAN]

OfItsNode(d) ==
  /\ d \in DriveItems
  /\ d.handler = Nodes[d.name].handler /\ d.unit = Nodes[d.name].unit
  /\ Nodes[d.name].envec => d.block = "envec"

\* enumerate_drives begins with an empty list.
DrivesBegin ==
  /\ Go("drives", "scan lock")
  /\ FreeList("drives")
  /\ drv' = [drv EXCEPT !.probed = <<>>, !.lost = FALSE, !.found = {}]
  /\ dos' = [dos EXCEPT !.taken = {}]
  /\ UNCHANGED <<masks, held, ioVars>>

ScanLock ==
  /\ MyLockDosList("scan lock", "scan")
  /\ drv' = [drv EXCEPT !.at = 1]
  /\ UNCHANGED <<disabled, lists, heap, ioVars, dos>>

\* A device node as the scan reads it: the startup message gives the handler,
\* its environment makes the drive valid.
Scanned(d) ==
  [name |-> d, handler |-> Nodes[d].handler, unit |-> Nodes[d].unit,
   valid |-> Nodes[d].envec, block |-> IF Nodes[d].envec THEN "envec" ELSE "none",
   disk |-> IF Nodes[d].envec THEN "ok" ELSE "no disk", volume |-> 0,
   scsi |-> FALSE]

\* The first device without room ends the scan.
Scan(memory) ==
  /\ pc = "scan" /\ drv.at <= Len(dos.order)
  /\ Add("drives", Scanned(dos.order[drv.at]), memory)
  /\ drv' = IF HasRoom("drives", memory) THEN [drv EXCEPT !.at = @ + 1]
            ELSE [drv EXCEPT !.at = Len(dos.order) + 1, !.lost = TRUE]
  /\ UNCHANGED <<pc, masks, held, ioVars, dos>>

ScanUnlock ==
  /\ drv.at > Len(dos.order)
  /\ MyUnLockDosList("scan", "match")
  /\ UNCHANGED <<disabled, lists, heap, ioVars, driveVars>>

\* The ports are read again, by name, under a second lock of the devices.
PortsLock ==
  /\ MyLockDosList("match", "ports")
  /\ UNCHANGED <<disabled, lists, heap, ioVars, driveVars>>

PortsRead ==
  /\ MyUnLockDosList("ports", "volumes lock")
  /\ drv' = [drv EXCEPT !.ports =
               [i \in 1..lists["drives"].count |->
                  dos.port[lists["drives"].items[i].name]]]
  /\ UNCHANGED <<disabled, lists, heap, ioVars, dos>>

VolumesLock ==
  /\ MyLockDosList("volumes lock", "volumes")
  /\ drv' = [drv EXCEPT !.at = 1]
  /\ UNCHANGED <<disabled, lists, heap, ioVars, dos>>

\* Mutant: a volume whose handler is gone is matched to a drive without one.
BugServed(v) == TRUE

\* A volume that no handler serves is left out.
Served(v) == dos.vol[v] # 0

\* The drives with that port that have no volume yet; the first gets the volume.
Fits(v) == {i \in 1..lists["drives"].count :
              drv.ports[i] = dos.vol[v] /\ Drive(i).volume = 0}

VolumeMatched ==
  /\ pc = "volumes" /\ drv.at <= Len(dos.order)
  /\ LET v == dos.order[drv.at]
     IN  IF dos.vol[v] # -1 /\ Served(v) /\ Fits(v) # {}
         THEN Update(Min(Fits(v)), [Drive(Min(Fits(v))) EXCEPT !.volume = v, !.disk = "ok"])
         ELSE UNCHANGED lists
  /\ drv' = [drv EXCEPT !.at = @ + 1]
  /\ UNCHANGED <<pc, masks, heap, held, ioVars, dos>>

VolumesUnlock ==
  /\ drv.at > Len(dos.order)
  /\ MyUnLockDosList("volumes", "query")
  /\ drv' = [drv EXCEPT !.found =
       {Drive(i).name : i \in {j \in 1..lists["drives"].count :
                                 Drive(j).handler # 0 \/ Drive(j).volume # 0}}]
  /\ UNCHANGED <<disabled, lists, heap, ioVars, dos>>
-----------------------------------------------------------------------------
\* query_drive_details: nothing is asked without memory for the answer.
Query(memory) ==
  /\ pc = "query"
  /\ IF memory THEN Hold("info") /\ pc' = "query drive"
     ELSE pc' = "prune" /\ UNCHANGED held
  /\ drv' = [drv EXCEPT !.at = 1]
  /\ UNCHANGED <<masks, lists, heap, ioVars, dos>>

\* An empty floppy drive would hang, an entry that is no drive answers nothing.
Asked(d) == d.volume # 0 \/ (d.valid /\ ~Nodes[d.name].floppy)

\* Without a volume the requesters of the lock are suppressed.
QueryDrive ==
  /\ pc = "query drive" /\ drv.at <= lists["drives"].count
  /\ LET d == Drive(drv.at)
     IN  IF Asked(d)
         THEN /\ drv' = [drv EXCEPT !.quiet = d.volume = 0]
              /\ pc' = "query lock" /\ UNCHANGED lists
         ELSE /\ Update(drv.at, [d EXCEPT !.disk = "no disk"])
              /\ drv' = [drv EXCEPT !.at = @ + 1]
              /\ UNCHANGED pc
  /\ UNCHANGED <<masks, heap, held, ioVars, dos>>

\* Mutant: only a lock that failed gives the requesters back.
BugQuietAfter(ok) == drv.quiet /\ ok

\* lock_drive_for_info: the requesters come back with the lock or without.
QuietAfter(ok) == FALSE

QueryLock(ok) ==
  /\ pc = "query lock"
  /\ LET d == Drive(drv.at)
     IN  IF ok THEN Hold("lock") /\ pc' = "query info" /\ UNCHANGED lists
         ELSE /\ Update(drv.at, IF drv.quiet \/ d.disk = "ok"
                                THEN [d EXCEPT !.disk = "no disk"] ELSE d)
              /\ pc' = "query drive" /\ UNCHANGED held
  /\ drv' = [drv EXCEPT !.quiet = QuietAfter(ok), !.at = IF ok THEN @ ELSE @ + 1]
  /\ UNCHANGED <<masks, heap, ioVars, dos>>

\* Mutant: the geometry for raw reads is that of the file system.
BugInfoBlock(d) == "info"

\* Info() gives the size of a block only where the environment did not.
InfoBlock(d) == IF d.block = "none" THEN "info" ELSE d.block

\* What Info() adds: state of the disk, name of the volume if it has none.
\* named: the disk has a volume node.
QueryInfo(ok, state, named) ==
  /\ pc = "query info"
  /\ LET d == Drive(drv.at)
     IN  Update(drv.at,
           IF ok THEN [d EXCEPT !.disk = state, !.valid = TRUE,
                                !.block = InfoBlock(d),
                                !.volume = IF @ = 0 /\ named THEN d.name ELSE @]
           ELSE d)
  /\ Drop({"lock"})
  /\ pc' = "query drive"
  /\ drv' = [drv EXCEPT !.at = @ + 1]
  /\ UNCHANGED <<masks, heap, ioVars, dos>>

QueryEnd ==
  /\ drv.at > lists["drives"].count
  /\ Go("query drive", "prune")
  /\ Drop({"info"})
  /\ UNCHANGED <<masks, lists, heap, ioVars, driveVars>>

\* Mutant: a device that only its volume shows to be a drive is dropped.
BugKept(d) == d.valid \/ d.handler # 0

\* Entries that turned out to be no drives are dropped.
Kept(d) == d.valid \/ d.handler # 0 \/ d.volume # 0

\* prune_drive_list moves the others up, sort_drive_list orders them by name;
\* place says where each one was.
PruneAndSort ==
  /\ Go("prune", "probe")
  /\ LET kept == {i \in 1..lists["drives"].count : Kept(Drive(i))}
         n == Cardinality(kept)
     IN  \E place \in Injection(1..n, kept) :
           /\ \A i, j \in 1..n : i < j => Drive(place[i]).name <= Drive(place[j]).name
           /\ lists' = [lists EXCEPT !["drives"].count = n,
                          !["drives"].items =
                            [i \in DOMAIN @ |-> IF i \in 1..n THEN @[place[i]] ELSE @[i]]]
  /\ drv' = [drv EXCEPT !.at = 1]
  /\ UNCHANGED <<masks, heap, held, ioVars, dos>>
-----------------------------------------------------------------------------
\* Mutant: only the drive just before is looked at.
BugEarlier(i) == {j \in {i - 1} \ {0} : Drive(j).handler = Drive(i).handler
                                         /\ Drive(j).unit = Drive(i).unit}

\* The drives before this one that are on the same unit.
Earlier(i) == {j \in 1..(i - 1) : Drive(j).handler = Drive(i).handler
                                   /\ Drive(j).unit = Drive(i).unit}

\* check_scsi_support_all: the answer of an earlier drive is used again.
ProbeDrive ==
  /\ pc = "probe" /\ drv.at <= lists["drives"].count
  /\ LET d == Drive(drv.at)
     IN  IF d.handler # 0 /\ Earlier(drv.at) = {}
         THEN /\ check_scsi_direct_support(d.unit, "probed")
              /\ drv' = [drv EXCEPT !.probed = Append(@, <<d.handler, d.unit>>)]
              /\ UNCHANGED lists
         ELSE /\ IF d.handler = 0 THEN UNCHANGED lists
                 ELSE Update(drv.at, [d EXCEPT !.scsi =
                                        Drive(Min(Earlier(drv.at))).scsi])
              /\ drv' = [drv EXCEPT !.at = @ + 1]
              /\ UNCHANGED <<pc, io>>
  /\ UNCHANGED <<masks, heap, held, target, dos>>

Probed ==
  /\ Go("probed", "probe")
  /\ Update(drv.at, [Drive(drv.at) EXCEPT !.scsi = io.result])
  /\ drv' = [drv EXCEPT !.at = @ + 1]
  /\ UNCHANGED <<masks, heap, held, ioVars, dos>>

DrivesEnd ==
  /\ drv.at > lists["drives"].count
  /\ Go("probe", "drives done")
  /\ UNCHANGED <<masks, listVars, ioVars, driveVars>>

DriveStep ==
  \/ DrivesBegin \/ ScanLock \/ ScanUnlock \/ PortsLock \/ PortsRead
  \/ VolumesLock \/ VolumeMatched \/ VolumesUnlock \/ QueryDrive \/ QueryEnd
  \/ PruneAndSort \/ ProbeDrive \/ Probed \/ DrivesEnd
  \/ \E ok \in BOOLEAN : Scan(ok) \/ Query(ok) \/ QueryLock(ok)
  \/ \E ok \in BOOLEAN, named \in BOOLEAN,
       state \in {"ok", "write protected", "unknown"} : QueryInfo(ok, state, named)
-----------------------------------------------------------------------------
\* A drive shows the volume in it, or none.  The one exception is a volume whose
\* handler was given, between the two locks, the very port that was read for
\* this drive (drives.c 555-602).
Taken(d) == <<d.name, d.volume>> \in dos.taken
VolumeOfItsDevice ==
  \A i \in 1..lists["drives"].count :
    Drive(i).volume \in {0, Drive(i).name} \/ Taken(Drive(i))

\* No unit of a controller is probed twice, and all the drives on it say the
\* same (drives.c 728-733).
ProbedOnce ==
  /\ IsInjective(drv.probed)
  /\ pc = "drives done" =>
       \A i, j \in 1..lists["drives"].count :
         Drive(i).handler # 0 /\ Drive(i).handler = Drive(j).handler
           /\ Drive(i).unit = Drive(j).unit => Drive(i).scsi = Drive(j).scsi

\* A device with anything disk-like about it is in the list, once and in order;
\* the geometry the mounter gave it stays the one raw reads use (drives.c
\* 541-544, 660, 770-776).
DrivesListed ==
  pc = "drives done" =>
    LET names == [i \in 1..lists["drives"].count |-> Drive(i).name]
    IN  /\ \A i, j \in DOMAIN names : i < j => names[i] < names[j]
        /\ drv.found \subseteq Range(names)
        /\ ~drv.lost => {d \in Range(dos.order) : Nodes[d].handler # 0}
                          \subseteq Range(names)
        /\ \A i \in DOMAIN names : Nodes[names[i]].envec =>
                                     Drive(i).block = "envec"
=============================================================================
