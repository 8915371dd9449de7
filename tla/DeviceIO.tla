------------------------------ MODULE DeviceIO ------------------------------
(***************************************************************************)
(* SCSI commands to the units of a controller (scsi.c): the probe for      *)
(* direct SCSI support, INQUIRY and READ CAPACITY, each with a port, a     *)
(* request and an open device of its own, and the scan of a controller     *)
(* that calls the last two while it holds a device open itself.            *)
(***************************************************************************)
EXTENDS GrowList

CONSTANTS
  Targets     \* the last target of a scan: 15

ASSUME DeviceIOAssumption == Targets \in Nat

VARIABLES
  io,       \* the command under way
  target    \* the target the scan is at

ioVars == <<io, target>>

NoIO == [for |-> "none", unit |-> 0, opened |-> 0, tries |-> 0, result |-> FALSE,
         back |-> "idle"]

IOInit == io = NoIO /\ target = 0

\* The unit of a target: wide addresses start where the narrow ones end.
Narrow == 7
HD_WIDESCSI == 128
calculate_unit_number(id, lun) ==
  IF id > Narrow \/ lun > Narrow THEN lun * 10 * 1000 + id * 10 + HD_WIDESCSI
  ELSE id + lun * 10

\* A call returns to the label back with result.
Command(for, unit, back) ==
  /\ pc' = "io port"
  /\ io' = [NoIO EXCEPT !.for = for, !.unit = unit, !.opened = unit,
                        !.back = back]

Result(result) == pc' = io.back /\ io' = [io EXCEPT !.result = result]
-----------------------------------------------------------------------------
CreatePort(ok) ==
  /\ pc = "io port"
  /\ IF ok THEN Hold("io port") /\ pc' = "io request" /\ UNCHANGED io
     ELSE Result(FALSE) /\ UNCHANGED held
  /\ UNCHANGED <<masks, lists, heap, target>>

CreateRequest(ok) ==
  /\ pc = "io request"
  /\ IF ok THEN Hold("io request") /\ pc' = "io open" /\ UNCHANGED io
     ELSE Result(FALSE) /\ Drop({"io port"})
  /\ UNCHANGED <<masks, lists, heap, target>>

\* Mutant: the request and the port stay when the device does not open.
BugAfterOpen == {"io request"}

\* What is deleted when the device does not open.
AfterOpen == {"io request", "io port"}

\* INQUIRY falls back to unit 0, whether or not that was the unit asked for.
OpenDevice(ok) ==
  /\ pc = "io open"
  /\ IF ok THEN Hold("io device") /\ pc' = "io command" /\ UNCHANGED io
     ELSE IF io.for = "inquiry" /\ io.tries = 0
     THEN /\ io' = [io EXCEPT !.opened = 0, !.tries = 1]
          /\ UNCHANGED <<pc, held>>
     ELSE Result(FALSE) /\ Drop(AfterOpen)
  /\ UNCHANGED <<masks, lists, heap, target>>

\* DoIO.  The probe asks again by the new command when the first is unknown; any
\* other answer, an error too, is support.
DoIO(ok) ==
  /\ pc = "io command"
  /\ IF ~ok /\ io.for = "direct" /\ io.tries = 0
     THEN io' = [io EXCEPT !.tries = 1] /\ UNCHANGED pc
     ELSE io' = [io EXCEPT !.result = ok] /\ pc' = "io close"
  /\ UNCHANGED <<masks, listVars, target>>

CloseIO ==
  /\ pc = "io close"
  /\ Drop({"io device", "io request", "io port"})
  /\ Result(io.result)
  /\ UNCHANGED <<masks, lists, heap, target>>

\* The three callers.
check_scsi_direct_support(unit, back) == Command("direct", unit, back)
scsi_inquiry(id, back) ==
  Command("inquiry", calculate_unit_number(id, 0), back)
scsi_read_capacity(id, back) ==
  Command("capacity", calculate_unit_number(id, 0), back)
-----------------------------------------------------------------------------
free_scsi_device_list == FreeList("scsi")

\* scan_scsi_devices: its own port and request.
BusScan(port, request) ==
  /\ pc = "scsi"
  /\ free_scsi_device_list
  /\ target' = 0
  /\ IF port /\ request
     THEN held' = held \cup {"port", "request"} /\ pc' = "scsi target"
     ELSE UNCHANGED held /\ pc' = "scsi done"
  /\ UNCHANGED <<masks, io>>

\* A target that opens is asked by INQUIRY.
BusOpen(ok) ==
  /\ pc = "scsi target" /\ target <= Targets
  /\ IF ok THEN Hold("device") /\ scsi_inquiry(target, "scsi answer")
                /\ UNCHANGED target
     ELSE /\ target' = target + 1
          /\ UNCHANGED <<pc, held, io>>
  /\ UNCHANGED <<masks, lists, heap>>

\* The entries of the list of SCSI devices.
RowItems == [target : Nat, from : Nat, capacity : Nat, valid : BOOLEAN]

Row(capacity) == [target |-> target, from |-> io.opened,
                  capacity |-> capacity, valid |-> FALSE]

\* A device is there, and there is room for it: its row is begun in the slot
\* behind the last.
BusAnswer(present, memory) ==
  /\ pc = "scsi answer"
  /\ LET g == Grow("scsi", lists["scsi"].count + 1, memory)
     IN  IF io.result /\ present /\ g.ok
         THEN /\ Replace("scsi", [g.list EXCEPT
                                    !.items[g.list.count + 1] = Row(0)])
              /\ scsi_read_capacity(target, "scsi row")
         ELSE pc' = "scsi close" /\ UNCHANGED <<lists, heap, io>>
  /\ UNCHANGED <<masks, held, target>>

\* With its capacity or without it the row becomes valid and counts.
BusRow ==
  /\ pc = "scsi row"
  /\ LET l == lists["scsi"]
         row == [l.items[l.count + 1] EXCEPT
                   !.valid = TRUE,
                   !.capacity = IF io.result THEN io.opened + 1 ELSE 0]
     IN  lists' = [lists EXCEPT !["scsi"] = With(l, row)]
  /\ pc' = "scsi close"
  /\ UNCHANGED <<masks, heap, held, ioVars>>

BusClose ==
  /\ pc = "scsi close"
  /\ Drop({"device"})
  /\ target' = IF lists["scsi"].count >= MaxItems["scsi"] THEN Targets + 1
               ELSE target + 1
  /\ pc' = "scsi target"
  /\ UNCHANGED <<masks, lists, heap, io>>

BusEnd ==
  /\ target > Targets
  /\ Go("scsi target", "scsi done")
  /\ Drop({"request", "port"})
  /\ UNCHANGED <<masks, lists, heap, ioVars>>

ScsiStep ==
  \/ \E ok \in BOOLEAN :
       CreatePort(ok) \/ CreateRequest(ok) \/ OpenDevice(ok) \/ DoIO(ok)
       \/ BusOpen(ok)
  \/ CloseIO \/ BusRow \/ BusClose \/ BusEnd
  \/ \E a \in BOOLEAN, b \in BOOLEAN : BusScan(a, b) \/ BusAnswer(a, b)
-----------------------------------------------------------------------------
\* Each row is of one target, in order; its capacity is that of this target,
\* and so are its names, unless unit 0 was asked in its place.
RowsOfTheirTarget ==
  LET rows == Items("scsi")
  IN  /\ \A i \in DOMAIN rows :
           /\ rows[i].valid
           /\ rows[i].from \in {0, calculate_unit_number(rows[i].target, 0)}
           /\ rows[i].capacity \in
                {0, calculate_unit_number(rows[i].target, 0) + 1}
      /\ \A i, j \in DOMAIN rows : i < j => rows[i].target < rows[j].target
=============================================================================
