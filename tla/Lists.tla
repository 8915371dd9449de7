------------------------------- MODULE Lists --------------------------------
(***************************************************************************)
(* The lists of the program, filled one after the other as main fills them *)
(* and as the interfaces ask for them again, and the MUI interface over    *)
(* them, with the handlers, disks and other tasks that run beside it.      *)
(***************************************************************************)
EXTENDS DriveList, BoardList, MuiGui

CONSTANTS
  Scenarios   \* todo, the lists to fill; lists, those filled before; order,
              \* modern and changes of the DOS list; exec, the memory of Exec

\* What main and the interfaces ask for.
Calls == {"drives", "scsi", "memory", "refresh", "speed", "boards", "software", "mui"}

ASSUME ScenariosAssumption ==
  \A s \in Scenarios :
    /\ s.todo \in Seq(Calls) /\ s.modern \in BOOLEAN
    /\ s.order \in Seq(DOMAIN Nodes) /\ IsInjective(s.order)
    /\ s.exec \in Seq(Seq(Int))
    /\ DOMAIN s.lists = ListNames
    /\ \A n \in ListNames : Whole(s.lists[n], MaxItems[n])

\* Lists filled before are such as the program fills them; that of the SCSI
\* devices is filled by the interfaces.
ASSUME FilledAssumption ==
  \A s \in Scenarios :
    LET regions == s.lists["memory"]
        used(n) == SubSeq(s.lists[n].items, 1, s.lists[n].count)
    IN  /\ \A d \in Range(used("drives")) : OfItsNode(d) /\ d.volume \in {0, d.name}
        /\ s.lists["scsi"].count = 0
        /\ regions.count <= Len(s.exec)
        /\ \A i \in 1..regions.count :
             /\ regions.items[i] \in RegionItems
             /\ regions.items[i].header = i /\ regions.items[i].own = regions.capacity
        /\ used("boards") \in Seq(BoardItems) /\ InOrder(used("boards"), FALSE)

\* Cleared memory is not an entry of any of them.
ASSUME ZeroAssumption ==
  Zero \notin DriveItems \cup RowItems \cup RegionItems \cup BoardItems
                \cup MmuItems \cup Int

VARIABLES
  todo      \* the lists still to fill

vars == <<pc, masks, listVars, ioVars, driveVars, memoryVars, board, softwareVars,
          muiVars, todo>>

Init ==
  /\ pc = "idle" /\ Free
  /\ \E s \in Scenarios : /\ todo = s.todo /\ GrowInit(s.lists)
                          /\ DriveInit(s.order, s.modern, s.changes) /\ MemoryInit(s.exec)
  /\ IOInit /\ BoardInit /\ SoftwareInit /\ MuiInit

Finished == {"drives done", "scsi done", "memory done", "boards done",
             "software done", "mui done"}

\* The next list is asked for, or the last one is complete.
Call ==
  /\ pc = "idle" /\ todo # <<>>
  /\ pc' = Head(todo)
  /\ UNCHANGED <<masks, listVars, ioVars, driveVars, memoryVars, board,
                 softwareVars, muiVars, todo>>

Return ==
  /\ pc \in Finished /\ ~mui.open
  /\ pc' = "idle" /\ todo' = Tail(todo)
  /\ UNCHANGED <<masks, listVars, ioVars, driveVars, memoryVars, board,
                 softwareVars, muiVars>>

\* A step of the program.
Program ==
  \/ Call
  \/ Return
  \/ /\ ScsiStep
     /\ UNCHANGED <<driveVars, memoryVars, board, softwareVars, muiVars, todo>>
  \/ /\ DriveStep
     /\ UNCHANGED <<memoryVars, board, softwareVars, muiVars, todo>>
  \/ /\ MemoryStep
     /\ UNCHANGED <<ioVars, driveVars, board, softwareVars, muiVars, todo>>
  \/ /\ BoardStep
     /\ UNCHANGED <<ioVars, driveVars, memoryVars, softwareVars, muiVars, todo>>
  \/ /\ SoftwareStep
     /\ UNCHANGED <<ioVars, driveVars, memoryVars, board, muiVars, todo>>
  \/ /\ MuiStep \/ TurnPage
     /\ UNCHANGED <<driveVars, board, todo>>

\* A step of another task or of an interrupt.  While the MUI interface is open
\* the memory stays as it is: a bound of the model.
Environment ==
  \/ /\ DosChanges
     /\ UNCHANGED <<memoryVars, board, softwareVars, muiVars, todo>>
  \/ /\ ~mui.open /\ MemoryChanges
     /\ UNCHANGED <<ioVars, driveVars, board, softwareVars, muiVars, todo>>
  \/ /\ StackChanges
     /\ UNCHANGED <<ioVars, driveVars, memoryVars, board, muiVars, todo>>

Next == Program \/ Environment

Spec == Init /\ [][Next]_vars /\ WF_vars(Program)
-----------------------------------------------------------------------------
\* Between two calls nothing is held: locks, ports, requests, devices, files,
\* libraries, the masks, and the requesters are as they were, whichever step
\* failed.
NothingHeld ==
  /\ pc = "idle" => held = {} /\ Free /\ ~drv.quiet /\ ~sw.quiet
  /\ MuiRests

\* Whatever allocation, device or library failed, each list is sound and holds
\* what it was made of.
ListsWhole ==
  ListsSound /\ DrivesListed /\ ProbedOnce /\ RowsOfTheirTarget
    /\ RegionsListed /\ BoardsListed /\ SoftwareListed
=============================================================================
