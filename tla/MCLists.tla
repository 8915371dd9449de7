------------------------------ MODULE MCLists -------------------------------
(* Instances of Lists for TLC.                                             *)
EXTENDS Lists

Node(handler, unit, envec, floppy) ==
  [handler |-> handler, unit |-> unit, envec |-> envec, floppy |-> floppy]

\* CON:, DH0:, PC0: and WORK: by their place in the alphabet; DH0: and WORK: are
\* on one unit, PC0: is a floppy drive.
MCNodes == <<Node(0, 0, FALSE, FALSE), Node(2, 0, TRUE, FALSE),
             Node(1, 0, TRUE, TRUE), Node(2, 0, TRUE, FALSE)>>

MCListNames == {"drives", "scsi", "memory", "boards", "libraries", "devices",
                "resources", "mmu"}
MCMaxItems == [n \in MCListNames |-> IF n = "scsi" THEN 2
                                    ELSE IF n \in {"libraries", "mmu"} THEN 4
                                    ELSE 3]

Unfilled == [n \in MCListNames |-> NoList]
One(item) == [NoList EXCEPT !.items = <<item, Zero>>, !.count = 1,
                            !.capacity = 2, !.made = 1]

S(list, order, modern) ==
  [todo |-> list, order |-> order, modern |-> modern,
   changes |-> 2, exec |-> <<<<1>>>>,
   lists |-> Unfilled]

\* The lists as main leaves them for the interface.
Filled ==
  [Unfilled EXCEPT
     !["drives"] = One([Scanned(2) EXCEPT !.scsi = TRUE]),
     !["memory"] = One([header |-> 1, free |-> FreeOf(<<1, 4>>), own |-> 2,
                        measured |-> FALSE, speed |-> 0]),
     !["boards"] = One(BoardRecord("card", 1)),
     !["libraries"] = One(-2), !["mmu"] = One("not loaded")]

MCScenarios ==
  {S(<<"drives">>, <<4, 1, 2, 3>>, TRUE),
   [S(<<"drives">>, <<4, 3>>, TRUE) EXCEPT !.changes = 4],
   S(<<"drives">>, <<4, 2>>, FALSE),
   S(<<"scsi", "scsi">>, <<1>>, TRUE),
   S(<<"memory", "refresh", "speed">>, <<1>>, TRUE),
   S(<<"boards", "boards">>, <<1>>, TRUE),
   S(<<"software">>, <<1>>, TRUE),
   [S(<<"mui">>, <<1>>, TRUE) EXCEPT !.lists = Filled, !.exec = <<<<1, 4>>>>]}

MCPorts == {1, 2}
MCCards == <<"card", "virtual", "card">>
MCPciCards == <<"null", "pci">>
MCExecNodes == [libraries |-> <<3, 1>>, devices |-> <<2, 1>>,
                resources |-> <<2, 1, 4>>, mmu |-> <<>>]
MCSpecial == {1, 5}
=============================================================================
