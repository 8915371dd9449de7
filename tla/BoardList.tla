----------------------------- MODULE BoardList ------------------------------
(***************************************************************************)
(* The list of expansion boards (boards.c 104-362): the Zorro and the PCI  *)
(* boards as identify.library finds them, or the raw ConfigDevs without    *)
(* that library.                                                           *)
(***************************************************************************)
EXTENDS GrowList, SequencesExt

CONSTANTS
  Cards,      \* the ConfigDevs in order: "card" or "virtual"
  PciCards    \* what identify.library reports of PCI: "pci", or "null" for
              \* an answer without a device

ASSUME BoardAssumption ==
  Cards \in Seq({"card", "virtual"}) /\ PciCards \in Seq({"pci", "null"})

VARIABLES
  board     \* at: the cards looked at; lost: a card found no room

BoardInit == board = [at |-> 0, pci |-> 0, lost |-> FALSE, identify |-> FALSE]

BoardRecord(kind, n) == [kind |-> kind, n |-> n]

\* The entries of the list of boards.
BoardItems == [kind : {"card", "virtual", "pci"}, n : Nat]

\* enumerate_boards; library: identify.library is there, or else
\* expansion.library opens.
BoardsBegin(identify, library) ==
  /\ pc = "boards"
  /\ FreeList("boards")
  /\ board' = [at |-> 0, pci |-> 0, lost |-> FALSE, identify |-> identify]
  /\ IF identify THEN pc' = "zorro" /\ UNCHANGED held
     ELSE IF library THEN pc' = "raw" /\ Hold("expansion.library")
     ELSE pc' = "boards done" /\ UNCHANGED held
  /\ UNCHANGED masks

Full == lists["boards"].count >= MaxItems["boards"]

\* append_zorro_board
AppendBoard(memory) ==
  /\ Add("boards", BoardRecord(Cards[board.at + 1], board.at + 1), memory)
  /\ board' = [board EXCEPT !.at = @ + 1,
                            !.lost = @ \/ ~HasRoom("boards", memory)]

\* Mutant: cards that identify.library calls virtual are boards like others.
BugVirtual(card) == FALSE

Virtual(card) == card = "virtual"

\* Virtual cards are skipped; a board without room does not end the scan.
ZorroBoard(memory) ==
  /\ pc = "zorro" /\ ~Full /\ board.at < Len(Cards)
  /\ IF Virtual(Cards[board.at + 1])
     THEN board' = [board EXCEPT !.at = @ + 1] /\ UNCHANGED <<lists, heap>>
     ELSE AppendBoard(memory)
  /\ UNCHANGED <<pc, masks, held>>

\* An identify.library that knows PCI is asked for those boards too.
ZorroEnd(pci) ==
  /\ Full \/ board.at = Len(Cards)
  /\ Go("zorro", IF pci THEN "pci" ELSE "boards done")
  /\ UNCHANGED <<masks, listVars, board>>

\* append_pci_board makes room even for an answer without a device, which adds
\* nothing; here a failure ends the scan.
PciBoard(memory) ==
  /\ pc = "pci" /\ ~Full /\ board.pci < Len(PciCards)
  /\ LET g == Grow("boards", lists["boards"].count + 1, memory)
         card == PciCards[board.pci + 1]
     IN  /\ Replace("boards", IF g.ok /\ card # "null"
                              THEN With(g.list, BoardRecord(card, board.pci + 1))
                              ELSE g.list)
         /\ board' = [board EXCEPT !.pci = @ + 1, !.lost = @ \/ ~g.ok]
         /\ pc' = IF g.ok THEN pc ELSE "boards done"
  /\ UNCHANGED <<masks, held>>

PciEnd ==
  /\ Full \/ board.pci = Len(PciCards)
  /\ Go("pci", "boards done")
  /\ UNCHANGED <<masks, listVars, board>>

\* Without identify.library every ConfigDev is listed, until one has no room.
RawBoard(memory) ==
  /\ pc = "raw" /\ board.at < Len(Cards)
  /\ AppendBoard(memory)
  /\ IF HasRoom("boards", memory) THEN UNCHANGED <<pc, held>>
     ELSE pc' = "boards done" /\ Drop({"expansion.library"})
  /\ UNCHANGED masks

RawEnd ==
  /\ board.at = Len(Cards)
  /\ Go("raw", "boards done")
  /\ Drop({"expansion.library"})
  /\ UNCHANGED <<masks, lists, heap, board>>

BoardStep ==
  \/ \E a \in BOOLEAN, b \in BOOLEAN : BoardsBegin(a, b)
  \/ \E ok \in BOOLEAN : \/ ZorroBoard(ok) \/ ZorroEnd(ok) \/ PciBoard(ok)
                         \/ RawBoard(ok)
  \/ PciEnd \/ RawEnd
-----------------------------------------------------------------------------
\* The cards that are boards; identify: identify.library tells the virtual ones.
Real(identify) == {n \in DOMAIN Cards : ~identify \/ Cards[n] = "card"}

\* A list of boards in their order, those of PCI last.
InOrder(bs, identify) ==
  /\ \A i \in DOMAIN bs : IF bs[i].kind = "pci" THEN PciCards[bs[i].n] = "pci"
                          ELSE bs[i].n \in Real(identify)
  /\ \A i, j \in DOMAIN bs :
       i < j => \/ bs[i].kind # "pci" /\ bs[j].kind = "pci"
                \/ bs[i].n < bs[j].n

\* The list holds the boards in their order, no virtual one when
\* identify.library can tell, and without a failed allocation every board up to
\* the maximum (boards.c 263-314).
BoardsListed ==
  LET bs == Items("boards")
  IN  /\ InOrder(bs, board.identify)
      /\ pc = "boards done" /\ board.at > 0 /\ ~board.lost =>
           \/ Full
           \/ Real(board.identify) \subseteq
                {bs[i].n : i \in {j \in DOMAIN bs : bs[j].kind # "pci"}}
=============================================================================
