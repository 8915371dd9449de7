------------------------------ MODULE GrowList ------------------------------
(***************************************************************************)
(* The growing lists of the program (growlist.c): drives, boards, memory   *)
(* regions, SCSI devices and software.  A list is a block of capacity      *)
(* items, the first count of which are in use; to grow it is copied into a *)
(* larger, cleared block and the old block is freed.                       *)
(***************************************************************************)
EXTENDS Task, FiniteSets, FiniteSetsExt

CONSTANTS
  ListNames,      \* the lists of the program
  GrowStep,   \* GROW_STEP: 16
  MaxItems,   \* of each list: MAX_DRIVES, MAX_BOARDS, ...
  Zero        \* an item of cleared memory

ASSUME GrowAssumption ==
  /\ GrowStep \in Nat \ {0} /\ MaxItems \in [ListNames -> Nat]
  /\ {"drives", "scsi", "memory", "boards", "libraries", "devices", "resources",
      "mmu"} \subseteq ListNames

VARIABLES
  lists,    \* of each list: its block, count and capacity
  heap,     \* the items of memory its blocks take
  held      \* what else is held: locks, ports, devices, libraries, files

listVars == <<lists, heap, held>>

\* A list in its block; the items in use are ones that were filled in.
\* made: how often the list was given a new block.
Whole(l, max) ==
  /\ DOMAIN l = {"items", "count", "capacity", "made"}
  /\ {l.count, l.capacity, l.made} \subseteq Nat
  /\ l.count <= l.capacity /\ l.capacity <= max
  /\ l.items = [i \in 1..l.capacity |-> l.items[i]]
  /\ \A i \in 1..l.count : l.items[i] # Zero

NoList == [items |-> <<>>, count |-> 0, capacity |-> 0, made |-> 0]

GrowInit(filled) ==
  /\ lists = filled
  /\ heap = [n \in ListNames |-> filled[n].capacity]
  /\ held = {}

\* Capacities are whole steps, up to the maximum.
GrownSize(needed, max) ==
  LET size == ((needed + GrowStep - 1) \div GrowStep) * GrowStep
  IN  IF size > max THEN max ELSE size

\* Mutant: the last item is not copied.
BugCopied(l, i) == i < l.count

\* The items the new block takes over.
Copied(l, i) == i <= l.count

\* grow_list(needed), count being that of the list; memory: AllocMem succeeds.
\* Whether there is room, and the list then.
Grow(n, needed, memory) ==
  LET l == lists[n]
      size == GrownSize(needed, MaxItems[n])
  IN  IF needed <= l.capacity THEN [ok |-> TRUE, list |-> l]
      ELSE IF needed > MaxItems[n] \/ ~memory THEN [ok |-> FALSE, list |-> l]
      ELSE [ok |-> TRUE,
            list |-> [items |-> [i \in 1..size |->
                                   IF Copied(l, i) THEN l.items[i] ELSE Zero],
                      count |-> l.count, capacity |-> size,
                      made |-> l.made + 1]]

\* The list n is given the block of l; the old block is freed by its capacity.
Replace(n, l) ==
  /\ lists' = [lists EXCEPT ![n] = l]
  /\ heap' = [heap EXCEPT ![n] =
                IF l.made = lists[n].made THEN @
                ELSE @ + l.capacity - lists[n].capacity]

\* Mutant: the list keeps the capacity of the block that was freed.
BugFreeList(n) ==
  /\ lists' = [lists EXCEPT ![n].items = <<>>, ![n].count = 0]
  /\ heap' = [heap EXCEPT ![n] = @ - lists[n].capacity]

\* free_list, and the count its callers reset.
FreeList(n) ==
  /\ lists' = [lists EXCEPT ![n].items = <<>>, ![n].count = 0,
                            ![n].capacity = 0]
  /\ heap' = [heap EXCEPT ![n] = @ - lists[n].capacity]

\* The list with one item more, in the slot grow_list made sure of.
With(l, item) ==
  [l EXCEPT !.count = @ + 1, !.items[l.count + 1] = item]

\* What most scans do: grow by one and, when there is room, fill the slot.
Add(n, item, memory) ==
  LET g == Grow(n, lists[n].count + 1, memory)
  IN  IF g.ok THEN Replace(n, With(g.list, item))
      ELSE UNCHANGED <<lists, heap>>

HasRoom(n, memory) == Grow(n, lists[n].count + 1, memory).ok

Items(n) == SubSeq(lists[n].items, 1, lists[n].count)

Held(x) == x \in held
Hold(x) == held' = held \cup {x}
Drop(xs) == held' = held \ xs
-----------------------------------------------------------------------------
\* Whatever allocation failed, each list is as long as the block it owns, holds
\* no item it did not fill and owns no other block (growlist.c 16-48).
ListsSound ==
  \A n \in ListNames :
    LET l == lists[n]
    IN  /\ l.capacity = Len(l.items) /\ heap[n] = l.capacity
        /\ l.count <= l.capacity /\ l.capacity <= MaxItems[n]
        /\ \A i \in 1..l.count : l.items[i] # Zero
=============================================================================
