----------------------------- MODULE MemoryList -----------------------------
(***************************************************************************)
(* The list of memory regions (memory.c 93-360): counting the headers of   *)
(* Exec, reading them, refreshing one, and timing a block of one region.   *)
(* What the code does under Forbid is one step here; between the steps     *)
(* other tasks allocate and free memory and may add a region.              *)
(***************************************************************************)
EXTENDS GrowList, SequencesExt

CONSTANTS
  MaxHeaders,   \* how many headers Exec may come to have
  Smallest,     \* the smallest buffer that is timed: 256
  Largest       \* the largest: 64 KB

ASSUME MemoryAssumption == {MaxHeaders, Smallest, Largest} \subseteq Nat

VARIABLES
  exec,     \* of each header of Exec, the sizes of its free chunks
  reg       \* the totals, the locals of the routines and what they publish

memoryVars == <<exec, reg>>

MemoryInit(free) ==
  /\ exec = free
  /\ reg = [total |-> lists["memory"].count, headers |-> 0, index |-> 0, buffer |-> 0,
            published |-> 0]

\* The chunks of a header: none, too small, and large enough.
Chunks == {<<>>, <<1>>, <<1, 2 * Smallest>>}

\* Other tasks allocate, free and add memory.
MemoryChanges ==
  /\ TasksRun /\ pc \in {"regions", "scan regions", "refresh", "speed", "timed"}
  /\ \/ \E h \in DOMAIN exec : \E c \in Chunks \ {exec[h]} :
          exec' = [exec EXCEPT ![h] = c]
     \/ Len(exec) < MaxHeaders /\ exec' = Append(exec, <<1>>)
  /\ UNCHANGED <<pc, masks, listVars, reg>>
-----------------------------------------------------------------------------
Region(i) == lists["memory"].items[i]
UpdateRegion(i, region) == lists' = [lists EXCEPT !["memory"].items[i] = region]

\* analyze_memory_region and find_largest_free_chunk: the first of the largest.
LargestChunk(chunks) == Max({0} \cup Range(chunks))
FirstLargest(chunks) == CHOOSE i \in DOMAIN chunks :
  /\ chunks[i] = LargestChunk(chunks)
  /\ \A j \in 1..(i - 1) : chunks[j] < chunks[i]

\* What a region shows of its header.
FreeOf(chunks) == [number |-> Len(chunks), largest |-> LargestChunk(chunks)]

\* The entries of the list of regions.
RegionItems ==
  [header : Nat, free : [number : Nat, largest : Int], own : Nat,
   measured : BOOLEAN, speed : Nat]

\* enumerate_memory_regions counts the headers ...
CountRegions ==
  /\ Go("memory", "regions")
  /\ FreeList("memory")
  /\ reg' = [reg EXCEPT !.headers = Min({Len(exec), MaxItems["memory"]}),
                        !.total = 0]
  /\ UNCHANGED <<masks, held, exec>>

\* ... makes room for as many before it reads their free memory ...
GrowRegions(memory) ==
  /\ Go("regions", "scan regions")
  /\ LET g == Grow("memory", reg.headers, memory) IN Replace("memory", g.list)
  /\ UNCHANGED <<masks, held, memoryVars>>

\* Mutant: the headers that were counted are read, whatever room there is.
BugRegions == reg.headers

\* A header that came since, or one too many for the list, is not listed.
Regions == Min({Len(exec), lists["memory"].capacity})

\* ... and reads them all for the totals.  own: what the list itself takes.
ScanRegions ==
  /\ Go("scan regions", "memory done")
  /\ LET region(h) == [header |-> h, free |-> FreeOf(exec[h]), own |-> heap["memory"],
                       measured |-> FALSE, speed |-> 0]
     IN  lists' = [lists EXCEPT !["memory"].count = Regions,
                     !["memory"].items =
                       [i \in 1..Max({Len(@), Regions}) |->
                          IF i <= Regions THEN region(i) ELSE @[i]]]
  /\ reg' = [reg EXCEPT !.total = Len(exec)]
  /\ UNCHANGED <<masks, heap, held, exec>>

\* refresh_memory_region; an index behind the last is refused.
RefreshRegion(index) ==
  /\ Go("refresh", "memory done")
  /\ IF index > lists["memory"].count THEN UNCHANGED lists
     ELSE UpdateRegion(index, [Region(index) EXCEPT
                                 !.free = FreeOf(exec[Region(index).header])])
  /\ UNCHANGED <<masks, heap, held, memoryVars>>

\* measure_memory_speed takes half of the largest chunk, at most 64 KB; it is
\* found and allocated in one Forbid.  ok: AllocAbs gives the memory.
TakeBlock(index, ok) ==
  /\ pc = "speed"
  /\ IF index > lists["memory"].count
     THEN pc' = "memory done" /\ UNCHANGED <<lists, held, exec, reg>>
     ELSE LET h == Region(index).header
              size == Min({Largest, LargestChunk(exec[h]) \div 2})
              taken == ~(size < Smallest) /\ ok
          IN  /\ UpdateRegion(index, [Region(index) EXCEPT
                     !.free = FreeOf(exec[h]), !.measured = size < Smallest,
                     !.speed = IF size < Smallest THEN 0 ELSE @])
              /\ pc' = IF size < Smallest THEN "publish" ELSE "timed"
              /\ reg' = [reg EXCEPT !.index = index,
                                    !.buffer = IF taken THEN size ELSE 0]
              /\ IF taken
                 THEN /\ exec' = [exec EXCEPT ![h][FirstLargest(exec[h])] = @ - size]
                      /\ Hold("block")
                 ELSE UNCHANGED <<held, exec>>
  /\ UNCHANGED <<masks, heap>>

\* The block is timed and freed; without one the speed is 0.
TimeBlock ==
  /\ Go("timed", "publish")
  /\ LET h == Region(reg.index).header
     IN  exec' = IF reg.buffer = 0 THEN exec
                 ELSE [exec EXCEPT ![h] = Append(@, reg.buffer)]
  /\ UpdateRegion(reg.index, [Region(reg.index) EXCEPT !.measured = TRUE,
                                 !.speed = IF reg.buffer = 0 THEN 0 ELSE reg.index])
  /\ Drop({"block"})
  /\ reg' = [reg EXCEPT !.buffer = 0]
  /\ UNCHANGED <<masks, heap>>

\* publish_memory_speed: a speed that is not 0 goes to the main view.
PublishSpeed ==
  /\ Go("publish", "memory done")
  /\ LET speed == Region(reg.index).speed
     IN  reg' = [reg EXCEPT !.published = IF speed # 0 THEN speed ELSE @]
  /\ UNCHANGED <<masks, listVars, exec>>

MemoryStep ==
  \/ CountRegions \/ ScanRegions \/ TimeBlock \/ PublishSpeed
  \/ \E ok \in BOOLEAN : GrowRegions(ok)
  \/ \E index \in 1..(lists["memory"].count + 1) :
       RefreshRegion(index) \/ \E ok \in BOOLEAN : TakeBlock(index, ok)
-----------------------------------------------------------------------------
\* The totals count every header, also those there is no room for; the regions
\* are the first headers, and their free memory is read with the list itself
\* already allocated (memory.c 179-181, 201-211).
RegionsListed ==
  LET l == lists["memory"]
  IN  /\ \A i \in 1..l.count : /\ l.items[i].header = i
                               /\ l.items[i].own = heap["memory"]
      /\ reg.total >= l.count
      /\ pc = "memory done" /\ l.capacity > 0 => l.count >= reg.headers
=============================================================================
