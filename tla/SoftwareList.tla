---------------------------- MODULE SoftwareList ----------------------------
(***************************************************************************)
(* The lists of software and the system software (software.c): libraries,  *)
(* devices, resources and MMU mappings are read from the lists of Exec     *)
(* under Forbid; the graphics system and the network stack are named from  *)
(* what they leave in memory or on disk.                                   *)
(*                                                                         *)
(* A network stack such as Miami runs as a process.  It may quit, with its *)
(* library and its segments, whenever other tasks run, and an interrupt    *)
(* may move it from the waiting to the ready tasks at any time.            *)
(***************************************************************************)
EXTENDS GrowList, SequencesExt

CONSTANTS
  ExecNodes,        \* of each software list, the nodes of Exec by their names
  Special,      \* the libraries that tell of an FPU or an MMU
  Mappings,     \* how many ranges mmu.library reports
  Hints,        \* how many lines explain them: 8
  MaxPrograms   \* MAX_PROGRAMS, the programs there is room to copy: 128

ASSUME SoftwareAssumption ==
  /\ {Mappings, Hints, MaxPrograms} \subseteq Nat
  /\ \A n \in {"libraries", "devices", "resources"} :
       ExecNodes[n] \in Seq(Nat \ {0})

\* The lines about the MMU.
MmuItems == {"not loaded", "size", "range", "hint"}

VARIABLES
  sw,       \* the locals of the routines and what they find
  stack     \* the process of the network stack

softwareVars == <<sw, stack>>

SoftwareInit ==
  /\ sw = [at |-> 0, flags |-> {}, lost |-> {}, quiet |-> FALSE, path |-> 0,
           copied |-> FALSE, programs |-> 0, release |-> "none", stack |-> "none"]
  /\ stack = [runs |-> TRUE, list |-> "wait"]

\* The stack quits, or an interrupt wakes it.
StackChanges ==
  /\ \/ TasksRun /\ stack.runs /\ stack' = [stack EXCEPT !.runs = FALSE]
     \/ InterruptsRun /\ stack.runs /\ stack.list = "wait"
          /\ stack' = [stack EXCEPT !.list = "ready"]
     \/ TasksRun /\ stack.runs /\ stack.list = "ready"
          /\ stack' = [stack EXCEPT !.list = "wait"]
  /\ pc \in {"network", "programs", "ready", "waiting", "enable", "segments"}
  /\ UNCHANGED <<pc, masks, listVars, sw>>
-----------------------------------------------------------------------------
\* detect_system_software: version.library is opened and closed, the semaphore
\* of SetPatch read under Forbid; nothing of it depends on another step.
SystemSoftware ==
  /\ Go("software", "graphics")
  /\ UNCHANGED <<masks, listVars, softwareVars>>

\* detect_graphics_system: only Picasso96 keeps its release on disk; the others
\* are asked under Forbid.
GraphicsSystem(onDisk) ==
  /\ Go("graphics", IF onDisk THEN "picasso" ELSE "network")
  /\ sw' = [sw EXCEPT !.quiet = onDisk, !.path = 1]
  /\ UNCHANGED <<masks, listVars, stack>>

\* picasso96_release tries two files, without requesters.
PicassoOpen(ok) ==
  /\ pc = "picasso" /\ sw.path <= 2
  /\ IF ok THEN pc' = "picasso file" /\ Hold("file") /\ UNCHANGED sw
     ELSE sw' = [sw EXCEPT !.path = @ + 1] /\ UNCHANGED <<pc, held>>
  /\ UNCHANGED <<masks, lists, heap, stack>>

PicassoRead(release) ==
  /\ Go("picasso file", "picasso")
  /\ Drop({"file"})
  /\ sw' = [sw EXCEPT !.path = IF release THEN 3 ELSE @ + 1]
  /\ UNCHANGED <<masks, lists, heap, stack>>

PicassoEnd ==
  /\ sw.path > 2
  /\ Go("picasso", "network")
  /\ sw' = [sw EXCEPT !.quiet = FALSE]
  /\ UNCHANGED <<masks, listVars, stack>>
-----------------------------------------------------------------------------
\* Mutant: the library list is read without Forbid.
BugForbids == 0

\* The forbids detect_network_stack nests around all it reads of the stack.
Forbids == 1

\* detect_network_stack: a stack that runs left its library; other: some other
\* stack left one that names itself.
FindStack(other) ==
  /\ pc = "network"
  /\ forbid' = forbid + Forbids
  /\ pc' = IF stack.runs THEN "programs" ELSE "found"
  /\ sw' = [sw EXCEPT !.copied = FALSE, !.programs = 0, !.release = "none",
              !.stack = IF stack.runs THEN "process" ELSE IF other THEN "library"
                        ELSE "none"]
  /\ UNCHANGED <<disabled, listVars, stack>>

\* Mutant: interrupts stay enabled while the lists of tasks are copied.
BugDisables == FALSE

Disables == TRUE

\* program_holding copies the ready tasks and then the waiting ones.
ProgramsDisable ==
  /\ Go("programs", "ready")
  /\ disabled' = Disables
  /\ UNCHANGED <<forbid, listVars, softwareVars>>

\* A list of tasks is copied until there is no room: ahead and behind are how
\* many other programs it has before the stack and after it, as far as they
\* matter; there: the stack is in it.
Copy(there, ahead, behind) ==
  LET copied == there /\ sw.programs + ahead < MaxPrograms
      all == sw.programs + ahead + behind + (IF copied THEN 1 ELSE 0)
  IN  sw' = [sw EXCEPT !.copied = @ \/ copied,
               !.programs = IF all < MaxPrograms THEN all ELSE MaxPrograms]

ReadyCopied(ahead, behind) ==
  /\ Go("ready", "waiting")
  /\ Copy(stack.runs /\ stack.list = "ready", ahead, behind)
  /\ UNCHANGED <<masks, listVars, stack>>

WaitingCopied(ahead, behind) ==
  /\ Go("waiting", "enable")
  /\ Copy(stack.runs /\ stack.list = "wait", ahead, behind)
  /\ UNCHANGED <<masks, listVars, stack>>

ProgramsCopied ==
  \E ahead, behind \in 0..MaxPrograms :
    ReadyCopied(ahead, behind) \/ WaitingCopied(ahead, behind)

ProgramsEnable ==
  /\ Go("enable", "segments")
  /\ disabled' = FALSE
  /\ UNCHANGED <<forbid, listVars, softwareVars>>

\* program_release reads the segments of the program that holds the library,
\* and the copies are gone.
SegmentsRead ==
  /\ Go("segments", "found")
  /\ sw' = [sw EXCEPT !.copied = FALSE, !.programs = 0,
              !.release = IF ~sw.copied THEN "missed"
                          ELSE IF stack.runs THEN "read" ELSE "unloaded"]
  /\ UNCHANGED <<masks, listVars, stack>>

\* A stack that does not run may still be installed.
StackPermit ==
  /\ Go("found", IF sw.stack = "none" THEN "installed" ELSE "libraries")
  /\ forbid' = forbid - Forbids
  /\ UNCHANGED <<disabled, listVars, softwareVars>>

\* installed_stack: from Kickstart 2 on, with a buffer, without requesters.
InstalledBegin(buffer) ==
  /\ pc = "installed"
  /\ IF buffer THEN /\ pc' = "libs" /\ Hold("buffer")
                    /\ sw' = [sw EXCEPT !.quiet = TRUE]
     ELSE pc' = "libraries" /\ UNCHANGED <<held, sw>>
  /\ UNCHANGED <<masks, lists, heap, stack>>

\* libs_beyond_floppies: the next directory of LIBS:, which takes the place of
\* the one before; after the last there is none to free.
LibsNext(more) ==
  /\ pc = "libs"
  /\ IF more THEN pc' = "libs handler" /\ Hold("device process")
     ELSE pc' = "file end" /\ Drop({"device process"})
  /\ UNCHANGED <<masks, lists, heap, softwareVars>>

\* is_floppy_handler asks the DOS list.
LibsHandler == /\ Go("libs handler", "libs locked") /\ Hold("dos list")
               /\ UNCHANGED <<masks, lists, heap, softwareVars>>

LibsFloppy(floppy) ==
  /\ Go("libs locked", IF floppy THEN "libs" ELSE "file")
  /\ Drop(IF floppy THEN {"dos list"} ELSE {"dos list", "device process"})
  /\ UNCHANGED <<masks, lists, heap, softwareVars>>

FileOpen(ok) ==
  /\ Go("file", IF ok THEN "file read" ELSE "file end")
  /\ IF ok THEN Hold("file") ELSE UNCHANGED held
  /\ UNCHANGED <<masks, lists, heap, softwareVars>>

\* A read finds the name of the stack, or the end of the file.
FileRead(found) ==
  /\ Go("file read", "file end")
  /\ sw' = [sw EXCEPT !.stack = IF found THEN "installed" ELSE @]
  /\ UNCHANGED <<masks, listVars, stack>>

InstalledEnd ==
  /\ Go("file end", "libraries")
  /\ Drop({"file", "buffer"})
  /\ sw' = [sw EXCEPT !.quiet = FALSE]
  /\ UNCHANGED <<masks, lists, heap, stack>>
-----------------------------------------------------------------------------
\* reset_software_list, and Forbid.
SoftwareBegin(n, to) ==
  /\ Go(n, to)
  /\ FreeList(n)
  /\ forbid' = forbid + 1
  /\ sw' = [sw EXCEPT !.at = 0, !.lost = @ \ {n}]
  /\ UNCHANGED <<disabled, held, stack>>

\* Permit, and sort_software_list; place says where each entry was.
SoftwareEnd(n, from, to) ==
  /\ sw.at = Len(ExecNodes[n])
  /\ Go(from, to)
  /\ LET entries == 1..lists[n].count
     IN  \E place \in Injection(entries, entries) :
           /\ \A i, j \in entries :
                i < j => lists[n].items[place[i]] <= lists[n].items[place[j]]
           /\ lists' = [lists EXCEPT ![n].items =
                          [i \in DOMAIN @ |-> IF i \in entries THEN @[place[i]] ELSE @[i]]]
  /\ forbid' = forbid - 1
  /\ UNCHANGED <<disabled, heap, held, softwareVars>>

\* Mutant: a library tells of the FPU or the MMU only when it is listed.
BugTells(name, memory) == HasRoom("libraries", memory)

\* A special library tells of the FPU or the MMU with or without room for it.
Tells(name, memory) == TRUE

\* enumerate_libraries leaves out what finds no room and goes on.
LibrariesBegin == SoftwareBegin("libraries", "library")
LibraryNode(memory) ==
  /\ pc = "library" /\ sw.at < Len(ExecNodes["libraries"])
  /\ LET name == ExecNodes["libraries"][sw.at + 1]
     IN  /\ Add("libraries", name, memory)
         /\ sw' = [sw EXCEPT !.at = @ + 1,
                     !.lost = IF HasRoom("libraries", memory) THEN @
                              ELSE @ \cup {"libraries"},
                     !.flags = IF name \in Special /\ Tells(name, memory)
                               THEN @ \cup {name} ELSE @]
  /\ UNCHANGED <<pc, masks, held, stack>>
LibrariesEnd == SoftwareEnd("libraries", "library", "kickstart")

\* The entries of Kickstart, before all names: its update -1, itself -2.
Kickstart(updated) == IF updated THEN <<-2, -1>> ELSE <<-2>>

\* Room for two is made even when one is inserted.
KickstartEntries(updated, memory) ==
  /\ Go("kickstart", "devices")
  /\ LET g == Grow("libraries", lists["libraries"].count + 2, memory)
         new == Kickstart(updated)
         k == Len(new)
     IN  IF ~g.ok THEN UNCHANGED <<lists, heap>>
         ELSE Replace("libraries",
                [g.list EXCEPT !.count = @ + k,
                   !.items = [i \in DOMAIN @ |->
                                IF i <= k THEN new[i]
                                ELSE IF i <= g.list.count + k THEN @[i - k]
                                ELSE @[i]]])
  /\ UNCHANGED <<masks, held, softwareVars>>

\* enumerate_devices and enumerate_resources end at the first without room.
SoftwareNode(n, from, memory) ==
  /\ pc = from /\ sw.at < Len(ExecNodes[n])
  /\ Add(n, ExecNodes[n][sw.at + 1], memory)
  /\ sw' = IF HasRoom(n, memory) THEN [sw EXCEPT !.at = @ + 1]
           ELSE [sw EXCEPT !.at = Len(ExecNodes[n]), !.lost = @ \cup {n}]
  /\ UNCHANGED <<pc, masks, held, stack>>

DevicesBegin == SoftwareBegin("devices", "device")
DeviceNode(memory) == SoftwareNode("devices", "device", memory)
DevicesEnd == SoftwareEnd("devices", "device", "resources")

ResourcesBegin == SoftwareBegin("resources", "resource")
ResourceNode(memory) == SoftwareNode("resources", "resource", memory)
ResourcesEnd == SoftwareEnd("resources", "resource", "mmu")
-----------------------------------------------------------------------------
\* enumerate_mmu_entries, with Forbid over the whole.
MmuReset == SoftwareBegin("mmu", "mmu entries")

\* One line says that there is no mmu.library; with it, unless it does not open,
\* the size of a page comes first.
MmuBegin(loaded, opens, memory) ==
  /\ Go("mmu entries", IF loaded /\ opens THEN "mapping" ELSE "mmu permit")
  /\ IF loaded /\ ~opens THEN UNCHANGED <<lists, heap>>
     ELSE Add("mmu", IF loaded THEN "size" ELSE "not loaded", memory)
  /\ held' = IF loaded /\ opens THEN held \cup {"mmu.library", "mapping"} ELSE held
  /\ UNCHANGED <<masks, softwareVars>>

\* A range that finds no room ends the list.
MmuRange(memory) ==
  /\ pc = "mapping" /\ sw.at < Mappings
  /\ Add("mmu", "range", memory)
  /\ sw' = [sw EXCEPT !.at = IF HasRoom("mmu", memory) THEN @ + 1 ELSE Mappings]
  /\ UNCHANGED <<pc, masks, held, stack>>

\* The mapping goes back; the hints come all or not at all.
MmuHints(memory) ==
  /\ sw.at = Mappings
  /\ Go("mapping", "mmu permit")
  /\ LET g == Grow("mmu", lists["mmu"].count + Hints, memory)
         n == g.list.count
     IN  IF g.ok THEN Replace("mmu",
                        [g.list EXCEPT !.count = n + Hints,
                           !.items = [i \in DOMAIN @ |->
                             IF i \in n + 1 .. n + Hints THEN "hint" ELSE @[i]]])
         ELSE UNCHANGED <<lists, heap>>
  /\ Drop({"mmu.library", "mapping"})
  /\ UNCHANGED <<masks, softwareVars>>

MmuPermit ==
  /\ Go("mmu permit", "software done")
  /\ forbid' = forbid - 1
  /\ UNCHANGED <<disabled, listVars, softwareVars>>

SoftwareStep ==
  \/ SystemSoftware \/ PicassoEnd \/ ProgramsDisable \/ ProgramsCopied
  \/ ProgramsEnable \/ SegmentsRead \/ StackPermit
  \/ LibsHandler \/ InstalledEnd \/ MmuReset \/ MmuPermit
  \/ LibrariesBegin \/ LibrariesEnd \/ DevicesBegin \/ DevicesEnd
  \/ ResourcesBegin \/ ResourcesEnd
  \/ \E ok \in BOOLEAN :
       \/ GraphicsSystem(ok) \/ PicassoOpen(ok) \/ PicassoRead(ok) \/ FindStack(ok)
       \/ InstalledBegin(ok) \/ LibsNext(ok) \/ LibsFloppy(ok) \/ FileOpen(ok)
       \/ FileRead(ok) \/ LibraryNode(ok) \/ DeviceNode(ok) \/ ResourceNode(ok)
       \/ MmuRange(ok) \/ MmuHints(ok)
  \/ \E updated \in BOOLEAN, memory \in BOOLEAN : KickstartEntries(updated, memory)
  \/ \E l \in BOOLEAN, o \in BOOLEAN, m \in BOOLEAN : MmuBegin(l, o, m)
-----------------------------------------------------------------------------
\* The program of a stack that runs is found among the tasks, whenever interrupts
\* move it, unless as many other programs as there is room for were found first;
\* and its segments are read while it is loaded, however soon it quits
\* (software.c 989-1032, 1081-1103).
StackNamed ==
  /\ pc = "segments" /\ ~sw.copied => sw.programs = MaxPrograms
  /\ sw.release # "unloaded"

\* The libraries tell of the FPU and the MMU even when the list is full; the
\* entries are in order, those of Kickstart first, and none is left out that
\* found memory and room; MMU hints come all or not at all (software.c 171-188,
\* 217-252, 576-590).
SoftwareListed ==
  LET libraries == Items("libraries")
      mmu == Items("mmu")
      hints == {i \in DOMAIN mmu : mmu[i] = "hint"}
  IN  pc = "software done" =>
      /\ sw.flags = Special \cap Range(ExecNodes["libraries"])
      /\ \A n \in {"libraries", "devices", "resources"} :
           LET entries == Items(n)
           IN  /\ \A i, j \in DOMAIN entries : i < j => entries[i] <= entries[j]
               /\ n \notin sw.lost => Range(ExecNodes[n]) \subseteq Range(entries)
      /\ Cardinality(hints) \in {0, Hints}
=============================================================================
