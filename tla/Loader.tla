------------------------------- MODULE Loader -------------------------------
(***************************************************************************)
(* The loading screen of loading.c.  The command xSysInfoLoader START      *)
(* loads its own code once more and creates a process, the splash, that    *)
(* runs in that copy; STOP signals the splash, waits for its end and       *)
(* unloads the copy.  xSysInfo itself signals it when its display is ready *)
(* (display.c).  The splash installs a VBlank server and blits into the    *)
(* Copper list that Intuition shows, which any task may rebuild.           *)
(*                                                                         *)
(* A LoadingControl and the segment it owns share one identity of Segments.*)
(* Clis are the command lines that may run the command, each again and     *)
(* again.  Steps the source makes between Forbid and Permit are one action.*)
(***************************************************************************)
EXTENDS Integers, Sequences

CONSTANTS
  Clis,       \* the command lines
  Segments,   \* the copies that LoadSeg may return
  StopTicks,  \* the polls of stop_scroller
  Frames,     \* the polls of display_ready
  Columns,    \* PLASMA_COLUMNS
  Lists,      \* the Copper lists Intuition may show
  Suitable,   \* those in which the plasma is found
  None        \* a null pointer

ASSUME LoaderAssumption ==
  /\ StopTicks \in Nat \ {0} /\ Frames \in Nat \ {0} /\ Columns \in Nat \ {0}
  /\ Suitable \subseteq Lists
  /\ None \notin Segments \cup Lists

VARIABLES
  cli,       \* per command line: what it does, pc, with which segment, ticks
  loaded,    \* the segments in memory
  controls,  \* the allocated LoadingControls
  ports,     \* those that are public message ports
  splash,    \* per segment: where the process in it is, "none" if there is none
  signalled, \* the splashes that have been sent CTRL_C
  resources, \* per segment: what its splash has acquired
  servers,   \* the installed VBlank servers
  columns,   \* per segment: the columns of the frame blitted so far
  mapped,    \* per segment: mapped_copper, with a target in it
  active,    \* the Copper list being shown
  forbidden, \* the splash that has called Forbid, or None
  app,       \* xSysInfo: "loading", "waiting" in display_ready, or "open"
  frame      \* frame of display_ready

memory == <<loaded, controls, ports>>
process == <<splash, signalled>>
plasma == <<resources, servers, columns, mapped, forbidden>>
display == <<app, frame>>
vars == <<cli, memory, process, plasma, active, display>>

Idle == [pc |-> "idle", segment |-> None, ticks |-> 0]

\* What a splash acquires, in this order; its Copper list is optional.
Needed == <<"graphics", "intuition", "screen", "pointer", "window", "raster", "ramp">>
Resource == {Needed[i] : i \in DOMAIN Needed} \cup {"copper"}

\* FindTask(LOADING_TASK_NAME).
Running == {s \in Segments : splash[s] # "none"}

Init ==
  /\ cli = [c \in Clis |-> Idle]
  /\ loaded = {} /\ controls = {} /\ ports = {}
  /\ splash = [s \in Segments |-> "none"]
  /\ signalled = {}
  /\ resources = [s \in Segments |-> {}]
  /\ servers = {}
  /\ columns = [s \in Segments |-> 0]
  /\ mapped = [s \in Segments |-> None]
  /\ active \in Lists
  /\ forbidden = None
  /\ app = "loading" /\ frame = 0

\* No task but the one that called Forbid runs.
Runs(s) == forbidden \in {None, s}
At(c, label) == cli[c].pc = label /\ forbidden = None
Go(c, label, s) == cli' = [cli EXCEPT ![c].pc = label, ![c].segment = s]

Done(c) == cli' = [cli EXCEPT ![c] = Idle]

\* FindTask and Signal under one Forbid.
SignalSplash ==
  IF Running = {} THEN UNCHANGED signalled
  ELSE \E s \in Running : signalled' = signalled \cup {s}
-----------------------------------------------------------------------------
(* START.                                                                  *)

\* Nothing is started, and nothing changes, when memory is short or when a
\* control port exists.
Start(c) ==
  /\ At(c, "idle")
  /\ ports = {}
  /\ Go(c, "load", None)
  /\ UNCHANGED <<memory, process, plasma, active, display>>

LoadSegment(c, s) ==
  /\ At(c, "load") /\ s \notin loaded
  /\ loaded' = loaded \cup {s}
  /\ Go(c, "alloc", s)
  /\ UNCHANGED <<controls, ports, process, plasma, active, display>>

LoadFails(c) ==
  /\ At(c, "load")
  /\ Done(c)
  /\ UNCHANGED <<memory, process, plasma, active, display>>

AllocControl(c) ==
  /\ At(c, "alloc")
  /\ controls' = controls \cup {cli[c].segment}
  /\ Go(c, "add", cli[c].segment)
  /\ UNCHANGED <<loaded, ports, process, plasma, active, display>>

AllocFails(c) ==
  /\ At(c, "alloc")
  /\ loaded' = loaded \ {cli[c].segment}
  /\ Done(c)
  /\ UNCHANGED <<controls, ports, process, plasma, active, display>>

AddPort(c) ==
  /\ At(c, "add")
  /\ ports' = ports \cup {cli[c].segment}
  /\ Go(c, "create", cli[c].segment)
  /\ UNCHANGED <<loaded, controls, process, plasma, active, display>>

CreateProc(c) ==
  /\ At(c, "create")
  /\ splash' = [splash EXCEPT ![cli[c].segment] = "setup"]
  /\ Done(c)
  /\ UNCHANGED <<memory, signalled, plasma, active, display>>

\* Mutant: the segment stays loaded when its process cannot be created.
BugCreateFails(c) ==
  /\ At(c, "create")
  /\ ports' = ports \ {cli[c].segment}
  /\ controls' = controls \ {cli[c].segment}
  /\ Done(c)
  /\ UNCHANGED <<loaded, process, plasma, active, display>>

CreateFails(c) ==
  /\ At(c, "create")
  /\ ports' = ports \ {cli[c].segment}
  /\ controls' = controls \ {cli[c].segment}
  /\ loaded' = loaded \ {cli[c].segment}
  /\ Done(c)
  /\ UNCHANGED <<process, plasma, active, display>>
-----------------------------------------------------------------------------
(* STOP.                                                                   *)

\* The port and the task are looked up, and the task signalled, at once.
Stop(c, s) ==
  /\ At(c, "idle")
  /\ s \in ports
  /\ SignalSplash
  /\ Go(c, "poll", s)
  /\ UNCHANGED <<memory, splash, plasma, active, display>>

\* One look for the task per tick; when the ticks run out its code may still
\* be in use, and everything is left as it is.
\* Mutant: the segment is unloaded even if the task has not ended in time.
BugAfterPoll(c) ==
  IF Running = {} \/ cli[c].ticks + 1 = StopTicks THEN "remove" ELSE "poll"

AfterPoll(c) ==
  IF Running = {} THEN "remove"
  ELSE IF cli[c].ticks + 1 = StopTicks THEN "idle" ELSE "poll"

Poll(c) ==
  /\ At(c, "poll")
  /\ IF AfterPoll(c) = "idle" THEN Done(c)
     ELSE cli' = [cli EXCEPT ![c].pc = AfterPoll(c), ![c].ticks = @ + 1]
  /\ UNCHANGED <<memory, process, plasma, active, display>>

RemovePort(c) ==
  /\ At(c, "remove")
  /\ ports' = ports \ {cli[c].segment}
  /\ Go(c, "unload", cli[c].segment)
  /\ UNCHANGED <<loaded, controls, process, plasma, active, display>>

Unload(c) ==
  /\ At(c, "unload")
  /\ loaded' = loaded \ {cli[c].segment}
  /\ controls' = controls \ {cli[c].segment}
  /\ Done(c)
  /\ UNCHANGED <<ports, process, plasma, active, display>>
-----------------------------------------------------------------------------
(* The splash.                                                             *)

SplashAt(s, label) == splash[s] = label /\ Runs(s)
Move(s, label) == splash' = [splash EXCEPT ![s] = label]

\* What is acquired next.
NextNeeded(s) ==
  Needed[CHOOSE i \in DOMAIN Needed :
           /\ Needed[i] \notin resources[s]
           /\ \A j \in 1..(i - 1) : Needed[j] \in resources[s]]
HasAll(s) == \A i \in DOMAIN Needed : Needed[i] \in resources[s]

Acquire(s) ==
  /\ SplashAt(s, "setup") /\ ~HasAll(s)
  /\ resources' = [resources EXCEPT ![s] = @ \cup {NextNeeded(s)}]
  /\ UNCHANGED <<cli, memory, process, servers, columns, mapped, forbidden,
                 active, display>>

AcquireFails(s) ==
  /\ SplashAt(s, "setup") /\ ~HasAll(s)
  /\ Move(s, "close")
  /\ UNCHANGED <<cli, memory, signalled, plasma, active, display>>

\* Mutant: the server's task starts with its signals cleared.
BugInstall(s, copper) ==
  /\ SplashAt(s, "setup") /\ HasAll(s)
  /\ resources' = [resources EXCEPT ![s] =
                     (@ \ {"raster"}) \cup (IF copper THEN {"copper"} ELSE {})]
  /\ servers' = servers \cup {s}
  /\ signalled' = signalled \ {s}
  /\ Move(s, "loop")
  /\ UNCHANGED <<cli, memory, columns, mapped, forbidden, active, display>>

\* The glyph raster goes back, the plasma's Copper list is made if memory
\* allows, and the VBlank server animates the screen.
Install(s, copper) ==
  /\ SplashAt(s, "setup") /\ HasAll(s)
  /\ resources' = [resources EXCEPT ![s] =
                     (@ \ {"raster"}) \cup (IF copper THEN {"copper"} ELSE {})]
  /\ servers' = servers \cup {s}
  /\ Move(s, "loop")
  /\ UNCHANGED <<cli, memory, signalled, columns, mapped, forbidden, active,
                 display>>

\* The head of the loop looks for CTRL_C before and after WaitTOF.
Loop(s) ==
  /\ SplashAt(s, "loop")
  /\ \/ s \in signalled /\ Move(s, "remove")
     \/ s \notin signalled /\ "copper" \in resources[s] /\ Move(s, "update")
  /\ UNCHANGED <<cli, memory, signalled, plasma, active, display>>

\* update_plasma finds its target in the list shown now, once per list.
\* changed: the wave has moved or the target is new.
Map(s, changed) ==
  /\ SplashAt(s, "update")
  /\ mapped' = [mapped EXCEPT ![s] = active]
  /\ columns' = [columns EXCEPT ![s] = 0]
  /\ Move(s, IF active \in Suitable /\ (changed \/ mapped[s] # active)
             THEN "column" ELSE "loop")
  /\ UNCHANGED <<cli, memory, signalled, resources, servers, forbidden, active,
                 display>>

\* Mutant: the list is not looked at again after the wait for the blitter.
BugStillMapped(s) == TRUE

StillMapped(s) == active = mapped[s]

\* With the blitter owned and Forbid called, the mapping is checked again.
Validate(s) ==
  /\ SplashAt(s, "column")
  /\ IF StillMapped(s) THEN forbidden' = s /\ Move(s, "blit")
                       ELSE Move(s, "loop") /\ UNCHANGED forbidden
  /\ UNCHANGED <<cli, memory, signalled, resources, servers, columns, mapped,
                 active, display>>

\* One column is blitted into the mapped list.
Blit(s) ==
  /\ SplashAt(s, "blit")
  /\ columns' = [columns EXCEPT ![s] = @ + 1]
  /\ forbidden' = None
  /\ Move(s, IF columns[s] + 1 = Columns THEN "loop" ELSE "column")
  /\ UNCHANGED <<cli, memory, signalled, resources, servers, mapped, active,
                 display>>

Remove(s) ==
  /\ SplashAt(s, "remove")
  /\ servers' = servers \ {s}
  /\ Move(s, "teardown")
  /\ UNCHANGED <<cli, memory, signalled, resources, columns, mapped, forbidden,
                 active, display>>

\* The window, and the plasma's list with the screen that shows it.
Teardown(s) ==
  /\ SplashAt(s, "teardown")
  /\ resources' =
       [resources EXCEPT ![s] =
          @ \ ({"window", "ramp"} \cup
               (IF "copper" \in @ THEN {"copper", "screen"} ELSE {}))]
  /\ Move(s, "close")
  /\ UNCHANGED <<cli, memory, signalled, servers, columns, mapped, forbidden,
                 active, display>>

\* What the code behind the label close_screen gives back, if it is there.
\* Mutant: the glyph raster is forgotten when the memory after it fails.
BugCloseFrees == {"window", "screen", "pointer", "intuition", "graphics"}

CloseFrees == {"raster", "window", "screen", "pointer", "intuition", "graphics"}

\* The rest goes back and the process ends, its pending signal and its variables
\* with it.
Close(s) ==
  /\ SplashAt(s, "close")
  /\ resources' = [resources EXCEPT ![s] = @ \ CloseFrees]
  /\ columns' = [columns EXCEPT ![s] = 0]
  /\ mapped' = [mapped EXCEPT ![s] = None]
  /\ signalled' = signalled \ {s}
  /\ Move(s, "none")
  /\ UNCHANGED <<cli, memory, servers, forbidden, active, display>>

\* Intuition rebuilds the display for whatever task opens or closes a screen.
Rebuild(list) ==
  /\ forbidden = None
  /\ active' = list
  /\ UNCHANGED <<cli, memory, process, plasma, display>>
-----------------------------------------------------------------------------
(* display_ready of xSysInfo.                                              *)

\* Signal the splash, if there is one, and wait for its end if xSysInfo has a
\* screen of its own to bring to the front.
Ready(screen) ==
  /\ app = "loading" /\ forbidden = None
  /\ SignalSplash
  /\ app' = IF Running = {} \/ ~screen THEN "open" ELSE "waiting"
  /\ UNCHANGED <<cli, memory, splash, plasma, active, frame>>

WaitFrame ==
  /\ app = "waiting" /\ forbidden = None
  /\ IF Running = {} \/ frame + 1 = Frames
     THEN app' = "open" /\ frame' = 0
     ELSE app' = app /\ frame' = frame + 1
  /\ UNCHANGED <<cli, memory, process, plasma, active>>

Quit ==
  /\ app = "open" /\ forbidden = None
  /\ app' = "loading"
  /\ UNCHANGED <<cli, memory, process, plasma, active, frame>>
-----------------------------------------------------------------------------
Command(c) ==
  \/ \E s \in Segments : LoadSegment(c, s)
  \/ LoadFails(c) \/ AllocControl(c) \/ AllocFails(c) \/ AddPort(c)
  \/ CreateProc(c) \/ CreateFails(c)
  \/ Poll(c) \/ RemovePort(c) \/ Unload(c)

Splash(s) ==
  \/ Acquire(s) \/ AcquireFails(s)
  \/ \E copper \in BOOLEAN : Install(s, copper)
  \/ Loop(s)
  \/ \E changed \in BOOLEAN : Map(s, changed)
  \/ Validate(s) \/ Blit(s) \/ Remove(s)
  \/ Teardown(s) \/ Close(s)

Next ==
  \/ \E c \in Clis : Start(c)
  \/ \E c \in Clis, s \in Segments : Stop(c, s)
  \/ \E c \in Clis : Command(c)
  \/ \E s \in Segments : Splash(s)
  \/ \E list \in Lists : Rebuild(list)
  \/ \E screen \in BOOLEAN : Ready(screen)
  \/ WaitFrame \/ Quit

\* A command runs to its end.  The splash has priority -1 but is not starved:
\* the commands and xSysInfo wait in Delay and WaitTOF.  Nothing makes a user
\* start a command, and nothing keeps Intuition from rebuilding the display.
Spec ==
  /\ Init /\ [][Next]_vars
  /\ \A c \in Clis : WF_vars(Command(c))
  /\ \A s \in Segments : WF_vars(Splash(s))
  /\ WF_vars(WaitFrame)
-----------------------------------------------------------------------------
(* Properties.                                                             *)

CliLabels == {"idle", "load", "alloc", "add", "create", "poll", "remove", "unload"}
SplashLabels == {"none", "setup", "loop", "update", "column", "blit", "remove",
                 "teardown", "close"}

\* The code of a splash, and of its VBlank server, stays loaded as long as it
\* runs; the server finds the screen and the memory it writes to.
CodeInUse ==
  /\ Running \cup servers \subseteq loaded
  /\ \A s \in servers : splash[s] # "none" /\ {"screen", "ramp"} \subseteq resources[s]

\* Between commands, every copy in memory has a control that the next STOP will
\* find, and every control a copy.
NothingOrphaned ==
  (\A c \in Clis : cli[c].pc = "idle") => loaded = ports /\ controls = ports

\* A splash that has ended holds nothing, wherever its setup failed.
SplashGivesBack == \A s \in Segments : splash[s] = "none" => resources[s] = {}

\* A column is blitted only into the Copper list that is being shown.
BlitsDisplayed ==
  \A s \in Segments : splash[s] = "blit" => active = mapped[s] /\ active \in Suitable

\* A splash that was told to end does.
SplashEnds == \A s \in Segments : s \in signalled ~> splash[s] = "none"
=============================================================================
