---------------------------- MODULE LoaderProofs ----------------------------
(***************************************************************************)
(* With one command line the copy of the loader is never unloaded under    *)
(* its splash and never lost, and a splash gives back all it acquired, for *)
(* any number of copies, ticks, columns and Copper lists.  (With two       *)
(* command lines the first can fail: see the run loader_race.)             *)
(***************************************************************************)
EXTENDS Loader, TLAPS

\* The types the proof needs.
LoaderTypes ==
  /\ cli \in [Clis -> [pc: CliLabels, segment: Segments \cup {None}, ticks: Nat]]
  /\ splash \in [Segments -> SplashLabels]
  /\ resources \in [Segments -> SUBSET Resource]
  /\ mapped \in [Segments -> Lists \cup {None}]
  /\ active \in Lists
  /\ ports \subseteq Segments

\* What is in memory at each label of the command c.
CommandInv(c) ==
  LET label == cli[c].pc
      s == cli[c].segment
  IN  /\ label \in {"idle", "poll", "remove"} => loaded = ports /\ controls = ports
      /\ label \in {"load", "alloc", "add"} => ports = {}
      /\ label = "load" => loaded = {} /\ controls = {}
      /\ label = "alloc" => loaded = {s} /\ controls = {} /\ s \in Segments
      /\ label = "add" => loaded = {s} /\ controls = {s} /\ s \in Segments
      /\ label = "create" => /\ loaded = {s} /\ controls = {s} /\ ports = {s}
                             /\ s \in Segments
      /\ label = "unload" => /\ loaded = ports \cup {s} /\ controls = ports \cup {s}
                             /\ s \notin ports
      /\ label \in {"create", "remove", "unload"} => Running = {}
      /\ label \in {"poll", "remove"} => s \in ports

\* A splash has a port, and a VBlank server only while its screen is there.
SplashInv ==
  /\ Running \subseteq ports
  /\ \A s \in servers : /\ s \in Segments
                        /\ splash[s] \in {"loop", "update", "column", "blit", "remove"}
                        /\ {"screen", "ramp"} \subseteq resources[s]

\* A splash about to blit has called Forbid since it checked its list.
BlitInv ==
  \A s \in Segments :
    /\ splash[s] = "column" => mapped[s] \in Suitable
    /\ splash[s] = "blit" => forbidden = s /\ active = mapped[s] /\ active \in Suitable

LoaderInv(c) == LoaderTypes /\ CommandInv(c) /\ SplashInv /\ BlitInv

LEMMA LoaderInit ==
  ASSUME NEW c, Clis = {c}, Init
  PROVE  LoaderInv(c)
BY DEF Init, LoaderInv, LoaderTypes, CommandInv, SplashInv, BlitInv, Running,
       Idle, CliLabels, SplashLabels, Resource

\* How a step of the command moves it.
LEMMA CommandGoes ==
  ASSUME NEW c \in Clis, LoaderTypes,
         NEW label \in CliLabels, NEW s \in Segments \cup {None},
         Go(c, label, s)
  PROVE  /\ cli' \in [Clis -> [pc: CliLabels, segment: Segments \cup {None},
                               ticks: Nat]]
         /\ cli'[c].pc = label /\ cli'[c].segment = s
BY DEF Go, LoaderTypes

\* The splash is not touched by a step that changes neither it nor the ports.
LEMMA SplashUndisturbed ==
  ASSUME SplashInv, BlitInv, UNCHANGED <<splash, servers, resources, mapped,
         forbidden, active>>, Running \subseteq ports'
  PROVE  SplashInv' /\ BlitInv' /\ Running' = Running
BY DEF SplashInv, BlitInv, Running

\* The steps of the command.
LEMMA CommandStep ==
  ASSUME NEW c, Clis = {c}, LoaderInv(c), Start(c) \/ Command(c)
  PROVE  LoaderInv(c)'
<1> USE DEF LoaderInv, CliLabels, memory, process, plasma, display
<1>a. c \in Clis /\ cli[c].segment \in Segments \cup {None}
  BY DEF LoaderTypes
<1>b. Running \subseteq ports
  BY DEF SplashInv
<1>1. CASE Start(c)
  <2>1. Go(c, "load", None) /\ cli[c].pc = "idle" /\ ports = {}
    BY <1>1 DEF Start, At
  <2>2. UNCHANGED <<memory, process, plasma, active>>
    BY <1>1 DEF Start
  <2>3. SplashInv' /\ BlitInv' /\ Running' = Running
    BY <1>b, <2>2, SplashUndisturbed
  <2> QED
    BY <1>a, <2>1, <2>2, <2>3, CommandGoes DEF LoaderTypes, CommandInv
<1>2. ASSUME NEW s \in Segments, LoadSegment(c, s)
      PROVE  LoaderInv(c)'
  <2>1. Go(c, "alloc", s) /\ cli[c].pc = "load" /\ loaded' = loaded \cup {s}
    BY <1>2 DEF LoadSegment, At
  <2>2. UNCHANGED <<controls, ports, process, plasma, active>>
    BY <1>2 DEF LoadSegment
  <2>3. SplashInv' /\ BlitInv' /\ Running' = Running
    BY <1>b, <2>2, SplashUndisturbed
  <2> QED
    BY <1>a, <2>1, <2>2, <2>3, CommandGoes DEF LoaderTypes, CommandInv
<1>3. CASE LoadFails(c)
  BY <1>3 DEF LoadFails, LoaderTypes, CommandInv, SplashInv, BlitInv, Running,
              At, Done, Idle
<1>4. CASE AllocControl(c)
  <2>1. /\ Go(c, "add", cli[c].segment) /\ cli[c].pc = "alloc"
        /\ controls' = controls \cup {cli[c].segment}
    BY <1>4 DEF AllocControl, At
  <2>2. UNCHANGED <<loaded, ports, process, plasma, active>>
    BY <1>4 DEF AllocControl
  <2>3. SplashInv' /\ BlitInv' /\ Running' = Running
    BY <1>b, <2>2, SplashUndisturbed
  <2> QED
    BY <1>a, <2>1, <2>2, <2>3, CommandGoes DEF LoaderTypes, CommandInv
<1>5. CASE AllocFails(c)
  BY <1>5 DEF AllocFails, LoaderTypes, CommandInv, SplashInv, BlitInv, Running,
              At, Done, Idle
<1>6. CASE AddPort(c)
  <2>1. /\ Go(c, "create", cli[c].segment) /\ cli[c].pc = "add"
        /\ ports' = ports \cup {cli[c].segment}
    BY <1>6 DEF AddPort, At
  <2>2. UNCHANGED <<loaded, controls, process, plasma, active>>
    BY <1>6 DEF AddPort
  <2>3. SplashInv' /\ BlitInv' /\ Running' = Running
    BY <1>b, <2>1, <2>2, SplashUndisturbed
  <2>4. Running = {}
    BY <1>b, <2>1 DEF CommandInv
  <2> QED
    BY <1>a, <2>1, <2>2, <2>3, <2>4, CommandGoes DEF LoaderTypes, CommandInv
<1>7. CASE CreateProc(c)
  BY <1>7 DEF CreateProc, LoaderTypes, CommandInv, SplashInv, BlitInv, Running,
              At, Done, Idle, SplashLabels
<1>8. CASE CreateFails(c)
  BY <1>8 DEF CreateFails, LoaderTypes, CommandInv, SplashInv, BlitInv, Running,
              At, Done, Idle
<1>9. CASE Poll(c)
  BY <1>9 DEF Poll, AfterPoll, LoaderTypes, CommandInv, SplashInv, BlitInv,
              Running, At, Done, Idle
<1>10. CASE RemovePort(c)
  <2>1. /\ Go(c, "unload", cli[c].segment) /\ cli[c].pc = "remove"
        /\ ports' = ports \ {cli[c].segment}
    BY <1>10 DEF RemovePort, At
  <2>2. UNCHANGED <<loaded, controls, process, plasma, active>>
    BY <1>10 DEF RemovePort
  <2>3. Running = {}
    BY <2>1 DEF CommandInv
  <2>4. SplashInv' /\ BlitInv' /\ Running' = Running
    BY <2>2, <2>3, SplashUndisturbed
  <2>5. cli[c].segment \in ports
    BY <2>1 DEF CommandInv
  <2>6. /\ cli' \in [Clis -> [pc: CliLabels, segment: Segments \cup {None},
                              ticks: Nat]]
        /\ cli'[c].pc = "unload" /\ cli'[c].segment = cli[c].segment
    BY <1>a, <2>1, CommandGoes
  <2>7. loaded = ports /\ controls = ports
    BY <2>1 DEF CommandInv
  <2>8. CommandInv(c)'
    BY <2>1, <2>2, <2>3, <2>4, <2>5, <2>6, <2>7 DEF CommandInv
  <2> QED
    BY <2>1, <2>2, <2>4, <2>6, <2>8 DEF LoaderTypes
<1>11. CASE Unload(c)
  BY <1>11 DEF Unload, LoaderTypes, CommandInv, SplashInv, BlitInv, Running,
               At, Done, Idle
<1> QED
  BY <1>1, <1>2, <1>3, <1>4, <1>5, <1>6, <1>7, <1>8, <1>9, <1>10, <1>11
     DEF Command

\* A step of a splash leaves the command and the memory alone, and keeps it
\* among the running ones, or ends it when nothing depends on it.
LEMMA CommandUndisturbed ==
  ASSUME NEW c, CommandInv(c), UNCHANGED <<cli, loaded, controls, ports>>,
         Running' \subseteq Running
  PROVE  CommandInv(c)'
BY DEF CommandInv

LEMMA SplashMoves ==
  ASSUME LoaderTypes, NEW s \in Segments, NEW label \in SplashLabels,
         splash[s] # "none", Move(s, label)
  PROVE  /\ splash' \in [Segments -> SplashLabels]
         /\ splash'[s] = label
         /\ \A r \in Segments \ {s} : splash'[r] = splash[r]
         /\ Running' \subseteq Running
BY DEF Move, LoaderTypes, Running

\* The steps of a splash that has a server to keep alive, or that blits.
LEMMA SplashStep ==
  ASSUME NEW c, Clis = {c}, LoaderInv(c), NEW s \in Segments, Splash(s)
  PROVE  LoaderInv(c)'
<1> USE DEF LoaderInv, SplashLabels, SplashAt, memory, process, plasma, display
<1>1. CASE Acquire(s)
  <2>1. NextNeeded(s) \in Resource
    BY <1>1 DEF Acquire, HasAll, NextNeeded, Needed, Resource
  <2> QED
    BY <1>1, <2>1, CommandUndisturbed
       DEF Acquire, LoaderTypes, SplashInv, BlitInv, Running
<1>2. CASE AcquireFails(s)
  BY <1>2, SplashMoves, CommandUndisturbed
     DEF AcquireFails, LoaderTypes, SplashInv, BlitInv, Running
<1>3. ASSUME NEW copper \in BOOLEAN, Install(s, copper)
      PROVE  LoaderInv(c)'
  <2>1. {"screen", "ramp"} \subseteq resources'[s] /\ "copper" \in Resource
    BY <1>3 DEF Install, HasAll, Needed, LoaderTypes, Resource
  <2>2. resources' \in [Segments -> SUBSET Resource]
    BY <1>3, <2>1 DEF Install, LoaderTypes
  <2>3. \A r \in Segments \ {s} : resources'[r] = resources[r]
    BY <1>3 DEF Install, LoaderTypes
  <2> HIDE DEF Resource
  <2> QED
    BY <1>3, <2>1, <2>2, <2>3, SplashMoves, CommandUndisturbed
       DEF Install, LoaderTypes, SplashInv, BlitInv, Running
<1>4. CASE Loop(s)
  BY <1>4, SplashMoves, CommandUndisturbed
     DEF Loop, LoaderTypes, SplashInv, BlitInv, Running
<1>5. ASSUME NEW changed \in BOOLEAN, Map(s, changed)
      PROVE  LoaderInv(c)'
  <2>1. PICK label \in {"column", "loop"} :
          Move(s, label) /\ (label = "column" => active \in Suitable)
    BY <1>5 DEF Map
  <2>2. mapped' \in [Segments -> Lists \cup {None}]
    BY <1>5, LoaderAssumption DEF Map, LoaderTypes
  <2> QED
    BY <1>5, <2>1, <2>2, SplashMoves, CommandUndisturbed
       DEF Map, LoaderTypes, SplashInv, BlitInv, Running
<1>6. CASE Validate(s)
  <2>1. splash[s] = "column" /\ forbidden \in {None, s}
    BY <1>6 DEF Validate, Runs
  <2>2. \A r \in Segments : splash[r] # "blit"
    BY <2>1, LoaderAssumption DEF BlitInv
  <2>3. UNCHANGED <<cli, memory, servers, resources, mapped, active>>
    BY <1>6 DEF Validate
  <2>4. PICK label \in {"blit", "loop"} :
          /\ Move(s, label)
          /\ label = "blit" => forbidden' = s /\ active = mapped[s]
    BY <1>6 DEF Validate, StillMapped
  <2>5. active = mapped[s] => active \in Suitable
    BY <2>1 DEF BlitInv
  <2>6. /\ splash' \in [Segments -> SplashLabels] /\ splash'[s] = label
        /\ \A r \in Segments \ {s} : splash'[r] = splash[r]
        /\ Running' \subseteq Running
    BY <2>1, <2>4, SplashMoves
  <2>7. BlitInv'
    BY <2>2, <2>3, <2>4, <2>5, <2>6 DEF BlitInv
  <2>8. SplashInv'
    BY <2>1, <2>3, <2>4, <2>6 DEF SplashInv
  <2> QED
    BY <2>3, <2>6, <2>7, <2>8, CommandUndisturbed DEF LoaderTypes
<1>7. CASE Blit(s)
  BY <1>7, SplashMoves, CommandUndisturbed
     DEF Blit, LoaderTypes, SplashInv, BlitInv, Running
<1>8. CASE Remove(s)
  BY <1>8, SplashMoves, CommandUndisturbed
     DEF Remove, LoaderTypes, SplashInv, BlitInv, Running
<1>9. CASE Teardown(s)
  BY <1>9, SplashMoves, CommandUndisturbed
     DEF Teardown, LoaderTypes, SplashInv, BlitInv, Running
<1>10. CASE Close(s)
  BY <1>10, SplashMoves, CommandUndisturbed
     DEF Close, LoaderTypes, SplashInv, BlitInv, Running
<1> QED
  BY <1>1, <1>2, <1>3, <1>4, <1>5, <1>6, <1>7, <1>8, <1>9, <1>10 DEF Splash

\* The steps of a command, of xSysInfo and of Intuition.
LEMMA LoaderStep ==
  ASSUME NEW c, Clis = {c}, LoaderInv(c), [Next]_vars
  PROVE  LoaderInv(c)'
<1> USE DEF LoaderInv, memory, process, plasma, display
<1>1. ASSUME NEW s \in Segments, Stop(c, s)
      PROVE  LoaderInv(c)'
  <2>1. Go(c, "poll", s) /\ cli[c].pc = "idle" /\ s \in ports
    BY <1>1 DEF Stop, At
  <2>2. UNCHANGED <<memory, splash, plasma, active>>
    BY <1>1 DEF Stop
  <2>3. SplashInv' /\ BlitInv' /\ Running' = Running
    BY <2>2, SplashUndisturbed DEF SplashInv
  <2>4. /\ cli' \in [Clis -> [pc: CliLabels, segment: Segments \cup {None},
                              ticks: Nat]]
        /\ cli'[c].pc = "poll" /\ cli'[c].segment = s
    BY <2>1, CommandGoes DEF CliLabels
  <2> QED
    BY <2>1, <2>2, <2>3, <2>4 DEF LoaderTypes, CommandInv
<1>2. ASSUME NEW list \in Lists, Rebuild(list)
      PROVE  LoaderInv(c)'
  <2>1. forbidden = None /\ UNCHANGED <<cli, memory, process, plasma>>
        /\ active' \in Lists
    BY <1>2 DEF Rebuild
  <2>2. \A s \in Segments : splash[s] # "blit"
    BY <2>1, LoaderAssumption DEF BlitInv
  <2> QED
    BY <2>1, <2>2, CommandUndisturbed
       DEF LoaderTypes, SplashInv, BlitInv, Running
<1>3. ASSUME NEW screen \in BOOLEAN, Ready(screen)
      PROVE  LoaderInv(c)'
  BY <1>3, CommandUndisturbed
     DEF Ready, LoaderTypes, SplashInv, BlitInv, Running
<1>4. CASE WaitFrame \/ Quit
  BY <1>4, CommandUndisturbed
     DEF WaitFrame, Quit, LoaderTypes, SplashInv, BlitInv, Running
<1>5. CASE UNCHANGED vars
  BY <1>5, CommandUndisturbed
     DEF vars, LoaderTypes, SplashInv, BlitInv, Running
<1> QED
  BY <1>1, <1>2, <1>3, <1>4, <1>5, CommandStep, SplashStep DEF Next

\* What a splash holds at each label: the animation's memory comes last, so a
\* setup that fails has not got it, and the raster is only held in a setup.
ResourceInv ==
  \A s \in Segments :
    /\ splash[s] = "none" => resources[s] = {}
    /\ splash[s] = "setup" => /\ "copper" \notin resources[s]
                             /\ ("ramp" \in resources[s] => HasAll(s))
    /\ splash[s] = "close" => resources[s] \subseteq CloseFrees

\* The first need that is not met.
LEMMA NextNeed ==
  ASSUME NEW s \in Segments, ~HasAll(s)
  PROVE  \E i \in DOMAIN Needed :
           /\ NextNeeded(s) = Needed[i]
           /\ \A j \in 1..(i - 1) : Needed[j] \in resources[s]
<1> DEFINE First(i) == /\ Needed[i] \notin resources[s]
                       /\ \A j \in 1..(i - 1) : Needed[j] \in resources[s]
<1>1. DOMAIN Needed = 1..7
  BY DEF Needed
<1>2. \E i \in 1..7 : First(i)
  <2>1. \E i \in 1..7 : Needed[i] \notin resources[s]
    BY <1>1 DEF HasAll
  <2> HIDE DEF First
  <2>2. SUFFICES ASSUME \A i \in 1..7 : ~First(i) PROVE \A i \in 1..7 : Needed[i] \in resources[s]
    BY <2>1
  <2>3. Needed[1] \in resources[s]
    BY <2>2 DEF First
  <2>4. Needed[2] \in resources[s]
    BY <2>2, <2>3 DEF First
  <2>5. Needed[3] \in resources[s]
    BY <2>2, <2>3, <2>4 DEF First
  <2>6. Needed[4] \in resources[s]
    BY <2>2, <2>3, <2>4, <2>5 DEF First
  <2>7. Needed[5] \in resources[s]
    BY <2>2, <2>3, <2>4, <2>5, <2>6 DEF First
  <2>8. Needed[6] \in resources[s]
    BY <2>2, <2>3, <2>4, <2>5, <2>6, <2>7 DEF First
  <2>9. Needed[7] \in resources[s]
    BY <2>2, <2>3, <2>4, <2>5, <2>6, <2>7, <2>8 DEF First
  <2> QED
    BY <2>3, <2>4, <2>5, <2>6, <2>7, <2>8, <2>9
<1>3. First(CHOOSE i \in DOMAIN Needed : First(i))
  BY <1>1, <1>2
<1> QED
  BY <1>1, <1>2, <1>3 DEF NextNeeded

LEMMA ResourceInit ==
  ASSUME Init
  PROVE  ResourceInv
BY DEF Init, ResourceInv

LEMMA ResourceStep ==
  ASSUME NEW c, Clis = {c}, LoaderInv(c), ResourceInv, [Next]_vars
  PROVE  ResourceInv'
<1> USE DEF LoaderInv, LoaderTypes, SplashAt, Move, memory, process, plasma, display
<1>1. CASE CreateProc(c)
  <2>1. Running = {} /\ cli[c].segment \in Segments
    BY <1>1 DEF CreateProc, At, CommandInv
  <2> QED
    BY <1>1, <2>1 DEF CreateProc, ResourceInv, Running, HasAll
<1>2. CASE UNCHANGED <<splash, resources>>
  BY <1>2 DEF ResourceInv, HasAll
<1>3. ASSUME NEW s \in Segments, Splash(s)
      PROVE  ResourceInv'
  <2>0. ASSUME NEW r \in Segments \ {s}
        PROVE  splash'[r] = splash[r] /\ resources'[r] = resources[r]
    BY <1>3, <2>0 DEF Splash, Acquire, AcquireFails, Install, Loop, Map, Validate,
       Blit, Remove, Teardown, Close
  <2>1. ASSUME splash'[s] = "none" => resources'[s] = {},
               splash'[s] = "setup" => /\ "copper" \notin resources'[s]
                                       /\ ("ramp" \in resources'[s] => HasAll(s)'),
               splash'[s] = "close" => resources'[s] \subseteq CloseFrees
        PROVE  ResourceInv'
    BY <2>0, <2>1 DEF ResourceInv, HasAll, CloseFrees
  <2>2. CASE Acquire(s)
    <3>1. PICK i \in 1..7 : /\ NextNeeded(s) = Needed[i]
                            /\ \A j \in 1..(i - 1) : Needed[j] \in resources[s]
      BY <2>2, NextNeed DEF Acquire, Needed
    <3>2. resources'[s] = resources[s] \cup {Needed[i]} /\ splash'[s] = "setup"
      BY <2>2, <3>1 DEF Acquire
    <3>3. "ramp" \notin resources[s] /\ "copper" \notin resources[s]
      BY <2>2 DEF Acquire, ResourceInv
    <3>4. Needed[i] # "copper" /\ (Needed[i] = "ramp" => i = 7)
      BY DEF Needed
    <3>5. "ramp" \in resources'[s] => \A j \in 1..7 : Needed[j] \in resources'[s]
      BY <3>1, <3>2, <3>3, <3>4
    <3>6. "ramp" \in resources'[s] => HasAll(s)'
      BY <3>5 DEF HasAll, Needed
    <3> QED
      BY <2>1, <3>2, <3>3, <3>4, <3>6
  <2>3. CASE AcquireFails(s)
    <3>1. splash'[s] = "close" /\ resources'[s] = resources[s]
      BY <2>3 DEF AcquireFails
    <3>2. "ramp" \notin resources[s] /\ "copper" \notin resources[s]
      BY <2>3 DEF AcquireFails, ResourceInv
    <3>3. resources[s] \subseteq CloseFrees
      BY <3>2 DEF CloseFrees, Resource, Needed
    <3> QED
      BY <2>1, <3>1, <3>3
  <2>4. CASE Teardown(s)
    <3>1. splash'[s] = "close" /\ splash[s] = "teardown"
      BY <2>4 DEF Teardown
    <3>2. resources[s] \subseteq Resource /\ resources'[s] \subseteq resources[s]
          /\ "ramp" \notin resources'[s] /\ "copper" \notin resources'[s]
      BY <2>4 DEF Teardown
    <3>3. resources'[s] \subseteq CloseFrees
      BY <3>2 DEF CloseFrees, Resource, Needed
    <3> QED
      BY <2>1, <3>1, <3>3
  <2>5. CASE Close(s)
    <3>1. splash'[s] = "none" /\ resources'[s] = {}
      BY <2>5 DEF Close, ResourceInv
    <3> QED
      BY <2>1, <3>1
  <2>6. CASE \/ \E copper \in BOOLEAN : Install(s, copper)
             \/ Loop(s) \/ (\E changed \in BOOLEAN : Map(s, changed))
             \/ Validate(s) \/ Blit(s) \/ Remove(s)
    <3>1. splash'[s] \in {"loop", "update", "column", "blit", "remove", "teardown"}
      BY <2>6 DEF Install, Loop, Map, Validate, Blit, Remove
    <3> QED
      BY <2>1, <3>1
  <2> QED
    BY <1>3, <2>2, <2>3, <2>4, <2>5, <2>6 DEF Splash
<1> QED
  BY <1>1, <1>2, <1>3 DEF Next, Command, Start, Stop, LoadSegment, LoadFails,
     AllocControl, AllocFails, AddPort, CreateFails, Poll, RemovePort, Unload,
     Rebuild, Ready, WaitFrame, Quit, vars

LEMMA LoaderInductive ==
  ASSUME NEW c, Clis = {c}
  PROVE  Spec => []LoaderInv(c)
<1>1. Init => LoaderInv(c)
  BY LoaderInit
<1>2. LoaderInv(c) /\ [Next]_vars => LoaderInv(c)'
  BY LoaderStep
<1> QED
  BY <1>1, <1>2, PTL DEF Spec

\* With one command line, the code a splash or its VBlank server runs in is
\* never unloaded (loading.c:87).
THEOREM CodeStaysLoaded ==
  ASSUME NEW c, Clis = {c}
  PROVE  Spec => []CodeInUse
<1>1. LoaderInv(c) => CodeInUse
  <2> SUFFICES ASSUME LoaderInv(c) PROVE CodeInUse
    OBVIOUS
  <2>1. Running # {} => loaded = ports
    BY DEF LoaderInv, LoaderTypes, CommandInv, SplashInv, CliLabels
  <2>2. \A s \in servers : s \in Running /\ splash[s] # "none"
    BY DEF LoaderInv, SplashInv, Running
  <2> QED
    BY <2>1, <2>2 DEF LoaderInv, SplashInv, CodeInUse
<1> QED
  BY <1>1, LoaderInductive, PTL

\* With one command line, every copy in memory can be found by a later STOP.
THEOREM NoOrphans ==
  ASSUME NEW c, Clis = {c}
  PROVE  Spec => []NothingOrphaned
<1>1. LoaderInv(c) => NothingOrphaned
  BY DEF LoaderInv, CommandInv, NothingOrphaned
<1> QED
  BY <1>1, LoaderInductive, PTL

\* A column is blitted only into the list being shown (loading.c:514-537).
THEOREM BlitsOnlyDisplayed ==
  ASSUME NEW c, Clis = {c}
  PROVE  Spec => []BlitsDisplayed
<1>1. LoaderInv(c) => BlitsDisplayed
  BY DEF LoaderInv, BlitInv, BlitsDisplayed
<1> QED
  BY <1>1, LoaderInductive, PTL

\* With one command line, a splash that has ended holds nothing, wherever its
\* setup failed (loading.c, label close_screen).
THEOREM SplashKeepsNothing ==
  ASSUME NEW c, Clis = {c}
  PROVE  Spec => []SplashGivesBack
<1>1. Init => ResourceInv
  BY ResourceInit
<1>2. LoaderInv(c) /\ ResourceInv /\ [Next]_vars => ResourceInv'
  BY ResourceStep
<1>3. ResourceInv => SplashGivesBack
  BY DEF ResourceInv, SplashGivesBack
<1> QED
  BY <1>1, <1>2, <1>3, LoaderInductive, PTL DEF Spec
=============================================================================
