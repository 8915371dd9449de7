------------------------------ MODULE Program ------------------------------
(***************************************************************************)
(* The life of xSysInfo: main, the libraries, the display with its pens and*)
(* window, and the one cleanup path every exit takes (src/main.c 354-709,  *)
(* 816-1095, 1156-1242).                                                   *)
(*                                                                         *)
(* main is a straight line in which almost every call can fail; each exit  *)
(* goes through the same cleanup, which finds out what there is to give    *)
(* back.  The interactive part is the specification LoopPromise, which     *)
(* EventLoop implements, and the SCSI check returns one of the results of  *)
(* WDProbe.  Around it run Intuition, which queues messages at the window, *)
(* and other programs, which share the pens of the Workbench screen.       *)
(***************************************************************************)
EXTENDS Integers, FiniteSets

CONSTANTS
  Colours,      \* the NUM_COLORS logical colours, as 1..n
  Pens,         \* pens of the screen's colour map
  TextPen,      \* pen 1
  OtherUse,     \* bound: how often other programs hold one pen
  Unreplied     \* bound: messages waiting at the window

ASSUME ProgramAssumption ==
  /\ IsFiniteSet(Colours) /\ Colours = 1..Cardinality(Colours) /\ Colours # {}
  /\ TextPen \in Pens /\ OtherUse \in Nat /\ Unreplied \in Nat

VARIABLES
  pc,           \* where main is
  options,      \* how the program was started
  held,         \* what it has opened or allocated
  scsi_error,   \* what is left of the result of probe_wd_controller
  ret,          \* the return code
  pens,         \* app->pens: a pen for each colour, 0 for none yet
  colour,       \* the colour allocate_pens or release_pens is at
  allocated,    \* app->pens_allocated
  uses,         \* how often the system counts each pen in use
  ours, others, \* who really holds them: this program, other programs
  messages,     \* messages at the window's port
  forbidden,    \* inside Forbid
  phase, timer, request, report, backup   \* the promise of main_loop

promised == <<phase, timer, request, report, backup>>
penState == <<pens, colour, allocated, uses, ours, others>>
window == <<messages, forbidden>>
vars == <<pc, options, held, scsi_error, ret, penState, window, promised>>

Loop == INSTANCE LoopPromise

Fail == 20
Warn == 5

\* "report" stands for the modes full, which and brief, that open no window;
\* "screen" is a display of its own, "window" one on a Workbench whose colours
\* are shared (V39), "plain" one on an older Workbench.
Modes == {"report", "classic", "mui"}
Places == {"screen", "window", "plain"}

Init ==
  /\ pc = "locale"
  /\ options \in
       [workbench : BOOLEAN, mode : Modes, scsi : BOOLEAN, place : Places]
  /\ options.workbench => options.mode # "report"
  /\ held = {} /\ scsi_error = "none" /\ ret = 0
  /\ pens = [c \in Colours |-> 0] /\ colour = 1 /\ allocated = FALSE
  /\ others \in [Pens -> 0..OtherUse] /\ uses = others
  /\ ours = [p \in Pens |-> 0]
  /\ messages = 0 /\ forbidden = FALSE
  /\ Loop!Init

-----------------------------------------------------------------------------
(* The calls of main up to the display.                                    *)

Go(from, to) == pc = from /\ pc' = to
Gain(r) == held' = held \cup r
Lose(r) == held' = held \ r
Quiet == UNCHANGED <<options, penState, window, promised>>

\* Every exit leads to the same cleanup, from its first call.
BugSkipsDisplay == "lists"
CleanupStart == "timer_off"

Failed(from) ==
  /\ Go(from, CleanupStart) /\ ret' = Fail
  /\ UNCHANGED <<held, scsi_error>> /\ Quiet

InitLocale(found) ==
  /\ Go("locale", "libraries") /\ Gain(found)
  /\ UNCHANGED <<scsi_error, ret>> /\ Quiet

\* intuition and graphics are needed, identify and icon are not.
OpenLibraries(found) ==
  /\ {"intuition", "graphics"} \subseteq found
  /\ Go("libraries", "log") /\ Gain(found)
  /\ UNCHANGED <<scsi_error, ret>> /\ Quiet

LibraryMissing(opened) ==
  /\ Go("libraries", CleanupStart) /\ ret' = Fail
  /\ Gain(opened)
  /\ UNCHANGED scsi_error /\ Quiet

\* From Workbench the DEBUG tooltype asks for a log file.
OpenLog(opened) ==
  /\ options.workbench
  /\ Go("log", "detect")
  /\ IF opened THEN Gain({"log"}) /\ UNCHANGED ret
     ELSE ret' = Warn /\ UNCHANGED held
  /\ UNCHANGED scsi_error /\ Quiet

NoLog ==
  /\ Go("log", "detect")
  /\ UNCHANGED <<held, scsi_error, ret>> /\ Quiet

\* detect_hardware, then the lists of software, memory and boards.
Detect ==
  /\ Go("detect", "timer") /\ Gain({"software", "memory", "boards"})
  /\ UNCHANGED <<scsi_error, ret>> /\ Quiet

InitTimer ==
  /\ Go("timer", "scsi") /\ Gain({"timer"})
  /\ UNCHANGED <<scsi_error, ret>> /\ Quiet

-----------------------------------------------------------------------------
(* The SCSI check, and the drives, whose enumeration opens file systems.   *)

Results == {"OK", "NOT_APPLICABLE", "BUSY", "UNAVAILABLE", "FAILED",
            "CLOCK_FAILED", "RESTORE_FAILED"}

\* A controller that could not be restored ends the program; a version that
\* only warns of it goes on.
BugWarns(result) == "drives"
AfterCheck(result) ==
  IF result = "RESTORE_FAILED" THEN CleanupStart ELSE "drives"

CheckScsi(result) ==
  /\ options.scsi /\ Go("scsi", AfterCheck(result))
  /\ scsi_error' = CASE result \in {"OK", "NOT_APPLICABLE"} -> "none"
                     [] result = "RESTORE_FAILED" -> "restore"
                     [] OTHER -> "warning"
  /\ ret' = CASE result = "RESTORE_FAILED" -> Fail
              [] result \in {"OK", "NOT_APPLICABLE"} -> ret
              [] OTHER -> Warn
  /\ UNCHANGED held /\ Quiet

SkipCheck ==
  /\ ~options.scsi /\ Go("scsi", "drives")
  /\ UNCHANGED <<held, scsi_error, ret>> /\ Quiet

AfterDrives == CASE options.mode = "classic" -> "font"
                 [] options.mode = "mui" -> "mui"
                 [] OTHER -> "export"

EnumerateDrives ==
  /\ Go("drives", AfterDrives) /\ Gain({"drives"})
  /\ UNCHANGED <<scsi_error, ret>> /\ Quiet

\* The modes without a window measure, write their report and end.
Export ==
  /\ Go("export", CleanupStart)
  /\ UNCHANGED <<held, scsi_error, ret>> /\ Quiet

\* The MUI interface ran, or the classic one takes its place.
RunMui(ran) ==
  /\ Go("mui", IF ran THEN CleanupStart ELSE "font")
  /\ UNCHANGED <<held, scsi_error, ret>> /\ Quiet

-----------------------------------------------------------------------------
(* open_display, which leaves what it had opened to close_display; only a  *)
(* custom screen without its window is closed at once.                     *)

OpenFont ==
  /\ Go("font", IF options.place = "screen" THEN "screen" ELSE "window")
  /\ Gain({"font"})
  /\ UNCHANGED <<scsi_error, ret>> /\ Quiet

OpenScreen ==
  /\ Go("screen", "window") /\ Gain({"screen"})
  /\ UNCHANGED <<scsi_error, ret>> /\ Quiet

OpenWindow ==
  /\ Go("window", "drawing") /\ Gain({"window", "idcmp"})
  /\ UNCHANGED <<scsi_error, ret>> /\ Quiet

NoWindow ==
  /\ Go("window", CleanupStart) /\ Lose({"screen"}) /\ ret' = Fail
  /\ UNCHANGED scsi_error /\ Quiet

InitDrawing ==
  /\ Go("drawing", IF options.place = "window" THEN "pens" ELSE "ready")
  /\ Gain({"drawing"})
  /\ UNCHANGED <<scsi_error, ret>> /\ Quiet

\* The loops of allocate_pens and release_pens go over NUM_COLORS colours.
LastColour == colour = Cardinality(Colours)
NextColour == colour' = IF LastColour THEN 1 ELSE colour + 1

\* ObtainBestPenA counts the pen it returns; where it has none, TextPen stands
\* in without being counted.
ObtainPen(p) ==
  /\ pc = "pens" /\ pc' = IF LastColour THEN "ready" ELSE "pens"
  /\ NextColour /\ allocated' = LastColour
  /\ pens' = [pens EXCEPT ![colour] = IF p = 0 THEN TextPen ELSE p]
  /\ IF p = 0 THEN UNCHANGED <<uses, ours>>
     ELSE /\ uses' = [uses EXCEPT ![p] = @ + 1]
          /\ ours' = [ours EXCEPT ![p] = @ + 1]
  /\ UNCHANGED <<options, held, scsi_error, ret, others, window, promised>>

\* The display is shown; a font that did not fit is a warning.
Ready(fontError) ==
  /\ Go("ready", "loop")
  /\ ret' = IF fontError THEN Warn ELSE ret
  /\ UNCHANGED <<held, scsi_error>> /\ Quiet

\* main_loop, as far as it promises; it takes messages as it likes.
MainLoop ==
  /\ pc = "loop" /\ Loop!Next
  /\ pc' = IF phase' = "over" THEN CleanupStart ELSE "loop"
  /\ messages' \in 0..messages
  /\ held' \in {held, held \cup {"devices"}}
  /\ UNCHANGED <<options, scsi_error, ret, penState, forbidden>>

-----------------------------------------------------------------------------
(* The cleanup.                                                            *)

\* The order of main's cleanup, and one that closes the libraries first.
BugCleanupOrder ==
  [timer_off |-> "libraries_off", report_off |-> "drawing_off",
   drawing_off |-> "pens_off", pens_off |-> "strip", strip |-> "deaf",
   deaf |-> "window_off", window_off |-> "screen_off", screen_off |-> "font_off",
   font_off |-> "lists", lists |-> "locale_off", libraries_off |-> "report_off",
   locale_off |-> "exit"]
CleanupOrder ==
  [timer_off |-> "report_off", report_off |-> "drawing_off",
   drawing_off |-> "pens_off", pens_off |-> "strip", strip |-> "deaf",
   deaf |-> "window_off", window_off |-> "screen_off", screen_off |-> "font_off",
   font_off |-> "lists", lists |-> "libraries_off",
   libraries_off |-> "locale_off", locale_off |-> "exit"]

Frees == [timer_off |-> {"timer"}, drawing_off |-> {"drawing"},
          deaf |-> {"idcmp"}, window_off |-> {"window"},
          screen_off |-> {"screen"}, font_off |-> {"font"},
          lists |-> {"software", "boards", "memory", "drives", "devices"},
          libraries_off |-> {"icon", "identify", "graphics", "intuition"},
          locale_off |-> {"localelib", "catalog", "log"}]

Step(label) == Go(label, CleanupOrder[label])

\* A call of the cleanup that gives back what is there.
Free(label) ==
  /\ Step(label) /\ Lose(Frees[label])
  /\ forbidden' = FALSE
  /\ UNCHANGED <<options, scsi_error, ret, penState, messages, promised>>

CloseReport ==
  /\ Step("report_off") /\ report' = FALSE
  /\ UNCHANGED <<options, held, scsi_error, ret, penState, window, phase, timer,
                 request, backup>>

\* ReleasePen for each colour, whatever its pen came from.
ReleasePen ==
  /\ pc = "pens_off" /\ allocated
  /\ LET p == pens[colour]
     IN /\ uses' = [uses EXCEPT ![p] = IF @ > 0 THEN @ - 1 ELSE 0]
        /\ ours' = [ours EXCEPT ![p] = IF @ > 0 THEN @ - 1 ELSE 0]
  /\ NextColour /\ allocated' = ~LastColour
  /\ UNCHANGED <<pc, options, held, scsi_error, ret, pens, others, window,
                 promised>>

PensReleased ==
  /\ ~allocated /\ Step("pens_off")
  /\ UNCHANGED <<held, scsi_error, ret>> /\ Quiet

\* CloseWindowSafely answers every message and stops new ones before any
\* other task runs; a version without Forbid lets them in between.
BugUnguarded == FALSE
Guarded == TRUE

Strip ==
  /\ Step("strip")
  /\ messages' = 0 /\ forbidden' = Guarded
  /\ UNCHANGED <<options, held, scsi_error, ret, penState, promised>>

-----------------------------------------------------------------------------
(* Intuition.                                                              *)

Post ==
  /\ "idcmp" \in held /\ ~forbidden /\ messages < Unreplied
  /\ messages' = messages + 1
  /\ UNCHANGED <<pc, options, held, scsi_error, ret, penState, forbidden,
                 promised>>

Exited == pc = "exit" /\ UNCHANGED vars

-----------------------------------------------------------------------------
(* The specification.                                                      *)

Main ==
  \/ \E found \in {{}, {"localelib"}, {"localelib", "catalog"}} : InitLocale(found)
  \/ \E found \in SUBSET {"intuition", "graphics", "identify", "icon"} :
        OpenLibraries(found)
  \/ \E opened \in {{}, {"intuition"}} : LibraryMissing(opened)
  \/ \E opened \in BOOLEAN : OpenLog(opened)
  \/ NoLog \/ Detect \/ InitTimer
  \/ \E result \in Results : CheckScsi(result)
  \/ SkipCheck \/ EnumerateDrives \/ Export
  \/ \E ran \in BOOLEAN : RunMui(ran)
  \/ OpenFont \/ OpenScreen \/ OpenWindow \/ NoWindow \/ InitDrawing
  \/ \E p \in Pens \cup {0} : ObtainPen(p)
  \/ \E fontError \in BOOLEAN : Ready(fontError)
  \/ \E label \in {"detect", "timer", "export", "font", "screen", "drawing"} :
        Failed(label)
  \/ MainLoop
  \/ CloseReport \/ ReleasePen \/ PensReleased \/ Strip
  \/ \E label \in DOMAIN Frees : Free(label)

Next == Main \/ Post \/ Exited

Spec == Init /\ [][Next]_vars

-----------------------------------------------------------------------------
(* Properties.                                                             *)

\* Whichever call failed, and whatever the user had open when the loop ended,
\* the program gives back everything it took before it exits
\* (main.c 563-573, 688-709, 816-1029, 1069-1095).
AllReleased ==
  pc = "exit" => /\ held = {} /\ ~timer /\ ~request /\ ~report /\ ~backup
                 /\ \A p \in Pens : ours[p] = 0

\* Nothing is closed while something that needs it is still open: the
\* libraries under the display, the screen and its font under the window, the
\* window under the pens of its screen (main.c 563-573, 1069-1095).  A SCSI
\* controller left in an unknown state is not used again: the drives are not
\* enumerated, nothing is measured and no window opens (main.c 451-460, "Avoid
\* drive enumeration, redirected output and benchmarks").
NeededHeld ==
  /\ scsi_error = "restore" =>
        held \cap {"drives", "devices", "font", "window"} = {} /\ ret = Fail
  /\ held \cap {"screen", "window", "font", "drawing"} # {} \/ report =>
        {"intuition", "graphics"} \subseteq held
  /\ "window" \in held /\ options.place = "screen" => "screen" \in held
  /\ "screen" \in held => "font" \in held
  /\ (\E p \in Pens : ours[p] > 0) => "window" \in held

\* When the window goes no message of it is left unanswered, though Intuition
\* may send one at any time (main.c 1050-1064, "closing a window that still has
\* pending messages ... causes Intuition to access freed memory").
MessagesReplied == "window" \notin held => messages = 0

\* No pen that other programs use is released on their behalf.
\* (main.c 1219, "Release allocated pens".)
PensRespected == \A p \in Pens : uses[p] >= others[p]
=============================================================================
