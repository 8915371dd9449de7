--------------------------- MODULE ProgramProofs ---------------------------
(***************************************************************************)
(* What the life of the program in Program guarantees, for every number of *)
(* colours and pens, and whatever other programs and the user do.          *)
(*                                                                         *)
(* main is straight-line code, so the invariant says what the label        *)
(* reached tells about what is held: which calls have been made, and, in   *)
(* the cleanup, which of them have been undone.  The pens need a count:    *)
(* ReleasePen is called once for each colour whatever its pen came from,   *)
(* so that a pen is released at least as often as it was obtained.         *)
(***************************************************************************)
EXTENDS Program, FiniteSetTheorems, TLAPS

Locale == {"localelib", "catalog"}
Needed == {"intuition", "graphics"}
Found == {"software", "memory", "boards", "drives", "devices"}
Display == {"font", "screen", "window", "idcmp", "drawing"}
Resources == Locale \cup Needed \cup Found \cup Display \cup
             {"log", "identify", "icon", "timer"}

\* The labels before anything is enumerated, those before the window and all
\* those of the way up.
ToDrives == {"locale", "libraries", "log", "detect", "timer", "scsi", "drives"}
ToWindow == ToDrives \cup {"export", "mui", "font", "screen", "window"}
Up == ToWindow \cup {"drawing", "pens", "ready", "loop"}

\* The labels of the cleanup, and what may still be held at each of them.
MayHold ==
  [timer_off |-> Resources,
   report_off |-> Resources \ {"timer"},
   drawing_off |-> Resources \ {"timer"},
   pens_off |-> Resources \ {"timer", "drawing"},
   strip |-> Resources \ {"timer", "drawing"},
   deaf |-> Resources \ {"timer", "drawing"},
   window_off |-> Resources \ {"timer", "drawing", "idcmp"},
   screen_off |-> Resources \ {"timer", "drawing", "idcmp", "window"},
   font_off |-> Resources \ {"timer", "drawing", "idcmp", "window", "screen"},
   lists |-> Resources \ ({"timer"} \cup Display),
   libraries_off |-> Resources \ ({"timer"} \cup Display \cup Found),
   locale_off |-> {"localelib", "catalog", "log"},
   exit |-> {}]
Down == DOMAIN MayHold

\* What has been opened on the way up, and what is left on the way down.
HeldInv ==
  /\ pc \in Up \cup Down /\ held \subseteq Resources
  /\ pc \in Down => held \subseteq MayHold[pc]
  /\ pc \in ToDrives => held \cap (Display \cup {"drives", "devices"}) = {}
  /\ pc \in ToWindow => held \cap {"window", "idcmp", "drawing"} = {}
  /\ pc \in Up \ {"locale", "libraries"} => Needed \subseteq held
  /\ pc \in {"screen", "window"} => "font" \in held
  /\ pc = "window" /\ options.place = "screen" => "screen" \in held
  /\ pc \in {"drawing", "pens", "ready", "loop"} => "window" \in held

\* Which of the resources held rest on others.
RestInv ==
  /\ scsi_error = "restore" => /\ pc \in Down /\ ret = Fail
                               /\ held \cap {"drives", "devices"} = {}
                               /\ held \cap Display = {}
  /\ held \cap Display # {} \/ report => Needed \subseteq held
  /\ "window" \in held /\ options.place = "screen" => "screen" \in held
  /\ "screen" \in held => "font" \in held
  /\ "idcmp" \in held => "window" \in held

\* The promise of the loop, used once it has returned.
LoopInv ==
  /\ pc # "loop" => ~timer /\ ~request /\ ~backup
  /\ pc \notin {"loop", "timer_off", "report_off"} => ~report

\* No message comes between the one that Strip answers last and the end of the
\* window's port.
MessageInv ==
  /\ messages \in Nat
  /\ pc = "deaf" => forbidden
  /\ pc \in {"deaf", "window_off"} \/ "window" \notin held => messages = 0

\* The colours whose pens are still to be released.
Owing == IF pc = "pens" THEN {c \in Colours : c < colour}
         ELSE IF allocated THEN {c \in Colours : c >= colour} ELSE {}
Colour(p) == {c \in Owing : pens[c] = p}

PenInv ==
  /\ colour \in Colours /\ allocated \in BOOLEAN
  /\ ours \in [Pens -> Nat] /\ DOMAIN pens = Colours
  /\ \A p \in Pens : ours[p] <= Cardinality(Colour(p))
  /\ pc = "pens" => ~allocated
  /\ colour = 1 \/ pc = "pens" \/ (pc = "pens_off" /\ allocated)
  /\ allocated => pc \in {"ready", "loop", "timer_off", "report_off",
                          "drawing_off", "pens_off"}
  /\ allocated => "window" \in held

IInv == HeldInv /\ RestInv /\ LoopInv /\ MessageInv /\ PenInv
LEMMA ColoursFinite ==
  /\ Cardinality(Colours) \in Nat /\ Cardinality(Colours) > 0
  /\ Colours = 1..Cardinality(Colours) /\ IsFiniteSet(Colours)
<1>1. IsFiniteSet(Colours) /\ Colours # {} /\ Colours = 1..Cardinality(Colours)
  BY ProgramAssumption
<1>2. Cardinality(Colours) \in Nat
  BY <1>1, FS_CardinalityType
<1> QED BY <1>1, <1>2, FS_EmptySet

LEMMA ColourFinite ==
  ASSUME NEW p
  PROVE  IsFiniteSet(Colour(p)) /\ Cardinality(Colour(p)) \in Nat
<1>1. Colour(p) \subseteq Colours
  BY DEF Colour, Owing
<1> QED BY <1>1, ColoursFinite, FS_Subset, FS_CardinalityType

LEMMA InitEstablishes == Init => IInv
<1> SUFFICES ASSUME Init PROVE IInv
  OBVIOUS
<1>1. HeldInv
  BY DEF Init, HeldInv, Up, ToWindow, ToDrives, Down, MayHold
<1>2. RestInv
  BY DEF Init, RestInv, Loop!Init
<1>3. LoopInv /\ MessageInv
  BY DEF Init, LoopInv, MessageInv, Loop!Init
<1>4. PenInv
  <2>1. ASSUME NEW p \in Pens PROVE ours[p] = 0 /\ Cardinality(Colour(p)) \in Nat
    BY ColourFinite DEF Init
  <2>2. /\ colour = 1 /\ 1 \in Colours /\ allocated = FALSE /\ pc = "locale"
        /\ ours \in [Pens -> Nat] /\ DOMAIN pens = Colours
    BY ColoursFinite DEF Init
  <2>3. \A p \in Pens : ours[p] <= Cardinality(Colour(p))
    BY <2>1
  <2>4. pc # "pens" /\ ~allocated
    BY <2>2
  <2> QED BY <2>2, <2>3, <2>4 DEF PenInv
<1> QED BY <1>1, <1>2, <1>3, <1>4 DEF IInv

-----------------------------------------------------------------------------
(* The way up.                                                             *)

\* What a call of main that touches neither pens nor messages keeps.
LEMMA CallKeeps ==
  ASSUME IInv, Quiet, pc \in Up \ {"loop", "pens"}, pc' \in Up \cup {"timer_off"},
         "window" \in held => "window" \in held',
         pc' = "pens" => pc = "drawing",
         allocated => pc' # "pens" /\ pc' \in {"ready", "loop", "timer_off"}
  PROVE  LoopInv' /\ MessageInv' /\ PenInv'
<1> USE DEF IInv, Quiet
<1>1. LoopInv'
  BY DEF LoopInv, promised, Up, ToWindow, ToDrives
<1>2. MessageInv'
  BY DEF MessageInv, window, Up, ToWindow, ToDrives
<1>3. PenInv'
  <2>1. Owing' = Owing
    <3>1. CASE pc' # "pens"
      BY <3>1 DEF Owing, penState
    <3>2. CASE pc' = "pens"
      <4>1. ~allocated /\ colour = 1 /\ pc # "pens" /\ UNCHANGED <<colour, allocated>>
        BY <3>2 DEF PenInv, penState, Up, ToWindow, ToDrives
      <4>2. {c \in Colours : c < 1} = {}
        BY ColoursFinite
      <4> QED BY <3>2, <4>1, <4>2 DEF Owing
    <3> QED BY <3>1, <3>2
  <2>2. \A p : Colour(p)' = Colour(p)
    BY <2>1 DEF Colour, penState
  <2> QED BY <2>2 DEF PenInv, penState, Up, ToWindow, ToDrives
<1> QED BY <1>1, <1>2, <1>3

LEMMA PreparePreserves ==
  ASSUME IInv,
         \/ \E found \in {{}, {"localelib"}, {"localelib", "catalog"}} :
              InitLocale(found)
         \/ \E found \in SUBSET {"intuition", "graphics", "identify", "icon"} :
              OpenLibraries(found)
         \/ \E opened \in {{}, {"intuition"}} : LibraryMissing(opened)
         \/ \E opened \in BOOLEAN : OpenLog(opened)
         \/ NoLog \/ Detect \/ InitTimer
         \/ \E result \in Results : CheckScsi(result)
         \/ SkipCheck \/ EnumerateDrives \/ Export
         \/ \E ran \in BOOLEAN : RunMui(ran)
         \/ \E label \in {"detect", "timer", "export", "font", "screen", "drawing"} :
              Failed(label)
  PROVE  IInv'
<1> USE DEF Go, Gain, CleanupStart, Quiet, Locale, Needed, Found, Display,
            Resources, ToDrives, ToWindow, Up, MayHold, Down
<1>1. ASSUME NEW found \in {{}, {"localelib"}, {"localelib", "catalog"}},
             InitLocale(found)
      PROVE  IInv'
  <2>1. pc = "locale" /\ pc' = "libraries" /\ held' \subseteq Resources
        /\ held' \cap Display = held \cap Display
        /\ held' \cap {"drives", "devices", "window", "idcmp", "drawing"} =
             held \cap {"drives", "devices", "window", "idcmp", "drawing"}
        /\ held \subseteq held'
    BY ZenonT(60), <1>1 DEF IInv, HeldInv, InitLocale
  <2>2. HeldInv' /\ RestInv'
    BY <1>1, <2>1 DEF IInv, HeldInv, RestInv, InitLocale, promised
  <2> QED BY <1>1, <2>1, <2>2, CallKeeps DEF IInv, InitLocale, PenInv
<1>2. ASSUME NEW found \in SUBSET {"intuition", "graphics", "identify", "icon"},
             OpenLibraries(found)
      PROVE  IInv'
  <2>1. HeldInv' /\ RestInv'
    BY <1>2 DEF IInv, HeldInv, RestInv, OpenLibraries, promised
  <2> QED BY <1>2, <2>1, CallKeeps DEF IInv, OpenLibraries, PenInv
<1>3. ASSUME NEW opened \in {{}, {"intuition"}}, LibraryMissing(opened)
      PROVE  IInv'
  <2>1. HeldInv' /\ RestInv'
    BY ZenonT(60), <1>3 DEF IInv, HeldInv, RestInv, LoopInv, LibraryMissing, promised
  <2> QED BY <1>3, <2>1, CallKeeps DEF IInv, LibraryMissing, PenInv
<1>4. ASSUME NEW opened \in BOOLEAN, OpenLog(opened) PROVE IInv'
  <2>1. pc = "log" /\ pc' = "detect" /\ held' \in {held, held \cup {"log"}}
    BY <1>4 DEF OpenLog
  <2>2. scsi_error' = scsi_error /\ Quiet
    BY <1>4 DEF OpenLog
  <2>3. HeldInv' /\ RestInv'
    BY ZenonT(60), <2>1, <2>2 DEF IInv, HeldInv, RestInv, promised
  <2> QED BY <2>1, <2>2, <2>3, CallKeeps DEF IInv, PenInv
<1>5. ASSUME NoLog \/ Detect \/ InitTimer PROVE IInv'
  <2>1. HeldInv' /\ RestInv'
    BY ZenonT(60), <1>5 DEF IInv, HeldInv, RestInv, NoLog, Detect, InitTimer, promised
  <2> QED BY <1>5, <2>1, CallKeeps DEF IInv, NoLog, Detect, InitTimer, PenInv
<1>6. ASSUME NEW result \in Results, CheckScsi(result) PROVE IInv'
  <2>1. /\ pc' \in {"timer_off", "drives"}
        /\ scsi_error' = "restore" => pc' = "timer_off" /\ ret' = Fail
    BY <1>6 DEF CheckScsi, AfterCheck, Results
  <2>2. pc = "scsi" /\ UNCHANGED held /\ Quiet
    BY <1>6 DEF CheckScsi
  <2>3. HeldInv' /\ RestInv'
    BY <2>1, <2>2 DEF IInv, HeldInv, RestInv, promised
  <2> QED BY <2>1, <2>2, <2>3, CallKeeps DEF IInv, PenInv
<1>7. ASSUME SkipCheck \/ EnumerateDrives \/ Export PROVE IInv'
  <2>1. HeldInv' /\ RestInv'
    BY <1>7 DEF IInv, HeldInv, RestInv, SkipCheck, EnumerateDrives, AfterDrives,
                Export, promised
  <2> QED BY <1>7, <2>1, CallKeeps
          DEF IInv, SkipCheck, EnumerateDrives, AfterDrives, Export, PenInv
<1>8. ASSUME NEW ran \in BOOLEAN, RunMui(ran) PROVE IInv'
  <2>1. HeldInv' /\ RestInv'
    BY <1>8 DEF IInv, HeldInv, RestInv, RunMui, promised
  <2> QED BY <1>8, <2>1, CallKeeps DEF IInv, RunMui, PenInv
<1>9. ASSUME NEW label \in {"detect", "timer", "export", "font", "screen", "drawing"},
             Failed(label)
      PROVE  IInv'
  <2>1. HeldInv' /\ RestInv'
    BY <1>9 DEF IInv, HeldInv, RestInv, LoopInv, Failed, promised
  <2> QED BY <1>9, <2>1, CallKeeps DEF IInv, Failed, PenInv
<1> QED BY <1>1, <1>2, <1>3, <1>4, <1>5, <1>6, <1>7, <1>8, <1>9
LEMMA DisplayPreserves ==
  ASSUME IInv,
         \/ OpenFont \/ OpenScreen \/ OpenWindow \/ NoWindow \/ InitDrawing
         \/ \E fontError \in BOOLEAN : Ready(fontError)
  PROVE  IInv'
<1> USE DEF Go, Gain, CleanupStart, Quiet, Locale, Needed, Found, Display,
            Resources, ToDrives, ToWindow, Up, MayHold, Down
<1>1. CASE OpenFont
  <2>1. HeldInv' /\ RestInv'
    BY <1>1 DEF IInv, HeldInv, RestInv, OpenFont, promised
  <2> QED BY <1>1, <2>1, CallKeeps DEF IInv, OpenFont, PenInv
<1>2. CASE OpenScreen
  <2>1. HeldInv' /\ RestInv'
    BY <1>2 DEF IInv, HeldInv, RestInv, OpenScreen, promised
  <2> QED BY <1>2, <2>1, CallKeeps DEF IInv, OpenScreen, PenInv
<1>3. CASE OpenWindow
  <2>1. HeldInv' /\ RestInv'
    BY <1>3 DEF IInv, HeldInv, RestInv, OpenWindow, promised
  <2> QED BY <1>3, <2>1, CallKeeps DEF IInv, OpenWindow, PenInv
<1>4. CASE NoWindow
  <2>1. HeldInv' /\ RestInv'
    BY <1>4 DEF IInv, HeldInv, RestInv, LoopInv, NoWindow, Lose, promised
  <2> QED BY <1>4, <2>1, CallKeeps DEF IInv, NoWindow, Lose, PenInv
<1>5. CASE InitDrawing
  <2>1. HeldInv' /\ RestInv'
    BY <1>5 DEF IInv, HeldInv, RestInv, InitDrawing, promised
  <2> QED BY <1>5, <2>1, CallKeeps DEF IInv, InitDrawing, PenInv
<1>6. ASSUME NEW fontError \in BOOLEAN, Ready(fontError) PROVE IInv'
  <2>1. HeldInv' /\ RestInv'
    BY <1>6 DEF IInv, HeldInv, RestInv, Ready, promised
  <2> QED BY <1>6, <2>1, CallKeeps DEF IInv, Ready, PenInv
<1> QED BY <1>1, <1>2, <1>3, <1>4, <1>5, <1>6

\* A pen obtained for the colour reached adds that colour to the ones owing it.
LEMMA ObtainPreserves ==
  ASSUME IInv, NEW p \in Pens \cup {0}, ObtainPen(p)
  PROVE  IInv'
<1> DEFINE pen == IF p = 0 THEN TextPen ELSE p
           n == Cardinality(Colours)
<1>1. /\ pc = "pens" /\ pc' \in {"pens", "ready"} /\ ~allocated
      /\ pc' = "pens" => colour # n /\ colour' = colour + 1 /\ ~allocated'
      /\ pc' = "ready" => colour = n /\ colour' = 1 /\ allocated'
      /\ pens' = [pens EXCEPT ![colour] = pen]
      /\ ours' = IF p = 0 THEN ours ELSE [ours EXCEPT ![p] = @ + 1]
      /\ allocated' \in BOOLEAN
      /\ UNCHANGED <<options, held, scsi_error, ret, window, promised>>
  BY DEF ObtainPen, LastColour, NextColour, IInv, PenInv
<1>2. colour \in 1..n /\ n \in Nat /\ Colours = 1..n /\ DOMAIN pens = Colours
  BY ColoursFinite DEF IInv, PenInv
<1>3. "window" \in held
  BY <1>1 DEF IInv, HeldInv
<1>4. HeldInv' /\ RestInv' /\ LoopInv' /\ MessageInv'
  BY <1>1 DEF IInv, HeldInv, RestInv, LoopInv, MessageInv, Up, ToWindow, ToDrives,
              Down, MayHold, window, promised
<1>5. Owing = {c \in Colours : c < colour} /\ Owing' = Owing \cup {colour}
  <2>1. Owing = {c \in Colours : c < colour}
    BY <1>1 DEF Owing
  <2>2. CASE pc' = "pens"
    BY <1>1, <1>2, <2>1, <2>2 DEF Owing
  <2>3. CASE pc' = "ready"
    BY <1>1, <1>2, <2>1, <2>3 DEF Owing
  <2> QED BY <1>1, <2>1, <2>2, <2>3
<1>6. colour \notin Owing
  BY <1>2, <1>5
<1>7. ASSUME NEW q \in Pens PROVE ours'[q] <= Cardinality(Colour(q)')
  <2>1. IsFiniteSet(Colour(q)) /\ Cardinality(Colour(q)) \in Nat
        /\ ours[q] <= Cardinality(Colour(q)) /\ ours[q] \in Nat
    BY ColourFinite DEF IInv, PenInv
  <2>2. Colour(q)' = IF q = pen THEN Colour(q) \cup {colour} ELSE Colour(q)
    BY <1>1, <1>2, <1>5, <1>6 DEF Colour
  <2>3. colour \notin Colour(q)
    BY <1>6 DEF Colour
  <2>4. Cardinality(Colour(q)') =
          IF q = pen THEN Cardinality(Colour(q)) + 1 ELSE Cardinality(Colour(q))
    BY <2>1, <2>2, <2>3, FS_AddElement
  <2>5. ours'[q] \in {ours[q], ours[q] + 1} /\ (ours'[q] = ours[q] + 1 => q = pen)
    BY <1>1, <2>1 DEF IInv, PenInv
  <2> QED BY <2>1, <2>4, <2>5
<1>8. PenInv'
  <2>1. colour' \in Colours /\ DOMAIN pens' = Colours
    BY <1>1, <1>2
  <2>2. ours' \in [Pens -> Nat]
    BY <1>1 DEF IInv, PenInv
  <2>3. /\ pc' \in {"pens", "ready"} /\ allocated' \in BOOLEAN
        /\ pc' = "pens" => ~allocated'
        /\ pc' = "ready" => colour' = 1
        /\ "window" \in held'
    BY <1>1, <1>3
  <2> QED BY <1>7, <2>1, <2>2, <2>3 DEF PenInv
<1> QED BY <1>4, <1>8 DEF IInv
\* Pens and colours are left alone between the labels that work on them.
LEMMA PensKeep ==
  ASSUME IInv, UNCHANGED penState, pc # "pens", pc' # "pens",
         colour = 1 \/ (pc' = "pens_off" /\ allocated),
         allocated => /\ "window" \in held'
                      /\ pc' \in {"ready", "loop", "timer_off", "report_off",
                                  "drawing_off", "pens_off"}
  PROVE  PenInv'
<1>1. Owing' = Owing
  BY DEF Owing, penState
<1>2. \A p : Colour(p)' = Colour(p)
  BY <1>1 DEF Colour, penState
<1> QED BY <1>2 DEF IInv, PenInv, penState

LEMMA LoopPreserves ==
  ASSUME IInv, MainLoop
  PROVE  IInv'
<1> USE DEF Locale, Needed, Found, Display, Resources, ToDrives, ToWindow, Up,
            MayHold, Down
<1>1. /\ pc = "loop" /\ pc' \in {"loop", "timer_off"}
      /\ messages' \in 0..messages /\ held' \in {held, held \cup {"devices"}}
      /\ UNCHANGED <<options, scsi_error, ret, penState, forbidden>>
  BY DEF MainLoop, CleanupStart
<1>2. pc' # "loop" => ~timer' /\ ~request' /\ ~backup'
  BY DEF MainLoop, CleanupStart, Loop!Next, Loop!Work, Loop!Leave
<1>3. "window" \in held /\ {"intuition", "graphics"} \subseteq held
  BY <1>1 DEF IInv, HeldInv
<1>4. HeldInv'
  BY <1>1 DEF IInv, HeldInv
<1>5. RestInv'
  BY <1>1, <1>3 DEF IInv, RestInv
<1>6. LoopInv'
  BY <1>1, <1>2 DEF LoopInv
<1>7. MessageInv'
  BY <1>1, <1>3 DEF IInv, MessageInv
<1>8. PenInv'
  BY <1>1, <1>3, PensKeep DEF IInv, PenInv
<1> QED BY <1>4, <1>5, <1>6, <1>7, <1>8 DEF IInv

-----------------------------------------------------------------------------
(* The cleanup.                                                            *)

LEMMA FreePreserves ==
  ASSUME IInv, NEW label \in DOMAIN Frees, Free(label)
  PROVE  IInv'
<1> USE DEF Locale, Needed, Found, Display, Resources, ToDrives, ToWindow, Up,
            MayHold, Down
<1>1. /\ pc = label /\ pc' = CleanupOrder[label] /\ held' = held \ Frees[label]
      /\ UNCHANGED <<options, scsi_error, ret, penState, messages, promised>>
  BY DEF Free, Step, Go, Lose
<1>2. held \subseteq MayHold[label] /\ label \in Down
  BY <1>1 DEF IInv, HeldInv, Frees
<1>3. label # "pens_off" /\ label \notin {"pens", "ready", "loop", "strip", "report_off"}
  BY DEF Frees
<1>4. HeldInv' /\ RestInv'
  <2> USE DEF IInv, HeldInv, RestInv, LoopInv, Frees, CleanupOrder, promised
  <2>1. CASE label = "timer_off"
    BY <1>1, <1>2, <2>1
  <2>2. CASE label = "drawing_off"
    BY <1>1, <1>2, <2>2
  <2>3. CASE label = "deaf"
    BY <1>1, <1>2, <2>3
  <2>4. CASE label = "window_off"
    BY <1>1, <1>2, <2>4
  <2>5. CASE label = "screen_off"
    BY <1>1, <1>2, <2>5
  <2>6. CASE label = "font_off"
    BY <1>1, <1>2, <2>6
  <2>7. CASE label = "lists"
    BY <1>1, <1>2, <2>7
  <2>8. CASE label = "libraries_off"
    BY <1>1, <1>2, <2>8
  <2>9. CASE label = "locale_off"
    BY <1>1, <1>2, <2>9
  <2> QED BY <2>1, <2>2, <2>3, <2>4, <2>5, <2>6, <2>7, <2>8, <2>9
<1>5. LoopInv'
  BY <1>1, <1>3 DEF IInv, LoopInv, promised, Frees, CleanupOrder
<1>6. MessageInv'
  BY <1>1, <1>3 DEF IInv, MessageInv, Frees, CleanupOrder
<1>7. PenInv'
  BY <1>1, <1>3, PensKeep DEF IInv, PenInv, Frees, CleanupOrder
<1> QED BY <1>4, <1>5, <1>6, <1>7 DEF IInv

LEMMA ClosePreserves ==
  ASSUME IInv, CloseReport \/ PensReleased \/ Strip
  PROVE  IInv'
<1> USE DEF Step, Go, CleanupOrder, Locale, Needed, Found, Display, Resources,
            ToDrives, ToWindow, Up, MayHold, Down
<1>1. CASE CloseReport
  <2>1. /\ pc = "report_off" /\ pc' = "drawing_off" /\ ~report'
        /\ UNCHANGED <<options, held, scsi_error, ret, penState, window, timer,
                       request, backup>>
    BY <1>1 DEF CloseReport
  <2>2. HeldInv' /\ RestInv'
    BY <2>1 DEF IInv, HeldInv, RestInv
  <2>3. LoopInv' /\ MessageInv'
    BY <2>1 DEF IInv, LoopInv, MessageInv, window
  <2>4. PenInv'
    BY <2>1, PensKeep DEF IInv, PenInv
  <2> QED BY <2>2, <2>3, <2>4 DEF IInv
<1>2. CASE PensReleased
  <2>1. /\ pc = "pens_off" /\ pc' = "strip" /\ ~allocated
        /\ UNCHANGED <<options, held, scsi_error, ret, penState, window, promised>>
    BY <1>2 DEF PensReleased, Quiet
  <2>2. HeldInv' /\ RestInv' /\ LoopInv' /\ MessageInv'
    BY <2>1 DEF IInv, HeldInv, RestInv, LoopInv, MessageInv, window, promised
  <2>3. PenInv'
    BY <2>1, PensKeep DEF IInv, PenInv
  <2> QED BY <2>2, <2>3 DEF IInv
<1>3. CASE Strip
  <2>1. /\ pc = "strip" /\ pc' = "deaf" /\ messages' = 0 /\ forbidden'
        /\ UNCHANGED <<options, held, scsi_error, ret, penState, promised>>
    BY <1>3 DEF Strip, Guarded
  <2>2. HeldInv' /\ RestInv' /\ LoopInv' /\ MessageInv'
    BY <2>1 DEF IInv, HeldInv, RestInv, LoopInv, MessageInv, promised
  <2>3. PenInv'
    BY <2>1, PensKeep DEF IInv, PenInv
  <2> QED BY <2>2, <2>3 DEF IInv
<1> QED BY <1>1, <1>2, <1>3

\* The release of a colour's pen takes that colour from the ones owing it, and a
\* use of the pen with it if there is one.
LEMMA ReleasePreserves ==
  ASSUME IInv, ReleasePen
  PROVE  IInv'
<1> DEFINE n == Cardinality(Colours)
           pen == pens[colour]
<1>1. /\ pc = "pens_off" /\ allocated /\ allocated' = (colour # n)
      /\ colour' = IF colour = n THEN 1 ELSE colour + 1
      /\ ours' = [ours EXCEPT ![pen] = IF @ > 0 THEN @ - 1 ELSE 0]
      /\ UNCHANGED <<pc, options, held, scsi_error, ret, pens, window, promised>>
  BY DEF ReleasePen, LastColour, NextColour
<1>2. /\ colour \in 1..n /\ n \in Nat /\ Colours = 1..n /\ DOMAIN pens = Colours
      /\ ours \in [Pens -> Nat] /\ "window" \in held
  BY <1>1, ColoursFinite DEF IInv, PenInv
<1>3. HeldInv' /\ RestInv' /\ LoopInv' /\ MessageInv'
  BY <1>1 DEF IInv, HeldInv, RestInv, LoopInv, MessageInv, window, promised
<1>4. Owing = {c \in Colours : c >= colour} /\ Owing' = Owing \ {colour}
  <2>1. Owing = {c \in Colours : c >= colour}
    BY <1>1 DEF Owing
  <2>2. CASE colour = n
    <3>1. ~allocated' /\ pc' = "pens_off"
      BY <1>1, <2>2
    <3>2. Owing' = {}
      BY <3>1 DEF Owing
    <3> QED BY <1>2, <2>1, <2>2, <3>2
  <2>3. CASE colour # n
    <3>1. allocated' /\ pc' = "pens_off" /\ colour' = colour + 1
      BY <1>1, <2>3
    <3>2. Owing' = {c \in Colours : c >= colour + 1}
      BY <3>1 DEF Owing
    <3> QED BY <1>2, <2>1, <3>2
  <2> QED BY <2>1, <2>2, <2>3
<1>5. colour \in Owing
  BY <1>2, <1>4
<1>6. ASSUME NEW q \in Pens PROVE ours'[q] <= Cardinality(Colour(q)')
  <2>1. IsFiniteSet(Colour(q)) /\ Cardinality(Colour(q)) \in Nat
        /\ ours[q] <= Cardinality(Colour(q)) /\ ours[q] \in Nat
    BY ColourFinite DEF IInv, PenInv
  <2>2. Colour(q)' = Colour(q) \ {colour}
    BY <1>1, <1>4 DEF Colour
  <2>3. CASE q = pen
    <3>1. colour \in Colour(q)
      BY <1>5, <2>3 DEF Colour
    <3>2. Cardinality(Colour(q)') = Cardinality(Colour(q)) - 1
      BY <2>1, <2>2, <3>1, FS_RemoveElement
    <3>3. Colour(q) # {}
      BY <3>1
    <3>4. Cardinality(Colour(q)) > 0
      BY <2>1, <3>3, FS_EmptySet
    <3>5. ours'[q] = IF ours[q] > 0 THEN ours[q] - 1 ELSE 0
      BY <1>1, <1>2, <2>3
    <3> QED BY <2>1, <3>2, <3>4, <3>5
  <2>4. CASE q # pen
    <3>1. Colour(q)' = Colour(q)
      BY <2>2, <2>4 DEF Colour
    <3>2. ours'[q] = ours[q]
      BY <1>1, <1>2, <2>4
    <3> QED BY <2>1, <3>1, <3>2
  <2> QED BY <2>3, <2>4
<1>7. ours' \in [Pens -> Nat]
  <2>1. \A q \in Pens : (IF ours[q] > 0 THEN ours[q] - 1 ELSE 0) \in Nat
    BY <1>2
  <2> QED BY <1>1, <1>2, <2>1
<1>8. PenInv'
  <2>1. colour' \in Colours /\ allocated' \in BOOLEAN /\ DOMAIN pens' = Colours
    BY <1>1, <1>2
  <2>2. pc' = "pens_off" /\ (colour' = 1 \/ allocated')
    BY <1>1
  <2>3. "window" \in held'
    BY <1>1, <1>2
  <2> QED BY <1>6, <1>7, <2>1, <2>2, <2>3 DEF PenInv
<1> QED BY <1>3, <1>8 DEF IInv

LEMMA PostPreserves ==
  ASSUME IInv, Post
  PROVE  IInv'
<1>1. /\ "idcmp" \in held /\ ~forbidden /\ messages' = messages + 1
      /\ UNCHANGED <<pc, options, held, scsi_error, ret, penState, forbidden,
                     promised>>
  BY DEF Post
<1>2. pc \notin {"deaf", "window_off"} /\ "window" \in held
  BY <1>1 DEF IInv, HeldInv, RestInv, MessageInv, MayHold, Down
<1>3. HeldInv' /\ RestInv' /\ LoopInv'
  BY <1>1 DEF IInv, HeldInv, RestInv, LoopInv, promised
<1>4. MessageInv'
  BY <1>1, <1>2 DEF IInv, MessageInv
<1>5. PenInv'
  <2>1. \A q : Colour(q)' = Colour(q)
    BY <1>1 DEF Colour, Owing, penState
  <2> QED BY <1>1, <2>1 DEF IInv, PenInv, penState
<1> QED BY <1>3, <1>4, <1>5 DEF IInv

-----------------------------------------------------------------------------
(* The specification.                                                      *)

LEMMA StutterPreserves ==
  ASSUME IInv, UNCHANGED vars
  PROVE  IInv'
<1>1. HeldInv' /\ RestInv' /\ LoopInv' /\ MessageInv'
  BY DEF IInv, HeldInv, RestInv, LoopInv, MessageInv, window, promised, vars
<1>2. \A q : Colour(q)' = Colour(q)
  BY DEF Colour, Owing, penState, vars
<1>3. PenInv'
  BY <1>2 DEF IInv, PenInv, penState, vars
<1> QED BY <1>1, <1>3 DEF IInv

THEOREM Inductive == Spec => []IInv
<1>1. ASSUME IInv, [Next]_vars PROVE IInv'
  <2>1. CASE Main
    BY <1>1, <2>1, PreparePreserves, DisplayPreserves, ObtainPreserves,
       LoopPreserves, ClosePreserves, ReleasePreserves, FreePreserves DEF Main
  <2>2. CASE Post
    BY <1>1, <2>2, PostPreserves
  <2>3. CASE Exited \/ UNCHANGED vars
    BY <1>1, <2>3, StutterPreserves DEF Exited
  <2> QED BY <1>1, <2>1, <2>2, <2>3 DEF Next
<1> QED BY <1>1, InitEstablishes, PTL DEF Spec

\* Whichever of main's calls failed, and whatever the loop left behind, nothing
\* is held at the exit: no resource, no timer, report or requester, and no use
\* of any pen (main.c 563-573, 688-709, 1069-1095, 1219-1242).
THEOREM EverythingReleased == Spec => []AllReleased
<1>1. IInv => AllReleased
  <2> SUFFICES ASSUME IInv, pc = "exit" PROVE AllReleased
    BY DEF AllReleased
  <2>1. held = {}
    BY DEF IInv, HeldInv, MayHold, Down
  <2>2. ~timer /\ ~request /\ ~report /\ ~backup
    BY DEF IInv, LoopInv
  <2>3. ASSUME NEW p \in Pens PROVE ours[p] = 0
    <3>1. Colour(p) = {}
      BY DEF IInv, PenInv, Colour, Owing
    <3>2. ours[p] \in Nat /\ ours[p] <= 0
      BY <3>1, FS_EmptySet DEF IInv, PenInv
    <3> QED BY <3>2
  <2> QED BY <2>1, <2>2, <2>3 DEF AllReleased
<1> QED BY <1>1, Inductive, PTL

\* On the way up and on the way down nothing is closed before what rests on it,
\* and after a SCSI controller could not be restored nothing that would use it
\* is opened (main.c 451-460, 563-573, 1069-1095).
THEOREM NeededWhileUsed == Spec => []NeededHeld
<1>1. IInv => NeededHeld
  <2> SUFFICES ASSUME IInv PROVE NeededHeld
    OBVIOUS
  <2>1. ASSUME NEW p \in Pens, ours[p] > 0 PROVE "window" \in held
    <3>1. Colour(p) # {}
      <4>1. ours[p] \in Nat /\ ours[p] <= Cardinality(Colour(p))
        BY DEF IInv, PenInv
      <4> QED BY <2>1, <4>1, FS_EmptySet
    <3>2. pc = "pens" \/ allocated
      BY <3>1 DEF Colour, Owing
    <3> QED BY <3>2 DEF IInv, PenInv, HeldInv
  <2>2. scsi_error = "restore" =>
          held \cap {"drives", "devices", "font", "window"} = {} /\ ret = Fail
    BY DEF IInv, RestInv, Display
  <2>3. held \cap {"screen", "window", "font", "drawing"} # {} \/ report =>
          {"intuition", "graphics"} \subseteq held
    BY DEF IInv, RestInv, Display, Needed
  <2> QED BY <2>1, <2>2, <2>3 DEF IInv, RestInv, NeededHeld
<1> QED BY <1>1, Inductive, PTL

\* When the window is gone no message of it is left unanswered, though Intuition
\* may post one between any two steps of the cleanup (main.c 1050-1064).
THEOREM EveryMessageReplied == Spec => []MessagesReplied
<1>1. IInv => MessagesReplied
  BY DEF IInv, MessageInv, MessagesReplied
<1> QED BY <1>1, Inductive, PTL
=============================================================================
