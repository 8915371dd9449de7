------------------------- MODULE MeasurementProofs --------------------------
(***************************************************************************)
(* What the measurements leave behind and how far their numbers can be     *)
(* trusted, for every sequence of them that main and the pages may call,   *)
(* every size of the counters and every limit of the loops.                *)
(*                                                                         *)
(* Each measurement has an invariant of its own variables and labels; a    *)
(* step of another keeps it because their labels are apart.                *)
(***************************************************************************)
EXTENDS Measurement, TLAPS

\* The labels of each measurement.
ClockLabels == {"clock", "try", "borrow", "acquired", "window", "work", "again", "lo",
                "compare", "expired", "read", "release", "restore", "released"}
FreqLabels == {"cpu", "batch", "calibrate", "triple", "loop", "batch end", "config",
               "fpu", "fpu done", "cpu done"}
SpeedLabels == ClockLabels \cup FreqLabels \cup {"client", "client done"}
BusLabels == {"bus", "bus sample", "bus pair", "bus wait", "bus stop", "bus restore",
              "bus settle", "bus leave", "bus agree", "bus done"}
RtcLabels == {"rtc", "rtc hold", "rtc ready", "rtc early", "rtc late", "rtc let go",
              "rtc give up", "rtc check", "rtc done"}
OverlayLabels == {"overlay", "overlay bitmap", "overlay planes", "overlay pointer",
                  "overlay shown", "overlay hide", "overlay hidden"}
BenchLabels == {"dhrystone", "dhry legacy", "dhry calibrate", "dhry chunk",
                "dhry permit", "dhrystone done", "flops", "steady", "flops done",
                "memory", "memory buffer", "memory dma", "memory first",
                "memory read", "memory done"}
KeepLabels == {"forbid", "permit", "kept"}

\* Where interrupts are masked, and where a measurement has called Forbid.
Masked == {"borrow", "restore", "work", "again", "lo", "compare", "expired", "read",
           "bus pair", "bus wait", "bus stop", "bus restore", "bus settle",
           "bus leave", "rtc ready", "rtc early", "rtc late", "rtc let go",
           "rtc give up"}
Forbids == {"calibrate", "triple", "loop", "batch end", "dhry calibrate",
            "dhry chunk", "dhry permit"}

MaskInv == disabled \in BOOLEAN /\ (disabled = TRUE <=> pc \in Masked)

\* The first call of the list is the one that runs.
Group(call) ==
  CASE call = "bus" -> BusLabels
    [] call = "rtc" -> RtcLabels
    [] call \in {"overlay", "overlay hide"} -> OverlayLabels
    [] call \in {"dhrystone", "flops", "memory"} -> BenchLabels
    [] call \in {"cpu", "client"} -> SpeedLabels
    [] OTHER -> {call, "kept"}

\* How often the speed page has called Forbid, and what is still to do.
Kept == IF pc \in Forbids THEN forbid - 1 ELSE forbid

CallInv ==
  /\ todo \in Seq(Calls)
  /\ pc # "idle" => todo # <<>> /\ pc \in Group(Head(todo))
  /\ forbid \in Int
  /\ Keeps(IF pc = "kept" THEN Tail(todo) ELSE todo, Kept)
  /\ \A i, j \in DOMAIN todo : todo[i] = "bus" /\ todo[j] = "bus" => i = j
-----------------------------------------------------------------------------
\* The timers: only the one tried is ever touched, and its driver's bits hold
\* what the driver wrote.
Using == (ClockLabels \ {"clock", "try", "borrow", "released"})
         \cup (FreqLabels \ {"cpu", "cpu done"})

Host(t) == /\ cia[t].own = "host" /\ cia[t].shared = TRUE
           /\ cia[t].start = FALSE /\ cia[t].vector = FALSE

TimerInv ==
  /\ DOMAIN clk = {"use", "try", "saved", "now", "hi", "lo", "tries", "windows",
                   "second", "began", "value"}
  /\ DOMAIN cia = 1 .. Len(Timers)
  /\ \A t \in 1 .. Len(Timers) : DOMAIN cia[t] = {"own", "shared", "start", "vector"}
  /\ clk.try \in 1 .. Len(Timers)
  /\ clk.use \in {"none", "eclock", "cia"}
  /\ clk.use # "none" => pc \in Using
  /\ \A t \in 1 .. Len(Timers) :
       /\ cia[t].shared = TRUE
       /\ t # clk.try \/ (clk.use # "cia" /\ pc # "borrow") => Host(t)
  /\ clk.use = "cia" \/ pc = "borrow" => clk.saved = "host"
  /\ pc = "borrow" \/ pc = "restore" => clk.now = TRUE
  /\ pc = "restore" => clk.use = "cia"
  /\ pc \in {"lo", "compare", "expired", "again"} => clk.use = "cia"

\* The counter runs up here; the chip shows what is left of it.
HiAt(c) == (Last - IF c > Last THEN 0 ELSE c) \div Byte
LoAt(c) == (Last - IF c > Last THEN 0 ELSE c) % Byte

ReadInv ==
  /\ counter \in Nat /\ clk.began \in Nat /\ clk.value \in Int
  /\ clk.hi \in Int /\ clk.lo \in Int
  /\ clk.use # "cia" /\ pc \notin {"released", "client done", "cpu done"} =>
       clk.value = -1
  /\ clk.use = "cia" =>
       /\ cia[clk.try].start = TRUE => counter <= Last
       /\ clk.value # -1 => clk.value \in clk.began .. counter
       /\ pc \in {"lo", "compare", "expired", "again"} => clk.began <= counter
       /\ pc = "lo" => \E c \in clk.began .. counter : clk.hi = HiAt(c)
       /\ pc = "compare" =>
            \E c \in clk.began .. counter : \E d \in c .. counter :
              clk.hi = HiAt(c) /\ clk.lo = LoAt(d)
       /\ pc = "expired" /\ cia[clk.try].start = TRUE =>
            Last - (clk.hi * Byte + clk.lo) \in clk.began .. counter
-----------------------------------------------------------------------------
\* RAMSEY: while the probe writes, nobody else can have changed what is wanted.
Writing == {"bus pair", "bus wait", "bus stop", "bus restore"}

BusInv ==
  /\ DOMAIN ramsey = {"shown", "written", "wanted"}
  /\ DOMAIN bus = {"original", "pairs", "pair", "value", "polls", "budget",
                   "delayed", "status", "readings"}
  /\ ramsey.wanted \in {"host", "other"}
  /\ ramsey.wanted = "other" => ramsey.written = "other" /\ ramsey.shown = "other"
  /\ pc \notin Writing => ramsey.written = ramsey.wanted
  /\ pc \in Writing \cup {"bus settle"} => ramsey.wanted = "host"
  /\ pc \in BusLabels \ {"bus", "bus done"} => bus.original = "host"
  /\ pc \notin BusLabels \ {"bus"} => bus.original = "none"
  /\ (\E i \in DOMAIN todo : todo[i] = "bus" /\ (i > 1 \/ pc \in {"idle", "bus"})) =>
       ramsey = [shown |-> "host", written |-> "host", wanted |-> "host"]

\* The clock chip: what is read while it is held is of one moment.
Holding == {"rtc ready", "rtc early", "rtc late", "rtc let go"}

\* What is read of a date first and last, and what is shown of it.
EarlyOf(i) == <<Dates[i][1]>>
LateOf(i) == <<Dates[i][2], Dates[i][3]>>
DateOf(i) == <<FullYear(Dates[i][1]), Dates[i][2], Dates[i][3]>>

RtcInv ==
  /\ DOMAIN rtc = {"kind", "at", "hold", "bank", "found", "busy"}
  /\ DOMAIN look = {"attempt", "control", "early", "late", "from", "date"}
  /\ rtc.at \in Nat /\ look.from \in Nat /\ look.from <= rtc.at
  /\ rtc.hold \in BOOLEAN /\ (rtc.hold = TRUE <=> pc \in Holding)
  /\ pc \in Holding => look.control = <<FALSE, rtc.found>>
  /\ pc \notin Holding => rtc.bank = rtc.found
  /\ pc \in {"rtc early", "rtc late"} => (rtc.kind = "MSM6242" => ~rtc.busy)
  /\ pc \in {"rtc hold", "rtc ready", "rtc early", "rtc late"} => look.late = <<>>
  /\ pc = "rtc late" => look.from = rtc.at
  /\ pc \in RtcLabels \ {"rtc", "rtc done"} => look.date = <<>>
  /\ pc \in {"rtc late", "rtc check"} \/ (pc = "rtc let go" /\ look.late # <<>>) =>
       look.early = EarlyOf(look.from)
  /\ pc = "rtc check" \/ (pc = "rtc let go" /\ look.late # <<>>) =>
       look.late = LateOf(look.from)
  /\ look.date # <<>> => look.date = DateOf(look.from)
-----------------------------------------------------------------------------
\* The overlay: what is allocated is what the backup knows of.
OverlayInv ==
  /\ DOMAIN backup = {"valid", "depth", "allocated", "planes", "pointer"}
  /\ DOMAIN memory = {"planes", "bitmaps", "sprites"}
  /\ backup.valid \in BOOLEAN /\ backup.allocated \in BOOLEAN
  /\ backup.pointer \in BOOLEAN /\ backup.depth \in Nat
  /\ memory.planes = backup.planes /\ backup.planes \subseteq 0 .. backup.depth - 1
  /\ backup.allocated = FALSE => memory.bitmaps = 0
  /\ backup.allocated = TRUE => /\ memory.bitmaps = 1 /\ backup.valid = TRUE
                                /\ backup.planes = {}
  /\ backup.pointer = FALSE => memory.sprites = 0
  /\ backup.pointer = TRUE => memory.sprites = 1
  /\ backup.valid = FALSE /\ pc # "overlay planes" => backup.planes = {}
  /\ pc = "overlay planes" => /\ backup.valid = FALSE
                              /\ \E k \in 0 .. backup.depth - 1 :
                                   backup.planes = 0 .. k - 1
  /\ pc = "overlay bitmap" => backup.valid = FALSE
  /\ pc = "overlay hidden" => /\ backup.valid = FALSE /\ backup.allocated = FALSE
                              /\ backup.pointer = FALSE
-----------------------------------------------------------------------------
\* run_until_steady: the floor covers the steps of the clock seen and declared.
Off(r) == Apart(r.us, r.truth)

RunInv ==
  /\ DOMAIN run = DOMAIN NoRun
  /\ {run.us, run.truth, run.floor, run.miss, run.unit, run.count} \subseteq Nat
  /\ run.clock \in Clocks
  /\ pc \notin {"steady", "flops done", "memory read"} => run = NoRun
  /\ pc = "steady" => run.of \in {"flops", "memory"} /\ run.count > 0
  /\ pc = "memory read" => run.of = "memory"
  /\ pc \in {"steady", "memory read"} \/ (pc = "flops done" /\ run.compared) =>
       run.floor >= ClockFloor(run.clock)
  /\ run.miss * Jitter <= run.floor
  /\ run.ok /\ run.us > 0 => /\ run.clock = "fine" => run.us = run.truth
                             /\ run.clock = "ticks" => Off(run) <= StepSize
  /\ pc \in {"flops done", "memory read"} /\ run.compared => Accepted(run)

\* The run made last is near to what it was compared with, and to the truth.
LastInv ==
  /\ run.last \in [count : Nat, us : Nat, ok : BOOLEAN]
  /\ run.compared =>
       /\ run.count > 0
       /\ Apart(run.last.us, (run.us * run.last.count) \div run.count) <= run.miss
  /\ run.last.ok /\ run.last.us > 0 =>
       /\ run.clock = "fine" => run.last.us = run.last.count * run.unit
       /\ run.clock = "ticks" =>
            Apart(run.last.us, run.last.count * run.unit) <= StepSize
  /\ run.of = "memory" /\ run.last.us > 0 => run.last.ok

\* Memory is read from a buffer, and chip memory with the display off.
Reading == \/ pc \in {"memory first", "memory read"}
           \/ pc = "steady" /\ run.of = "memory"

MemInv ==
  /\ DOMAIN mem = {"test", "buffer", "dma", "saved", "live"}
  /\ {mem.dma, mem.saved, mem.live, mem.buffer} \subseteq BOOLEAN
  /\ mem.buffer = TRUE => pc = "memory dma" \/ Reading
  /\ mem.dma = FALSE => mem.saved = TRUE /\ mem.live = FALSE /\ Reading

DhryInv ==
  /\ DOMAIN dhry = DOMAIN NoDhry
  /\ {dhry.unit, dhry.loops, dhry.total, dhry.elapsed, dhry.target} \subseteq Nat
  /\ pc = "dhry calibrate" => dhry.total = 0 /\ dhry.elapsed = 0
  /\ pc \in {"dhry chunk", "dhry permit"} => dhry.elapsed = dhry.total * dhry.unit
  /\ pc # "dhry permit" /\ pc # "dhrystone done" => dhry.score \in {"none", "legacy"}
  /\ DhrystoneWhole
-----------------------------------------------------------------------------
\* The frequency of the processor, and the settings while it is timed.
FreqInv ==
  /\ DOMAIN settings = {"real", "shown", "changed"}
  /\ DOMAIN cpu = DOMAIN NoCpu /\ DOMAIN previous = {"config", "mhz", "back"}
  /\ DOMAIN mhz = {"cpu", "fpu", "back"}
  /\ {settings.changed, previous.back, mhz.back} \subseteq BOOLEAN
  /\ cpu.loop \in {None, "cpu", "fpu"}
  /\ cpu.loop # None => pc \in (ClockLabels \cup FreqLabels) \ {"cpu", "cpu done"}
  /\ pc \in FreqLabels \ {"cpu", "cpu done"} => cpu.loop # None
  /\ cpu.loop = "fpu" => pc \in {"batch", "calibrate", "triple", "loop", "batch end",
                                 "fpu done", "release", "restore", "released"}
  /\ pc \in {"config", "fpu"} => cpu.loop = "cpu"
  /\ pc = "fpu done" => cpu.loop = "fpu"
  /\ cpu.fpcr => cpu.loop = "fpu" /\ pc \notin {"release", "restore", "released"}
  /\ cpu.loop = "cpu" /\ pc \in {"clock", "try", "borrow", "acquired"} =>
       cpu.result = None
  /\ previous.mhz # None =>
       previous.mhz = previous.config.settings \/ previous.back = TRUE
  /\ Timing =>
       /\ cpu.config = [settings |-> cpu.config.settings, precise |-> cpu.precise]
       /\ settings.changed = FALSE =>
            /\ settings.real = cpu.config.settings
            /\ cpu.result # None => cpu.result = settings.real
  /\ ~Timing => settings.changed = FALSE
  /\ ~Timing /\ mhz.cpu # None => mhz.cpu = settings.shown \/ mhz.back = TRUE

MeasureInv ==
  /\ MaskInv /\ CallInv /\ TimerInv /\ ReadInv /\ BusInv /\ RtcInv /\ OverlayInv
  /\ RunInv /\ LastInv /\ MemInv /\ DhryInv /\ FreqInv
-----------------------------------------------------------------------------
\* A step of a measurement stays among its labels.
LEMMA ClockPlaces == ClockStep => pc \in ClockLabels /\ pc' \in ClockLabels
  BY DEF ClockStep, Acquire, TryTimer, Borrow, Release, Restore, ReleaseEClock,
         StartWindow, ReadEClock, ReadHi, ReadLo, Compare, CheckExpiry, EndReading,
         Go, ClockLabels

LEMMA ClientPlaces == Client => pc \in SpeedLabels /\ pc' \in SpeedLabels
  BY DEF Client, Go, ClockLabels, SpeedLabels

LEMMA FreqPlaces == FreqStep => /\ pc \in FreqLabels \cup {"acquired", "released"}
                                /\ pc' \in FreqLabels \cup {"clock", "release"}
<1> USE DEF Go, FreqLabels
<1>1. CASE Measure \/ BeginBatch \/ Conclude \/ FpuDone \/ EndMeasure
  BY <1>1 DEF Measure, BeginBatch, Conclude, FpuDone, EndMeasure
<1>2. ASSUME NEW ok \in BOOLEAN,
             ReadConfig(ok) \/ CoarseLoop(ok) \/ EndBatch(ok) \/ Triple(ok)
      PROVE  /\ pc \in FreqLabels \cup {"acquired", "released"}
             /\ pc' \in FreqLabels \cup {"clock", "release"}
  BY <1>2 DEF ReadConfig, CoarseLoop, EndBatch, Triple
<1>3. ASSUME NEW valid \in BOOLEAN, NEW enough \in BOOLEAN,
             CalibrateLoop(valid, enough)
      PROVE  /\ pc \in FreqLabels \cup {"acquired", "released"}
             /\ pc' \in FreqLabels \cup {"clock", "release"}
  BY <1>3 DEF CalibrateLoop
<1>4. ASSUME NEW kind \in {"none", "integrated", "separate"}, Fpu(kind)
      PROVE  /\ pc \in FreqLabels \cup {"acquired", "released"}
             /\ pc' \in FreqLabels \cup {"clock", "release"}
  BY <1>4 DEF Fpu
<1> QED
  BY <1>1, <1>2, <1>3, <1>4 DEF FreqStep

LEMMA BusPlaces == BusStep => pc \in BusLabels /\ pc' \in BusLabels
  BY DEF BusStep, MeasureBus, BeginSample, Alternate, Poll, StopSample, RestoreBus,
         Settle, LeaveSample, Agree, GivesUp, Go, BusLabels

LEMMA RtcPlaces == RtcStep => pc \in RtcLabels /\ pc' \in RtcLabels
  BY DEF RtcStep, ReadTime, Hold, Ready, Early, Late, LetGo, GiveUp, CheckDate, Go,
         RtcLabels

LEMMA OverlayPlaces == OverlayStep => pc \in OverlayLabels /\ pc' \in OverlayLabels
  BY DEF OverlayStep, ShowOverlay, AllocBitMap, AllocPlane, Pointer, HideOverlay, Go,
         OverlayLabels

LEMMA BenchPlaces == BenchStep => pc \in BenchLabels /\ pc' \in BenchLabels
<1> USE DEF Go, BenchLabels
<1>1. CASE Confirm \/ Grow \/ Accept \/ MemoryTests \/ FirstPass \/ MemoryRead
           \/ ScoreChunks \/ DhryPermit
  BY <1>1 DEF Confirm, Grow, Accept, MemoryTests, FirstPass, MemoryRead, ScoreChunks,
              DhryPermit
<1>2. CASE \E usable \in BOOLEAN : Flops(usable)
  BY <1>2 DEF Flops
<1>3. CASE \E ok \in BOOLEAN : Buffer(ok) \/ DisplayOff(ok)
  BY <1>3 DEF Buffer, DisplayOff
<1>4. ASSUME NEW kind, NEW unit, Dhrystone(kind, unit)
      PROVE  pc \in BenchLabels /\ pc' \in BenchLabels
  BY <1>4 DEF Dhrystone
<1>5. ASSUME NEW elapsed, Legacy(elapsed)
      PROVE  pc \in BenchLabels /\ pc' \in BenchLabels
  BY <1>5 DEF Legacy
<1>6. ASSUME NEW valid, Calibrate(valid)
      PROVE  pc \in BenchLabels /\ pc' \in BenchLabels
  BY <1>6 DEF Calibrate, Fail
<1>7. ASSUME NEW valid, NEW delay, Chunk(valid, delay)
      PROVE  pc \in BenchLabels /\ pc' \in BenchLabels
  BY <1>7 DEF Chunk, Fail
<1> QED
  BY <1>1, <1>2, <1>3, <1>4, <1>5, <1>6, <1>7 DEF BenchStep
-----------------------------------------------------------------------------
\* A measurement takes back the Forbid it has called.
Balanced == \/ forbid' = forbid /\ (pc \in Forbids <=> pc' \in Forbids)
            \/ forbid' = forbid + 1 /\ pc \notin Forbids /\ pc' \in Forbids
            \/ forbid' = forbid - 1 /\ pc \in Forbids /\ pc' \notin Forbids

LEMMA BalancedKept ==
  ASSUME Balanced, forbid \in Int
  PROVE  forbid' \in Int /\ Kept' = Kept
  BY DEF Balanced, Kept

LEMMA BenchMasks == BenchStep => disabled' = disabled /\ Balanced
<1> USE DEF Go, masks, Balanced, Forbids
<1>1. CASE Confirm \/ Grow \/ Accept \/ MemoryTests \/ FirstPass \/ MemoryRead
           \/ ScoreChunks \/ DhryPermit
  BY <1>1 DEF Confirm, Grow, Accept, MemoryTests, FirstPass, MemoryRead, ScoreChunks,
              DhryPermit
<1>2. CASE \E usable \in BOOLEAN : Flops(usable)
  BY <1>2 DEF Flops
<1>3. CASE \E ok \in BOOLEAN : Buffer(ok) \/ DisplayOff(ok)
  BY <1>3 DEF Buffer, DisplayOff
<1>4. ASSUME NEW kind, NEW unit, Dhrystone(kind, unit)
      PROVE  disabled' = disabled /\ Balanced
  BY <1>4 DEF Dhrystone
<1>5. ASSUME NEW elapsed, Legacy(elapsed)
      PROVE  disabled' = disabled /\ Balanced
  BY <1>5 DEF Legacy
<1>6. ASSUME NEW valid, Calibrate(valid)
      PROVE  disabled' = disabled /\ Balanced
  BY <1>6 DEF Calibrate, Fail
<1>7. ASSUME NEW valid, NEW delay, Chunk(valid, delay)
      PROVE  disabled' = disabled /\ Balanced
  BY <1>7 DEF Chunk, Fail
<1> QED
  BY <1>1, <1>2, <1>3, <1>4, <1>5, <1>6, <1>7 DEF BenchStep

LEMMA FreqMasks == FreqStep => disabled' = disabled /\ Balanced
<1> USE DEF Go, masks, Balanced, Forbids
<1>1. CASE Measure \/ BeginBatch \/ Conclude \/ FpuDone \/ EndMeasure
  BY <1>1 DEF Measure, BeginBatch, Conclude, FpuDone, EndMeasure
<1>2. ASSUME NEW ok \in BOOLEAN,
             ReadConfig(ok) \/ CoarseLoop(ok) \/ EndBatch(ok) \/ Triple(ok)
      PROVE  disabled' = disabled /\ Balanced
  BY <1>2 DEF ReadConfig, CoarseLoop, EndBatch, Permits, Triple
<1>3. ASSUME NEW valid \in BOOLEAN, NEW enough \in BOOLEAN,
             CalibrateLoop(valid, enough)
      PROVE  disabled' = disabled /\ Balanced
  BY <1>3 DEF CalibrateLoop
<1>4. ASSUME NEW kind \in {"none", "integrated", "separate"}, Fpu(kind)
      PROVE  disabled' = disabled /\ Balanced
  BY <1>4 DEF Fpu
<1> QED
  BY <1>1, <1>2, <1>3, <1>4 DEF FreqStep

\* The other steps leave Forbid alone.
LEMMA OtherMasks ==
  ASSUME ClockStep \/ Client \/ BusStep \/ RtcStep \/ OverlayStep
  PROVE  forbid' = forbid
<1> USE DEF masks
<1>1. CASE ClockStep \/ Client
  BY <1>1 DEF ClockStep, Acquire, TryTimer, Borrow, Release, Restore, ReleaseEClock,
         StartWindow, ReadEClock, ReadHi, ReadLo, Compare, CheckExpiry, EndReading,
         Client
<1>2. CASE BusStep
  BY <1>2 DEF BusStep, MeasureBus, BeginSample, Alternate, Poll, StopSample, RestoreBus,
         Settle, LeaveSample, Agree
<1>3. CASE RtcStep
  BY <1>3 DEF RtcStep, ReadTime, Hold, Ready, Early, Late, LetGo, GiveUp, CheckDate
<1>4. CASE OverlayStep
  BY <1>4 DEF OverlayStep, ShowOverlay, AllocBitMap, AllocPlane, Pointer, HideOverlay
<1> QED
  BY <1>1, <1>2, <1>3, <1>4

LEMMA EnvironmentWaits == Environment => UNCHANGED <<pc, masks, todo>>
  BY DEF Environment, OtherDriver, CountDown, Refresh, Reconfigure, RtcTick, RtcBusy,
         RtcWritten, ChangeSettings

\* Interrupts are masked where the labels say so.
LEMMA MaskStep ==
  ASSUME MaskInv, CallInv, [Next]_vars
  PROVE  MaskInv'
<1> USE DEF MaskInv, Masked
<1>1. CASE Call
  <2>1. pc' \in Calls
    BY <1>1 DEF Call, CallInv
  <2> QED
    BY <1>1, <2>1 DEF Call, Calls, masks
<1>2. CASE Return
  BY <1>2 DEF Return, Finished, masks
<1>3. CASE Keep /\ UNCHANGED disabled
  BY <1>3 DEF Keep, Go
<1>4. CASE ClockStep
  BY <1>4 DEF ClockStep, Acquire, TryTimer, Borrow, Release, MaskRelease, Restore,
         ReleaseEClock, StartWindow, ReadEClock, ReadHi, ReadLo, Compare, CheckExpiry,
         EndReading, Go, masks
<1>5. CASE Client
  BY <1>5 DEF Client, Go, masks
<1>6. CASE BusStep
  BY <1>6 DEF BusStep, MeasureBus, BeginSample, Alternate, Poll, StopSample, RestoreBus,
         Settle, LeaveSample, Agree, GivesUp, Go, masks
<1>7. CASE RtcStep
  BY <1>7 DEF RtcStep, ReadTime, Hold, Ready, Early, Late, LetGo, GiveUp, CheckDate, Go,
         masks
<1>8. CASE OverlayStep
  <2>1. disabled' = disabled
    BY <1>8 DEF OverlayStep, ShowOverlay, AllocBitMap, AllocPlane, Pointer, HideOverlay,
                masks
  <2> QED
    BY <1>8, <2>1, OverlayPlaces DEF OverlayLabels
<1>9. CASE BenchStep
  BY <1>9, BenchPlaces, BenchMasks DEF BenchLabels
<1>10. CASE FreqStep
  <2>1. /\ pc \in FreqLabels \cup {"acquired", "released"}
        /\ pc' \in FreqLabels \cup {"clock", "release"}
    BY <1>10, FreqPlaces
  <2> QED
    BY <1>10, <2>1, FreqMasks DEF FreqLabels
<1>11. CASE Environment \/ UNCHANGED vars
  BY <1>11, EnvironmentWaits DEF masks, vars
<1> QED
  BY <1>1, <1>2, <1>3, <1>4, <1>5, <1>6, <1>7, <1>8, <1>9, <1>10, <1>11
     DEF Next, Program
-----------------------------------------------------------------------------
\* What is left of a list that keeps its Forbids keeps them too.
LEMMA KeepsTail ==
  ASSUME NEW list \in Seq(Calls), list # <<>>, NEW n, Keeps(list, n)
  PROVE  /\ Keeps(Tail(list), n + Level(Head(list)))
         /\ Tail(list) \in Seq(Calls) /\ DOMAIN Tail(list) = 1 .. Len(list) - 1
         /\ \A i \in 1 .. Len(list) - 1 : Tail(list)[i] = list[i + 1]
<1>1. PICK level \in [0 .. Len(list) -> {0, 1}] :
        /\ level[0] = n /\ level[Len(list)] = 0
        /\ \A i \in DOMAIN list : level[i] = level[i - 1] + Level(list[i])
  BY DEF Keeps
<1>2. /\ Len(list) \in Nat \ {0} /\ Len(Tail(list)) = Len(list) - 1
      /\ Tail(list) \in Seq(Calls) /\ DOMAIN Tail(list) = 1 .. Len(list) - 1
      /\ DOMAIN list = 1 .. Len(list)
      /\ \A i \in 1 .. Len(list) - 1 : Tail(list)[i] = list[i + 1]
      /\ Head(list) = list[1]
  OBVIOUS
<1> DEFINE rest == [i \in 0 .. Len(Tail(list)) |-> level[i + 1]]
<1>3. rest \in [0 .. Len(Tail(list)) -> {0, 1}]
  <2>1. \A i \in 0 .. Len(list) - 1 : i + 1 \in 0 .. Len(list)
    BY <1>2
  <2> QED
    BY <1>1, <1>2, <2>1
<1>4. rest[0] = n + Level(Head(list))
  <2>1. level[1] = level[0] + Level(list[1])
    BY <1>1, <1>2
  <2> QED
    BY <1>1, <1>2, <2>1
<1>5. rest[Len(Tail(list))] = 0
  BY <1>1, <1>2
<1>6. ASSUME NEW i \in DOMAIN Tail(list)
      PROVE  rest[i] = rest[i - 1] + Level(Tail(list)[i])
  <2>1. i + 1 \in DOMAIN list /\ i \in 0 .. Len(Tail(list))
        /\ i - 1 \in 0 .. Len(Tail(list)) /\ (i + 1) - 1 = i /\ (i - 1) + 1 = i
    BY <1>2
  <2>2. level[i + 1] = level[i] + Level(list[i + 1])
    BY <1>1, <2>1
  <2>3. rest[i] = level[i + 1] /\ rest[i - 1] = level[i]
    BY <2>1
  <2>4. Tail(list)[i] = list[i + 1]
    BY <1>2
  <2> QED
    BY <2>2, <2>3, <2>4
<1> HIDE DEF rest
<1> QED
  BY <1>2, <1>3, <1>4, <1>5, <1>6 DEF Keeps

\* A list that is done has given its Forbid back.
LEMMA KeepsNothing == \A n : Keeps(<<>>, n) => n = 0
  BY DEF Keeps

\* While a measurement runs, its call stays at the head.
LEMMA CallGoesOn ==
  ASSUME CallInv, todo' = todo, Balanced,
         NEW L \in {BusLabels, RtcLabels, OverlayLabels, BenchLabels, SpeedLabels},
         pc \in L, pc' \in L
  PROVE  CallInv'
<1> USE DEF BusLabels, RtcLabels, OverlayLabels, BenchLabels, SpeedLabels, ClockLabels,
            FreqLabels
<1>1. pc # "idle" /\ pc' # "idle" /\ pc # "kept" /\ pc' # "kept"
  OBVIOUS
<1> HIDE DEF BusLabels, RtcLabels, OverlayLabels, BenchLabels, SpeedLabels, ClockLabels,
             FreqLabels
<1>2. Head(todo) \in Calls /\ pc \in Group(Head(todo))
  <2>1. todo \in Seq(Calls) /\ todo # <<>> /\ pc \in Group(Head(todo))
    BY <1>1 DEF CallInv
  <2>2. Head(todo) \in Calls
    BY <2>1
  <2> QED
    BY <2>1, <2>2
<1>3. Group(Head(todo)) = L
  <2>1. Group(Head(todo)) \in {BusLabels, RtcLabels, OverlayLabels, BenchLabels,
                               SpeedLabels, {"forbid", "kept"}, {"permit", "kept"}}
    BY <1>2 DEF Group, Calls
  <2>2. /\ pc \in BusLabels => pc \notin RtcLabels \cup OverlayLabels \cup BenchLabels
                                         \cup SpeedLabels
        /\ pc \in RtcLabels => pc \notin OverlayLabels \cup BenchLabels \cup SpeedLabels
        /\ pc \in OverlayLabels => pc \notin BenchLabels \cup SpeedLabels
    BY DEF BusLabels, RtcLabels, OverlayLabels, BenchLabels, SpeedLabels, ClockLabels,
           FreqLabels
  <2>3. pc \in BenchLabels => pc \notin SpeedLabels
    BY DEF BenchLabels, SpeedLabels, ClockLabels, FreqLabels
  <2>4. L \cap {"forbid", "permit", "kept"} = {}
    BY DEF BusLabels, RtcLabels, OverlayLabels, BenchLabels, SpeedLabels, ClockLabels,
           FreqLabels
  <2>5. ASSUME NEW K \in {BusLabels, RtcLabels, OverlayLabels, BenchLabels, SpeedLabels,
                          {"forbid", "kept"}, {"permit", "kept"}}, pc \in K
        PROVE  K = L
    <3>1. K \in {BusLabels, RtcLabels, OverlayLabels, BenchLabels, SpeedLabels}
      BY <2>4, <2>5
    <3> QED
      BY <2>2, <2>3, <2>5, <3>1
  <2> QED
    BY <1>2, <2>1, <2>5
<1>4. forbid' \in Int /\ Kept' = Kept
  BY BalancedKept DEF CallInv
<1> QED
  BY <1>1, <1>3, <1>4 DEF CallInv

\* The next measurement is called, or the last one returns.
LEMMA CallBegins ==
  ASSUME CallInv, Call
  PROVE  CallInv' /\ pc' = Head(todo) /\ Head(todo) \in Calls
<1>1. pc = "idle" /\ todo # <<>> /\ pc' = Head(todo) /\ todo' = todo /\ forbid' = forbid
  BY DEF Call, masks
<1>2. Head(todo) \in Calls
  BY <1>1 DEF CallInv
<1>3. pc' \in Group(Head(todo))
  BY <1>1, <1>2 DEF Group, Calls, BusLabels, RtcLabels, OverlayLabels, BenchLabels,
                    SpeedLabels, FreqLabels
<1>4. pc \notin Forbids /\ pc' \notin Forbids /\ pc' # "kept" /\ pc # "kept"
  BY <1>1, <1>2 DEF Calls, Forbids
<1>5. Kept' = Kept
  BY <1>1, <1>4 DEF Kept
<1> QED
  BY <1>1, <1>2, <1>3, <1>4, <1>5 DEF CallInv

LEMMA CallReturns ==
  ASSUME CallInv, Return
  PROVE  CallInv' /\ todo # <<>>
<1>1. pc \in Finished /\ pc' = "idle" /\ todo' = Tail(todo) /\ forbid' = forbid
  BY DEF Return, masks
<1>2. pc # "idle" /\ pc \notin Forbids /\ pc' \notin Forbids
  BY <1>1 DEF Finished, Forbids
<1>3. todo # <<>> /\ todo \in Seq(Calls) /\ pc \in Group(Head(todo)) /\ forbid \in Int
  BY <1>2 DEF CallInv
<1>4. Head(todo) \in Calls
  BY <1>3
<1>5. Kept = forbid /\ Kept' = forbid
  BY <1>1, <1>2, <1>3 DEF Kept
<1>6. Keeps(Tail(todo), forbid)
  <2>1. CASE pc = "kept"
    BY <1>5, <2>1 DEF CallInv
  <2>2. CASE pc # "kept"
    <3>1. Head(todo) \notin {"forbid", "permit"}
      BY <1>1, <1>3, <2>2 DEF Group, Finished
    <3>2. Level(Head(todo)) = 0
      BY <3>1 DEF Level
    <3>3. Keeps(todo, forbid)
      BY <1>5, <2>2 DEF CallInv
    <3>4. Keeps(Tail(todo), forbid + 0)
      BY <1>3, <3>2, <3>3, KeepsTail
    <3> QED
      BY <1>3, <3>4
  <2> QED
    BY <2>1, <2>2
<1>7. todo' \in Seq(Calls) /\ DOMAIN todo' = 1 .. Len(todo) - 1
      /\ \A i \in 1 .. Len(todo) - 1 : todo'[i] = todo[i + 1]
  BY <1>1, <1>3
<1>8. ASSUME NEW i \in DOMAIN todo', NEW j \in DOMAIN todo',
             todo'[i] = "bus", todo'[j] = "bus"
      PROVE  i = j
  <2>1. i + 1 \in DOMAIN todo /\ j + 1 \in DOMAIN todo
        /\ todo[i + 1] = "bus" /\ todo[j + 1] = "bus"
    BY <1>3, <1>7, <1>8
  <2>2. i + 1 = j + 1
    BY <2>1 DEF CallInv
  <2> QED
    BY <1>3, <1>7, <2>2
<1> QED
  BY <1>1, <1>3, <1>5, <1>6, <1>7, <1>8 DEF CallInv

\* The speed page calls Forbid or Permit.
LEMMA CallKeeps ==
  ASSUME CallInv, Keep, todo' = todo
  PROVE  CallInv' /\ pc \in KeepLabels /\ pc' \in KeepLabels
<1>1. /\ pc \in {"forbid", "permit"} /\ pc' = "kept"
      /\ forbid' = forbid + Level(pc)
  BY DEF Keep, Go, Level, CallInv
<1>2. /\ todo # <<>> /\ todo \in Seq(Calls) /\ pc \in Group(Head(todo))
      /\ forbid \in Int
  BY <1>1 DEF CallInv
<1>3. Head(todo) \in Calls
  BY <1>2
<1>4. Head(todo) = pc
  BY <1>1, <1>2, <1>3 DEF Calls, Group, BusLabels, RtcLabels, OverlayLabels, BenchLabels,
                          SpeedLabels, ClockLabels, FreqLabels
<1>5. Level(pc) \in Int /\ forbid' \in Int
  BY <1>1, <1>2 DEF Level
<1>6. Kept = forbid /\ Kept' = forbid'
  <2>1. pc \notin Forbids /\ pc' \notin Forbids
    BY <1>1 DEF Forbids
  <2> QED
    BY <1>2, <1>5, <2>1 DEF Kept
<1>7. Keeps(todo, forbid)
  BY <1>1, <1>6 DEF CallInv
<1>8. Keeps(Tail(todo), forbid')
  BY <1>1, <1>2, <1>4, <1>7, KeepsTail
<1> QED
  BY <1>1, <1>2, <1>4, <1>5, <1>6, <1>8 DEF CallInv, KeepLabels, Group

LEMMA CallStep ==
  ASSUME CallInv, [Next]_vars
  PROVE  CallInv'
<1>1. CASE Call \/ Return
  BY <1>1, CallBegins, CallReturns
<1>2. CASE Keep /\ UNCHANGED todo
  BY <1>2, CallKeeps
<1>3. CASE (ClockStep \/ Client \/ FreqStep) /\ UNCHANGED todo
  <2>1. pc \in SpeedLabels /\ pc' \in SpeedLabels
    BY <1>3, ClockPlaces, ClientPlaces, FreqPlaces DEF SpeedLabels, ClockLabels
  <2>2. Balanced
    <3>1. CASE ClockStep \/ Client
      <4>1. pc \notin Forbids /\ pc' \notin Forbids
        BY <3>1, ClockPlaces DEF ClockLabels, Forbids, Client, Go
      <4> QED
        BY <3>1, <4>1, OtherMasks DEF Balanced
    <3> QED
      BY <1>3, <3>1, FreqMasks
  <2> QED
    BY <1>3, <2>1, <2>2, CallGoesOn
<1>4. CASE (BusStep \/ RtcStep \/ OverlayStep \/ BenchStep) /\ UNCHANGED todo
  <2>1. PICK L \in {BusLabels, RtcLabels, OverlayLabels, BenchLabels} :
          pc \in L /\ pc' \in L
    BY <1>4, BusPlaces, RtcPlaces, OverlayPlaces, BenchPlaces
  <2>2. Balanced
    <3>1. CASE BusStep \/ RtcStep \/ OverlayStep
      <4>1. pc \notin Forbids /\ pc' \notin Forbids
        BY <3>1, BusPlaces, RtcPlaces, OverlayPlaces
           DEF BusLabels, RtcLabels, OverlayLabels, Forbids
      <4> QED
        BY <3>1, <4>1, OtherMasks DEF Balanced
    <3> QED
      BY <1>4, <3>1, BenchMasks
  <2> QED
    BY <1>4, <2>1, <2>2, CallGoesOn
<1>5. CASE Environment \/ UNCHANGED vars
  BY <1>5, EnvironmentWaits DEF masks, vars, CallInv, Kept
<1> QED
  BY <1>1, <1>2, <1>3, <1>4, <1>5 DEF Next, Program
-----------------------------------------------------------------------------
\* The timers stay with the clock.
TimerBusy == {"borrow", "restore", "lo", "compare", "expired", "again"}

LEMMA TimerFrame ==
  ASSUME TimerInv, UNCHANGED <<cia, clk>>, pc \notin TimerBusy, pc' \notin TimerBusy,
         clk.use # "none" => pc' \in Using
  PROVE  TimerInv'
  BY DEF TimerInv, TimerBusy, Host

\* Where there is no clock, nothing is borrowed.
LEMMA TimerApart ==
  ASSUME TimerInv, UNCHANGED <<cia, clk>>, pc \notin Using \cup TimerBusy,
         pc' \notin TimerBusy
  PROVE  TimerInv' /\ clk.use = "none"
<1>1. clk.use = "none"
  BY DEF TimerInv
<1> QED
  BY <1>1, TimerFrame

LEMMA TimerClock ==
  ASSUME TimerInv, ClockStep
  PROVE  TimerInv'
<1> USE ClockAssumption DEF TimerInv, Host, Go, Using, ClockLabels, FreqLabels
<1>1. ASSUME NEW kind \in {"none", "eclock", "cia"}, Acquire(kind)
      PROVE  TimerInv'
  BY <1>1 DEF Acquire, Acquired
<1>2. ASSUME NEW granted \in BOOLEAN, TryTimer(granted)
      PROVE  TimerInv'
  <2>1. pc = "try" /\ clk.use = "none"
    BY <1>2 DEF TryTimer
  <2>2. CASE granted
    <3>1. /\ pc' = "borrow" /\ cia' = [cia EXCEPT ![clk.try].vector = TRUE]
          /\ clk' = [clk EXCEPT !.saved = cia[clk.try].own,
                                !.now = cia[clk.try].shared]
      BY <1>2, <2>2 DEF TryTimer
    <3>2. clk.try \in 1 .. Len(Timers) /\ Host(clk.try)
      BY <2>1
    <3>3. clk'.saved = "host" /\ clk'.now = TRUE /\ clk'.use = "none"
          /\ clk'.try = clk.try /\ DOMAIN clk' = DOMAIN clk
      BY <2>1, <3>1, <3>2
    <3>4. /\ DOMAIN cia' = 1 .. Len(Timers)
          /\ \A t \in 1 .. Len(Timers) :
               /\ DOMAIN cia'[t] = {"own", "shared", "start", "vector"}
               /\ cia'[t].shared = TRUE /\ t # clk.try => cia'[t] = cia[t]
      BY <2>1, <3>1, <3>2
    <3> QED
      BY <2>1, <3>1, <3>2, <3>3, <3>4
  <2>3. CASE ~granted
    <3>1. /\ pc' \in {"acquired", "try"} /\ cia' = cia
          /\ clk' = [clk EXCEPT !.try = IF @ = Len(Timers) THEN @ ELSE @ + 1]
      BY <1>2, <2>3 DEF TryTimer
    <3>2. clk'.try \in 1 .. Len(Timers)
      <4>1. clk.try \in 1 .. Len(Timers)
        OBVIOUS
      <4>2. clk'.try = IF clk.try = Len(Timers) THEN clk.try ELSE clk.try + 1
        BY <3>1
      <4>3. Len(Timers) \in Nat \ {0}
        OBVIOUS
      <4> HIDE ClockAssumption DEF TimerInv
      <4> QED
        BY <4>1, <4>2, <4>3
    <3>3. \A t \in 1 .. Len(Timers) : Host(t)
      BY <2>1
    <3> QED
      BY <2>1, <3>1, <3>2, <3>3
  <2> QED
    BY <2>2, <2>3
<1>3. CASE Borrow
  BY <1>3 DEF Borrow
<1>4. CASE Release
  BY <1>4 DEF Release
<1>5. CASE Restore
  BY <1>5 DEF Restore
<1>6. CASE ReleaseEClock
  BY <1>6 DEF ReleaseEClock
<1>7. CASE StartWindow
  BY <1>7 DEF StartWindow
<1>8. CASE ReadEClock
  BY <1>8 DEF ReadEClock, probe
<1>9. CASE ReadHi
  BY <1>9 DEF ReadHi
<1>10. CASE ReadLo
  BY <1>10 DEF ReadLo
<1>11. CASE Compare
  BY <1>11 DEF Compare, probe
<1>12. CASE CheckExpiry
  BY <1>12 DEF CheckExpiry
<1>13. CASE EndReading
  BY <1>13 DEF EndReading
<1> QED
  BY <1>1, <1>2, <1>3, <1>4, <1>5, <1>6, <1>7, <1>8, <1>9, <1>10, <1>11, <1>12, <1>13
     DEF ClockStep

LEMMA TimerStep ==
  ASSUME TimerInv, MaskInv, CallInv, [Next]_vars
  PROVE  TimerInv'
<1> USE DEF TimerBusy, Using, ClockLabels, FreqLabels, Go
<1>1. CASE Call
  <2>1. pc = "idle" /\ pc' \in Calls /\ UNCHANGED probe
    BY <1>1, CallBegins DEF Call
  <2> QED
    BY <2>1, TimerApart DEF Calls, probe
<1>2. CASE Return
  <2>1. pc \in Finished /\ pc' = "idle" /\ cia' = cia /\ clk' = NoClock
    BY <1>2 DEF Return
  <2>2. clk.use = "none" /\ \A t \in 1 .. Len(Timers) : Host(t)
    BY <2>1 DEF TimerInv, Finished
  <2> QED
    BY <2>1, <2>2, ClockAssumption DEF TimerInv, Host, NoClock
<1>3. CASE Keep /\ UNCHANGED <<probe, todo>>
  BY <1>3, CallKeeps, TimerApart DEF KeepLabels, probe
<1>4. CASE ClockStep
  BY <1>4, TimerClock
<1>5. CASE Client
  <2>1. UNCHANGED <<cia, clk>> /\ pc \notin TimerBusy /\ pc' \notin TimerBusy
    BY <1>5 DEF Client, probe
  <2>2. clk.use # "none" => pc' \in Using
    BY <1>5 DEF Client, Acquired, TimerInv
  <2> QED
    BY <2>1, <2>2, TimerFrame
<1>6. CASE BusStep /\ UNCHANGED probe
  BY <1>6, BusPlaces, TimerApart DEF BusLabels, probe
<1>7. CASE RtcStep /\ UNCHANGED probe
  BY <1>7, RtcPlaces, TimerApart DEF RtcLabels, probe
<1>8. CASE OverlayStep /\ UNCHANGED probe
  BY <1>8, OverlayPlaces, TimerApart DEF OverlayLabels, probe
<1>9. CASE BenchStep /\ UNCHANGED probe
  BY <1>9, BenchPlaces, TimerApart DEF BenchLabels, probe
<1>10. CASE FreqStep
  <2>1. pc \notin TimerBusy /\ pc' \notin TimerBusy
    BY <1>10, FreqPlaces
  <2>2. UNCHANGED probe /\ (pc \in Using => pc' \in Using)
    <3>1. CASE Measure \/ BeginBatch \/ Conclude \/ FpuDone \/ EndMeasure
      BY <3>1 DEF Measure, BeginBatch, Conclude, FpuDone, EndMeasure
    <3>2. ASSUME NEW ok \in BOOLEAN,
                 ReadConfig(ok) \/ CoarseLoop(ok) \/ EndBatch(ok) \/ Triple(ok)
          PROVE  UNCHANGED probe /\ pc' \in Using
      BY <3>2 DEF ReadConfig, CoarseLoop, EndBatch, Triple
    <3>3. ASSUME NEW valid \in BOOLEAN, NEW enough \in BOOLEAN,
                 CalibrateLoop(valid, enough)
          PROVE  UNCHANGED probe /\ pc' \in Using
      BY <3>3 DEF CalibrateLoop
    <3>4. ASSUME NEW kind \in {"none", "integrated", "separate"}, Fpu(kind)
          PROVE  UNCHANGED probe /\ pc' \in Using
      BY <3>4 DEF Fpu
    <3> QED
      BY <1>10, <3>1, <3>2, <3>3, <3>4 DEF FreqStep
  <2>3. clk.use # "none" => pc' \in Using
    BY <2>2 DEF TimerInv
  <2> QED
    BY <2>1, <2>2, <2>3, TimerFrame DEF probe
<1>11. CASE Environment \/ UNCHANGED vars
  <2>1. CASE OtherDriver
    <3>1. pc \notin {"borrow", "restore"}
      BY <2>1 DEF OtherDriver, InterruptsRun, MaskInv, Masked
    <3> QED
      BY <2>1, <3>1 DEF OtherDriver, TimerInv, Host
  <2>2. CASE CountDown
    BY ZenonT(60), <2>2 DEF CountDown, TimerInv, Host
  <2>3. CASE UNCHANGED <<pc, probe>>
    BY <2>3 DEF probe, TimerInv, Host
  <2> QED
    BY <1>11, <2>1, <2>2, <2>3
       DEF Environment, Refresh, Reconfigure, RtcTick, RtcBusy, RtcWritten,
           ChangeSettings, vars
<1> QED
  BY <1>1, <1>2, <1>3, <1>4, <1>5, <1>6, <1>7, <1>8, <1>9, <1>10, <1>11
     DEF Next, Program
-----------------------------------------------------------------------------
\* The bytes of the counter: a high byte that is the same before and after
\* belongs to every low byte read between.
LEMMA Parts ==
  ASSUME NEW x \in Int, NEW b \in Nat \ {0}
  PROVE  x \div b \in Int /\ x % b \in 0 .. b - 1 /\ x = (x \div b) * b + (x % b)
  OBVIOUS

LEMMA Grows ==
  ASSUME NEW x \in Int, NEW y \in Int, NEW b \in Nat \ {0}, x <= y
  PROVE  x \div b <= y \div b
  OBVIOUS

LEMMA SameHigh ==
  ASSUME NEW b \in Nat, NEW c \in Nat, NEW d \in Nat, NEW n \in Nat, b <= c, c <= d, d <= n,
         n <= Last, HiAt(c) = HiAt(n)
  PROVE  Last - (HiAt(c) * Byte + LoAt(d)) = d
<1>1. Byte \in Nat \ {0} /\ Last \in Int
  BY ClockAssumption DEF Last
<1>2. /\ HiAt(c) = (Last - c) \div Byte /\ HiAt(n) = (Last - n) \div Byte
      /\ LoAt(d) = (Last - d) % Byte
  BY <1>1 DEF HiAt, LoAt
<1>3. (Last - n) \div Byte <= (Last - d) \div Byte
  BY <1>1, Grows
<1>4. (Last - d) \div Byte <= (Last - c) \div Byte
  BY <1>1, Grows
<1>5. /\ (Last - d) \div Byte \in Int /\ (Last - c) \div Byte \in Int
      /\ (Last - n) \div Byte \in Int /\ (Last - d) % Byte \in Int
  BY <1>1, Parts
<1>6. (Last - c) \div Byte = (Last - d) \div Byte
  <2>1. (Last - n) \div Byte = (Last - c) \div Byte
    BY <1>2
  <2>2. ASSUME NEW x \in Int, NEW y \in Int, NEW z \in Int, x <= y, y <= z, x = z
        PROVE  z = y
    BY <2>2
  <2> QED
    BY <1>3, <1>4, <1>5, <2>1, <2>2
<1>7. Last - d = HiAt(c) * Byte + LoAt(d)
  <2>1. Last - d = ((Last - d) \div Byte) * Byte + ((Last - d) % Byte)
    BY <1>1, Parts
  <2> QED
    BY <1>2, <1>6, <2>1
<1> QED
  BY <1>1, <1>7

LEMMA LastNat == Last \in Nat /\ Byte \in Nat \ {0}
<1>1. \A b \in Nat \ {0} : b * b - 1 \in Nat
  OBVIOUS
<1> QED
  BY <1>1, ClockAssumption DEF Last

LEMMA ReadFrame ==
  ASSUME ReadInv, UNCHANGED <<counter, clk>>, clk.use = "cia" => cia' = cia,
         pc \notin TimerBusy, pc' \notin TimerBusy,
         \/ pc \notin {"released", "client done", "cpu done"}
         \/ pc' \in {"released", "client done", "cpu done"}
  PROVE  ReadInv'
  BY DEF ReadInv, TimerBusy

LEMMA ReadCounts ==
  ASSUME ReadInv, TimerInv, CountDown
  PROVE  ReadInv'
<1>1. /\ clk.use = "cia" /\ cia[clk.try].start /\ counter' = counter + 1
      /\ cia' = [cia EXCEPT ![clk.try].start = counter < Last]
      /\ UNCHANGED <<pc, clk>>
  BY DEF CountDown
<1>2. Last \in Int /\ counter \in Nat /\ clk.began \in Nat /\ counter <= Last
  BY <1>1, LastNat DEF ReadInv, TimerInv
<1>3. cia'[clk.try].start = TRUE => counter' <= Last
  <2>1. CASE counter < Last
    BY <1>1, <1>2, <2>1
  <2>2. CASE ~(counter < Last)
    <3>1. cia' = [cia EXCEPT ![clk.try].start = FALSE]
      <4>1. (counter < Last) = FALSE
        BY <2>2
      <4> QED
        BY <1>1, <4>1
    <3> QED
      BY <3>1 DEF TimerInv
  <2> QED
    BY <2>1, <2>2
<1>4. \A c \in Int : c \in clk.began .. counter => c \in clk.began .. counter'
  BY <1>1, <1>2
<1>5. \A c \in clk.began .. counter :
        /\ c \in clk.began .. counter'
        /\ \A d \in c .. counter : d \in c .. counter'
  BY <1>1, <1>2
<1>6. counter' \in Nat /\ (clk.began <= counter => clk.began <= counter')
  BY <1>1, <1>2
<1>7. pc = "lo" => \E c \in clk.began .. counter' : clk.hi = HiAt(c)
  BY <1>1, <1>5 DEF ReadInv
<1>8. pc = "compare" =>
        \E c \in clk.began .. counter' : \E d \in c .. counter' :
          clk.hi = HiAt(c) /\ clk.lo = LoAt(d)
  BY <1>1, <1>5 DEF ReadInv
<1>9. pc = "expired" /\ cia'[clk.try].start = TRUE =>
        Last - (clk.hi * Byte + clk.lo) \in clk.began .. counter'
  BY <1>1, <1>4, <1>5 DEF ReadInv
<1>10. clk.value # -1 => clk.value \in clk.began .. counter'
  BY <1>1, <1>5 DEF ReadInv
<1>11. pc \in {"lo", "compare", "expired", "again"} => clk.began <= counter'
  BY <1>1, <1>6 DEF ReadInv
<1>12. clk.began \in Nat /\ clk.value \in Int /\ clk.hi \in Int /\ clk.lo \in Int
  BY DEF ReadInv
<1>13. pc' = pc /\ clk' = clk /\ clk.use = "cia" /\ counter' \in Nat
  BY <1>1, <1>6
<1> QED
  BY <1>3, <1>7, <1>8, <1>9, <1>10, <1>11, <1>12, <1>13 DEF ReadInv

LEMMA ReadClock ==
  ASSUME ReadInv, TimerInv, TimerInv', ClockStep
  PROVE  ReadInv'
<1>0. Last \in Nat /\ counter \in Nat /\ clk.began \in Nat /\ Byte \in Nat \ {0}
  BY LastNat DEF ReadInv
<1> USE DEF TimerInv, Go
<1>1. ASSUME NEW kind \in {"none", "eclock", "cia"}, Acquire(kind)
      PROVE  ReadInv'
  BY <1>1 DEF Acquire, Acquired, ReadInv
<1>2. ASSUME NEW granted \in BOOLEAN, TryTimer(granted)
      PROVE  ReadInv'
  <2>1. pc = "try" /\ pc' \in {"acquired", "try", "borrow"} /\ clk.use = "none"
        /\ counter' = counter
    BY <1>2 DEF TryTimer, Using, ClockLabels, FreqLabels
  <2>2. /\ clk'.use = "none" /\ clk'.began = clk.began /\ clk'.value = clk.value
        /\ clk'.hi = clk.hi /\ clk'.lo = clk.lo
    BY ZenonT(60), <1>2, <2>1 DEF TryTimer
  <2> QED
    BY <2>1, <2>2 DEF ReadInv
<1>3. CASE Borrow
  BY <1>3 DEF Borrow, ReadInv, Using, ClockLabels, FreqLabels
<1>4. CASE Release
  BY <1>4 DEF Release, ReadInv
<1>5. CASE Restore
  BY <1>5 DEF Restore, ReadInv
<1>6. CASE ReleaseEClock
  BY <1>6 DEF ReleaseEClock, ReadInv
<1>7. CASE StartWindow
  BY <1>0, <1>7 DEF StartWindow, ReadInv
<1>8. CASE ReadEClock
  BY <1>8 DEF ReadEClock, ReadInv, probe
<1>9. CASE ReadHi
  BY SMTT(20), <1>0, <1>9 DEF ReadHi, ReadInv, Hi, Shown, HiAt
<1>10. CASE ReadLo
  BY SMTT(20), <1>0, <1>10 DEF ReadLo, ReadInv, Lo, Shown, LoAt
<1>11. CASE Compare
  <2>1. /\ pc = "compare" /\ pc' \in {"expired", "again", "read"}
        /\ clk.use = "cia" /\ UNCHANGED probe
        /\ pc' = "expired" => clk.hi = Hi
    BY <1>11 DEF Compare, Steady
  <2>21. PICK c \in clk.began .. counter :
           \E d \in c .. counter : clk.hi = HiAt(c) /\ clk.lo = LoAt(d)
    BY <2>1 DEF ReadInv
  <2>2. PICK d \in c .. counter : clk.hi = HiAt(c) /\ clk.lo = LoAt(d)
    BY <2>21
  <2>3. c \in Nat /\ d \in Nat /\ c <= d /\ d <= counter /\ clk.began <= c
    BY <1>0, <2>2
  <2>4. Hi = HiAt(counter)
    BY DEF Hi, Shown, HiAt
  <2>5. pc' = "expired" /\ cia[clk.try].start = TRUE =>
          Last - (clk.hi * Byte + clk.lo) \in clk.began .. counter
    <3>1. SUFFICES ASSUME pc' = "expired", cia[clk.try].start = TRUE
                   PROVE  Last - (clk.hi * Byte + clk.lo) \in clk.began .. counter
      OBVIOUS
    <3>2. counter <= Last
      BY <2>1, <3>1 DEF ReadInv
    <3>3. HiAt(c) = HiAt(counter)
      BY <2>1, <2>2, <2>4, <3>1
    <3>4. Last - (clk.hi * Byte + clk.lo) = d
      BY SMTT(20), <1>0, <2>2, <2>3, <3>2, <3>3, SameHigh
    <3> QED
      BY <1>0, <2>3, <3>4
  <2> QED
    BY <2>1, <2>5 DEF ReadInv, probe
<1>12. CASE CheckExpiry
  BY <1>12 DEF CheckExpiry, ReadInv
<1>13. CASE EndReading
  BY ZenonT(60), <1>13 DEF EndReading, ReadInv
<1> QED
  BY <1>1, <1>2, <1>3, <1>4, <1>5, <1>6, <1>7, <1>8, <1>9, <1>10, <1>11, <1>12, <1>13
     DEF ClockStep

LEMMA ReadStep ==
  ASSUME ReadInv, TimerInv, TimerInv', CallInv, [Next]_vars
  PROVE  ReadInv'
<1> USE DEF TimerBusy
<1>1. CASE Call
  <2>1. pc = "idle" /\ pc' \in Calls /\ UNCHANGED probe
    BY <1>1, CallBegins DEF Call
  <2> QED
    BY <2>1, ReadFrame DEF Calls, probe
<1>2. CASE Return
  <2>1. clk' = NoClock /\ counter' = 0
    BY <1>2 DEF Return
  <2>2. /\ clk'.use = "none" /\ clk'.value = -1 /\ clk'.began = 0 /\ clk'.hi = 0
        /\ clk'.lo = 0
    BY <2>1 DEF NoClock
  <2>3. -1 \in Int /\ 0 \in Nat /\ 0 \in Int
    OBVIOUS
  <2> QED
    BY <2>1, <2>2, <2>3 DEF ReadInv
<1>3. CASE Keep /\ UNCHANGED <<probe, todo>>
  BY <1>3, CallKeeps, ReadFrame DEF KeepLabels, probe
<1>4. CASE ClockStep
  BY <1>4, ReadClock
<1>5. CASE Client
  BY <1>5, ReadFrame DEF Client, Go, probe
<1>6. CASE BusStep /\ UNCHANGED probe
  BY <1>6, BusPlaces, ReadFrame DEF BusLabels, probe
<1>7. CASE RtcStep /\ UNCHANGED probe
  BY <1>7, RtcPlaces, ReadFrame DEF RtcLabels, probe
<1>8. CASE OverlayStep /\ UNCHANGED probe
  BY <1>8, OverlayPlaces, ReadFrame DEF OverlayLabels, probe
<1>9. CASE BenchStep /\ UNCHANGED probe
  BY <1>9, BenchPlaces, ReadFrame DEF BenchLabels, probe
<1>10. CASE FreqStep
  <2>1. pc \notin TimerBusy /\ pc' \notin TimerBusy
    BY <1>10, FreqPlaces DEF FreqLabels
  <2>2. UNCHANGED probe /\ pc \notin {"client done", "cpu done"}
        /\ (pc = "released" => pc' = "cpu done")
    <3>1. CASE Measure \/ BeginBatch \/ Conclude \/ FpuDone \/ EndMeasure
      BY <3>1 DEF Measure, BeginBatch, Conclude, FpuDone, EndMeasure, Go
    <3>2. ASSUME NEW ok \in BOOLEAN,
                 ReadConfig(ok) \/ CoarseLoop(ok) \/ EndBatch(ok) \/ Triple(ok)
          PROVE  UNCHANGED probe /\ pc \notin {"released", "client done", "cpu done"}
      BY <3>2 DEF ReadConfig, CoarseLoop, EndBatch, Triple, Go
    <3>3. ASSUME NEW valid \in BOOLEAN, NEW enough \in BOOLEAN,
                 CalibrateLoop(valid, enough)
          PROVE  UNCHANGED probe /\ pc = "calibrate"
      BY <3>3 DEF CalibrateLoop
    <3>4. ASSUME NEW kind \in {"none", "integrated", "separate"}, Fpu(kind)
          PROVE  UNCHANGED probe /\ pc = "fpu"
      BY <3>4 DEF Fpu
    <3> QED
      BY <1>10, <3>1, <3>2, <3>3, <3>4 DEF FreqStep
  <2> QED
    BY <2>1, <2>2, ReadFrame DEF probe
<1>11. CASE Environment \/ UNCHANGED vars
  <2>1. CASE OtherDriver
    BY ZenonT(60), <2>1 DEF OtherDriver, ReadInv, TimerInv
  <2>2. CASE CountDown
    BY <2>2, ReadCounts
  <2>3. CASE UNCHANGED <<pc, probe>>
    BY <2>3 DEF probe, ReadInv
  <2> QED
    BY <1>11, <2>1, <2>2, <2>3
       DEF Environment, Refresh, Reconfigure, RtcTick, RtcBusy, RtcWritten,
           ChangeSettings, vars
<1> QED
  BY <1>1, <1>2, <1>3, <1>4, <1>5, <1>6, <1>7, <1>8, <1>9, <1>10, <1>11
     DEF Next, Program
-----------------------------------------------------------------------------
\* RAMSEY: the probe is the only one to write while interrupts are masked, and
\* it writes what it has found last.
BusOwn == BusLabels \ {"bus", "bus done"}

LEMMA BusApart ==
  ASSUME BusInv, CallInv', UNCHANGED <<ramsey, bus, todo>>,
         pc \notin BusLabels, pc' \notin BusLabels \ {"bus"},
         pc' \in {"idle", "bus"} => pc \in {"idle", "bus"}
  PROVE  BusInv'
  BY DEF BusInv, BusLabels, Writing

\* While the probe runs its call is the first of the list and the only one.
LEMMA BusCalled ==
  ASSUME CallInv, pc \in BusLabels
  PROVE  /\ 1 \in DOMAIN todo /\ todo[1] = "bus"
         /\ \A i \in DOMAIN todo : todo[i] = "bus" => i = 1
<1>1. pc # "idle"
  BY DEF BusLabels
<1>2. todo # <<>> /\ todo \in Seq(Calls) /\ pc \in Group(Head(todo))
  BY <1>1 DEF CallInv
<1>3. Head(todo) \in Calls
  BY <1>2
<1>4. Head(todo) = "bus"
  BY <1>1, <1>2, <1>3 DEF Calls, Group, BusLabels, RtcLabels, OverlayLabels,
     BenchLabels, SpeedLabels, ClockLabels, FreqLabels
<1>5. 1 \in DOMAIN todo /\ todo[1] = "bus"
  BY <1>2, <1>4
<1> QED
  BY <1>5 DEF CallInv

LEMMA BusProbe ==
  ASSUME BusInv, MaskInv, CallInv, BusStep, UNCHANGED todo
  PROVE  BusInv'
<1>2. ~(\E i \in DOMAIN todo' : todo'[i] = "bus" /\ (i > 1 \/ pc' \in {"idle", "bus"}))
  <2>1. pc' \notin {"idle", "bus"}
    BY DEF BusStep, MeasureBus, BeginSample, Alternate, Poll, StopSample, RestoreBus,
           Settle, LeaveSample, Agree, GivesUp, Go
  <2> QED
    BY <2>1, BusPlaces, BusCalled
<1> USE DEF BusInv, Go, BusLabels, Writing
<1>3. ASSUME NEW usable \in BOOLEAN, MeasureBus(usable)
      PROVE  BusInv'
  <2>1. ramsey = [shown |-> "host", written |-> "host", wanted |-> "host"]
    BY <1>3, BusCalled DEF MeasureBus
  <2> QED
    BY <1>2, <1>3, <2>1 DEF MeasureBus, NoBus
<1>4. ASSUME NEW pairs, BeginSample(pairs)
      PROVE  BusInv'
  BY <1>2, <1>4 DEF BeginSample
<1>5. CASE Alternate
  BY <1>2, <1>5 DEF Alternate, Write
<1>6. CASE Poll
  BY <1>2, <1>6 DEF Poll, GivesUp
<1>7. ASSUME NEW timerOK \in BOOLEAN, StopSample(timerOK)
      PROVE  BusInv'
  BY <1>2, <1>7 DEF StopSample
<1>8. CASE RestoreBus
  BY <1>2, <1>8 DEF RestoreBus, Write
<1>9. CASE Settle
  BY <1>2, <1>9 DEF Settle
<1>10. ASSUME NEW scales, NEW rate, LeaveSample(scales, rate)
       PROVE  BusInv'
  BY <1>2, <1>10 DEF LeaveSample
<1>11. CASE Agree
  BY <1>2, <1>11 DEF Agree
<1> QED
  BY <1>3, <1>4, <1>5, <1>6, <1>7, <1>8, <1>9, <1>10, <1>11 DEF BusStep

LEMMA BusStepKeeps ==
  ASSUME BusInv, MaskInv, CallInv, [Next]_vars
  PROVE  BusInv'
<1>0. CallInv'
  BY CallStep
<1> USE DEF BusLabels
<1>1. CASE Call
  BY <1>0, <1>1, CallBegins DEF Call, BusInv, busVars, Calls, Writing
<1>2. CASE Return
  <2>1. /\ pc \in Finished /\ pc' = "idle" /\ todo' = Tail(todo) /\ bus' = NoBus
        /\ ramsey' = ramsey
    BY <1>2 DEF Return
  <2>2. todo # <<>> /\ todo \in Seq(Calls)
    BY <1>2, CallReturns DEF CallInv
  <2>3. DOMAIN todo' = 1 .. Len(todo) - 1 /\ DOMAIN todo = 1 .. Len(todo)
        /\ \A i \in 1 .. Len(todo) - 1 : todo'[i] = todo[i + 1]
    BY <2>1, <2>2
  <2>4. (\E i \in DOMAIN todo' : todo'[i] = "bus") =>
          \E i \in DOMAIN todo : todo[i] = "bus" /\ i > 1
    <3>1. SUFFICES ASSUME NEW i \in DOMAIN todo', todo'[i] = "bus"
                   PROVE  i + 1 \in DOMAIN todo /\ todo[i + 1] = "bus" /\ i + 1 > 1
      OBVIOUS
    <3>2. i \in 1 .. Len(todo) - 1 /\ Len(todo) \in Nat
      BY <2>2, <2>3, <3>1
    <3> QED
      BY <2>3, <3>1, <3>2
  <2>5. (\E i \in DOMAIN todo' : todo'[i] = "bus") =>
          ramsey = [shown |-> "host", written |-> "host", wanted |-> "host"]
    BY <2>4 DEF BusInv
  <2>6. bus'.original = "none" /\ DOMAIN bus' = DOMAIN NoBus
    BY <2>1 DEF NoBus
  <2> QED
    BY <2>1, <2>5, <2>6 DEF BusInv, NoBus, Writing, Finished
<1>3. CASE Keep /\ UNCHANGED <<busVars, todo>>
  BY <1>0, <1>3, CallKeeps, BusApart DEF KeepLabels, busVars
<1>4. CASE (ClockStep \/ Client) /\ UNCHANGED <<busVars, todo>>
  <2>1. pc \in SpeedLabels /\ pc' \in SpeedLabels
    BY <1>4, ClockPlaces, ClientPlaces DEF SpeedLabels, ClockLabels
  <2> QED
    BY <1>0, <1>4, <2>1, BusApart DEF SpeedLabels, ClockLabels, FreqLabels, busVars
<1>5. CASE BusStep /\ UNCHANGED todo
  BY <1>5, BusProbe
<1>6. CASE RtcStep /\ UNCHANGED <<busVars, todo>>
  BY <1>0, <1>6, RtcPlaces, BusApart DEF RtcLabels, busVars
<1>7. CASE OverlayStep /\ UNCHANGED <<busVars, todo>>
  BY <1>0, <1>7, OverlayPlaces, BusApart DEF OverlayLabels, busVars
<1>8. CASE BenchStep /\ UNCHANGED <<busVars, todo>>
  BY <1>0, <1>8, BenchPlaces, BusApart DEF BenchLabels, busVars
<1>9. CASE FreqStep /\ UNCHANGED <<busVars, todo>>
  BY <1>0, <1>9, FreqPlaces, BusApart DEF FreqLabels, busVars
<1>10. CASE Environment \/ UNCHANGED vars
  <2>1. CASE Refresh /\ UNCHANGED todo
    <3>1. /\ ramsey.shown # ramsey.written /\ UNCHANGED <<pc, bus, todo>>
          /\ ramsey' = [ramsey EXCEPT !.shown = ramsey.written]
      BY <2>1 DEF Refresh
    <3>2. /\ DOMAIN ramsey' = DOMAIN ramsey /\ ramsey'.shown = ramsey.written
          /\ ramsey'.written = ramsey.written /\ ramsey'.wanted = ramsey.wanted
      BY <3>1 DEF BusInv
    <3>3. ramsey # [shown |-> "host", written |-> "host", wanted |-> "host"]
      BY <3>1
    <3> QED
      BY <3>1, <3>2, <3>3 DEF BusInv
  <2>2. CASE Reconfigure /\ UNCHANGED todo
    <3>1. pc \notin Masked /\ bus.original # "none" /\ UNCHANGED <<pc, bus, todo>>
          /\ ramsey' = [shown |-> "other", written |-> "other", wanted |-> "other"]
      BY <2>2 DEF Reconfigure, TasksRun, MaskInv
    <3>2. pc \notin Writing \cup {"bus settle"}
      BY <3>1 DEF Masked, Writing
    <3>3. pc \in BusLabels \ {"bus"}
      BY <3>1 DEF BusInv
    <3>4. ~(\E i \in DOMAIN todo : todo[i] = "bus" /\ (i > 1 \/ pc \in {"idle", "bus"}))
      <4>1. pc \notin {"idle", "bus"} /\ pc \in BusLabels
        BY <3>3
      <4>2. ASSUME NEW i \in DOMAIN todo, todo[i] = "bus"
            PROVE  ~(i > 1)
        <5>1. i = 1
          BY <4>1, <4>2, BusCalled
        <5> QED
          BY <5>1
      <4> QED
        BY <4>1, <4>2
    <3> QED
      BY <3>1, <3>2, <3>3, <3>4 DEF BusInv
  <2>3. CASE UNCHANGED <<pc, ramsey, bus, todo>>
    BY <2>3 DEF BusInv
  <2> QED
    BY <1>10, <2>1, <2>2, <2>3
       DEF Environment, OtherDriver, CountDown, RtcTick, RtcBusy, RtcWritten,
           ChangeSettings, vars, busVars
<1> QED
  BY <1>1, <1>2, <1>3, <1>4, <1>5, <1>6, <1>7, <1>8, <1>9, <1>10 DEF Next, Program
-----------------------------------------------------------------------------
\* The clock chip: while it is held its date stands still, and the control bits
\* are put back as they were found.
LEMMA RtcApart ==
  ASSUME RtcInv, UNCHANGED <<rtc, look>>, pc \notin RtcLabels \ {"rtc done"},
         pc' \notin RtcLabels \ {"rtc", "rtc done"}
  PROVE  RtcInv'
  BY DEF RtcInv, RtcLabels, Holding

LEMMA RtcRead ==
  ASSUME RtcInv, RtcStep
  PROVE  RtcInv'
<1> USE DEF RtcInv, Holding, RtcLabels, Go
<1>1. CASE ReadTime
  <2>1. /\ pc = "rtc" /\ pc' \in {"rtc done", "rtc hold"} /\ rtc' = rtc
        /\ look' = NoLook
    BY <1>1 DEF ReadTime
  <2>2. /\ DOMAIN look' = DOMAIN look /\ look'.late = <<>> /\ look'.date = <<>>
        /\ look'.from = 0
    BY <2>1 DEF NoLook
  <2>3. look'.from \in Nat /\ look'.from <= rtc'.at
    <3>1. rtc.at \in Nat
      OBVIOUS
    <3>2. look'.from = 0 /\ rtc'.at = rtc.at
      BY <2>1, <2>2
    <3> HIDE DEF RtcInv
    <3> QED
      BY <3>1, <3>2
  <2> QED
    BY <2>1, <2>2, <2>3
<1>2. CASE Hold
  <2>1. /\ pc = "rtc hold" /\ look.late = <<>> /\ rtc.hold = FALSE /\ rtc.bank = rtc.found
        /\ look' = [look EXCEPT !.attempt = @ + 1, !.control = ControlBits]
    BY <1>2 DEF Hold
  <2>2. look'.control = <<FALSE, rtc.found>>
    BY <2>1 DEF ControlBits
  <2>3. CASE rtc.kind = "MK48T02" /\ rtc.busy
    <3>1. pc' = "rtc give up" /\ rtc' = rtc
      BY <1>2, <2>3 DEF Hold
    <3> QED
      BY <2>1, <3>1
  <2>4. CASE ~(rtc.kind = "MK48T02" /\ rtc.busy)
    <3>1. pc' = "rtc ready"
          /\ rtc' = [rtc EXCEPT !.hold = TRUE, !.bank = IF rtc.kind = "RP5C01" THEN 0 ELSE @]
      BY <1>2, <2>4 DEF Hold
    <3> QED
      BY <2>1, <2>2, <3>1
  <2> QED
    BY <2>3, <2>4
<1>3. CASE Ready
  <2>1. /\ pc = "rtc ready" /\ pc' \in {"rtc early", "rtc let go"}
        /\ rtc' = rtc /\ look' = look
        /\ pc' = "rtc early" => (rtc.kind = "MSM6242" => ~rtc.busy)
    BY <1>3 DEF Ready, Held, rtcVars
  <2> QED
    BY <2>1
<1>4. CASE Early
  <2>1. /\ pc = "rtc early" /\ pc' = "rtc late" /\ rtc' = rtc
        /\ look' = [look EXCEPT !.early = EarlyOf(rtc.at), !.from = rtc.at]
    BY <1>4 DEF Early, EarlyOf
  <2>2. /\ DOMAIN look' = DOMAIN look /\ look'.late = look.late /\ look'.from = rtc.at
        /\ look'.early = EarlyOf(rtc.at) /\ look'.control = look.control
        /\ look'.date = look.date
    BY <2>1
  <2>3. look'.from \in Nat /\ look'.from <= rtc'.at
    <3>1. rtc.at \in Nat
      OBVIOUS
    <3>2. look'.from = rtc.at /\ rtc'.at = rtc.at
      BY <2>1, <2>2
    <3> HIDE DEF RtcInv
    <3> QED
      BY <3>1, <3>2
  <2> QED
    BY <2>1, <2>2, <2>3
<1>5. CASE Late
  <2>1. /\ pc = "rtc late" /\ pc' = "rtc let go" /\ rtc' = rtc
        /\ look' = [look EXCEPT !.late = LateOf(rtc.at)]
    BY <1>5 DEF Late, LateOf
  <2>2. /\ DOMAIN look' = DOMAIN look /\ look'.late = LateOf(look.from)
        /\ look'.from = look.from /\ look'.early = look.early
        /\ look'.control = look.control /\ look'.date = look.date
    BY <2>1
  <2> QED
    BY <2>1, <2>2
<1>6. CASE LetGo
  <2>1. /\ pc = "rtc let go" /\ look' = look
        /\ pc' \in {"rtc check", "rtc hold", "rtc done"}
        /\ pc' = "rtc check" => look.late # <<>>
        /\ pc' = "rtc hold" => look.late = <<>>
        /\ rtc' = Unheld(look.control) /\ look.control = <<FALSE, rtc.found>>
    BY <1>6 DEF LetGo
  <2>2. look.control[1] = FALSE /\ look.control[2] = rtc.found
    <3>1. look.control = <<FALSE, rtc.found>>
      BY <2>1
    <3> HIDE DEF RtcInv
    <3> QED
      BY <3>1
  <2>3. /\ DOMAIN rtc' = DOMAIN rtc /\ rtc'.hold = FALSE /\ rtc'.bank = rtc'.found
        /\ rtc'.at = rtc.at
    BY <2>1, <2>2 DEF Unheld
  <2> QED
    BY <2>1, <2>3
<1>7. CASE GiveUp
  BY <1>7 DEF GiveUp, rtcVars
<1>8. CASE CheckDate
  <2>1. /\ pc = "rtc check" /\ pc' = "rtc done" /\ rtc' = rtc
        /\ look.early = EarlyOf(look.from) /\ look.late = LateOf(look.from)
    BY <1>8 DEF CheckDate
  <2>2. /\ look.early[1] = Dates[look.from][1] /\ look.late[1] = Dates[look.from][2]
        /\ look.late[2] = Dates[look.from][3]
    <3>1. look.early = EarlyOf(look.from) /\ look.late = LateOf(look.from)
      BY <2>1
    <3> HIDE DEF RtcInv
    <3> QED
      BY <3>1 DEF EarlyOf, LateOf
  <2>3. PICK d \in {DateOf(look.from), <<>>} : look' = [look EXCEPT !.date = d]
    BY <1>8, <2>2 DEF CheckDate, DateOf
  <2>4. /\ DOMAIN look' = DOMAIN look /\ look'.from = look.from /\ look'.date = d
    BY <2>3
  <2> QED
    BY <2>1, <2>3, <2>4
<1> QED
  BY <1>1, <1>2, <1>3, <1>4, <1>5, <1>6, <1>7, <1>8 DEF RtcStep

LEMMA RtcStepKeeps ==
  ASSUME RtcInv, MaskInv, CallInv, [Next]_vars
  PROVE  RtcInv'
<1> USE DEF RtcLabels
<1>1. CASE Call
  BY <1>1, CallBegins, RtcApart DEF Call, Calls, rtcVars
<1>2. CASE Return
  BY <1>2, RtcApart DEF Return, Finished, rtcVars
<1>3. CASE Keep /\ UNCHANGED <<rtcVars, todo>>
  BY <1>3, CallKeeps, RtcApart DEF KeepLabels, rtcVars
<1>4. CASE (ClockStep \/ Client) /\ UNCHANGED rtcVars
  <2>1. pc \in SpeedLabels /\ pc' \in SpeedLabels
    BY <1>4, ClockPlaces, ClientPlaces DEF SpeedLabels, ClockLabels
  <2> QED
    BY <1>4, <2>1, RtcApart DEF SpeedLabels, ClockLabels, FreqLabels, rtcVars
<1>5. CASE BusStep /\ UNCHANGED rtcVars
  BY <1>5, BusPlaces, RtcApart DEF BusLabels, rtcVars
<1>6. CASE RtcStep
  BY <1>6, RtcRead
<1>7. CASE OverlayStep /\ UNCHANGED rtcVars
  BY <1>7, OverlayPlaces, RtcApart DEF OverlayLabels, rtcVars
<1>8. CASE BenchStep /\ UNCHANGED rtcVars
  BY <1>8, BenchPlaces, RtcApart DEF BenchLabels, rtcVars
<1>9. CASE FreqStep /\ UNCHANGED rtcVars
  BY <1>9, FreqPlaces, RtcApart DEF FreqLabels, rtcVars
<1>10. CASE Environment \/ UNCHANGED vars
  <2>1. CASE RtcTick
    <3>1. /\ rtc' = [rtc EXCEPT !.at = @ + 1, !.busy = FALSE]
          /\ UNCHANGED <<pc, look>>
          /\ IF rtc.kind = "MSM6242" THEN rtc.busy ELSE ~rtc.hold
      BY <2>1 DEF RtcTick
    <3>2. /\ DOMAIN rtc' = DOMAIN rtc /\ rtc'.at = rtc.at + 1 /\ rtc'.hold = rtc.hold
          /\ rtc'.bank = rtc.bank /\ rtc'.found = rtc.found /\ rtc'.busy = FALSE
          /\ rtc'.kind = rtc.kind
      BY <3>1 DEF RtcInv
    <3>3. pc # "rtc late"
      BY <3>1 DEF RtcInv, Holding
    <3>4. rtc.at \in Nat /\ look.from \in Nat /\ look.from <= rtc.at
      BY DEF RtcInv
    <3>5. rtc'.at \in Nat /\ look.from <= rtc'.at
      BY <3>2, <3>4
    <3> QED
      BY <3>1, <3>2, <3>3, <3>5 DEF RtcInv
  <2>2. CASE RtcBusy
    BY <2>2 DEF RtcBusy, RtcInv, Holding
  <2>3. CASE RtcWritten
    <3>1. pc \notin Holding
      BY <2>3 DEF RtcWritten, TasksRun, MaskInv, Masked, Holding
    <3> QED
      <4>1. /\ DOMAIN rtc' = DOMAIN rtc /\ rtc'.at = rtc.at + 1 /\ rtc'.hold = rtc.hold
            /\ rtc'.bank = rtc.bank /\ rtc'.found = rtc.found /\ rtc'.busy = FALSE
            /\ rtc'.kind = rtc.kind /\ UNCHANGED <<pc, look>>
        BY <2>3 DEF RtcWritten, RtcInv
      <4>2. rtc.at \in Nat /\ look.from \in Nat /\ look.from <= rtc.at
        BY DEF RtcInv
      <4>3. rtc'.at \in Nat /\ look.from <= rtc'.at
        BY <4>1, <4>2
      <4> QED
        BY <3>1, <4>1, <4>3 DEF RtcInv, Holding
  <2>4. CASE UNCHANGED <<pc, rtcVars>>
    BY <2>4 DEF RtcInv, rtcVars
  <2> QED
    BY <1>10, <2>1, <2>2, <2>3, <2>4
       DEF Environment, OtherDriver, CountDown, Refresh, Reconfigure,
           ChangeSettings, vars
<1> QED
  BY <1>1, <1>2, <1>3, <1>4, <1>5, <1>6, <1>7, <1>8, <1>9, <1>10 DEF Next, Program
-----------------------------------------------------------------------------
\* The counts of the overlay's allocations.
LEMMA Less == 0 - 0 = 0 /\ 1 - 1 = 0 /\ 0 + 1 = 1 /\ 0 + 0 = 0 /\ 1 + 0 = 1
  OBVIOUS

\* The overlay: freeing what the backup knows of frees everything.
LEMMA FreedAll ==
  ASSUME OverlayInv
  PROVE  /\ DOMAIN Freed = {"planes", "bitmaps", "sprites"}
         /\ Freed.planes = {} /\ Freed.bitmaps = 0 /\ Freed.sprites = memory.sprites
<1>0. /\ DOMAIN Freed = {"planes", "bitmaps", "sprites"}
      /\ Freed.sprites = memory.sprites
      /\ Freed.planes = memory.planes \ {p \in backup.planes :
                                         ~backup.allocated /\ p < backup.depth}
      /\ Freed.bitmaps = memory.bitmaps - (IF backup.allocated THEN 1 ELSE 0)
  <2>1. DOMAIN memory = {"planes", "bitmaps", "sprites"}
    BY DEF OverlayInv
  <2> QED
    BY <2>1 DEF Freed
<1>1. CASE backup.allocated
  <2>1. memory.planes = {} /\ memory.bitmaps = 1
    BY <1>1 DEF OverlayInv
  <2>2. memory.planes \ {p \in backup.planes : ~backup.allocated /\ p < backup.depth} = {}
    BY <2>1
  <2> QED
    BY <1>0, <1>1, <2>1, <2>2
<1>2. CASE ~backup.allocated
  <2>1. memory.bitmaps = 0 /\ memory.planes = backup.planes
        /\ backup.planes \subseteq 0 .. backup.depth - 1 /\ backup.depth \in Nat
    BY <1>2 DEF OverlayInv
  <2>2. {p \in backup.planes : ~backup.allocated /\ p < backup.depth} = backup.planes
    BY <1>2, <2>1
  <2>3. memory.planes \ {p \in backup.planes : ~backup.allocated /\ p < backup.depth} = {}
    BY <2>1, <2>2
  <2>4. (IF backup.allocated THEN 1 ELSE 0) = 0
    BY <1>2
  <2>5. Freed.bitmaps = 0
    BY <1>0, <2>1, <2>4, Less
  <2> QED
    BY <1>0, <2>3, <2>5
<1> QED
  BY <1>1, <1>2

\* The next plane of the loop.
LEMMA NextPlane ==
  ASSUME NEW depth \in Nat, NEW k \in 0 .. depth - 1
  PROVE  k = CHOOSE q \in 0 .. depth - 1 :
               q \notin 0 .. k - 1 /\ \A r \in 0 .. q - 1 : r \in 0 .. k - 1
<1> DEFINE First(q) == q \notin 0 .. k - 1 /\ \A r \in 0 .. q - 1 : r \in 0 .. k - 1
<1>1. First(k)
  OBVIOUS
<1>2. ASSUME NEW q \in 0 .. depth - 1, First(q) PROVE q = k
  <2>1. CASE q < k
    BY <1>2, <2>1
  <2>2. CASE q > k
    <3>1. k \in 0 .. q - 1
      BY <2>2
    <3> QED
      BY <1>2, <3>1
  <2> QED
    BY <2>1, <2>2
<1> HIDE DEF First
<1>3. k = CHOOSE q \in 0 .. depth - 1 : First(q)
  BY <1>1, <1>2
<1> QED
  BY <1>3 DEF First

LEMMA PlaneAdded ==
  ASSUME NEW depth \in Nat, NEW k \in 0 .. depth - 1
  PROVE  /\ (0 .. k - 1) \cup {k} = 0 .. k /\ 0 .. k \subseteq 0 .. depth - 1
         /\ k # depth - 1 => k + 1 \in 0 .. depth - 1 /\ 0 .. k = 0 .. (k + 1) - 1
  OBVIOUS

LEMMA OverlayApart ==
  ASSUME OverlayInv, UNCHANGED <<backup, memory>>,
         pc \notin OverlayLabels \ {"overlay shown", "overlay hidden"},
         pc' \notin OverlayLabels \ {"overlay", "overlay hide"}
  PROVE  OverlayInv'
  BY DEF OverlayInv, OverlayLabels

LEMMA OverlayShows ==
  ASSUME OverlayInv, OverlayStep
  PROVE  OverlayInv'
<1>1. /\ DOMAIN backup = {"valid", "depth", "allocated", "planes", "pointer"}
      /\ DOMAIN memory = {"planes", "bitmaps", "sprites"}
  BY DEF OverlayInv
<1>2. /\ DOMAIN Unsaved = DOMAIN backup /\ Unsaved.valid = FALSE /\ Unsaved.depth = 0
      /\ Unsaved.allocated = FALSE /\ Unsaved.planes = {}
      /\ Unsaved.pointer = backup.pointer
  BY <1>1 DEF Unsaved
<1> USE DEF OverlayLabels, Go
<1>3. ASSUME NEW depth \in Depths, NEW v39 \in BOOLEAN, NEW fits \in BOOLEAN,
             ShowOverlay(depth, v39, fits)
      PROVE  OverlayInv'
  <2>1. CASE ~fits \/ depth = 0
    BY <1>3, <2>1 DEF ShowOverlay, overlayVars, OverlayInv
  <2>2. CASE fits /\ depth # 0
    <3>1. /\ pc = "overlay" /\ pc' \in {"overlay bitmap", "overlay shown", "overlay planes"}
          /\ memory' = IF backup.valid THEN Freed ELSE memory
          /\ backup' = [Unsaved EXCEPT !.depth = depth]
      BY <1>3, <2>2 DEF ShowOverlay
    <3>2. /\ DOMAIN memory' = DOMAIN memory /\ memory'.planes = {}
          /\ memory'.bitmaps = 0 /\ memory'.sprites = memory.sprites
      <4>1. CASE backup.valid
        BY <1>1, <3>1, <4>1, FreedAll
      <4>2. CASE ~backup.valid
        BY <3>1, <4>2 DEF OverlayInv
      <4> QED
        BY <4>1, <4>2
    <3>3. /\ DOMAIN backup' = DOMAIN backup /\ backup'.valid = FALSE
          /\ backup'.depth = depth /\ backup'.allocated = FALSE /\ backup'.planes = {}
          /\ backup'.pointer = backup.pointer
      BY <1>1, <1>2, <3>1
    <3>4. depth \in Nat /\ \E k \in 0 .. depth - 1 : {} = 0 .. k - 1
      <4>1. depth \in Nat /\ 0 \in 0 .. depth - 1 /\ {} = 0 .. 0 - 1
        BY <2>2, OverlayAssumption
      <4> QED
        BY <4>1
    <3>5. /\ backup'.pointer \in BOOLEAN
          /\ backup'.pointer = FALSE => memory'.sprites = 0
          /\ backup'.pointer = TRUE => memory'.sprites = 1
      BY <3>2, <3>3 DEF OverlayInv
    <3>6. /\ backup'.depth \in Nat /\ memory'.planes = backup'.planes
          /\ backup'.planes \subseteq 0 .. backup'.depth - 1
          /\ \E k \in 0 .. backup'.depth - 1 : backup'.planes = 0 .. k - 1
      BY <3>2, <3>3, <3>4
    <3>7. pc' \notin {"overlay hidden"} /\ TRUE \in BOOLEAN /\ FALSE \in BOOLEAN
      BY <3>1
    <3>8. backup'.valid = FALSE /\ backup'.allocated = FALSE /\ memory'.bitmaps = 0
          /\ backup'.planes = {} /\ DOMAIN backup' = DOMAIN backup
          /\ DOMAIN memory' = DOMAIN memory
      BY <3>2, <3>3
    <3> QED
      BY <1>1, <3>5, <3>6, <3>7, <3>8 DEF OverlayInv
  <2> QED
    BY <2>1, <2>2
<1>4. ASSUME NEW ok \in BOOLEAN, AllocBitMap(ok)
      PROVE  OverlayInv'
  <2>1. /\ pc = "overlay bitmap" /\ pc' \in {"overlay pointer", "overlay shown"}
        /\ ~backup.valid /\ backup.allocated = FALSE /\ backup.planes = {}
        /\ memory.planes = {} /\ memory.bitmaps = 0
    BY <1>4 DEF AllocBitMap, OverlayInv
  <2>2. CASE ok = TRUE
    <3>1. /\ backup' = [backup EXCEPT !.allocated = TRUE, !.valid = TRUE]
          /\ memory' = [memory EXCEPT !.bitmaps = 1]
      BY <1>4, <2>1, <2>2, Less, Zenon DEF AllocBitMap
    <3>2. /\ DOMAIN backup' = DOMAIN backup /\ backup'.valid = TRUE
          /\ backup'.allocated = TRUE /\ backup'.planes = {}
          /\ backup'.depth = backup.depth /\ backup'.pointer = backup.pointer
          /\ DOMAIN memory' = DOMAIN memory /\ memory'.planes = {}
          /\ memory'.bitmaps = 1 /\ memory'.sprites = memory.sprites
      BY <1>1, <2>1, <3>1
    <3> QED
      BY <1>1, <2>1, <3>2 DEF OverlayInv
  <2>3. CASE ok = FALSE
    <3>1. /\ backup' = [backup EXCEPT !.allocated = FALSE, !.valid = FALSE]
          /\ memory' = [memory EXCEPT !.bitmaps = 0]
      BY <1>4, <2>1, <2>3, Less, Zenon DEF AllocBitMap
    <3>2. /\ DOMAIN backup' = DOMAIN backup /\ backup'.valid = FALSE
          /\ backup'.allocated = FALSE /\ backup'.planes = {}
          /\ backup'.depth = backup.depth /\ backup'.pointer = backup.pointer
          /\ DOMAIN memory' = DOMAIN memory /\ memory'.planes = {}
          /\ memory'.bitmaps = 0 /\ memory'.sprites = memory.sprites
      BY <1>1, <2>1, <3>1
    <3> QED
      BY <1>1, <2>1, <3>2 DEF OverlayInv
  <2> QED
    BY <2>2, <2>3
<1>5. ASSUME NEW ok \in BOOLEAN, AllocPlane(ok)
      PROVE  OverlayInv'
  <2>1. PICK k \in 0 .. backup.depth - 1 : backup.planes = 0 .. k - 1
    BY <1>5 DEF AllocPlane, OverlayInv
  <2>2. /\ backup.depth \in Nat /\ ~backup.valid /\ ~backup.allocated /\ pc = "overlay planes"
        /\ memory.planes = backup.planes /\ memory.bitmaps = 0
    BY <1>5 DEF AllocPlane, OverlayInv
  <2>3. k = CHOOSE q \in 0 .. backup.depth - 1 :
              q \notin backup.planes /\ \A r \in 0 .. q - 1 : r \in backup.planes
    <3>0. backup.depth \in Nat
      BY <2>2
    <3>1. k = CHOOSE q \in 0 .. backup.depth - 1 :
                q \notin 0 .. k - 1 /\ \A r \in 0 .. q - 1 : r \in 0 .. k - 1
      BY <3>0, NextPlane
    <3> QED
      BY <2>1, <3>1
  <2>30. /\ backup.planes \cup {k} = 0 .. k /\ 0 .. k \subseteq 0 .. backup.depth - 1
         /\ k # backup.depth - 1 => /\ k + 1 \in 0 .. backup.depth - 1
                                    /\ 0 .. k = 0 .. (k + 1) - 1
    <3>1. backup.depth \in Nat
      BY <2>2
    <3> QED
      BY <2>1, <3>1, PlaneAdded
  <2>4. CASE ok
    <3>1. /\ memory' = [memory EXCEPT !.planes = @ \cup {k}]
          /\ backup' = [backup EXCEPT !.planes = @ \cup {k},
                                      !.valid = k = backup.depth - 1]
          /\ pc' = IF k = backup.depth - 1 THEN "overlay pointer" ELSE pc
      BY <1>5, <2>3, <2>4 DEF AllocPlane
    <3>2. backup.planes \cup {k} = 0 .. k /\ 0 .. k \subseteq 0 .. backup.depth - 1
      BY <2>30
    <3>3. /\ DOMAIN memory' = DOMAIN memory /\ memory'.planes = 0 .. k
          /\ memory'.bitmaps = 0 /\ memory'.sprites = memory.sprites
      BY <1>1, <2>2, <3>1, <3>2
    <3>4. CASE k = backup.depth - 1
      <4>1. (k = backup.depth - 1) = TRUE
        BY <3>4
      <4>2. backup' = [backup EXCEPT !.planes = @ \cup {k}, !.valid = TRUE]
        BY <3>1, <4>1
      <4>3. /\ DOMAIN backup' = DOMAIN backup /\ backup'.valid = TRUE
            /\ backup'.depth = backup.depth /\ backup'.allocated = backup.allocated
            /\ backup'.planes = 0 .. k /\ backup'.pointer = backup.pointer
        BY <1>1, <3>2, <4>2
      <4> QED
        BY <1>1, <2>2, <3>1, <3>2, <3>3, <3>4, <4>3 DEF OverlayInv
    <3>5. CASE k # backup.depth - 1
      <4>1. (k = backup.depth - 1) = FALSE
        BY <3>5
      <4>2. backup' = [backup EXCEPT !.planes = @ \cup {k}, !.valid = FALSE]
        BY <3>1, <4>1
      <4>3. /\ DOMAIN backup' = DOMAIN backup /\ backup'.valid = FALSE
            /\ backup'.depth = backup.depth /\ backup'.allocated = backup.allocated
            /\ backup'.planes = 0 .. k /\ backup'.pointer = backup.pointer
        BY <1>1, <3>2, <4>2
      <4>4. \E j \in 0 .. backup.depth - 1 : 0 .. k = 0 .. j - 1
        BY <2>30, <3>5
      <4> QED
        BY <1>1, <2>2, <3>1, <3>2, <3>3, <3>5, <4>3, <4>4 DEF OverlayInv
    <3> QED
      BY <3>4, <3>5
  <2>5. CASE ~ok
    <3>1. backup' = Unsaved /\ memory' = Freed /\ pc' = "overlay shown"
      BY <1>5, <2>5 DEF AllocPlane, MissingPlane
    <3> QED
      <4>1. /\ DOMAIN backup' = DOMAIN backup /\ backup'.valid = FALSE
            /\ backup'.allocated = FALSE /\ backup'.planes = {} /\ backup'.depth = 0
            /\ backup'.pointer = backup.pointer
        BY <1>2, <3>1
      <4>2. /\ DOMAIN memory' = DOMAIN memory /\ memory'.planes = {}
            /\ memory'.bitmaps = 0 /\ memory'.sprites = memory.sprites
        BY <1>1, <3>1, FreedAll
      <4>3. backup'.depth \in Nat
        BY <4>1
      <4> QED
        BY <1>1, <3>1, <4>1, <4>2, <4>3 DEF OverlayInv
  <2> QED
    BY <2>4, <2>5
<1>6. ASSUME NEW ok \in BOOLEAN, Pointer(ok)
      PROVE  OverlayInv'
  <2>1. /\ pc = "overlay pointer" /\ pc' = "overlay shown" /\ backup.pointer \in BOOLEAN
        /\ backup.pointer = FALSE => memory.sprites = 0
        /\ backup.pointer = TRUE => memory.sprites = 1
    BY <1>6 DEF Pointer, OverlayInv
  <2>2. CASE ok /\ ~backup.pointer
    <3>1. /\ backup' = [backup EXCEPT !.pointer = TRUE]
          /\ memory' = [memory EXCEPT !.sprites = 1]
      <4>1. (ok /\ ~backup.pointer) = TRUE /\ (backup.pointer \/ (ok /\ ~backup.pointer)) = TRUE
        BY <2>2
      <4>2. memory.sprites = 0
        BY <2>1, <2>2
      <4> QED
        BY <1>6, <4>1, <4>2, Less, Zenon DEF Pointer
    <3> QED
      <4>1. /\ DOMAIN backup' = DOMAIN backup /\ backup'.valid = backup.valid
            /\ backup'.allocated = backup.allocated /\ backup'.planes = backup.planes
            /\ backup'.depth = backup.depth /\ backup'.pointer = TRUE
            /\ DOMAIN memory' = DOMAIN memory /\ memory'.planes = memory.planes
            /\ memory'.bitmaps = memory.bitmaps /\ memory'.sprites = 1
        BY <1>1, <2>1, <2>2, <3>1
      <4> QED
        BY <1>1, <2>1, <4>1 DEF OverlayInv
  <2>3. CASE ~(ok /\ ~backup.pointer)
    <3>1. /\ backup' = [backup EXCEPT !.pointer = backup.pointer]
          /\ memory' = [memory EXCEPT !.sprites = memory.sprites]
      <4>1. (ok /\ ~backup.pointer) = FALSE
            /\ (backup.pointer \/ (ok /\ ~backup.pointer)) = backup.pointer
        BY <2>1, <2>3
      <4>2. memory.sprites + 0 = memory.sprites
        BY <2>1, Less
      <4> QED
        BY <1>6, <4>1, <4>2, Zenon DEF Pointer
    <3>2. /\ DOMAIN backup' = DOMAIN backup /\ backup'.valid = backup.valid
          /\ backup'.allocated = backup.allocated /\ backup'.planes = backup.planes
          /\ backup'.depth = backup.depth /\ backup'.pointer = backup.pointer
          /\ DOMAIN memory' = DOMAIN memory /\ memory'.planes = memory.planes
          /\ memory'.bitmaps = memory.bitmaps /\ memory'.sprites = memory.sprites
      BY <1>1, <2>1, <3>1
    <3> QED
      BY <1>1, <2>1, <3>2 DEF OverlayInv
  <2> QED
    BY <2>2, <2>3
<1>7. CASE HideOverlay
  <2>1. pc = "overlay hide" /\ pc' = "overlay hidden"
    BY <1>7 DEF HideOverlay
  <2>2. PICK b \in {Unsaved, backup}, m \in {Freed, memory} :
          /\ backup' = [b EXCEPT !.pointer = FALSE]
          /\ memory' = [m EXCEPT !.sprites = @ - IF backup.pointer THEN 1 ELSE 0]
          /\ b = (IF backup.valid THEN Unsaved ELSE backup)
          /\ m = (IF backup.valid THEN Freed ELSE memory)
    BY <1>7 DEF HideOverlay
  <2>3. /\ DOMAIN b = DOMAIN backup /\ DOMAIN m = DOMAIN memory
        /\ b.valid = FALSE /\ b.allocated = FALSE /\ b.planes = {} /\ b.depth \in Nat
        /\ m.planes = {} /\ m.bitmaps = 0 /\ m.sprites = memory.sprites
    <3>1. CASE backup.valid
      BY <1>1, <1>2, <2>2, <3>1, FreedAll
    <3>2. CASE ~backup.valid
      BY <2>1, <2>2, <3>2 DEF OverlayInv
    <3> QED
      BY <3>1, <3>2
  <2>4. memory.sprites - (IF backup.pointer THEN 1 ELSE 0) = 0
    <3>1. CASE backup.pointer = TRUE
      <4>1. memory.sprites = 1 /\ (IF backup.pointer THEN 1 ELSE 0) = 1
        BY <3>1 DEF OverlayInv
      <4> QED
        BY <4>1, Less
    <3>2. CASE backup.pointer = FALSE
      <4>1. memory.sprites = 0 /\ (IF backup.pointer THEN 1 ELSE 0) = 0
        BY <3>2 DEF OverlayInv
      <4> QED
        BY <4>1, Less
    <3> QED
      BY <3>1, <3>2 DEF OverlayInv
  <2>5. /\ DOMAIN backup' = DOMAIN backup /\ backup'.valid = FALSE
        /\ backup'.allocated = FALSE /\ backup'.planes = {} /\ backup'.depth \in Nat
        /\ backup'.pointer = FALSE
    BY <1>1, <2>2, <2>3
  <2>6. /\ DOMAIN memory' = DOMAIN memory /\ memory'.planes = {} /\ memory'.bitmaps = 0
        /\ memory'.sprites = 0
    BY <1>1, <2>2, <2>3, <2>4
  <2> QED
    BY <1>1, <2>1, <2>5, <2>6 DEF OverlayInv
<1> QED
  BY <1>3, <1>4, <1>5, <1>6, <1>7 DEF OverlayStep

LEMMA OverlayStepKeeps ==
  ASSUME OverlayInv, CallInv, [Next]_vars
  PROVE  OverlayInv'
<1> USE DEF OverlayLabels
<1>1. CASE Call
  BY <1>1, CallBegins, OverlayApart DEF Call, Calls, overlayVars
<1>2. CASE Return
  BY <1>2, OverlayApart DEF Return, Finished, overlayVars
<1>3. CASE Keep /\ UNCHANGED <<overlayVars, todo>>
  BY <1>3, CallKeeps, OverlayApart DEF KeepLabels, overlayVars
<1>4. CASE (ClockStep \/ Client) /\ UNCHANGED overlayVars
  <2>1. pc \in SpeedLabels /\ pc' \in SpeedLabels
    BY <1>4, ClockPlaces, ClientPlaces DEF SpeedLabels, ClockLabels
  <2> QED
    BY <1>4, <2>1, OverlayApart DEF SpeedLabels, ClockLabels, FreqLabels, overlayVars
<1>5. CASE BusStep /\ UNCHANGED overlayVars
  BY <1>5, BusPlaces, OverlayApart DEF BusLabels, overlayVars
<1>6. CASE RtcStep /\ UNCHANGED overlayVars
  BY <1>6, RtcPlaces, OverlayApart DEF RtcLabels, overlayVars
<1>7. CASE OverlayStep
  BY <1>7, OverlayShows
<1>8. CASE BenchStep /\ UNCHANGED overlayVars
  BY <1>8, BenchPlaces, OverlayApart DEF BenchLabels, overlayVars
<1>9. CASE FreqStep /\ UNCHANGED overlayVars
  BY <1>9, FreqPlaces, OverlayApart DEF FreqLabels, overlayVars
<1>10. CASE Environment \/ UNCHANGED vars
  <2>1. UNCHANGED <<pc, overlayVars>>
    BY <1>10
       DEF Environment, OtherDriver, CountDown, Refresh, Reconfigure, RtcTick, RtcBusy,
           RtcWritten, ChangeSettings, vars
  <2> QED
    BY <2>1 DEF OverlayInv, overlayVars
<1> QED
  BY <1>1, <1>2, <1>3, <1>4, <1>5, <1>6, <1>7, <1>8, <1>9, <1>10 DEF Next, Program
-----------------------------------------------------------------------------
\* The work of Dhrystone: elapsed is the time of total, and nothing else.
LEMMA DhryApart ==
  ASSUME DhryInv, dhry' = dhry,
         \/ pc' = pc
         \/ /\ pc \notin {"dhry permit", "dhrystone done"}
            /\ pc' \notin {"dhry calibrate", "dhry chunk", "dhry permit"}
  PROVE  DhryInv'
  BY DEF DhryInv, DhrystoneWhole

\* Numbers that only have to be none below zero.
LEMMA Numbers ==
  /\ \A a, b \in Nat : /\ Smaller(a, b) \in Nat /\ Smaller(a, b) <= a /\ Smaller(a, b) <= b
                       /\ Larger(a, b) \in Nat /\ Larger(a, b) >= a /\ Larger(a, b) >= b
                       /\ Apart(a, b) \in Nat /\ a * b \in Nat /\ a + b \in Nat
  /\ \A a \in Nat, b \in Nat \ {0} : a \div b \in Nat
<1>1. \A a, b \in Nat : a * b \in Nat /\ a + b \in Nat
  OBVIOUS
<1>2. \A a, b \in Nat : /\ Smaller(a, b) \in Nat /\ Smaller(a, b) <= a /\ Smaller(a, b) <= b
                       /\ Larger(a, b) \in Nat /\ Larger(a, b) >= a /\ Larger(a, b) >= b
                       /\ Apart(a, b) \in Nat
  BY DEF Smaller, Larger, Apart
<1>3. \A a \in Nat, b \in Nat \ {0} : a \div b \in Nat
  OBVIOUS
<1> QED
  BY <1>1, <1>2, <1>3

\* What a coarse clock shows is within one of its steps of the time.
LEMMA ShowsNear ==
  ASSUME NEW clock \in Clocks, NEW t \in Nat, NEW us \in Shows(clock, t)
  PROVE  /\ us \in Nat
         /\ clock = "fine" => us = t
         /\ clock = "ticks" => Apart(us, t) <= StepSize
<1>1. StepSize \in Nat \ {0}
  BY BenchmarkAssumption
<1>2. ASSUME NEW n \in Nat \ {0}, NEW x \in Nat
      PROVE  /\ n * (x \div n) \in Nat /\ n * (x \div n) <= x /\ x - n * (x \div n) < n
  <2>1. x \div n \in Nat /\ x % n \in 0 .. n - 1 /\ x = n * (x \div n) + (x % n)
    OBVIOUS
  <2> QED
    BY <2>1
<1>3. CASE clock = "fine"
  BY <1>3 DEF Shows
<1>4. CASE clock = "still"
  BY <1>4 DEF Shows
<1>5. CASE clock \in {"ticks", "jumps"}
  <2>1. us \in {StepSize * (t \div StepSize), StepSize * ((t + StepSize - 1) \div StepSize)}
    BY <1>5 DEF Shows
  <2>2. CASE us = StepSize * (t \div StepSize)
    <3>1. us \in Nat /\ us <= t /\ t - us < StepSize
      BY <1>1, <1>2, <2>2
    <3> QED
      BY <1>1, <1>5, <3>1 DEF Apart
  <2>3. CASE us = StepSize * ((t + StepSize - 1) \div StepSize)
    <3>1. t + StepSize - 1 \in Nat
      BY <1>1
    <3>2. us \in Nat /\ us <= t + StepSize - 1 /\ (t + StepSize - 1) - us < StepSize
      BY <1>1, <1>2, <2>3, <3>1
    <3> QED
      BY <1>1, <1>5, <3>2 DEF Apart
  <2> QED
    BY <2>1, <2>2, <2>3
<1> QED
  BY <1>3, <1>4, <1>5 DEF Clocks

LEMMA DhryWorks ==
  ASSUME DhryInv, BenchStep
  PROVE  DhryInv'
<1>0. /\ DOMAIN dhry = {"unit", "loops", "ticks", "attempt", "chunks", "total", "elapsed",
                        "target", "restarts", "score"}
      /\ dhry.unit \in Nat /\ dhry.loops \in Nat /\ dhry.total \in Nat
      /\ dhry.elapsed \in Nat /\ dhry.target \in Nat
      /\ MaxLoops \in Nat \ {0} /\ ChunkTarget \in Nat /\ ChunkGoal \in Nat
      /\ ChunkLimit \in Nat
  BY BenchmarkAssumption DEF DhryInv, NoDhry
<1>1. CASE Confirm \/ Grow \/ Accept \/ MemoryTests \/ FirstPass \/ MemoryRead
  <2>1. dhry' = dhry
    BY <1>1 DEF Confirm, Grow, Accept, MemoryTests, FirstPass, MemoryRead, benchVars
  <2>2. /\ pc \notin {"dhry permit", "dhrystone done"}
        /\ pc' \notin {"dhry calibrate", "dhry chunk", "dhry permit"}
    BY <1>1 DEF Confirm, Grow, Accept, MemoryTests, FirstPass, MemoryRead
  <2> QED
    BY <2>1, <2>2, DhryApart
<1>2. CASE (\E usable \in BOOLEAN : Flops(usable))
           \/ \E ok \in BOOLEAN : Buffer(ok) \/ DisplayOff(ok)
  BY <1>2, DhryApart DEF Flops, Buffer, DisplayOff
<1>3. ASSUME NEW kind, NEW unit \in Units \cup {0}, Dhrystone(kind, unit)
      PROVE  DhryInv'
  <2>1. unit \in Nat /\ 0 * unit = 0
    BY BenchmarkAssumption
  <2>2. /\ dhry' = [NoDhry EXCEPT !.unit = unit, !.loops = 1, !.target = ChunkTarget]
        /\ pc' \in {"dhrystone done", "dhry legacy", "dhry calibrate"}
    BY <1>3 DEF Dhrystone
  <2>3. /\ DOMAIN dhry' = DOMAIN NoDhry /\ dhry'.unit = unit /\ dhry'.loops = 1
        /\ dhry'.total = 0 /\ dhry'.elapsed = 0 /\ dhry'.score = "none"
        /\ dhry'.target = ChunkTarget
    BY <2>2 DEF NoDhry
  <2>4. 0 \in Nat /\ 1 \in Nat /\ dhry'.elapsed = dhry'.total * dhry'.unit
    BY <2>1, <2>3
  <2>5. {dhry'.unit, dhry'.loops, dhry'.total, dhry'.elapsed, dhry'.target} \subseteq Nat
    BY <1>0, <2>1, <2>3, <2>4
  <2> QED
    BY <2>2, <2>3, <2>4, <2>5 DEF DhryInv, DhrystoneWhole
<1>4. ASSUME NEW elapsed \in Shows("ticks", dhry.loops * dhry.unit), Legacy(elapsed)
      PROVE  DhryInv'
  <2>1. elapsed \in Nat
    <3>1. dhry.loops * dhry.unit \in Nat
      BY <1>0, Numbers
    <3> QED
      BY <3>1, ShowsNear DEF Clocks
  <2>2. /\ DOMAIN dhry' = DOMAIN dhry /\ dhry'.unit = dhry.unit /\ dhry'.loops \in Nat
        /\ dhry'.total = dhry.total /\ dhry'.elapsed = elapsed
        /\ dhry'.score \in {"none", "legacy"} /\ dhry'.target = dhry.target
    <3>1. CASE elapsed >= ChunkGoal \/ dhry.loops >= MaxLoops
      <4>1. dhry' = [dhry EXCEPT !.elapsed = elapsed, !.score = "legacy"]
        BY <1>4, <3>1 DEF Legacy
      <4> QED
        BY <1>0, <4>1
    <3>2. CASE ~(elapsed >= ChunkGoal \/ dhry.loops >= MaxLoops)
      <4> DEFINE longer == IF elapsed = 0 THEN 16 * dhry.loops
                           ELSE Larger(dhry.loops + 1,
                                       (ChunkGoal * dhry.loops) \div elapsed + dhry.loops)
                 score == IF dhry.attempt < 2 \/ elapsed = 0 THEN "none" ELSE "legacy"
      <4>1. dhry' = [dhry EXCEPT !.loops = Smaller(MaxLoops, longer), !.elapsed = elapsed,
                                 !.attempt = @ + 1, !.score = score]
        BY <1>4, <3>2 DEF Legacy
      <4>2. longer \in Nat
        <5>1. CASE elapsed = 0
          BY <1>0, <5>1
        <5>2. CASE elapsed # 0
          <6>1. ChunkGoal * dhry.loops \in Nat
            BY <1>0, Numbers
          <6>2. (ChunkGoal * dhry.loops) \div elapsed \in Nat
            BY <2>1, <5>2, <6>1, Numbers
          <6>3. (ChunkGoal * dhry.loops) \div elapsed + dhry.loops \in Nat
                /\ dhry.loops + 1 \in Nat
            BY <1>0, <6>2
          <6>4. Larger(dhry.loops + 1,
                       (ChunkGoal * dhry.loops) \div elapsed + dhry.loops) \in Nat
            BY <6>3, Numbers
          <6> QED
            BY <5>2, <6>4
        <5> QED
          BY <5>1, <5>2
      <4>3. score \in {"none", "legacy"}
        OBVIOUS
      <4> HIDE DEF longer, score
      <4>4. Smaller(MaxLoops, longer) \in Nat
        BY <1>0, <4>2, Numbers
      <4> QED
        BY <1>0, <4>1, <4>3, <4>4
    <3> QED
      BY <3>1, <3>2
  <2>4. pc' \in {"dhrystone done", "dhry legacy"}
    BY <1>4 DEF Legacy
  <2> QED
    BY <1>0, <2>1, <2>2, <2>4 DEF DhryInv, DhrystoneWhole
<1>5. ASSUME NEW valid \in BOOLEAN, Calibrate(valid)
      PROVE  DhryInv'
  <2>1. pc = "dhry calibrate" /\ dhry.total = 0 /\ dhry.elapsed = 0
        /\ dhry.score \in {"none", "legacy"}
    BY <1>5 DEF Calibrate, DhryInv
  <2>2. 0 = 0 * dhry.unit
    BY <1>0
  <2> DEFINE ticks == dhry.loops * dhry.unit
             more == IF ticks > 0 THEN (dhry.loops * ChunkTarget) \div (2 * ticks) + 1
                     ELSE 16 * dhry.loops
  <2>3. ticks \in Nat /\ dhry.loops * ChunkTarget \in Nat
    BY <1>0, Numbers
  <2>4. \/ pc' = "dhry permit" /\ dhry' = dhry
        \/ pc' = pc /\ dhry' = [dhry EXCEPT !.loops = Smaller(MaxLoops, more), !.attempt = @ + 1]
        \/ /\ pc' = "dhry chunk" /\ ticks # 0
           /\ dhry' = [dhry EXCEPT !.loops =
                         Larger(1, Smaller(MaxLoops, (@ * ChunkTarget) \div ticks))]
    BY <1>5 DEF Calibrate, Fail
  <2>5. more \in Nat
    <3> HIDE DEF ticks
    <3>1. CASE ticks > 0
      <4>1. 2 * ticks \in Nat \ {0}
        BY <2>3, <3>1
      <4>2. (dhry.loops * ChunkTarget) \div (2 * ticks) \in Nat
        BY <2>3, <4>1, Numbers
      <4> QED
        BY <3>1, <4>2
    <3>2. CASE ~(ticks > 0)
      BY <1>0, <3>2
    <3> QED
      BY <3>1, <3>2
  <2>6. ticks # 0 => (dhry.loops * ChunkTarget) \div ticks \in Nat
    <3> HIDE DEF ticks
    <3> QED
      BY <2>3, Numbers
  <2> HIDE DEF ticks, more
  <2>7. Smaller(MaxLoops, more) \in Nat
    BY <1>0, <2>5, Numbers
  <2>8. ticks # 0 => Larger(1, Smaller(MaxLoops, (dhry.loops * ChunkTarget) \div ticks)) \in Nat
    BY <1>0, <2>6, Numbers
  <2>9. /\ DOMAIN dhry' = DOMAIN dhry /\ dhry'.unit = dhry.unit /\ dhry'.loops \in Nat
        /\ dhry'.total = dhry.total /\ dhry'.elapsed = dhry.elapsed
        /\ dhry'.score = dhry.score /\ dhry'.target = dhry.target
    <3>1. CASE dhry' = dhry
      BY <1>0, <3>1
    <3>2. CASE dhry' = [dhry EXCEPT !.loops = Smaller(MaxLoops, more), !.attempt = @ + 1]
      BY <1>0, <2>7, <3>2
    <3>3. CASE /\ ticks # 0
               /\ dhry' = [dhry EXCEPT !.loops =
                             Larger(1, Smaller(MaxLoops, (@ * ChunkTarget) \div ticks))]
      BY <1>0, <2>8, <3>3
    <3> QED
      BY <2>4, <3>1, <3>2, <3>3
  <2>11. pc' \in {"dhry permit", "dhry chunk", "dhry calibrate"}
    BY <2>1, <2>4
  <2> QED
    BY <1>0, <2>1, <2>2, <2>9, <2>11 DEF DhryInv, DhrystoneWhole
<1>6. ASSUME NEW valid \in BOOLEAN, NEW delay \in {0, ChunkLimit}, Chunk(valid, delay)
      PROVE  DhryInv'
  <2> DEFINE loops == Smaller(dhry.loops, MaxLoops - dhry.total)
             ticks == loops * dhry.unit + delay
             next == Larger(1, Smaller(MaxLoops, Smaller(2 * loops,
                       IF ticks > 0 THEN (loops * dhry.target) \div ticks ELSE 2 * loops)))
             Over == [StartOver(dhry) EXCEPT !.restarts = @ + 1, !.target = @ \div 2,
                                             !.loops = loops \div 2]
             Timed == [dhry EXCEPT !.total = @ + loops, !.elapsed = @ + ticks,
                                   !.chunks = @ + 1, !.loops = next]
  <2>1. /\ pc = "dhry chunk" /\ dhry.total < MaxLoops
        /\ dhry.elapsed = dhry.total * dhry.unit /\ dhry.score \in {"none", "legacy"}
    BY <1>6 DEF Chunk, More, DhryInv
  <2>2. \/ pc' = "dhry permit" /\ dhry' = dhry
        \/ pc' = pc /\ dhry' = Over
        \/ pc' = pc /\ dhry' = Timed /\ ticks < ChunkLimit
    BY <1>6 DEF Chunk, Fail
  <2>3. MaxLoops - dhry.total \in Nat
    <3>1. dhry.total \in Nat /\ MaxLoops \in Nat /\ dhry.total < MaxLoops
      BY <1>0, <2>1
    <3> QED
      BY <3>1
  <2>4. loops \in Nat
    BY <1>0, <2>3, Numbers
  <2> HIDE DEF loops
  <2>5. loops * dhry.unit \in Nat /\ loops * dhry.target \in Nat /\ 2 * loops \in Nat
        /\ loops \div 2 \in Nat /\ delay \in Nat /\ dhry.target \div 2 \in Nat
    <3>1. dhry.unit \in Nat /\ dhry.target \in Nat /\ 2 \in Nat \ {0} /\ 2 \in Nat
      BY <1>0
    <3>2. loops * dhry.unit \in Nat /\ loops * dhry.target \in Nat /\ 2 * loops \in Nat
      BY <2>4, <3>1, Numbers
    <3>3. loops \div 2 \in Nat /\ dhry.target \div 2 \in Nat
      BY <2>4, <3>1, Numbers
    <3>4. delay \in Nat
      BY <1>0
    <3> QED
      BY <3>2, <3>3, <3>4
  <2>6. ticks \in Nat
    BY <2>5, Numbers
  <2>7. ticks < ChunkLimit => delay = 0 /\ ticks = loops * dhry.unit
    <3>1. CASE delay = 0
      BY <2>5, <3>1
    <3>2. CASE delay = ChunkLimit
      BY <1>0, <2>5, <3>2
    <3> QED
      BY <3>1, <3>2
  <2> HIDE DEF ticks
  <2>8. next \in Nat
    <3>1. ticks > 0 => (loops * dhry.target) \div ticks \in Nat
      <4>1. ticks > 0 => ticks \in Nat \ {0}
        BY <2>6
      <4> QED
        BY <2>5, <4>1, Numbers
    <3>2. (IF ticks > 0 THEN (loops * dhry.target) \div ticks ELSE 2 * loops) \in Nat
      BY <2>5, <3>1
    <3>3. Smaller(2 * loops, IF ticks > 0 THEN (loops * dhry.target) \div ticks
                             ELSE 2 * loops) \in Nat
      BY <2>5, <3>2, Numbers
    <3> QED
      BY <1>0, <3>3, Numbers
  <2> HIDE DEF next
  <2>9. CASE pc' = "dhry permit" /\ dhry' = dhry
    BY <2>1, <2>9 DEF DhryInv, DhrystoneWhole
  <2>10. CASE pc' = pc /\ dhry' = Over
    <3>1. /\ DOMAIN dhry' = DOMAIN dhry /\ dhry'.unit = dhry.unit
          /\ dhry'.loops = loops \div 2 /\ dhry'.total = 0 /\ dhry'.elapsed = 0
          /\ dhry'.score = dhry.score /\ dhry'.target = dhry.target \div 2
      BY <1>0, <2>10 DEF StartOver
    <3>2. 0 = 0 * dhry.unit
      BY <1>0
    <3> QED
      <4>1. {dhry'.unit, dhry'.loops, dhry'.total, dhry'.elapsed, dhry'.target} \subseteq Nat
        BY <1>0, <2>5, <3>1
      <4>2. /\ dhry'.elapsed = dhry'.total * dhry'.unit /\ pc' = "dhry chunk"
            /\ dhry'.score \in {"none", "legacy"} /\ DOMAIN dhry' = DOMAIN NoDhry
        BY <1>0, <2>1, <2>10, <3>1, <3>2 DEF DhryInv
      <4> QED
        BY <4>1, <4>2 DEF DhryInv, DhrystoneWhole
  <2>11. CASE pc' = pc /\ dhry' = Timed /\ ticks < ChunkLimit
    <3>1. /\ DOMAIN dhry' = DOMAIN dhry /\ dhry'.unit = dhry.unit
          /\ dhry'.loops = next /\ dhry'.total = dhry.total + loops
          /\ dhry'.elapsed = dhry.elapsed + ticks
          /\ dhry'.score = dhry.score /\ dhry'.target = dhry.target
      BY <1>0, <2>11
    <3>2. \A a, b, u \in Nat : (a + b) * u = a * u + b * u
      OBVIOUS
    <3>3. dhry.elapsed + ticks = (dhry.total + loops) * dhry.unit
      <4>1. ticks = loops * dhry.unit /\ dhry.elapsed = dhry.total * dhry.unit
        BY <2>1, <2>7, <2>11
      <4>2. (dhry.total + loops) * dhry.unit = dhry.total * dhry.unit + loops * dhry.unit
        BY <1>0, <2>4, <3>2
      <4> QED
        BY <4>1, <4>2
    <3>4. dhry.total + loops \in Nat /\ dhry.elapsed + ticks \in Nat
      BY <1>0, <2>4, <2>6
    <3> QED
      BY <1>0, <2>1, <2>8, <2>11, <3>1, <3>3, <3>4 DEF DhryInv, DhrystoneWhole
  <2> QED
    BY <2>2, <2>9, <2>10, <2>11
<1>7. CASE ScoreChunks
  <2>1. pc = "dhry chunk" /\ pc' = "dhry permit" /\ dhry.elapsed = dhry.total * dhry.unit
    BY <1>7 DEF ScoreChunks, DhryInv
  <2>2. PICK score : dhry' = [dhry EXCEPT !.score = score]
    BY <1>7 DEF ScoreChunks
  <2>3. /\ DOMAIN dhry' = DOMAIN dhry /\ dhry'.unit = dhry.unit /\ dhry'.loops = dhry.loops
        /\ dhry'.total = dhry.total /\ dhry'.elapsed = dhry.elapsed
        /\ dhry'.target = dhry.target
    BY <1>0, <2>2
  <2> QED
    BY ZenonT(60), <1>0, <2>1, <2>3 DEF DhryInv, DhrystoneWhole
<1>8. CASE DhryPermit
  BY <1>8 DEF DhryPermit, DhryInv, DhrystoneWhole, Go
<1> QED
  BY <1>1, <1>2, <1>3, <1>4, <1>5, <1>6, <1>7, <1>8 DEF BenchStep

LEMMA DhryStepKeeps ==
  ASSUME DhryInv, CallInv, [Next]_vars
  PROVE  DhryInv'
<1>1. CASE Call
  BY <1>1, CallBegins, DhryApart DEF Call, Calls, benchVars
<1>2. CASE Return
  <2>1. dhry' = NoDhry /\ pc' = "idle"
    BY <1>2 DEF Return
  <2>2. /\ DOMAIN dhry' = DOMAIN NoDhry /\ dhry'.unit = 0 /\ dhry'.loops = 0
        /\ dhry'.total = 0 /\ dhry'.elapsed = 0 /\ dhry'.target = 0
        /\ dhry'.score = "none"
    BY <2>1 DEF NoDhry
  <2>3. {dhry'.unit, dhry'.loops, dhry'.total, dhry'.elapsed, dhry'.target} \subseteq Nat
    BY <2>2
  <2> QED
    BY <2>1, <2>2, <2>3 DEF DhryInv, DhrystoneWhole
<1>3. CASE Keep /\ UNCHANGED <<benchVars, todo>>
  BY <1>3, CallKeeps, DhryApart DEF KeepLabels, benchVars
<1>4. CASE (ClockStep \/ Client) /\ UNCHANGED benchVars
  <2>1. pc \in SpeedLabels /\ pc' \in SpeedLabels
    BY <1>4, ClockPlaces, ClientPlaces DEF SpeedLabels, ClockLabels
  <2> QED
    BY <1>4, <2>1, DhryApart DEF SpeedLabels, ClockLabels, FreqLabels, benchVars
<1>5. CASE BusStep /\ UNCHANGED benchVars
  BY <1>5, BusPlaces, DhryApart DEF BusLabels, benchVars
<1>6. CASE RtcStep /\ UNCHANGED benchVars
  BY <1>6, RtcPlaces, DhryApart DEF RtcLabels, benchVars
<1>7. CASE OverlayStep /\ UNCHANGED benchVars
  BY <1>7, OverlayPlaces, DhryApart DEF OverlayLabels, benchVars
<1>8. CASE BenchStep
  BY <1>8, DhryWorks
<1>9. CASE FreqStep /\ UNCHANGED benchVars
  BY <1>9, FreqPlaces, DhryApart DEF FreqLabels, benchVars
<1>10. CASE Environment \/ UNCHANGED vars
  <2>1. UNCHANGED <<pc, benchVars>>
    BY <1>10
       DEF Environment, OtherDriver, CountDown, Refresh, Reconfigure, RtcTick, RtcBusy,
           RtcWritten, ChangeSettings, vars
  <2> QED
    BY <2>1, DhryApart DEF benchVars
<1> QED
  BY <1>1, <1>2, <1>3, <1>4, <1>5, <1>6, <1>7, <1>8, <1>9, <1>10 DEF Next, Program
-----------------------------------------------------------------------------
\* run_until_steady: what a run is measured as.
RunApart == pc \notin {"steady", "flops done", "memory read"} /\ run' = run
            /\ (pc' = pc \/ pc' \notin {"steady", "flops done", "memory read"})

\* A run that does not last has no time.
LEMMA NoRunInv ==
  run' = NoRun /\ pc' \notin {"steady", "flops done", "memory read"} => RunInv'
<1>1. \A n \in Nat : 0 * n = 0
  OBVIOUS
<1>2. 0 * Jitter = 0
  BY <1>1, BenchmarkAssumption
<1>3. ASSUME run' = NoRun, pc' \notin {"steady", "flops done", "memory read"}
      PROVE  RunInv'
  <2>1. /\ DOMAIN run' = DOMAIN NoRun /\ run'.of = "none" /\ run'.clock = "fine"
        /\ run'.unit = 0 /\ run'.count = 0 /\ run'.us = 0 /\ run'.truth = 0
        /\ run'.floor = 0 /\ run'.miss = 0
    BY <1>3 DEF NoRun
  <2>2. {run'.us, run'.truth, run'.floor, run'.miss, run'.unit, run'.count} \subseteq Nat
    BY <2>1
  <2>3. run'.miss * Jitter <= run'.floor /\ ~(run'.us > 0)
    BY <1>2, <2>1
  <2> QED
    BY <1>3, <2>1, <2>2, <2>3 DEF RunInv, Clocks
<1> QED
  BY <1>3

LEMMA RunFrame ==
  ASSUME RunInv, RunApart
  PROVE  RunInv'
<1>1. run = NoRun
  BY DEF RunInv, RunApart
<1>2. pc' \notin {"steady", "flops done", "memory read"}
  BY DEF RunApart
<1> QED
  BY <1>1, <1>2, NoRunInv DEF RunApart

\* What a reading of n units of work may be.
LEMMA Reads ==
  ASSUME NEW r, NEW n \in Nat, r.clock \in Clocks, r.unit \in Nat,
         NEW x \in Readings(r, n)
  PROVE  /\ DOMAIN x = {"us", "wrapped"} /\ x.us \in Nat /\ x.wrapped \in BOOLEAN
         /\ ~x.wrapped /\ x.us > 0 => /\ r.clock = "fine" => x.us = n * r.unit
                                      /\ r.clock = "ticks" => Apart(x.us, n * r.unit) <= StepSize
         /\ r.of = "memory" /\ x.wrapped => x.us = 0
<1>1. n * r.unit \in Nat
  BY Numbers
<1>2. CASE \E us \in Shows(r.clock, n * r.unit) : x = [us |-> us, wrapped |-> FALSE]
  BY <1>1, <1>2, ShowsNear
<1>3. CASE x = [us |-> 0, wrapped |-> FALSE]
  BY <1>3
<1>4. CASE \E us \in IF Rejects(r.of) THEN {0} ELSE Garbage : x = [us |-> us, wrapped |-> TRUE]
  <2>1. Garbage \subseteq Nat
    <3>1. Floor * StepSize * Jitter \in Nat /\ RunCap \in Nat
      BY BenchmarkAssumption, Numbers
    <3> QED
      BY <3>1 DEF Garbage
  <2> QED
    BY <1>4, <2>1 DEF Rejects
<1> QED
  BY <1>2, <1>3, <1>4 DEF Readings

\* The floor keeps up with the misses.
LEMMA Raised ==
  ASSUME NEW a \in Nat, NEW m \in Nat, NEW f \in Nat, NEW j \in Nat, a * j <= f
  PROVE  /\ Larger(a, m) \in Nat /\ Larger(f, m * j) \in Nat
         /\ Larger(a, m) * j <= Larger(f, m * j) /\ f <= Larger(f, m * j)
<1>1. m * j \in Nat /\ a * j \in Nat
  BY Numbers
<1>2. Larger(f, m * j) \in Nat /\ Larger(f, m * j) >= f /\ Larger(f, m * j) >= m * j
  BY <1>1, Numbers
<1>3. CASE a > m
  <2>1. Larger(a, m) = a
    BY <1>3 DEF Larger
  <2> QED
    BY <1>1, <1>2, <2>1
<1>4. CASE ~(a > m)
  <2>1. Larger(a, m) = m
    BY <1>4 DEF Larger
  <2> QED
    BY <1>1, <1>2, <2>1
<1> QED
  BY <1>3, <1>4

LEMMA FloorNat ==
  /\ Jitter \in Nat \ {0} /\ StepSize \in Nat \ {0} /\ Floor \in Nat \ {0}
  /\ RunCap \in Nat /\ MaxCount \in Nat
  /\ \A clock \in Clocks : ClockFloor(clock) \in Nat /\ ClockFloor(clock) >= Floor
  /\ ClockFloor("ticks") >= StepSize * Jitter
<1>1. /\ Jitter \in Nat \ {0} /\ StepSize \in Nat \ {0} /\ Floor \in Nat \ {0}
      /\ RunCap \in Nat /\ MaxCount \in Nat
  BY BenchmarkAssumption
<1>2. StepSize * Jitter \in Nat
  BY <1>1, Numbers
<1>3. /\ Larger(Floor, StepSize * Jitter) \in Nat
      /\ Larger(Floor, StepSize * Jitter) >= Floor
      /\ Larger(Floor, StepSize * Jitter) >= StepSize * Jitter
  BY <1>1, <1>2, Numbers
<1> QED
  BY <1>1, <1>3 DEF ClockFloor

\* A first run.
LEMMA RunBegins ==
  ASSUME NEW of \in {"flops", "memory"}, NEW c \in Clocks, NEW u \in Units, NEW r,
         r.of = of, r.clock = c, r.unit = u, NEW x \in Readings(r, 1)
  PROVE  FirstRun(of, c, u, x)
           /\ (pc' = "steady" \/ (pc' = "memory read" /\ of = "memory"))
         => RunInv'
<1>1. u \in Nat /\ 1 * u = u
  BY BenchmarkAssumption
<1>2. r.clock \in Clocks /\ r.unit \in Nat /\ 1 \in Nat
  BY <1>1
<1>3. /\ x.us \in Nat /\ x.wrapped \in BOOLEAN
      /\ ~x.wrapped /\ x.us > 0 => /\ c = "fine" => x.us = u
                                   /\ c = "ticks" => Apart(x.us, u) <= StepSize
  BY <1>1, <1>2, Reads
<1>4. \A n \in Nat : 0 * n = 0
  OBVIOUS
<1>5. 0 * Jitter = 0 /\ ClockFloor(c) \in Nat
  BY <1>4, FloorNat
<1>6. ASSUME FirstRun(of, c, u, x),
             pc' = "steady" \/ (pc' = "memory read" /\ of = "memory")
      PROVE  RunInv'
  <2>1. /\ DOMAIN run' = DOMAIN NoRun /\ run'.of = of /\ run'.clock = c
        /\ run'.unit = u /\ run'.count = 1 /\ run'.us = x.us /\ run'.truth = u
        /\ run'.floor = ClockFloor(c) /\ run'.miss = 0 /\ run'.compared = FALSE
        /\ run'.ok = ~x.wrapped
    BY <1>6 DEF FirstRun, NoRun
  <2>2. {run'.us, run'.truth, run'.floor, run'.miss, run'.unit, run'.count} \subseteq Nat
    BY <1>1, <1>3, <1>5, <2>1
  <2>3. run'.miss * Jitter <= run'.floor /\ run'.floor >= ClockFloor(run'.clock)
        /\ run'.count > 0
    BY <1>5, <2>1
  <2>4. run'.ok /\ run'.us > 0 => /\ run'.clock = "fine" => run'.us = run'.truth
                                  /\ run'.clock = "ticks" => Off(run)' <= StepSize
    BY <1>3, <2>1 DEF Off
  <2>5. run'.clock \in Clocks /\ run'.of \in {"flops", "memory"}
        /\ DOMAIN run' = DOMAIN NoRun /\ ~run'.compared
        /\ pc' \in {"steady", "memory read"} /\ (pc' = "memory read" => run'.of = "memory")
    BY <1>6, <2>1
  <2> QED
    BY <2>2, <2>3, <2>4, <2>5 DEF RunInv
<1> QED
  BY <1>6

\* What is known of a run that is not yet accepted.
LEMMA RunSteady ==
  ASSUME RunInv, pc = "steady"
  PROVE  /\ DOMAIN run = DOMAIN NoRun /\ run.us \in Nat /\ run.truth \in Nat
         /\ run.floor \in Nat /\ run.miss \in Nat /\ run.unit \in Nat
         /\ run.count \in Nat \ {0} /\ run.clock \in Clocks
         /\ run.of \in {"flops", "memory"} /\ run.floor >= ClockFloor(run.clock)
         /\ run.miss * Jitter <= run.floor
         /\ run.ok /\ run.us > 0 => /\ run.clock = "fine" => run.us = run.truth
                                    /\ run.clock = "ticks" => Off(run) <= StepSize
  BY DEF RunInv

LEMMA RunConfirms == RunInv /\ Confirm => RunInv'
<1> SUFFICES ASSUME RunInv, Confirm PROVE RunInv'
  OBVIOUS
<1>1. pc = "steady" /\ pc' = pc
  BY DEF Confirm
<1> DEFINE half == IF run.count \div 2 > 0 THEN run.count \div 2 ELSE 1
<1>2. half \in Nat \ {0}
  <2>1. run.count \in Nat
    BY <1>1, RunSteady
  <2>2. run.count \div 2 \in Nat
    <3>1. \A n \in Nat : n \div 2 \in Nat
      OBVIOUS
    <3> QED
      BY <2>1, <3>1
  <2> QED
    BY <2>2
<1>3. PICK x \in Readings(run, half) :
        run' = [Raise(run, Apart(x.us, (run.us * half) \div run.count))
                  EXCEPT !.wrapped = @ \/ x.wrapped, !.last = Made(half, x)]
  BY DEF Confirm
<1> HIDE DEF half
<1>4. x.us \in Nat
  BY <1>1, <1>2, <1>3, RunSteady, Reads
<1> DEFINE m == Apart(x.us, (run.us * half) \div run.count)
<1>5. m \in Nat
  <2>1. run.us \in Nat /\ run.count \in Nat \ {0} /\ half \in Nat
    BY <1>1, <1>2, RunSteady
  <2>2. run.us * half \in Nat
    BY <2>1, Numbers
  <2>3. (run.us * half) \div run.count \in Nat
    BY <2>1, <2>2, Numbers
  <2> QED
    BY <1>4, <2>3, Numbers
<1> HIDE DEF m
<1>6. \E w, l : run' = [Raise(run, m) EXCEPT !.wrapped = w, !.last = l]
  BY <1>3 DEF m
<1>7. DOMAIN run = DOMAIN NoRun
  BY <1>1, RunSteady
<1>8. /\ DOMAIN run' = DOMAIN run /\ run'.of = run.of /\ run'.clock = run.clock
      /\ run'.unit = run.unit /\ run'.count = run.count /\ run'.us = run.us
      /\ run'.truth = run.truth /\ run'.ok = run.ok
      /\ run'.miss = Larger(run.miss, m) /\ run'.floor = Larger(run.floor, m * Jitter)
  BY <1>6, <1>7 DEF Raise, NoRun
<1>9. /\ run'.miss \in Nat /\ run'.floor \in Nat /\ run'.miss * Jitter <= run'.floor
      /\ run.floor <= run'.floor
  <2>1. run.miss \in Nat /\ run.floor \in Nat /\ Jitter \in Nat
        /\ run.miss * Jitter <= run.floor
    BY <1>1, RunSteady, FloorNat
  <2>2. /\ Larger(run.miss, m) \in Nat /\ Larger(run.floor, m * Jitter) \in Nat
        /\ Larger(run.miss, m) * Jitter <= Larger(run.floor, m * Jitter)
        /\ run.floor <= Larger(run.floor, m * Jitter)
    BY <1>5, <2>1, Raised
  <2> QED
    BY <1>8, <2>2
<1>10. run'.floor >= ClockFloor(run'.clock)
  <2>1. run.floor \in Nat /\ run.floor >= ClockFloor(run.clock)
        /\ ClockFloor(run.clock) \in Nat
    BY <1>1, RunSteady, FloorNat
  <2> QED
    BY <1>8, <1>9, <2>1
<1>11. {run'.us, run'.truth, run'.floor, run'.miss, run'.unit, run'.count} \subseteq Nat
  BY <1>1, <1>8, <1>9, RunSteady
<1>12. run'.ok /\ run'.us > 0 => /\ run'.clock = "fine" => run'.us = run'.truth
                                 /\ run'.clock = "ticks" => Off(run)' <= StepSize
  BY <1>1, <1>8, RunSteady DEF Off
<1>13. /\ DOMAIN run' = DOMAIN NoRun /\ run'.clock \in Clocks
       /\ run'.of \in {"flops", "memory"} /\ run'.count > 0 /\ pc' = "steady"
  BY <1>1, <1>7, <1>8, RunSteady
<1> QED
  BY <1>9, <1>10, <1>11, <1>12, <1>13 DEF RunInv

\* The next run is of more work, and of some.
LEMMA WorkGrows ==
  ASSUME NEW r, r.us \in Nat, r.count \in Nat \ {0}, r.floor \in Nat, r.count < MaxCount
  PROVE  MoreWork(r) \in Nat \ {0}
<1>1. r.us > 0 => (r.count * r.floor) \div r.us + r.count \in Nat
  <2>1. r.count * r.floor \in Nat
    BY Numbers
  <2>2. r.us > 0 => (r.count * r.floor) \div r.us \in Nat
    <3>1. r.us > 0 => r.us \in Nat \ {0}
      OBVIOUS
    <3> QED
      BY <2>1, <3>1, Numbers
  <2> QED
    BY <2>2
<1>2. \A n \in Nat : Smaller(MaxCount, Larger(2 * r.count, n)) \in Nat \ {0}
  <2>1. MaxCount \in Nat \ {0} /\ 2 * r.count \in Nat \ {0}
    BY FloorNat
  <2> QED
    BY <2>1 DEF Smaller, Larger
<1>3. (IF r.us > 0 THEN (r.count * r.floor) \div r.us + r.count ELSE 0) \in Nat
  BY <1>1
<1> QED
  BY <1>2, <1>3 DEF MoreWork

LEMMA RunGrows == RunInv /\ Grow => RunInv'
<1> SUFFICES ASSUME RunInv, Grow PROVE RunInv'
  OBVIOUS
<1>1. pc = "steady" /\ pc' = pc /\ run.count < MaxCount
  <2>1. pc = "steady" /\ pc' = pc /\ ~(run.count >= MaxCount)
    BY DEF Grow, Accepted
  <2>2. run.count \in Nat /\ MaxCount \in Nat
    BY <2>1, RunSteady, FloorNat
  <2> HIDE DEF RunInv
  <2> QED
    BY <2>1, <2>2
<1> DEFINE count == MoreWork(run)
<1>2. count \in Nat \ {0}
  BY <1>1, RunSteady, WorkGrows
<1>3. PICK x \in Readings(run, count) :
        LET miss == Apart(x.us, (run.us * count) \div run.count)
            scaled == IF run.us > 0 THEN (miss * run.count) \div count ELSE miss
        IN  run' = [Raise(run, scaled)
                      EXCEPT !.count = count, !.us = x.us,
                             !.truth = count * run.unit, !.ok = ~x.wrapped,
                             !.wrapped = @ \/ x.wrapped,
                             !.last = Made(count, x)]
  BY DEF Grow
<1> HIDE DEF count
<1>4. /\ x.us \in Nat /\ x.wrapped \in BOOLEAN
      /\ ~x.wrapped /\ x.us > 0 =>
           /\ run.clock = "fine" => x.us = count * run.unit
           /\ run.clock = "ticks" => Apart(x.us, count * run.unit) <= StepSize
  BY <1>1, <1>2, <1>3, RunSteady, Reads
<1> DEFINE miss == Apart(x.us, (run.us * count) \div run.count)
           m == IF run.us > 0 THEN (miss * run.count) \div count ELSE miss
<1>5. m \in Nat
  <2>1. run.us \in Nat /\ run.count \in Nat \ {0}
    BY <1>1, RunSteady
  <2>2. run.us * count \in Nat
    BY <1>2, <2>1, Numbers
  <2>3. (run.us * count) \div run.count \in Nat
    BY <2>1, <2>2, Numbers
  <2>4. miss \in Nat
    BY <1>4, <2>3, Numbers
  <2> HIDE DEF miss
  <2>5. miss * run.count \in Nat
    BY <2>1, <2>4, Numbers
  <2>6. (miss * run.count) \div count \in Nat
    BY <1>2, <2>5, Numbers
  <2> QED
    BY <2>4, <2>6
<1> HIDE DEF m
<1>6. \E w, l : run' = [Raise(run, m)
                          EXCEPT !.count = count, !.us = x.us, !.truth = count * run.unit,
                                 !.ok = ~x.wrapped, !.wrapped = w, !.last = l]
  BY <1>3 DEF m
<1>7. DOMAIN run = DOMAIN NoRun
  BY <1>1, RunSteady
<1>8. /\ DOMAIN run' = DOMAIN run /\ run'.of = run.of /\ run'.clock = run.clock
      /\ run'.unit = run.unit /\ run'.count = count /\ run'.us = x.us
      /\ run'.truth = count * run.unit /\ run'.ok = ~x.wrapped
      /\ run'.miss = Larger(run.miss, m) /\ run'.floor = Larger(run.floor, m * Jitter)
  BY <1>6, <1>7 DEF Raise, NoRun
<1>9. /\ run'.miss \in Nat /\ run'.floor \in Nat /\ run'.miss * Jitter <= run'.floor
      /\ run.floor <= run'.floor
  <2>1. run.miss \in Nat /\ run.floor \in Nat /\ Jitter \in Nat
        /\ run.miss * Jitter <= run.floor
    BY <1>1, RunSteady, FloorNat
  <2>2. /\ Larger(run.miss, m) \in Nat /\ Larger(run.floor, m * Jitter) \in Nat
        /\ Larger(run.miss, m) * Jitter <= Larger(run.floor, m * Jitter)
        /\ run.floor <= Larger(run.floor, m * Jitter)
    BY <1>5, <2>1, Raised
  <2> QED
    BY <1>8, <2>2
<1>10. run'.floor >= ClockFloor(run'.clock)
  <2>1. run.floor \in Nat /\ run.floor >= ClockFloor(run.clock)
        /\ ClockFloor(run.clock) \in Nat
    BY <1>1, RunSteady, FloorNat
  <2> QED
    BY <1>8, <1>9, <2>1
<1>11. {run'.us, run'.truth, run'.floor, run'.miss, run'.unit, run'.count} \subseteq Nat
  <2>1. run.unit \in Nat
    BY <1>1, RunSteady
  <2>2. count * run.unit \in Nat
    BY <1>2, <2>1, Numbers
  <2> QED
    BY <1>2, <1>4, <1>8, <1>9, <2>1, <2>2
<1>12. run'.ok /\ run'.us > 0 => /\ run'.clock = "fine" => run'.us = run'.truth
                                 /\ run'.clock = "ticks" => Off(run)' <= StepSize
  BY <1>4, <1>8 DEF Off
<1>13. /\ DOMAIN run' = DOMAIN NoRun /\ run'.clock \in Clocks
       /\ run'.of \in {"flops", "memory"} /\ run'.count > 0 /\ pc' = "steady"
  BY <1>1, <1>2, <1>7, <1>8, RunSteady
<1> QED
  BY <1>9, <1>10, <1>11, <1>12, <1>13 DEF RunInv

LEMMA RunWorks == RunInv /\ BenchStep => RunInv'
<1> SUFFICES ASSUME RunInv, BenchStep PROVE RunInv'
  OBVIOUS
<1>1. CASE Confirm \/ Grow
  BY <1>1, RunConfirms, RunGrows
<1>2. CASE Accept
  <2>1. /\ run' = run /\ pc = "steady" /\ Accepted(run)
        /\ pc' = IF run.of = "flops" THEN "flops done" ELSE "memory read"
    BY <1>2 DEF Accept, benchVars
  <2> HIDE DEF Accepted
  <2>2. pc' \in {"flops done", "memory read"} /\ (pc' = "memory read" => run.of = "memory")
    BY <2>1, RunSteady
  <2>3. Accepted(run)' /\ Off(run)' = Off(run)
    BY <2>1 DEF Accepted, Off
  <2> QED
    BY <2>1, <2>2, <2>3 DEF RunInv
<1>3. ASSUME NEW usable \in BOOLEAN, Flops(usable)
      PROVE  RunInv'
  <2>1. CASE usable = TRUE
    <3>1. PICK c \in Clocks, u \in Units :
            \E x \in Readings([NoRun EXCEPT !.of = "flops", !.clock = c, !.unit = u], 1) :
              FirstRun("flops", c, u, x)
      BY <1>3, <2>1 DEF Flops
    <3> DEFINE r == [NoRun EXCEPT !.of = "flops", !.clock = c, !.unit = u]
    <3>2. r.of = "flops" /\ r.clock = c /\ r.unit = u
      BY DEF NoRun
    <3>3. \E x \in Readings(r, 1) : FirstRun("flops", c, u, x)
      BY <3>1
    <3>4. pc' = "steady"
      BY <1>3, <2>1 DEF Flops
    <3> HIDE DEF r
    <3> QED
      BY <3>2, <3>3, <3>4, RunBegins
  <2>2. CASE usable = FALSE
    <3>1. pc = "flops" /\ pc' = "flops done" /\ run' = run
      BY <1>3, <2>2 DEF Flops
    <3>2. run = NoRun
      BY <3>1 DEF RunInv
    <3>3. run.compared = FALSE /\ run' = run
      BY <3>1, <3>2 DEF NoRun
    <3>4. Off(run)' = Off(run)
      BY <3>1 DEF Off
    <3> QED
      BY <3>1, <3>3, <3>4 DEF RunInv
  <2> QED
    BY <2>1, <2>2
<1>4. CASE FirstPass
  <2>1. PICK c \in Clocks, u \in Units :
          \E x \in Readings([NoRun EXCEPT !.of = "memory", !.clock = c, !.unit = u], 1) :
            FirstRun("memory", c, u, x)
    BY <1>4 DEF FirstPass
  <2> DEFINE r == [NoRun EXCEPT !.of = "memory", !.clock = c, !.unit = u]
  <2>2. r.of = "memory" /\ r.clock = c /\ r.unit = u
    BY DEF NoRun
  <2>3. \E x \in Readings(r, 1) : FirstRun("memory", c, u, x)
    BY <2>1
  <2>4. pc' \in {"steady", "memory read"}
    BY <1>4 DEF FirstPass
  <2> HIDE DEF r
  <2> QED
    BY <2>2, <2>3, <2>4, RunBegins
<1>5. CASE MemoryRead
  BY <1>5, NoRunInv DEF MemoryRead
<1>6. CASE MemoryTests \/ ScoreChunks \/ DhryPermit
           \/ \E ok \in BOOLEAN : Buffer(ok) \/ DisplayOff(ok)
  <2>1. RunApart
    BY <1>6 DEF MemoryTests, ScoreChunks, DhryPermit, Buffer, DisplayOff, Go, RunApart
  <2> QED
    BY <2>1, RunFrame
<1>7. ASSUME NEW kind, NEW unit, Dhrystone(kind, unit)
      PROVE  RunInv'
  <2>1. RunApart
    BY <1>7 DEF Dhrystone, RunApart
  <2> QED
    BY <2>1, RunFrame
<1>8. ASSUME NEW elapsed, Legacy(elapsed)
      PROVE  RunInv'
  <2>1. RunApart
    BY <1>8 DEF Legacy, RunApart
  <2> QED
    BY <2>1, RunFrame
<1>9. ASSUME NEW valid \in BOOLEAN, Calibrate(valid)
      PROVE  RunInv'
  <2>1. RunApart
    BY <1>9 DEF Calibrate, Fail, RunApart
  <2> QED
    BY <2>1, RunFrame
<1>10. ASSUME NEW valid \in BOOLEAN, NEW delay, Chunk(valid, delay)
      PROVE  RunInv'
  <2>1. RunApart
    BY <1>10 DEF Chunk, Fail, RunApart
  <2> QED
    BY <2>1, RunFrame
<1> QED
  BY <1>1, <1>2, <1>3, <1>4, <1>5, <1>6, <1>7, <1>8, <1>9, <1>10 DEF BenchStep

LEMMA RunStepKeeps ==
  ASSUME RunInv, CallInv, [Next]_vars
  PROVE  RunInv'
<1>1. CASE Call
  <2>1. RunApart
    BY <1>1, CallBegins DEF Call, Calls, benchVars, RunApart
  <2> QED
    BY <2>1, RunFrame
<1>2. CASE Return
  BY <1>2, NoRunInv DEF Return
<1>3. CASE Keep /\ UNCHANGED <<benchVars, todo>>
  <2>1. RunApart
    BY <1>3, CallKeeps DEF KeepLabels, benchVars, RunApart
  <2> QED
    BY <2>1, RunFrame
<1>4. CASE (ClockStep \/ Client \/ FreqStep) /\ UNCHANGED benchVars
  <2>1. pc \in SpeedLabels /\ pc' \in SpeedLabels
    BY <1>4, ClockPlaces, ClientPlaces, FreqPlaces DEF SpeedLabels, ClockLabels
  <2>2. RunApart
    BY <1>4, <2>1 DEF SpeedLabels, ClockLabels, FreqLabels, benchVars, RunApart
  <2> QED
    BY <2>2, RunFrame
<1>5. CASE (BusStep \/ RtcStep \/ OverlayStep) /\ UNCHANGED benchVars
  <2>1. RunApart
    BY <1>5, BusPlaces, RtcPlaces, OverlayPlaces
       DEF BusLabels, RtcLabels, OverlayLabels, benchVars, RunApart
  <2> QED
    BY <2>1, RunFrame
<1>6. CASE BenchStep
  BY <1>6, RunWorks
<1>7. CASE Environment \/ UNCHANGED vars
  <2>1. UNCHANGED <<pc, run>>
    BY <1>7
       DEF Environment, OtherDriver, CountDown, Refresh, Reconfigure, RtcTick, RtcBusy,
           RtcWritten, ChangeSettings, vars, benchVars
  <2>2. Accepted(run)' = Accepted(run) /\ Off(run)' = Off(run)
    BY <2>1 DEF Accepted, Off
  <2> QED
    BY <2>1, <2>2 DEF RunInv
<1> QED
  BY <1>1, <1>2, <1>3, <1>4, <1>5, <1>6, <1>7 DEF Next, Program
-----------------------------------------------------------------------------
\* The run made last, whose speed is that of the memory.
LEMMA LastNone == run' = NoRun => LastInv'
<1> SUFFICES ASSUME run' = NoRun PROVE LastInv'
  OBVIOUS
<1>1. run'.last = NoLast /\ run'.compared = FALSE
  BY DEF NoRun
<1>2. run'.last.us = 0 /\ NoLast \in [count : Nat, us : Nat, ok : BOOLEAN]
  BY <1>1 DEF NoLast
<1> QED
  BY <1>1, <1>2 DEF LastInv

\* The record of a reading of n units of work, for a run of the same clock.
LEMMA LastMade ==
  ASSUME NEW r, NEW n \in Nat, r.clock \in Clocks, r.unit \in Nat,
         NEW x \in Readings(r, n)
  PROVE  LET last == Made(n, x)
         IN  /\ last \in [count : Nat, us : Nat, ok : BOOLEAN]
             /\ last.count = n /\ last.us = x.us
             /\ last.ok /\ last.us > 0 =>
                  /\ r.clock = "fine" => last.us = last.count * r.unit
                  /\ r.clock = "ticks" =>
                       Apart(last.us, last.count * r.unit) <= StepSize
             /\ r.of = "memory" /\ last.us > 0 => last.ok
<1>1. /\ x.us \in Nat /\ x.wrapped \in BOOLEAN
      /\ ~x.wrapped /\ x.us > 0 =>
           /\ r.clock = "fine" => x.us = n * r.unit
           /\ r.clock = "ticks" => Apart(x.us, n * r.unit) <= StepSize
      /\ r.of = "memory" /\ x.wrapped => x.us = 0
  BY Reads
<1>2. CASE x.wrapped = TRUE
  <2>1. Made(n, x) = [count |-> n, us |-> x.us, ok |-> FALSE]
    BY <1>2 DEF Made
  <2>2. /\ Made(n, x) \in [count : Nat, us : Nat, ok : BOOLEAN]
        /\ Made(n, x).count = n /\ Made(n, x).us = x.us /\ ~Made(n, x).ok
    BY <1>1, <2>1
  <2>3. r.of = "memory" => ~(Made(n, x).us > 0)
    BY <1>1, <1>2, <2>2
  <2> QED
    BY <2>2, <2>3
<1>3. CASE x.wrapped = FALSE
  BY <1>1, <1>3 DEF Made
<1> QED
  BY <1>1, <1>2, <1>3

LEMMA LastBegins ==
  ASSUME NEW of \in {"flops", "memory"}, NEW c \in Clocks, NEW u \in Units, NEW r,
         r.of = of, r.clock = c, r.unit = u, NEW x \in Readings(r, 1),
         FirstRun(of, c, u, x)
  PROVE  LastInv'
<1>1. /\ run'.of = of /\ run'.clock = c /\ run'.unit = u
      /\ run'.last = Made(1, x) /\ run'.compared = FALSE
  BY DEF FirstRun, NoRun
<1>2. r.clock \in Clocks /\ r.unit \in Nat /\ 1 \in Nat
  BY BenchmarkAssumption
<1> QED
  BY <1>1, <1>2, LastMade DEF LastInv

\* The floor remembers the largest miss.
LEMMA LastConfirms == RunInv /\ LastInv /\ Confirm => LastInv'
<1> SUFFICES ASSUME RunInv, LastInv, Confirm PROVE LastInv'
  OBVIOUS
<1>1. /\ DOMAIN run = DOMAIN NoRun /\ run.us \in Nat /\ run.miss \in Nat
      /\ run.count \in Nat \ {0} /\ run.clock \in Clocks /\ run.unit \in Nat
  BY RunSteady DEF Confirm
<1> DEFINE half == IF run.count \div 2 > 0 THEN run.count \div 2 ELSE 1
<1>2. half \in Nat
  <2>1. run.count \in Nat /\ \A n \in Nat : n \div 2 \in Nat
    BY <1>1
  <2> QED
    BY <2>1
<1>3. PICK x \in Readings(run, half) :
        run' = [Raise(run, Apart(x.us, (run.us * half) \div run.count))
                  EXCEPT !.wrapped = @ \/ x.wrapped, !.last = Made(half, x)]
  BY DEF Confirm
<1> HIDE DEF half
<1> DEFINE m == Apart(x.us, (run.us * half) \div run.count)
<1>4. /\ Made(half, x) \in [count : Nat, us : Nat, ok : BOOLEAN]
      /\ Made(half, x).count = half /\ Made(half, x).us = x.us
      /\ Made(half, x).ok /\ Made(half, x).us > 0 =>
           /\ run.clock = "fine" => Made(half, x).us = Made(half, x).count * run.unit
           /\ run.clock = "ticks" =>
                Apart(Made(half, x).us, Made(half, x).count * run.unit) <= StepSize
      /\ run.of = "memory" /\ Made(half, x).us > 0 => Made(half, x).ok
  BY <1>1, <1>2, LastMade
<1>5. m \in Nat
  <2>1. (run.us * half) \div run.count \in Nat
    BY <1>1, <1>2, Numbers
  <2>2. x.us \in Nat
    BY <1>1, <1>2, Reads
  <2> QED
    BY <2>1, <2>2, Numbers
<1> HIDE DEF m
<1>6. \E w : run' = [Raise(run, m) EXCEPT !.wrapped = w, !.last = Made(half, x)]
  BY <1>3 DEF m
<1>7. /\ run'.of = run.of /\ run'.clock = run.clock /\ run'.unit = run.unit
      /\ run'.us = run.us /\ run'.count = run.count
      /\ run'.last = Made(half, x) /\ run'.miss = Larger(run.miss, m)
  BY <1>1, <1>6 DEF Raise, NoRun
<1>8. Apart(run'.last.us, (run'.us * run'.last.count) \div run'.count) <= run'.miss
  <2>1. Apart(run'.last.us, (run'.us * run'.last.count) \div run'.count) = m
    BY <1>4, <1>7 DEF m
  <2>2. m <= Larger(run.miss, m)
    BY <1>1, <1>5, Numbers
  <2> QED
    BY <1>7, <2>1, <2>2
<1> QED
  BY <1>1, <1>4, <1>7, <1>8 DEF LastInv

LEMMA LastGrows == RunInv /\ Grow => LastInv'
<1> SUFFICES ASSUME RunInv, Grow PROVE LastInv'
  OBVIOUS
<1>1. /\ DOMAIN run = DOMAIN NoRun /\ run.clock \in Clocks /\ run.unit \in Nat
      /\ run.us \in Nat /\ run.floor \in Nat /\ run.count \in Nat \ {0}
  BY RunSteady DEF Grow
<1>2. RunInv' /\ pc' = "steady"
  BY RunGrows, RunSteady DEF Grow
<1> DEFINE count == MoreWork(run)
<1>3. count \in Nat \ {0}
  <2>1. ~(run.count >= MaxCount)
    BY DEF Grow, Accepted
  <2>2. run.count < MaxCount
    BY <1>1, <2>1, FloorNat
  <2> QED
    BY <1>1, <2>2, WorkGrows
<1>4. PICK x \in Readings(run, count) :
        LET miss == Apart(x.us, (run.us * count) \div run.count)
            scaled == IF run.us > 0 THEN (miss * run.count) \div count ELSE miss
        IN  run' = [Raise(run, scaled)
                      EXCEPT !.count = count, !.us = x.us,
                             !.truth = count * run.unit, !.ok = ~x.wrapped,
                             !.wrapped = @ \/ x.wrapped,
                             !.last = Made(count, x)]
  BY DEF Grow
<1> HIDE DEF count
<1>5. \E m, t, o, w :
        run' = [Raise(run, m)
                  EXCEPT !.count = count, !.us = x.us, !.truth = t, !.ok = o,
                         !.wrapped = w, !.last = Made(count, x)]
  BY <1>4
<1>6. /\ run'.of = run.of /\ run'.clock = run.clock /\ run'.unit = run.unit
      /\ run'.us = x.us /\ run'.count = count /\ run'.last = Made(count, x)
  BY <1>1, <1>5 DEF Raise, NoRun
<1>7. /\ Made(count, x) \in [count : Nat, us : Nat, ok : BOOLEAN]
      /\ Made(count, x).count = count /\ Made(count, x).us = x.us
      /\ Made(count, x).ok /\ Made(count, x).us > 0 =>
           /\ run.clock = "fine" => Made(count, x).us = Made(count, x).count * run.unit
           /\ run.clock = "ticks" =>
                Apart(Made(count, x).us, Made(count, x).count * run.unit) <= StepSize
      /\ run.of = "memory" /\ Made(count, x).us > 0 => Made(count, x).ok
  BY <1>1, <1>3, LastMade
<1>8. Apart(run'.last.us, (run'.us * run'.last.count) \div run'.count) <= run'.miss
  <2>1. x.us \in Nat
    BY <1>7
  <2>2. (x.us * count) \div count = x.us
    <3>1. \A a \in Nat, b \in Nat \ {0} : (a * b) \div b = a
      OBVIOUS
    <3> QED
      BY <1>3, <2>1, <3>1
  <2>3. Apart(x.us, x.us) = 0
    BY <2>1 DEF Apart
  <2>4. run'.miss \in Nat
    BY <1>2, RunSteady DEF RunInv
  <2> QED
    BY <1>6, <1>7, <2>2, <2>3, <2>4
<1> QED
  BY <1>3, <1>6, <1>7, <1>8 DEF LastInv

LEMMA LastStepKeeps ==
  ASSUME RunInv, LastInv, [Next]_vars
  PROVE  LastInv'
<1>1. CASE run' = run
  BY <1>1 DEF LastInv
<1>2. CASE Return \/ MemoryRead
  BY <1>2, LastNone DEF Return, MemoryRead
<1>3. CASE Confirm \/ Grow
  BY <1>3, LastConfirms, LastGrows
<1>4. ASSUME NEW usable \in BOOLEAN, Flops(usable), run' # run
      PROVE  LastInv'
  <2>1. PICK c \in Clocks, u \in Units :
          \E x \in Readings([NoRun EXCEPT !.of = "flops", !.clock = c, !.unit = u], 1) :
            FirstRun("flops", c, u, x)
    BY <1>4 DEF Flops
  <2> DEFINE r == [NoRun EXCEPT !.of = "flops", !.clock = c, !.unit = u]
  <2>2. r.of = "flops" /\ r.clock = c /\ r.unit = u
    BY DEF NoRun
  <2>3. \E x \in Readings(r, 1) : FirstRun("flops", c, u, x)
    BY <2>1
  <2> HIDE DEF r
  <2> QED
    BY <2>2, <2>3, LastBegins
<1>5. CASE FirstPass
  <2>1. PICK c \in Clocks, u \in Units :
          \E x \in Readings([NoRun EXCEPT !.of = "memory", !.clock = c, !.unit = u], 1) :
            FirstRun("memory", c, u, x)
    BY <1>5 DEF FirstPass
  <2> DEFINE r == [NoRun EXCEPT !.of = "memory", !.clock = c, !.unit = u]
  <2>2. r.of = "memory" /\ r.clock = c /\ r.unit = u
    BY DEF NoRun
  <2>3. \E x \in Readings(r, 1) : FirstRun("memory", c, u, x)
    BY <2>1
  <2> HIDE DEF r
  <2> QED
    BY <2>2, <2>3, LastBegins
<1>6. BenchStep => \/ run' = run \/ MemoryRead \/ Confirm \/ Grow \/ FirstPass
                   \/ \E usable \in BOOLEAN : Flops(usable)
  BY DEF BenchStep, Accept, MemoryTests, Buffer, DisplayOff, Dhrystone, Legacy, Calibrate,
         Chunk, ScoreChunks, DhryPermit, benchVars
<1>7. Next => BenchStep \/ Return \/ run' = run
  BY DEF Next, Program, Environment, Call, benchVars
<1> QED
  BY <1>1, <1>2, <1>3, <1>4, <1>5, <1>6, <1>7 DEF vars, benchVars
-----------------------------------------------------------------------------
\* The buffer and the display, while memory is read and afterwards.
MemApart == mem' = mem /\ ~Reading /\ pc # "memory dma"

LEMMA MemIdle ==
  ASSUME MemInv, ~Reading
  PROVE  mem.dma = TRUE /\ (pc # "memory dma" => mem.buffer = FALSE)
  BY DEF MemInv

LEMMA MemFrame ==
  ASSUME MemInv, MemApart
  PROVE  MemInv'
<1>1. mem.dma = TRUE /\ mem.buffer = FALSE
  BY MemIdle DEF MemApart
<1> QED
  BY <1>1 DEF MemInv, MemApart

LEMMA RunOf ==
  ASSUME RunInv, Confirm \/ Grow
  PROVE  pc = "steady" /\ pc' = pc /\ mem' = mem /\ run'.of = run.of
<1>1. pc = "steady" /\ pc' = pc /\ mem' = mem
  BY DEF Confirm, Grow
<1>2. DOMAIN run = DOMAIN NoRun
  BY <1>1, RunSteady
<1>3. CASE Confirm
  BY <1>2, <1>3 DEF Confirm, Raise, NoRun
<1>4. CASE Grow
  BY <1>2, <1>4 DEF Grow, Raise, NoRun
<1> QED
  BY <1>1, <1>3, <1>4

LEMMA MemWorks == MemInv /\ RunInv /\ BenchStep => MemInv'
<1> SUFFICES ASSUME MemInv, RunInv, BenchStep PROVE MemInv'
  OBVIOUS
<1>0. /\ DOMAIN mem = {"test", "buffer", "dma", "saved", "live"}
      /\ mem.dma \in BOOLEAN /\ mem.saved \in BOOLEAN /\ mem.live \in BOOLEAN
      /\ mem.buffer \in BOOLEAN
  BY DEF MemInv
<1>1. CASE Confirm \/ Grow
  <2>1. Reading' = Reading
    BY <1>1, RunOf DEF Reading
  <2> QED
    BY <1>1, <2>1, RunOf DEF MemInv
<1>2. CASE Accept
  <2>1. /\ run' = run /\ mem' = mem /\ pc = "steady"
        /\ pc' = IF run.of = "flops" THEN "flops done" ELSE "memory read"
    BY <1>2 DEF Accept, benchVars
  <2>2. CASE run.of = "flops"
    <3>1. ~Reading
      BY <2>1, <2>2 DEF Reading
    <3> QED
      BY <2>1, <3>1, MemFrame DEF MemApart
  <2>3. CASE run.of # "flops"
    <3>1. Reading'
      BY <2>1, <2>3 DEF Reading
    <3> QED
      BY <2>1, <3>1 DEF MemInv
  <2> QED
    BY <2>2, <2>3
<1>3. ASSUME NEW usable \in BOOLEAN, Flops(usable)
      PROVE  MemInv'
  <2>1. MemApart
    BY <1>3 DEF Flops, MemApart, Reading
  <2> QED
    BY <2>1, MemFrame
<1>4. CASE MemoryTests
  <2>1. pc = "memory" /\ pc' \in {"memory done", "memory buffer"}
        /\ mem.dma = TRUE /\ mem.buffer = FALSE
    BY <1>4, MemIdle DEF MemoryTests, Reading
  <2>2. \E n : mem' = [mem EXCEPT !.test = n]
    BY <1>4 DEF MemoryTests
  <2>3. /\ DOMAIN mem' = DOMAIN mem /\ mem'.buffer = FALSE /\ mem'.dma = TRUE
        /\ mem'.saved = mem.saved /\ mem'.live = mem.live
    BY <1>0, <2>1, <2>2
  <2> QED
    BY <1>0, <2>3 DEF MemInv
<1>5. ASSUME NEW ok \in BOOLEAN, Buffer(ok)
      PROVE  MemInv'
  <2>1. pc = "memory buffer" /\ mem.dma = TRUE
    BY <1>5, MemIdle DEF Buffer, Reading
  <2>2. CASE ok /\ mem.test < 3
    <3>1. (ok /\ mem.test < 3) = TRUE
      BY <2>2
    <3>2. mem' = [mem EXCEPT !.buffer = TRUE]
      BY <1>5, <3>1 DEF Buffer
    <3>3. /\ DOMAIN mem' = DOMAIN mem /\ mem'.buffer = TRUE /\ mem'.dma = TRUE
          /\ mem'.saved = mem.saved /\ mem'.live = mem.live
      BY <1>0, <2>1, <3>2
    <3>4. pc' = "memory dma"
      BY <1>5, <2>2 DEF Buffer
    <3> QED
      BY <1>0, <3>3, <3>4 DEF MemInv
  <2>3. CASE ~(ok /\ mem.test < 3)
    <3>1. (ok /\ mem.test < 3) = FALSE
      BY <2>3
    <3>2. mem' = [mem EXCEPT !.buffer = FALSE]
      BY <1>5, <3>1 DEF Buffer
    <3>3. /\ DOMAIN mem' = DOMAIN mem /\ mem'.buffer = FALSE /\ mem'.dma = TRUE
          /\ mem'.saved = mem.saved /\ mem'.live = mem.live
      BY <1>0, <2>1, <3>2
    <3> QED
      BY <1>0, <3>3 DEF MemInv
  <2> QED
    BY <2>2, <2>3
<1>6. ASSUME NEW debug \in BOOLEAN, DisplayOff(debug)
      PROVE  MemInv'
  <2>1. pc = "memory dma" /\ pc' = "memory first" /\ mem.dma = TRUE
    BY <1>6, MemIdle DEF DisplayOff, Reading
  <2>2. Reading'
    BY <2>1 DEF Reading
  <2>3. \/ mem' = mem
        \/ mem' = [mem EXCEPT !.live = TRUE]
        \/ mem' = [mem EXCEPT !.saved = mem.dma, !.dma = FALSE, !.live = FALSE]
    BY <1>6 DEF DisplayOff
  <2>4. CASE mem' = mem
    BY <1>0, <2>1, <2>2, <2>4 DEF MemInv
  <2>5. CASE mem' = [mem EXCEPT !.live = TRUE]
    <3>1. /\ DOMAIN mem' = DOMAIN mem /\ mem'.buffer = mem.buffer /\ mem'.dma = TRUE
          /\ mem'.saved = mem.saved /\ mem'.live = TRUE
      BY <1>0, <2>1, <2>5
    <3> QED
      BY <1>0, <2>2, <3>1 DEF MemInv
  <2>6. CASE mem' = [mem EXCEPT !.saved = mem.dma, !.dma = FALSE, !.live = FALSE]
    <3>1. /\ DOMAIN mem' = DOMAIN mem /\ mem'.buffer = mem.buffer /\ mem'.dma = FALSE
          /\ mem'.saved = TRUE /\ mem'.live = FALSE
      BY <1>0, <2>1, <2>6
    <3> QED
      BY <1>0, <2>2, <3>1 DEF MemInv
  <2> QED
    BY <2>3, <2>4, <2>5, <2>6
<1>7. CASE FirstPass
  <2>1. mem' = mem /\ pc' \in {"memory read", "steady"} /\ pc = "memory first"
    BY <1>7 DEF FirstPass
  <2>2. run'.of = "memory"
    BY ZenonT(60), <1>7 DEF FirstPass, FirstRun, NoRun
  <2>3. Reading'
    BY <2>1, <2>2 DEF Reading
  <2> QED
    BY <2>1, <2>3 DEF MemInv
<1>8. CASE MemoryRead
  <2>1. CASE mem.live
    <3>1. mem' = mem /\ pc' = "memory dma" /\ mem.dma = TRUE
      BY <1>8, <2>1 DEF MemoryRead, MemInv
    <3> QED
      BY <1>0, <3>1 DEF MemInv
  <2>2. CASE ~mem.live
    <3>1. /\ pc = "memory read"
          /\ mem' = [mem EXCEPT !.buffer = FALSE, !.saved = FALSE, !.dma = @ \/ mem.saved]
      BY <1>8, <2>2 DEF MemoryRead, DisplayOn
    <3>2. (mem.dma \/ mem.saved) = TRUE
      BY DEF MemInv
    <3>3. mem' = [mem EXCEPT !.buffer = FALSE, !.saved = FALSE, !.dma = TRUE]
      BY <3>1, <3>2, Zenon
    <3>4. /\ DOMAIN mem' = DOMAIN mem /\ mem'.buffer = FALSE /\ mem'.dma = TRUE
          /\ mem'.saved = FALSE /\ mem'.live = mem.live
      BY <1>0, <3>3
    <3> QED
      BY <1>0, <3>4 DEF MemInv
  <2> QED
    BY <2>1, <2>2
<1>9. ASSUME NEW kind, NEW unit, Dhrystone(kind, unit)
      PROVE  MemInv'
  <2>1. MemApart
    BY <1>9 DEF Dhrystone, MemApart, Reading
  <2> QED
    BY <2>1, MemFrame
<1>10. ASSUME NEW elapsed, Legacy(elapsed)
      PROVE  MemInv'
  <2>1. MemApart
    BY <1>10 DEF Legacy, MemApart, Reading
  <2> QED
    BY <2>1, MemFrame
<1>11. ASSUME NEW valid \in BOOLEAN, Calibrate(valid)
      PROVE  MemInv'
  <2>1. MemApart
    BY <1>11 DEF Calibrate, MemApart, Reading
  <2> QED
    BY <2>1, MemFrame
<1>12. ASSUME NEW valid \in BOOLEAN, NEW delay, Chunk(valid, delay)
      PROVE  MemInv'
  <2>1. MemApart
    BY <1>12 DEF Chunk, MemApart, Reading
  <2> QED
    BY <2>1, MemFrame
<1>13. CASE ScoreChunks \/ DhryPermit
  <2>1. MemApart
    BY <1>13 DEF ScoreChunks, DhryPermit, Go, MemApart, Reading
  <2> QED
    BY <2>1, MemFrame
<1> QED
  BY <1>1, <1>2, <1>3, <1>4, <1>5, <1>6, <1>7, <1>8, <1>9, <1>10, <1>11, <1>12, <1>13
     DEF BenchStep

LEMMA MemStepKeeps ==
  ASSUME MemInv, RunInv, CallInv, [Next]_vars
  PROVE  MemInv'
<1>1. CASE Call
  <2>1. MemApart
    BY <1>1 DEF Call, benchVars, MemApart, Reading
  <2> QED
    BY <2>1, MemFrame
<1>2. CASE Return
  <2>1. MemApart
    BY <1>2 DEF Return, Finished, MemApart, Reading
  <2> QED
    BY <2>1, MemFrame
<1>3. CASE Keep /\ UNCHANGED <<benchVars, todo>>
  <2>1. MemApart
    BY <1>3, CallKeeps DEF KeepLabels, benchVars, MemApart, Reading
  <2> QED
    BY <2>1, MemFrame
<1>4. CASE (ClockStep \/ Client \/ FreqStep) /\ UNCHANGED benchVars
  <2>1. pc \in SpeedLabels
    BY <1>4, ClockPlaces, ClientPlaces, FreqPlaces DEF SpeedLabels, ClockLabels
  <2>2. MemApart
    BY <1>4, <2>1 DEF SpeedLabels, ClockLabels, FreqLabels, benchVars, MemApart, Reading
  <2> QED
    BY <2>2, MemFrame
<1>5. CASE (BusStep \/ RtcStep \/ OverlayStep) /\ UNCHANGED benchVars
  <2>1. MemApart
    BY <1>5, BusPlaces, RtcPlaces, OverlayPlaces
       DEF BusLabels, RtcLabels, OverlayLabels, benchVars, MemApart, Reading
  <2> QED
    BY <2>1, MemFrame
<1>6. CASE BenchStep
  BY <1>6, MemWorks
<1>7. CASE Environment \/ UNCHANGED vars
  <2>1. UNCHANGED <<pc, run, mem>>
    BY <1>7
       DEF Environment, OtherDriver, CountDown, Refresh, Reconfigure, RtcTick, RtcBusy,
           RtcWritten, ChangeSettings, vars, benchVars
  <2>2. Reading' = Reading
    BY <2>1 DEF Reading
  <2> QED
    BY <2>1, <2>2 DEF MemInv
<1> QED
  BY <1>1, <1>2, <1>3, <1>4, <1>5, <1>6, <1>7 DEF Next, Program
-----------------------------------------------------------------------------
\* The frequency: what is shown was measured under the settings beside it.
LEMMA FreqFrame ==
  ASSUME FreqInv, UNCHANGED freqVars, cpu.loop = None,
         pc' \notin FreqLabels \ {"cpu", "cpu done"}
  PROVE  FreqInv'
<1>1. pc' \notin {"config", "fpu", "fpu done"}
  BY DEF FreqLabels
<1>2. ~Timing /\ ~Timing'
  BY DEF Timing, freqVars, None
<1> HIDE DEF Timing
<1> QED
  BY <1>1, <1>2 DEF FreqInv, freqVars, None

\* The clock is looked for first; once it is given up, the rest only gives it back.
LEMMA ClockEnds ==
  ClockStep /\ pc \in {"release", "restore", "released"} => pc' \in {"restore", "released"}
  BY DEF ClockStep, Acquire, TryTimer, Borrow, Release, Restore, ReleaseEClock,
         StartWindow, ReadEClock, ReadHi, ReadLo, Compare, CheckExpiry, EndReading, Go

LEMMA ClockStarts ==
  ClockStep /\ pc' \in {"clock", "try", "borrow", "acquired"} =>
    pc \in {"clock", "try", "borrow"}
  BY DEF ClockStep, Acquire, TryTimer, Borrow, Release, Restore, ReleaseEClock,
         StartWindow, ReadEClock, ReadHi, ReadLo, Compare, CheckExpiry, EndReading, Go

LEMMA FreqClock ==
  ASSUME FreqInv, ClockStep \/ Client, UNCHANGED freqVars
  PROVE  FreqInv'
<1>1. CASE cpu.loop = None
  <2>1. pc' \notin FreqLabels \ {"cpu", "cpu done"}
    <3>1. CASE ClockStep
      BY <3>1, ClockPlaces DEF ClockLabels, FreqLabels
    <3>2. CASE Client
      BY <3>2 DEF Client, Go, FreqLabels
    <3> QED
      BY <3>1, <3>2
  <2> QED
    BY <1>1, <2>1, FreqFrame
<1>2. CASE cpu.loop # None
  <2>1. ClockStep /\ pc \in ClockLabels /\ pc' \in ClockLabels
    BY <1>2, ClockPlaces DEF Client
  <2>2. cpu.loop = "fpu" => pc \in {"release", "restore", "released"}
                            /\ pc' \in {"restore", "released"}
    <3>1. cpu.loop = "fpu" => pc \in {"release", "restore", "released"}
      BY <2>1 DEF FreqInv, ClockLabels
    <3> QED
      BY <2>1, <3>1, ClockEnds
  <2>3. ~Timing /\ ~Timing' /\ pc' \notin {"config", "fpu", "fpu done"}
        /\ pc' \notin FreqLabels
    BY <2>1 DEF ClockLabels, FreqLabels, Timing
  <2>4. pc' \in (ClockLabels \cup FreqLabels) \ {"cpu", "cpu done"}
    BY <2>1 DEF ClockLabels
  <2>5. ~cpu.fpcr
    BY <2>2 DEF FreqInv
  <2>6. cpu.loop = "cpu" /\ pc' \in {"clock", "try", "borrow", "acquired"} =>
          cpu.result = None
    BY <2>1, ClockStarts DEF FreqInv
  <2> QED
    BY <2>2, <2>3, <2>4, <2>5, <2>6 DEF FreqInv, freqVars
<1> QED
  BY <1>1, <1>2

LEMMA FreqChanges ==
  ASSUME FreqInv, ChangeSettings
  PROVE  FreqInv'
<1>1. PICK s \in Settings \ {settings.real} :
        settings' = [settings EXCEPT !.real = s, !.changed = Timing]
  BY DEF ChangeSettings
<1>2. UNCHANGED <<pc, cpu, previous, mhz>>
  BY DEF ChangeSettings
<1>3. Timing' = Timing /\ Timing \in BOOLEAN
  BY <1>2 DEF Timing
<1>4. /\ DOMAIN settings' = DOMAIN settings /\ settings'.shown = settings.shown
      /\ settings'.real = s /\ settings'.changed = Timing
  BY <1>1 DEF FreqInv
<1> HIDE DEF Timing
<1> QED
  BY ZenonT(60), <1>2, <1>3, <1>4 DEF FreqInv

LEMMA FreqMeasures == FreqInv /\ FreqStep => FreqInv'
<1> SUFFICES ASSUME FreqInv, FreqStep PROVE FreqInv'
  OBVIOUS
<1> USE DEF Go, FreqLabels, Timing
<1>0. /\ DOMAIN settings = {"real", "shown", "changed"} /\ DOMAIN cpu = DOMAIN NoCpu
      /\ DOMAIN previous = {"config", "mhz", "back"} /\ DOMAIN mhz = {"cpu", "fpu", "back"}
      /\ {settings.changed, previous.back, mhz.back} \subseteq BOOLEAN
  BY DEF FreqInv
<1>1. CASE Measure
  <2>1. /\ pc = "cpu" /\ pc' = "clock" /\ UNCHANGED <<settings, previous, mhz>>
        /\ cpu' = [NoCpu EXCEPT !.loop = "cpu"]
    BY <1>1 DEF Measure
  <2>2. cpu.loop = None
    BY <2>1 DEF FreqInv
  <2>3. DOMAIN cpu' = DOMAIN NoCpu /\ cpu'.loop = "cpu" /\ cpu'.fpcr = FALSE
        /\ cpu'.result = None
    BY <2>1 DEF NoCpu
  <2> QED
    BY <2>1, <2>2, <2>3 DEF FreqInv, ClockLabels, None
<1>2. CASE BeginBatch
  <2>1. /\ pc = "batch" /\ pc' \in {"calibrate", "loop"} /\ UNCHANGED <<settings, previous, mhz>>
        /\ cpu' = [cpu EXCEPT !.round = 0, !.triple = 0]
    BY <1>2 DEF BeginBatch
  <2>2. /\ DOMAIN cpu' = DOMAIN cpu /\ cpu'.loop = cpu.loop /\ cpu'.fpcr = cpu.fpcr
        /\ cpu'.config = cpu.config /\ cpu'.precise = cpu.precise /\ cpu'.result = cpu.result
    BY <1>0, <2>1 DEF NoCpu
  <2> QED
    BY <2>1, <2>2 DEF FreqInv
<1>3. ASSUME NEW mapped \in BOOLEAN, ReadConfig(mapped)
      PROVE  FreqInv'
  <2>1. /\ pc = "acquired" /\ cpu.loop = "cpu" /\ pc' \in {"batch", "config"} /\ mhz' = mhz
        /\ settings' = [settings EXCEPT !.shown = settings.real]
        /\ previous' = previous
           \/ previous' = [previous EXCEPT !.mhz = None, !.back = FALSE]
    BY <1>3 DEF ReadConfig, Forgotten
  <2>2. \E a : cpu' = [cpu EXCEPT !.precise = a,
                          !.config = [settings |-> settings.real, precise |-> a]]
    BY <1>3 DEF ReadConfig, Config
  <2>3. /\ DOMAIN cpu' = DOMAIN cpu /\ cpu'.loop = "cpu" /\ cpu'.fpcr = cpu.fpcr
        /\ cpu'.config = [settings |-> settings.real, precise |-> cpu'.precise]
        /\ cpu'.result = cpu.result /\ cpu'.config.settings = settings.real
    BY <1>0, <2>1, <2>2 DEF NoCpu
  <2>4. /\ DOMAIN settings' = DOMAIN settings /\ settings'.real = settings.real
        /\ settings'.changed = FALSE
    BY <1>0, <2>1 DEF FreqInv
  <2>5. /\ DOMAIN previous' = DOMAIN previous /\ previous'.back \in BOOLEAN
        /\ previous'.mhz # None =>
             previous'.mhz = previous'.config.settings \/ previous'.back = TRUE
    BY <1>0, <2>1 DEF FreqInv
  <2>6. ~cpu.fpcr
    BY <2>1 DEF FreqInv
  <2>7. cpu.result = None
    BY <2>1 DEF FreqInv
  <2>8. cpu'.config = [settings |-> cpu'.config.settings, precise |-> cpu'.precise]
    BY <2>3
  <2>9. /\ DOMAIN cpu' = DOMAIN NoCpu /\ cpu'.loop = "cpu" /\ ~cpu'.fpcr
        /\ cpu'.result = None /\ cpu'.config.settings = settings.real
    BY <1>0, <2>3, <2>6, <2>7
  <2>10. pc' \in {"batch", "config"} /\ mhz' = mhz
    BY <2>1
  <2>11. /\ DOMAIN settings' = {"real", "shown", "changed"}
         /\ DOMAIN previous' = {"config", "mhz", "back"}
         /\ DOMAIN mhz' = {"cpu", "fpu", "back"}
         /\ {settings'.changed, previous'.back, mhz'.back} \subseteq BOOLEAN
         /\ settings'.changed = FALSE
    BY <1>0, <2>4, <2>5, <2>10
  <2>12. settings'.real = cpu'.config.settings
    BY <2>4, <2>9
  <2>13. pc' \in (ClockLabels \cup FreqLabels) \ {"cpu", "cpu done"}
    BY <2>10
  <2> QED
    BY <2>5, <2>8, <2>9, <2>10, <2>11, <2>12, <2>13 DEF FreqInv, None
<1>4. ASSUME NEW valid \in BOOLEAN, CoarseLoop(valid) \/ Triple(valid)
      PROVE  FreqInv'
  <2>1. /\ pc \in {"loop", "triple"} /\ pc' \in {"triple", "batch end"}
        /\ UNCHANGED <<settings, previous, mhz>>
    BY <1>4 DEF CoarseLoop, Triple
  <2>2. \E r \in {settings.real, None} :
          \/ cpu' = [cpu EXCEPT !.result = r]
          \/ \E n : cpu' = [cpu EXCEPT !.triple = n, !.result = r]
    BY <1>4 DEF CoarseLoop, Triple
  <2>3. /\ DOMAIN cpu' = DOMAIN cpu /\ cpu'.loop = cpu.loop /\ cpu'.fpcr = cpu.fpcr
        /\ cpu'.config = cpu.config /\ cpu'.precise = cpu.precise
        /\ cpu'.result \in {settings.real, None}
    BY <1>0, <2>2 DEF NoCpu
  <2> QED
    BY <2>1, <2>3 DEF FreqInv
<1>5. ASSUME NEW valid \in BOOLEAN, NEW enough \in BOOLEAN, CalibrateLoop(valid, enough)
      PROVE  FreqInv'
  <2>1. /\ pc = "calibrate" /\ pc' \in {"batch end", "triple", "calibrate"}
        /\ UNCHANGED <<settings, previous, mhz>>
    BY <1>5 DEF CalibrateLoop
  <2>2. \E n : cpu' = [cpu EXCEPT !.round = n, !.result = None]
    BY <1>5 DEF CalibrateLoop
  <2>3. /\ DOMAIN cpu' = DOMAIN cpu /\ cpu'.loop = cpu.loop /\ cpu'.fpcr = cpu.fpcr
        /\ cpu'.config = cpu.config /\ cpu'.precise = cpu.precise /\ cpu'.result = None
    BY <1>0, <2>2 DEF NoCpu
  <2> QED
    BY <2>1, <2>3 DEF FreqInv
<1>6. ASSUME NEW enough \in BOOLEAN, EndBatch(enough)
      PROVE  FreqInv'
  <2>1. /\ pc = "batch end" /\ UNCHANGED <<settings, previous, mhz>>
        /\ pc' \in {"batch", IF cpu.loop = "cpu" THEN "config" ELSE "fpu done"}
    BY <1>6 DEF EndBatch
  <2>2. \E b, m : \/ cpu' = [cpu EXCEPT !.batch = b]
                  \/ cpu' = [cpu EXCEPT !.batch = b, !.mult = m]
                  \/ cpu' = [cpu EXCEPT !.result = IF enough THEN @ ELSE None]
    BY <1>6 DEF EndBatch
  <2>3. /\ DOMAIN cpu' = DOMAIN cpu /\ cpu'.loop = cpu.loop /\ cpu'.fpcr = cpu.fpcr
        /\ cpu'.config = cpu.config /\ cpu'.precise = cpu.precise
        /\ cpu'.result \in {cpu.result, None}
    BY <1>0, <2>2 DEF NoCpu
  <2>4. cpu.loop \in {"cpu", "fpu"}
    BY <2>1 DEF FreqInv
  <2> QED
    BY <2>1, <2>3, <2>4 DEF FreqInv
<1>7. CASE Conclude
  <2>1. /\ pc = "config" /\ pc' = "fpu" /\ cpu' = cpu
        /\ settings' = [settings EXCEPT !.shown = settings.real, !.changed = FALSE]
    BY <1>7 DEF Conclude
  <2>2. /\ DOMAIN settings' = DOMAIN settings /\ settings'.real = settings.real
        /\ settings'.shown = settings.real /\ settings'.changed = FALSE
    BY <1>0, <2>1
  <2>3. /\ cpu.loop = "cpu" /\ ~cpu.fpcr
        /\ cpu.config = [settings |-> cpu.config.settings, precise |-> cpu.precise]
        /\ settings.changed = FALSE /\ cpu.result # None =>
             cpu.result = settings.real
    BY <2>1 DEF FreqInv
  <2>4. Unchanged => settings.real = cpu.config.settings
    BY <2>3 DEF Unchanged, Config
  <2>5. /\ DOMAIN previous' = {"config", "mhz", "back"}
        /\ DOMAIN mhz' = {"cpu", "fpu", "back"}
        /\ previous'.back \in BOOLEAN /\ mhz'.back \in BOOLEAN
        /\ previous'.mhz # None =>
             previous'.mhz = previous'.config.settings \/ previous'.back = TRUE
        /\ mhz'.cpu # None => mhz'.cpu = settings.real \/ mhz'.back = TRUE
    <3>1. CASE ~Unchanged
      <4>1. /\ previous' = [previous EXCEPT !.mhz = None, !.back = FALSE]
            /\ mhz' = [mhz EXCEPT !.cpu = None, !.back = FALSE]
        BY <1>7, <3>1 DEF Conclude, Forgotten
      <4> QED
        BY <1>0, <4>1
    <3>2. CASE Unchanged /\ cpu.result # None
      <4>1. PICK back \in BOOLEAN : back = ChangedBack
        BY DEF ChangedBack
      <4>2. /\ previous' = [config |-> cpu.config, mhz |-> cpu.result, back |-> back]
            /\ mhz' = [mhz EXCEPT !.cpu = cpu.result, !.back = back]
        BY <1>7, <3>2, <4>1 DEF Conclude
      <4>3. cpu.result = settings.real \/ back = TRUE
        <5>1. CASE settings.changed = TRUE
          BY <2>4, <3>2, <4>1, <5>1 DEF ChangedBack
        <5>2. CASE settings.changed = FALSE
          BY <2>3, <3>2, <5>2
        <5> QED
          BY <1>0, <5>1, <5>2
      <4> QED
        BY <1>0, <2>4, <3>2, <4>2, <4>3
    <3>3. CASE Unchanged /\ cpu.result = None
      <4> DEFINE kept == previous.mhz # None /\ previous.config = cpu.config
      <4>1. /\ previous' = IF kept THEN previous
                           ELSE [previous EXCEPT !.mhz = None, !.back = FALSE]
            /\ mhz' = [mhz EXCEPT !.cpu = IF kept THEN previous.mhz ELSE None,
                                  !.back = kept /\ previous.back]
        BY <1>7, <3>3 DEF Conclude, Forgotten
      <4>2. previous.mhz # None =>
              previous.mhz = previous.config.settings \/ previous.back = TRUE
        BY DEF FreqInv
      <4>3. CASE kept
        <5>1. previous' = previous /\ mhz' = [mhz EXCEPT !.cpu = previous.mhz,
                                                        !.back = previous.back]
          BY <1>0, <4>1, <4>3
        <5> QED
          BY <1>0, <2>4, <3>3, <4>2, <4>3, <5>1
      <4>4. CASE ~kept
        <5>1. /\ previous' = [previous EXCEPT !.mhz = None, !.back = FALSE]
              /\ mhz' = [mhz EXCEPT !.cpu = None, !.back = FALSE]
          BY <4>1, <4>4
        <5> QED
          BY <1>0, <5>1
      <4> QED
        BY <4>3, <4>4
    <3> QED
      BY <3>1, <3>2, <3>3
  <2> QED
    BY <1>0, <2>1, <2>2, <2>3, <2>5 DEF FreqInv
<1>8. ASSUME NEW kind \in {"none", "integrated", "separate"}, Fpu(kind)
      PROVE  FreqInv'
  <2>1. /\ pc = "fpu" /\ UNCHANGED <<settings, previous>> /\ cpu.loop = "cpu" /\ ~cpu.fpcr
        /\ (mhz.cpu # None => mhz.cpu = settings.shown \/ mhz.back = TRUE)
        /\ settings.changed = FALSE
    BY <1>8 DEF Fpu, FreqInv
  <2>2. \E known : mhz' = [mhz EXCEPT !.fpu = known]
    BY <1>8 DEF Fpu
  <2>3. DOMAIN mhz' = DOMAIN mhz /\ mhz'.cpu = mhz.cpu /\ mhz'.back = mhz.back
    BY <1>0, <2>2
  <2>4. CASE kind = "separate"
    <3>1. /\ pc' = "batch"
          /\ cpu' = [NoCpu EXCEPT !.loop = "fpu", !.fpcr = TRUE, !.precise = cpu.precise]
      BY <1>8, <2>4 DEF Fpu
    <3>2. DOMAIN cpu' = DOMAIN NoCpu /\ cpu'.loop = "fpu"
      BY <3>1 DEF NoCpu
    <3> QED
      BY <2>1, <2>3, <3>1, <3>2 DEF FreqInv, None
  <2>5. CASE kind # "separate"
    <3>1. pc' = "release" /\ cpu' = cpu
      BY <1>8, <2>5 DEF Fpu
    <3> QED
      BY <2>1, <2>3, <3>1 DEF FreqInv, ClockLabels, None
  <2> QED
    BY <2>4, <2>5
<1>9. CASE FpuDone
  <2>1. /\ pc = "fpu done" /\ pc' = "release" /\ UNCHANGED <<settings, previous>>
        /\ cpu.loop = "fpu" /\ cpu' = [cpu EXCEPT !.fpcr = FALSE]
    BY <1>9 DEF FpuDone, FreqInv
  <2>2. \E known : mhz' = [mhz EXCEPT !.fpu = known]
    BY <1>9 DEF FpuDone
  <2>3. DOMAIN mhz' = DOMAIN mhz /\ mhz'.cpu = mhz.cpu /\ mhz'.back = mhz.back
    BY <1>0, <2>2
  <2>4. DOMAIN cpu' = DOMAIN cpu /\ cpu'.loop = "fpu" /\ cpu'.fpcr = FALSE
    BY <1>0, <2>1 DEF NoCpu
  <2> QED
    BY <2>1, <2>3, <2>4 DEF FreqInv, ClockLabels
<1>10. CASE EndMeasure
  <2>1. /\ pc = "released" /\ pc' = "cpu done" /\ UNCHANGED <<settings, previous, mhz>>
        /\ cpu' = NoCpu
    BY <1>10 DEF EndMeasure
  <2>2. DOMAIN cpu' = DOMAIN NoCpu /\ cpu'.loop = None /\ cpu'.fpcr = FALSE
    BY <2>1 DEF NoCpu
  <2> QED
    BY <2>1, <2>2 DEF FreqInv, None
<1> QED
  BY <1>1, <1>2, <1>3, <1>4, <1>5, <1>6, <1>7, <1>8, <1>9, <1>10 DEF FreqStep

LEMMA FreqStepKeeps ==
  ASSUME FreqInv, CallInv, [Next]_vars
  PROVE  FreqInv'
<1>1. CASE Call
  <2>1. pc = "idle" /\ pc' \in Calls /\ UNCHANGED freqVars
    BY <1>1, CallBegins DEF Call
  <2>2. cpu.loop = None
    BY <2>1 DEF FreqInv, ClockLabels, FreqLabels
  <2> QED
    BY <2>1, <2>2, FreqFrame DEF Calls, FreqLabels
<1>2. CASE Return
  <2>1. pc \in Finished /\ pc' = "idle" /\ UNCHANGED freqVars
    BY <1>2 DEF Return
  <2>2. cpu.loop = None
    BY <2>1 DEF FreqInv, ClockLabels, FreqLabels, Finished
  <2> QED
    BY <2>1, <2>2, FreqFrame DEF FreqLabels
<1>3. CASE Keep /\ UNCHANGED <<freqVars, todo>>
  <2>1. pc \in KeepLabels /\ pc' \in KeepLabels
    BY <1>3, CallKeeps
  <2>2. cpu.loop = None
    BY <2>1 DEF FreqInv, ClockLabels, FreqLabels, KeepLabels
  <2> QED
    BY <1>3, <2>1, <2>2, FreqFrame DEF FreqLabels, KeepLabels
<1>4. CASE (ClockStep \/ Client) /\ UNCHANGED freqVars
  BY <1>4, FreqClock
<1>5. CASE (BusStep \/ RtcStep \/ OverlayStep \/ BenchStep) /\ UNCHANGED freqVars
  <2>1. PICK L \in {BusLabels, RtcLabels, OverlayLabels, BenchLabels} :
          pc \in L /\ pc' \in L
    BY <1>5, BusPlaces, RtcPlaces, OverlayPlaces, BenchPlaces
  <2>2. pc \notin ClockLabels \cup FreqLabels /\ pc' \notin FreqLabels
    BY ZenonT(60), <2>1 DEF BusLabels, RtcLabels, OverlayLabels, BenchLabels, ClockLabels, FreqLabels
  <2>3. cpu.loop = None
    BY <2>2 DEF FreqInv
  <2> QED
    BY <1>5, <2>2, <2>3, FreqFrame
<1>6. CASE FreqStep
  BY <1>6, FreqMeasures
<1>7. CASE ChangeSettings
  BY <1>7, FreqChanges
<1>8. CASE UNCHANGED <<pc, freqVars>>
  <2>1. Timing' = Timing
    BY <1>8 DEF Timing, freqVars
  <2> QED
    BY ZenonT(60), <1>8, <2>1 DEF FreqInv, freqVars
<1>9. CASE Environment /\ ~ChangeSettings
  <2>1. UNCHANGED <<pc, freqVars>>
    BY <1>9
       DEF Environment, OtherDriver, CountDown, Refresh, Reconfigure, RtcTick, RtcBusy,
           RtcWritten
  <2> QED
    BY <1>8, <2>1
<1> QED
  BY <1>1, <1>2, <1>3, <1>4, <1>5, <1>6, <1>7, <1>8, <1>9 DEF Next, Program, vars
-----------------------------------------------------------------------------
\* The whole program.
LEMMA MeasureBegins == Init => MeasureInv
<1> SUFFICES ASSUME Init PROVE MeasureInv
  OBVIOUS
<1>1. PICK s \in Scenarios :
        todo = s.todo /\ RtcInit(s.kind, s.bank) /\ FreqInit(s.settings)
  BY DEF Init
<1>2. pc = "idle" /\ forbid = 0 /\ disabled = FALSE
  BY DEF Init, Free
<1>3. MaskInv
  BY <1>2 DEF MaskInv, Masked
<1>4. CallInv
  <2>1. /\ todo \in Seq(Calls) /\ Keeps(todo, 0)
        /\ \A i, j \in DOMAIN todo : todo[i] = "bus" /\ todo[j] = "bus" => i = j
    BY <1>1, ScenariosAssumption
  <2>2. Kept = 0
    BY <1>2 DEF Kept, Forbids
  <2> QED
    BY <1>2, <2>1, <2>2 DEF CallInv
<1>5. TimerInv
  <2>1. cia = [t \in 1 .. Len(Timers) |-> HostTimer] /\ clk = NoClock
    BY DEF Init, ClockInit
  <2>2. Len(Timers) \in Nat \ {0}
    BY ClockAssumption
  <2>3. 1 \in 1 .. Len(Timers)
    BY <2>2
  <2> QED
    BY <1>2, <2>1, <2>3 DEF TimerInv, Host, HostTimer, NoClock
<1>6. ReadInv
  <2>1. counter = 0 /\ clk = NoClock
    BY DEF Init, ClockInit
  <2>2. /\ clk.use = "none" /\ clk.value = -1 /\ clk.began = 0 /\ clk.hi = 0
        /\ clk.lo = 0
    BY <2>1 DEF NoClock
  <2>3. -1 \in Int /\ 0 \in Nat /\ 0 \in Int
    OBVIOUS
  <2> QED
    BY <2>1, <2>2, <2>3 DEF ReadInv
<1>7. BusInv
  BY <1>2 DEF Init, BusInit, BusInv, BusLabels, Writing, NoBus
<1>8. RtcInv
  BY <1>1, <1>2 DEF RtcInit, RtcInv, RtcLabels, Holding, NoLook
<1>9. OverlayInv
  BY <1>2 DEF Init, OverlayInit, OverlayInv, NoBackup
<1>10. RunInv
  <2>1. run = NoRun
    BY DEF Init, BenchInit
  <2>2. \A n \in Nat : 0 * n = 0
    OBVIOUS
  <2>3. 0 * Jitter = 0
    BY <2>2, FloorNat
  <2>4. /\ run.of = "none" /\ run.clock = "fine" /\ run.unit = 0 /\ run.count = 0
        /\ run.us = 0 /\ run.truth = 0 /\ run.floor = 0 /\ run.miss = 0
    BY <2>1 DEF NoRun
  <2>5. {run.us, run.truth, run.floor, run.miss, run.unit, run.count} \subseteq Nat
    BY <2>4
  <2>6. run.miss * Jitter <= run.floor /\ ~(run.us > 0)
    BY <2>3, <2>4
  <2> QED
    BY <1>2, <2>1, <2>4, <2>5, <2>6 DEF RunInv, Clocks
<1>11. MemInv
  BY <1>2 DEF Init, BenchInit, MemInv
<1>12. DhryInv
  <2>1. dhry = NoDhry
    BY DEF Init, BenchInit
  <2>2. /\ dhry.unit = 0 /\ dhry.loops = 0 /\ dhry.total = 0 /\ dhry.elapsed = 0
        /\ dhry.target = 0 /\ dhry.score = "none"
    BY <2>1 DEF NoDhry
  <2>3. {dhry.unit, dhry.loops, dhry.total, dhry.elapsed, dhry.target} \subseteq Nat
    BY <2>2
  <2> QED
    BY <1>2, <2>1, <2>2, <2>3 DEF DhryInv, DhrystoneWhole
<1>13. FreqInv
  <2>1. /\ DOMAIN settings = {"real", "shown", "changed"} /\ cpu = NoCpu
        /\ DOMAIN previous = {"config", "mhz", "back"} /\ previous.mhz = None
        /\ DOMAIN mhz = {"cpu", "fpu", "back"} /\ mhz.cpu = None
        /\ settings.changed = FALSE /\ previous.back = FALSE /\ mhz.back = FALSE
    BY <1>1 DEF FreqInit
  <2>2. cpu.loop = None /\ cpu.fpcr = FALSE
    BY <2>1 DEF NoCpu
  <2> QED
    BY <1>2, <2>1, <2>2 DEF FreqInv, FreqLabels, Timing, None
<1>14. LastInv
  <2>1. run.last = NoLast /\ run.compared = FALSE
    BY DEF Init, BenchInit, NoRun
  <2>2. run.last.us = 0 /\ run.last \in [count : Nat, us : Nat, ok : BOOLEAN]
    BY <2>1 DEF NoLast
  <2> QED
    BY <2>1, <2>2 DEF LastInv
<1> QED
  BY <1>3, <1>4, <1>5, <1>6, <1>7, <1>8, <1>9, <1>10, <1>11, <1>12, <1>13, <1>14
     DEF MeasureInv

LEMMA MeasureGoesOn == MeasureInv /\ [Next]_vars => MeasureInv'
<1> SUFFICES ASSUME MeasureInv, [Next]_vars PROVE MeasureInv'
  OBVIOUS
<1>1. /\ MaskInv /\ CallInv /\ TimerInv /\ ReadInv /\ BusInv /\ RtcInv /\ OverlayInv
      /\ RunInv /\ LastInv /\ MemInv /\ DhryInv /\ FreqInv
  BY DEF MeasureInv
<1>2. MaskInv' /\ CallInv'
  BY <1>1, MaskStep, CallStep
<1>3. TimerInv'
  BY <1>1, TimerStep
<1>4. ReadInv'
  BY <1>1, <1>3, ReadStep
<1>5. BusInv' /\ RtcInv' /\ OverlayInv'
  BY <1>1, BusStepKeeps, RtcStepKeeps, OverlayStepKeeps
<1>6. RunInv' /\ LastInv' /\ MemInv' /\ DhryInv' /\ FreqInv'
  BY <1>1, RunStepKeeps, LastStepKeeps, MemStepKeeps, DhryStepKeeps, FreqStepKeeps
<1> QED
  BY <1>2, <1>3, <1>4, <1>5, <1>6 DEF MeasureInv

LEMMA MeasureAlways == Spec => []MeasureInv
  BY MeasureBegins, MeasureGoesOn, PTL DEF Spec
-----------------------------------------------------------------------------
\* Between two measurements the masks, the timers of the CIA chips, the refresh
\* period of RAMSEY, the control bits of the clock chip, the display DMA, the
\* buffers, the overlay and the FPCR are as they were before, on every path
\* through probeclock.c, busclock.c, clock.c, gui.c and benchmark.c.
THEOREM BorrowedGivenBack == Spec => []GivenBack
<1>1. MeasureInv => GivenBack
  <2> SUFFICES ASSUME MeasureInv PROVE GivenBack
    OBVIOUS
  <2>1. /\ MaskInv /\ CallInv /\ TimerInv /\ BusInv /\ RtcInv /\ OverlayInv
        /\ MemInv /\ FreqInv
    BY DEF MeasureInv
  <2>2. ~disabled => pc \notin Masked
    BY <2>1 DEF MaskInv
  <2>3. SharedKept
    <3>1. ~disabled => pc # "borrow"
      BY <2>2 DEF Masked
    <3> QED
      BY <2>1, <3>1 DEF TimerInv, Host, SharedKept, Acquired
  <2>4. OverlayFreed
    BY <2>1 DEF OverlayInv, OverlayFreed
  <2>5. RefreshRestored
    <3>1. ~disabled => pc \notin Writing
      BY <2>2 DEF Masked, Writing
    <3> QED
      BY <2>1, <3>1 DEF BusInv, RefreshRestored
  <2>6. ASSUME pc = "idle"
        PROVE  /\ ~disabled /\ ~rtc.hold /\ rtc.bank = rtc.found
               /\ mem.dma /\ ~mem.buffer /\ ~cpu.fpcr
    <3>1. ~disabled
      BY <2>1, <2>6 DEF MaskInv, Masked
    <3>2. ~rtc.hold /\ rtc.bank = rtc.found
      BY <2>1, <2>6 DEF RtcInv, Holding
    <3>3. mem.dma /\ ~mem.buffer
      BY <2>1, <2>6 DEF MemInv, Reading
    <3>4. ~cpu.fpcr
      BY <2>1, <2>6 DEF FreqInv
    <3> QED
      BY <3>1, <3>2, <3>3, <3>4
  <2>7. ASSUME pc = "idle", todo = <<>>
        PROVE  Free
    <3>1. Kept = forbid /\ Keeps(<<>>, Kept)
      BY <2>1, <2>7 DEF CallInv, Kept, Forbids
    <3>2. forbid = 0
      BY <3>1, KeepsNothing
    <3>3. disabled = FALSE
      BY <2>1, <2>7 DEF MaskInv, Masked
    <3> QED
      BY <3>2, <3>3 DEF Free
  <2> QED
    BY <2>3, <2>4, <2>5, <2>6, <2>7 DEF GivenBack
<1> QED
  BY <1>1, MeasureAlways, PTL

\* What is read byte by byte from a counter that runs (probeclock.c) or from a
\* clock chip (clock.c) is what it held at one moment of the reading.
THEOREM ReadingsWhole == Spec => []NotTorn
<1>1. MeasureInv => NotTorn
  <2> SUFFICES ASSUME MeasureInv PROVE NotTorn
    OBVIOUS
  <2>1. ReadInv /\ RtcInv
    BY DEF MeasureInv
  <2>2. ReadingReal
    BY <2>1 DEF ReadInv, ReadingReal
  <2>3. TimeNotTorn
    <3>1. look.from \in look.from .. rtc.at
      <4>1. look.from \in Nat /\ rtc.at \in Nat /\ look.from <= rtc.at
        BY <2>1 DEF RtcInv
      <4> QED
        BY <4>1
    <3> QED
      BY <2>1, <3>1 DEF RtcInv, TimeNotTorn, DateOf
  <2> QED
    BY <2>2, <2>3 DEF NotTorn
<1> QED
  BY <1>1, MeasureAlways, PTL

\* A time is near the truth when it is off by no more than a step of a clock that
\* declares its steps.
LEMMA Precise ==
  ASSUME NEW d \in Nat, NEW us \in Nat, NEW clock \in {"fine", "ticks"},
         ClockFloor(clock) <= us, clock = "fine" => d = 0,
         clock = "ticks" => d <= StepSize
  PROVE  d * Jitter <= us
<1>1. CASE clock = "fine"
  <2>1. \A n \in Nat : 0 * n = 0
    OBVIOUS
  <2>2. d * Jitter = 0
    BY <1>1, <2>1, FloorNat
  <2> QED
    BY <2>2
<1>2. CASE clock = "ticks"
  <2>1. \A a, b, c \in Nat : a <= b => a * c \in Nat /\ b * c \in Nat /\ a * c <= b * c
    OBVIOUS
  <2>2. d * Jitter \in Nat /\ StepSize * Jitter \in Nat /\ d * Jitter <= StepSize * Jitter
    BY <1>2, <2>1, FloorNat
  <2>3. ClockFloor("ticks") >= StepSize * Jitter /\ ClockFloor("ticks") \in Nat
    BY FloorNat DEF Clocks
  <2> QED
    BY <1>2, <2>2, <2>3
<1> QED
  BY <1>1, <1>2

\* What run_until_steady accepts for its length is as near to the truth, and to
\* the run whose speed is given, as JITTER_FACTOR asks, a memory speed never comes
\* from a clock that wrapped, and a score of Dhrystone is of the work of one
\* attempt.
THEOREM NumbersTrusted == Spec => []Trusted
<1>1. MeasureInv => Trusted
  <2> SUFFICES ASSUME MeasureInv PROVE Trusted
    OBVIOUS
  <2>1. RunInv /\ LastInv /\ DhryInv
    BY DEF MeasureInv
  <2>2. NoWrappedSpeed
    BY <2>1 DEF RunInv, LastInv, NoWrappedSpeed
  <2>3. DhrystoneWhole
    BY <2>1 DEF DhryInv
  <2>4. ASSUME pc \in {"flops done", "memory read"}, run.us < RunCap,
               run.count < MaxCount, run.compared
        PROVE  /\ run.miss * Jitter <= run.us
               /\ Apart(run.last.us, (run.us * run.last.count) \div run.count) * Jitter
                    <= run.us
               /\ run.clock \in {"fine", "ticks"} =>
                    /\ run.ok => Apart(run.us, run.truth) * Jitter <= run.us
                    /\ run.last.ok /\ run.last.us > 0 =>
                         Apart(run.last.us, run.last.count * run.unit) * Jitter <= run.us
    <3>1. /\ run.us \in Nat /\ run.truth \in Nat /\ run.floor \in Nat /\ run.miss \in Nat
          /\ run.count \in Nat /\ run.unit \in Nat /\ run.clock \in Clocks
      BY <2>1 DEF RunInv
    <3>2. run.floor >= ClockFloor(run.clock) /\ Accepted(run)
          /\ run.miss * Jitter <= run.floor
      BY <2>1, <2>4 DEF RunInv
    <3>3. run.us >= run.floor
      <4>1. ~(run.us >= RunCap) /\ ~(run.count >= MaxCount)
        <5>1. RunCap \in Nat /\ MaxCount \in Nat
          BY FloorNat
        <5>2. run.us \in Nat /\ run.count \in Nat
          BY <3>1
        <5>3. run.us < RunCap /\ run.count < MaxCount
          BY <2>4
        <5> QED
          BY <5>1, <5>2, <5>3
      <4> QED
        BY <3>2, <4>1 DEF Accepted
    <3>4. run.miss * Jitter \in Nat
      BY <3>1, FloorNat, Numbers
    <3>5. run.miss * Jitter <= run.us
      BY <3>1, <3>2, <3>3, <3>4
    <3>6. run.us > 0 /\ ClockFloor(run.clock) <= run.us
      BY <3>1, <3>2, <3>3, FloorNat
    <3>7. ASSUME run.ok, run.clock \in {"fine", "ticks"}
          PROVE  Apart(run.us, run.truth) * Jitter <= run.us
      <4>1. /\ run.clock = "fine" => run.us = run.truth
            /\ run.clock = "ticks" => Apart(run.us, run.truth) <= StepSize
        BY <2>1, <3>6, <3>7 DEF RunInv, Off
      <4>2. Apart(run.us, run.truth) \in Nat
            /\ (run.us = run.truth => Apart(run.us, run.truth) = 0)
        <5>1. \A a, b \in Nat : Apart(a, b) \in Nat /\ (a = b => Apart(a, b) = 0)
          BY DEF Apart
        <5> QED
          BY <3>1, <5>1
      <4> QED
        BY <3>1, <3>6, <3>7, <4>1, <4>2, Precise
    <3> DEFINE last == run.last
    <3>8. /\ last.us \in Nat /\ last.count \in Nat /\ run.count > 0
          /\ Apart(last.us, (run.us * last.count) \div run.count) <= run.miss
      BY <2>1, <2>4 DEF LastInv
    <3>9. Apart(last.us, (run.us * last.count) \div run.count) * Jitter <= run.us
      <4>1. \A a, b, c, d \in Nat : a <= b /\ b * c <= d => a * c <= d
        <5>1. \A a, b, c \in Nat : a <= b => a * c \in Nat /\ b * c \in Nat /\ a * c <= b * c
          OBVIOUS
        <5> QED
          BY <5>1
      <4>2. Apart(last.us, (run.us * last.count) \div run.count) \in Nat
        <5>1. run.count \in Nat \ {0}
          BY <3>1, <3>8
        <5>2. (run.us * last.count) \div run.count \in Nat
          BY <3>1, <3>8, <5>1, Numbers
        <5> QED
          BY <3>8, <5>2, Numbers
      <4> QED
        BY <3>1, <3>5, <3>8, <4>1, <4>2, FloorNat
    <3>10. ASSUME last.ok, last.us > 0, run.clock \in {"fine", "ticks"}
           PROVE  Apart(last.us, last.count * run.unit) * Jitter <= run.us
      <4>1. /\ run.clock = "fine" => last.us = last.count * run.unit
            /\ run.clock = "ticks" => Apart(last.us, last.count * run.unit) <= StepSize
        BY <2>1, <3>10 DEF LastInv
      <4>2. last.count * run.unit \in Nat
        BY <3>1, <3>8, Numbers
      <4>3. \A a, b \in Nat : Apart(a, b) \in Nat /\ (a = b => Apart(a, b) = 0)
        BY DEF Apart
      <4> HIDE DEF last
      <4> QED
        BY <3>1, <3>6, <3>8, <3>10, <4>1, <4>2, <4>3, Precise
    <3> QED
      BY <3>5, <3>7, <3>9, <3>10
  <2>5. SteadyRun
    BY <2>4 DEF SteadyRun
  <2> QED
    BY <2>2, <2>3, <2>5 DEF Trusted
<1> QED
  BY <1>1, MeasureAlways, PTL

\* The frequency that a measurement leaves was measured under the settings it
\* leaves beside it, whenever another task changes them, unless they were changed
\* and changed back between the two comparisons (benchmark.c 1544-1570).
THEOREM SpeedStaysCurrent == Spec => []SpeedCurrent
<1>1. MeasureInv => SpeedCurrent
  BY DEF MeasureInv, FreqInv, SpeedCurrent, Timing
<1> QED
  BY <1>1, MeasureAlways, PTL
=============================================================================
