----------------------------- MODULE Benchmark ------------------------------
(***************************************************************************)
(* The benchmarks of benchmark.c that time a growing amount of work:       *)
(* Dhrystone in chunks, MFLOPS and the reading of memory, the last two     *)
(* through run_until_steady, which asks for more work until the time of a  *)
(* run is long against the steps of the clock.  A clock may be fine, may   *)
(* tick at the rate it declares (the 24-bit time of day of Kickstart 1.3,  *)
(* which also wraps), may jump by steps it does not declare (an emulator)  *)
(* or may stand still.                                                     *)
(*                                                                         *)
(* Time is counted in units of the fine clock; a timed run, Forbid and     *)
(* Permit around it included, is one step.                                 *)
(***************************************************************************)
EXTENDS Task

CONSTANTS
  Jitter,      \* JITTER_FACTOR: 25
  RunCap,      \* RUN_CAP_US
  Floor,       \* MIN_FLOP_MEASURE and MEM_SPEED_TARGET_US
  MaxCount,    \* FLOPS_BASE_LOOPS * MAX_MULTIPLY, MEM_SPEED_MAX_ITERATIONS
  StepSize,    \* the step of a coarse clock
  Units,       \* the times a unit of work may take
  SlowTime,    \* a first pass as long as this is below MEM_SPEED_FAST_THRESHOLD
  MaxLoops,    \* max_loops of Dhrystone
  MaxChunks,   \* max_chunks
  ChunkLimit,  \* limit_ticks
  ChunkTarget, \* target_ticks
  ChunkGoal    \* goal_ticks

ASSUME BenchmarkAssumption ==
  /\ {Jitter, StepSize, Floor} \subseteq Nat \ {0}
  /\ {RunCap, MaxCount, SlowTime} \subseteq Nat
  /\ Units \subseteq Nat \ {0}
  /\ {MaxLoops, MaxChunks} \subseteq Nat \ {0}
  /\ {ChunkLimit, ChunkTarget, ChunkGoal} \subseteq Nat

VARIABLES
  run,      \* the locals of run_until_steady and the clock it reads
  mem,      \* the memory test in progress, its buffer, the display DMA
  dhry      \* the locals of run_dhrystone_chunks

benchVars == <<run, mem, dhry>>

Clocks == {"fine", "ticks", "jumps", "still"}

\* last: what the speed of memory is computed from, the run made last.
NoLast == [count |-> 0, us |-> 0, ok |-> FALSE]
NoRun == [of |-> "none", clock |-> "fine", unit |-> 0, count |-> 0, us |-> 0,
          truth |-> 0, floor |-> 0, compared |-> FALSE, miss |-> 0,
          wrapped |-> FALSE, ok |-> FALSE, last |-> NoLast]
NoDhry == [unit |-> 0, loops |-> 0, ticks |-> 0, attempt |-> 0, chunks |-> 0,
           total |-> 0, elapsed |-> 0, target |-> 0, restarts |-> 0,
           score |-> "none"]

BenchInit ==
  /\ run = NoRun
  /\ mem = [test |-> 0, buffer |-> FALSE, dma |-> TRUE, saved |-> FALSE,
            live |-> FALSE]
  /\ dhry = NoDhry

Larger(a, b) == IF a > b THEN a ELSE b
Smaller(a, b) == IF a < b THEN a ELSE b
Apart(a, b) == IF a > b THEN a - b ELSE b - a
-----------------------------------------------------------------------------
\* What the clock shows of a run of time t, by the phase it began in.
Shows(clock, t) ==
  IF clock = "fine" THEN {t}
  ELSE IF clock = "still" THEN {0}
  ELSE {StepSize * (t \div StepSize),
        StepSize * ((t + StepSize - 1) \div StepSize)}

\* The 24-bit counter wraps within at most one run; flops_run then returns any
\* ULONG at all.
Garbage == {0, Floor * StepSize * Jitter, RunCap}

\* Mutant: a clock that ran backwards is not rejected.
BugRejects(of) == FALSE

\* measure_mem_read_speed_once rejects a clock that ran backwards.
Rejects(of) == of = "memory"

Readings(r, count) ==
  {[us |-> us, wrapped |-> FALSE] : us \in Shows(r.clock, count * r.unit)}
  \cup (IF r.of = "memory" THEN {[us |-> 0, wrapped |-> FALSE]} ELSE {})
  \cup (IF r.clock # "ticks" \/ r.wrapped THEN {}
        ELSE {[us |-> us, wrapped |-> TRUE] :
                us \in IF Rejects(r.of) THEN {0} ELSE Garbage})

\* clock_floor_us: the frequency a clock declares is its resolution.
ClockFloor(clock) ==
  IF clock = "ticks" THEN Larger(Floor, StepSize * Jitter) ELSE Floor

\* Mutant: any run that was compared is accepted.
BugAccepted(r) == r.compared \/ r.us >= RunCap \/ r.count >= MaxCount

Accepted(r) ==
  \/ r.compared /\ r.us >= r.floor
  \/ r.us >= RunCap
  \/ r.count >= MaxCount

\* mem_run leaves the speed of every run it makes in m->speed, the reading that
\* failed included.
Made(count, x) == [count |-> count, us |-> x.us, ok |-> ~x.wrapped]

\* run_until_steady is called with the time of a first run.
FirstRun(of, clock, unit, x) ==
  run' = [NoRun EXCEPT !.of = of, !.clock = clock, !.unit = unit, !.count = 1,
            !.us = x.us, !.wrapped = x.wrapped, !.ok = ~x.wrapped,
            !.truth = unit, !.floor = ClockFloor(clock), !.last = Made(1, x)]

\* The floor follows the steps of the clock seen so far.
Raise(r, miss) ==
  [r EXCEPT !.compared = TRUE, !.miss = Larger(@, miss),
            !.floor = Larger(@, miss * Jitter)]

\* A long enough run is checked against one of half the work, whose speed
\* replaces that of the run itself ...
Confirm ==
  /\ pc = "steady" /\ ~Accepted(run) /\ run.us >= run.floor
  /\ LET half == IF run.count \div 2 > 0 THEN run.count \div 2 ELSE 1
     IN  \E x \in Readings(run, half) :
           run' = [Raise(run, Apart(x.us, (run.us * half) \div run.count))
                     EXCEPT !.wrapped = @ \/ x.wrapped, !.last = Made(half, x)]
  /\ UNCHANGED <<pc, masks, mem, dhry>>

\* Mutant: the next run need not be longer than the last.
BugMoreWork(r) ==
  Smaller(MaxCount, IF r.us > 0 THEN (r.count * r.floor) \div r.us ELSE r.count)

\* One run past the floor, at least twice the work.
MoreWork(r) ==
  Smaller(MaxCount,
          Larger(2 * r.count,
                 IF r.us > 0 THEN (r.count * r.floor) \div r.us + r.count ELSE 0))

\* ... and a short one followed by a longer, whose miss is scaled back.
Grow ==
  /\ pc = "steady" /\ ~Accepted(run) /\ run.us < run.floor
  /\ LET count == MoreWork(run)
     IN  \E x \in Readings(run, count) :
           LET miss == Apart(x.us, (run.us * count) \div run.count)
               scaled == IF run.us > 0 THEN (miss * run.count) \div count
                         ELSE miss
           IN  run' = [Raise(run, scaled)
                         EXCEPT !.count = count, !.us = x.us,
                                !.truth = count * run.unit, !.ok = ~x.wrapped,
                                !.wrapped = @ \/ x.wrapped,
                                !.last = Made(count, x)]
  /\ UNCHANGED <<pc, masks, mem, dhry>>

Accept ==
  /\ pc = "steady" /\ Accepted(run)
  /\ pc' = IF run.of = "flops" THEN "flops done" ELSE "memory read"
  /\ UNCHANGED <<masks, benchVars>>
-----------------------------------------------------------------------------
\* run_mflops_benchmark; usable: there is an FPU, of a known type, enabled.
Flops(usable) ==
  /\ pc = "flops"
  /\ IF usable
     THEN /\ pc' = "steady"
          /\ \E c \in Clocks, u \in Units :
               \E x \in Readings([NoRun EXCEPT !.of = "flops", !.clock = c,
                                   !.unit = u], 1) :
                 FirstRun("flops", c, u, x)
     ELSE pc' = "flops done" /\ UNCHANGED run
  /\ UNCHANGED <<masks, mem, dhry>>

\* run_memory_speed_tests: chip and fast memory in a buffer, then the ROM.
MemoryTests ==
  /\ pc = "memory"
  /\ pc' = IF mem.test = 3 THEN "memory done" ELSE "memory buffer"
  /\ mem' = [mem EXCEPT !.test = IF @ = 3 THEN 0 ELSE @ + 1]
  /\ UNCHANGED <<masks, run, dhry>>

\* test_ram_speed: without a buffer the speed is 0.
Buffer(ok) ==
  /\ pc = "memory buffer"
  /\ pc' = IF ok THEN "memory dma" ELSE "memory"
  /\ mem' = [mem EXCEPT !.buffer = ok /\ mem.test < 3]
  /\ UNCHANGED <<masks, run, dhry>>

\* measure_mem_read_speed: chip memory is read with the DMA of the display off;
\* with debugging on it is first read with it on.
DisplayOff(debug) ==
  /\ pc = "memory dma"
  /\ mem' = IF mem.test # 1 THEN mem
            ELSE IF debug /\ ~mem.live THEN [mem EXCEPT !.live = TRUE]
            ELSE [mem EXCEPT !.saved = mem.dma, !.dma = FALSE, !.live = FALSE]
  /\ pc' = "memory first"
  /\ UNCHANGED <<masks, run, dhry>>

\* measure_mem_read_speed_now: a slow first pass is long enough by itself.
FirstPass ==
  /\ pc = "memory first"
  /\ \E c \in Clocks, u \in Units :
       \E x \in Readings([NoRun EXCEPT !.of = "memory", !.clock = c, !.unit = u],
                         1) :
         /\ FirstRun("memory", c, u, x)
         /\ pc' = IF x.us >= SlowTime THEN "memory read" ELSE "steady"
  /\ UNCHANGED <<masks, mem, dhry>>

\* Mutant: the DMA is switched on again only after a reading that succeeded.
BugDisplayOn == run.us > 0

DisplayOn == TRUE

\* The DMA that was on comes back, the buffer is freed.
MemoryRead ==
  /\ pc = "memory read"
  /\ IF mem.live
     THEN pc' = "memory dma" /\ UNCHANGED mem
     ELSE /\ pc' = "memory"
          /\ mem' = [mem EXCEPT !.buffer = FALSE, !.saved = FALSE,
                       !.dma = IF DisplayOn THEN @ \/ mem.saved ELSE @]
  /\ run' = NoRun
  /\ UNCHANGED <<masks, dhry>>
-----------------------------------------------------------------------------
\* run_dhrystone times chunks by the E-clock, with Forbid over the whole
\* (run_dhrystone_chunks), or whole runs by the clock of Kickstart 1.3; none:
\* no clock or no memory for the records.  A unit of 0 is a clock that stands.
Dhrystone(kind, unit) ==
  /\ pc = "dhrystone"
  /\ \/ kind = "none" /\ pc' = "dhrystone done" /\ UNCHANGED forbid
     \/ kind = "legacy" /\ pc' = "dhry legacy" /\ UNCHANGED forbid
     \/ kind = "chunks" /\ pc' = "dhry calibrate" /\ forbid' = forbid + 1
  /\ dhry' = [NoDhry EXCEPT !.unit = unit, !.loops = 1, !.target = ChunkTarget]
  /\ UNCHANGED <<disabled, run, mem>>

Fail == pc' = "dhry permit" /\ UNCHANGED dhry

\* Up to six samples with interrupts enabled size the first chunk.
\* valid: dhrystone_sample found the E-clock consistent.
Calibrate(valid) ==
  /\ pc = "dhry calibrate"
  /\ LET ticks == dhry.loops * dhry.unit
         enough == \/ ticks > 0 /\ (2 * ticks >= ChunkTarget \/ dhry.attempt >= 2)
                   \/ dhry.loops = MaxLoops
         more == IF ticks > 0 THEN (dhry.loops * ChunkTarget) \div (2 * ticks) + 1
                 ELSE 16 * dhry.loops
     IN  \/ ~valid /\ Fail
         \/ /\ valid /\ ~enough /\ dhry.attempt < 5
            /\ dhry' = [dhry EXCEPT !.loops = Smaller(MaxLoops, more),
                                    !.attempt = @ + 1]
            /\ UNCHANGED pc
         \/ /\ valid /\ (enough \/ dhry.attempt = 5)
            /\ IF ticks = 0 \/ ticks >= dhry.loops * ChunkLimit THEN Fail
               ELSE /\ dhry' = [dhry EXCEPT !.loops =
                         Larger(1, Smaller(MaxLoops,
                                           (@ * ChunkTarget) \div ticks))]
                    /\ pc' = "dhry chunk"
  /\ UNCHANGED <<masks, run, mem>>

More == /\ dhry.elapsed < ChunkGoal /\ dhry.total < MaxLoops
        /\ dhry.chunks < MaxChunks

\* Mutant: an attempt that starts over keeps the work done before.
BugStartOver(d) == [d EXCEPT !.elapsed = 0, !.chunks = 0]

StartOver(d) == [d EXCEPT !.elapsed = 0, !.chunks = 0, !.total = 0]

\* A chunk, with interrupts disabled; delay: what the host took away from it.
Chunk(valid, delay) ==
  /\ pc = "dhry chunk" /\ More
  /\ LET loops == Smaller(dhry.loops, MaxLoops - dhry.total)
         ticks == loops * dhry.unit + delay
     IN  \/ ~valid /\ Fail
         \/ /\ valid /\ ticks >= ChunkLimit
            /\ IF dhry.restarts < 2 /\ loops > 1 /\ dhry.target > 1
               THEN /\ dhry' = [StartOver(dhry) EXCEPT !.restarts = @ + 1,
                                  !.target = @ \div 2, !.loops = loops \div 2]
                    /\ UNCHANGED pc
               ELSE Fail
         \/ /\ valid /\ ticks < ChunkLimit
            /\ dhry' = [dhry EXCEPT !.total = @ + loops, !.elapsed = @ + ticks,
                 !.chunks = @ + 1,
                 !.loops = Larger(1, Smaller(MaxLoops, Smaller(2 * loops,
                             IF ticks > 0 THEN (loops * dhry.target) \div ticks
                             ELSE 2 * loops)))]
            /\ UNCHANGED pc
  /\ UNCHANGED <<masks, run, mem>>

\* The totals give a score, unless the chunks ran out first.
ScoreChunks ==
  /\ pc = "dhry chunk" /\ ~More
  /\ pc' = "dhry permit"
  /\ dhry' = [dhry EXCEPT !.score =
       IF dhry.elapsed = 0 \/ (dhry.chunks = MaxChunks
                               /\ dhry.elapsed < ChunkGoal
                               /\ dhry.total < MaxLoops)
       THEN "none" ELSE "score"]
  /\ UNCHANGED <<masks, run, mem>>

DhryPermit ==
  /\ Go("dhry permit", "dhrystone done")
  /\ forbid' = forbid - 1
  /\ UNCHANGED <<disabled, run, mem, dhry>>

\* Without an E-clock: up to three runs, each long enough to last the goal by
\* the one before it.  Another run is sized even after the third, so that its
\* score is of loops that were not timed.
Legacy(elapsed) ==
  /\ pc = "dhry legacy"
  /\ LET loops == dhry.loops
         longer == IF elapsed = 0 THEN 16 * loops
                   ELSE Larger(loops + 1, (ChunkGoal * loops) \div elapsed + loops)
     IN  IF elapsed >= ChunkGoal \/ loops >= MaxLoops
         THEN /\ pc' = "dhrystone done"
              /\ dhry' = [dhry EXCEPT !.elapsed = elapsed, !.score = "legacy"]
         ELSE /\ pc' = IF dhry.attempt = 2 THEN "dhrystone done" ELSE pc
              /\ dhry' = [dhry EXCEPT !.loops = Smaller(MaxLoops, longer),
                   !.elapsed = elapsed, !.attempt = @ + 1,
                   !.score = IF dhry.attempt < 2 \/ elapsed = 0 THEN "none"
                             ELSE "legacy"]
  /\ UNCHANGED <<masks, run, mem>>

BenchStep ==
  \/ Confirm \/ Grow \/ Accept
  \/ \E usable \in BOOLEAN : Flops(usable)
  \/ MemoryTests \/ FirstPass \/ MemoryRead
  \/ \E ok \in BOOLEAN : Buffer(ok) \/ DisplayOff(ok)
  \/ \E kind \in {"chunks", "legacy", "none"}, unit \in Units \cup {0} :
       Dhrystone(kind, unit)
  \/ \E elapsed \in Shows("ticks", dhry.loops * dhry.unit) : Legacy(elapsed)
  \/ \E valid \in BOOLEAN : Calibrate(valid)
  \/ \E valid \in BOOLEAN, delay \in {0, ChunkLimit} : Chunk(valid, delay)
  \/ ScoreChunks \/ DhryPermit
-----------------------------------------------------------------------------
\* A run that run_until_steady accepted for its length (benchmark.c 214-268)
\* agrees to one part in Jitter with every run it was compared with, and with
\* the truth when the clock declares its resolution.  The speed of memory is
\* computed from the run made last (benchmark.c 1404, 1427), which may be the
\* one of half the work that confirmed the accepted run: it too is as near to
\* the accepted run and to the truth.
SteadyRun ==
  pc \in {"flops done", "memory read"} /\ run.us < RunCap
    /\ run.count < MaxCount /\ run.compared =>
      /\ run.miss * Jitter <= run.us
      /\ Apart(run.last.us, (run.us * run.last.count) \div run.count) * Jitter
           <= run.us
      /\ run.clock \in {"fine", "ticks"} =>
           /\ run.ok => Apart(run.us, run.truth) * Jitter <= run.us
           /\ run.last.ok /\ run.last.us > 0 =>
                Apart(run.last.us, run.last.count * run.unit) * Jitter <= run.us

\* A memory speed never comes from a clock that wrapped (benchmark.c 1353).
NoWrappedSpeed == pc = "memory read" /\ run.last.us > 0 => run.last.ok

\* The score of Dhrystone is the work of one attempt over the time of the same
\* attempt (benchmark.c 1024-1065).
DhrystoneWhole ==
  dhry.score = "score" => dhry.elapsed = dhry.total * dhry.unit

Trusted == SteadyRun /\ NoWrappedSpeed /\ DhrystoneWhole
=============================================================================
