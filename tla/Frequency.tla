----------------------------- MODULE Frequency ------------------------------
(***************************************************************************)
(* measure_processor_frequencies of benchmark.c: the clock of the          *)
(* processor from timed loops, under the settings of the caches read       *)
(* before and after, with the last good result kept for the settings it    *)
(* was measured in.  A batch of samples runs under Forbid, each sample     *)
(* under Disable; it may fail at any of them and is tried three times.     *)
(*                                                                         *)
(* A frequency stands for the settings it was measured under.  The samples *)
(* use the clock as ProbeClock provides it: a reading fails or is real.    *)
(***************************************************************************)
EXTENDS ProbeClock

CONSTANTS
  Settings,     \* the settings of caches, MMU and superscalar dispatch
  Uncached,     \* those in which the loop is not fetched from the cache
  MaxRounds,    \* doublings of the calibration up to max_loops
  Triples,      \* 64 triples of samples
  Batches,      \* attempts of frequency_loop_time: 3
  Multipliers   \* doublings of the work up to maxMultiplier

ASSUME FrequencyAssumption ==
  /\ Uncached \subseteq Settings /\ "none" \notin Settings
  /\ {MaxRounds, Triples, Batches, Multipliers} \subseteq Nat \ {0}

VARIABLES
  settings,   \* of the processor: what they are, and in hw_info; whether they
              \* changed since the measurement read them
  cpu,        \* the locals of the measurement
  previous,   \* previous_config and previous_mhz
  mhz         \* hw_info.cpu_mhz, and whether hw_info.fpu_mhz is known; of both
              \* speeds, whether the settings changed and changed back under it

freqVars == <<settings, cpu, previous, mhz>>

None == "none"
NoConfig == [settings |-> None, precise |-> FALSE]
NoCpu == [config |-> NoConfig, precise |-> FALSE, fpcr |-> FALSE, loop |-> None,
          round |-> 0, triple |-> 0, batch |-> 1, mult |-> 1, result |-> None]

FreqInit(s) ==
  /\ settings = [real |-> s, shown |-> None, changed |-> FALSE]
  /\ cpu = NoCpu
  /\ previous = [config |-> NoConfig, mhz |-> None, back |-> FALSE]
  /\ mhz = [cpu |-> None, fpu |-> FALSE, back |-> FALSE]
-----------------------------------------------------------------------------
\* Between the two readings of the settings.
Timing == cpu.loop = "cpu" /\ pc \in {"batch", "calibrate", "triple", "loop",
                                     "batch end", "config"}

\* Another task changes the settings, and perhaps changes them back.
ChangeSettings ==
  /\ TasksRun
  /\ \E s \in Settings \ {settings.real} :
       settings' = [settings EXCEPT !.real = s, !.changed = Timing]
  /\ UNCHANGED <<pc, masks, probe, cpu, previous, mhz>>

\* cpu_frequency_config, with refresh_cache_status.
Config(precise) == [settings |-> settings.real, precise |-> precise]

\* acquire_probe_clock decides whether the measurement is precise.
Measure ==
  /\ Go("cpu", "clock")
  /\ cpu' = [NoCpu EXCEPT !.loop = "cpu"]
  /\ UNCHANGED <<masks, probe, settings, previous, mhz>>

Forgotten == [previous EXCEPT !.mhz = None, !.back = FALSE]

\* frequency_code_cacheable: without it there is nothing to measure, and the
\* last result is forgotten.  mapped: the MMU or the place in memory allows it.
ReadConfig(mapped) ==
  /\ pc = "acquired" /\ cpu.loop = "cpu"
  /\ LET cacheable == mapped /\ settings.real \notin Uncached
     IN  /\ pc' = IF cacheable THEN "batch" ELSE "config"
         /\ previous' = IF cacheable THEN previous ELSE Forgotten
  /\ cpu' = [cpu EXCEPT !.precise = Acquired, !.config = Config(Acquired)]
  /\ settings' = [settings EXCEPT !.shown = settings.real]
  /\ UNCHANGED <<masks, probe, mhz>>

\* frequency_loop_time_once begins; the loop of a measurement that is not
\* precise, measure_loop_overhead, is timed once under the same Forbid.
BeginBatch ==
  /\ Go("batch", IF cpu.precise THEN "calibrate" ELSE "loop")
  /\ forbid' = forbid + 1
  /\ cpu' = [cpu EXCEPT !.round = 0, !.triple = 0]
  /\ UNCHANGED <<disabled, probe, settings, previous, mhz>>

\* frequency_sample, from Disable to Enable, is one step here and below: valid
\* when the clock was.  A calibration round is long enough, asks for twice the
\* loops or fails.
CalibrateLoop(valid, enough) ==
  /\ pc = "calibrate"
  /\ pc' = IF ~valid THEN "batch end" ELSE IF enough THEN "triple"
           ELSE IF cpu.round = MaxRounds THEN "batch end" ELSE pc
  /\ cpu' = [cpu EXCEPT !.round = @ + 1, !.result = None]
  /\ UNCHANGED <<masks, probe, settings, previous, mhz>>

\* A triple of short, baseline and long loop; the first that fails, is not
\* longer than its baseline or too long ends the batch.
Triple(valid) ==
  /\ pc = "triple"
  /\ LET last == cpu.triple + 1 = Triples
     IN  /\ pc' = IF ~valid \/ last THEN "batch end" ELSE pc
         /\ cpu' = [cpu EXCEPT !.triple = @ + 1,
                      !.result = IF valid /\ last THEN settings.real ELSE None]
  /\ UNCHANGED <<masks, probe, settings, previous, mhz>>

\* The coarse loop, with interrupts enabled.
CoarseLoop(valid) ==
  /\ Go("loop", "batch end")
  /\ cpu' = [cpu EXCEPT !.result = IF valid THEN settings.real ELSE None]
  /\ UNCHANGED <<masks, probe, settings, previous, mhz>>

\* Mutant: a failed batch leaves without Permit.
BugPermits == FALSE

Permits == TRUE

\* Permit; a batch that failed is repeated whole, one that was too short with
\* twice the work.
EndBatch(enough) ==
  /\ pc = "batch end"
  /\ forbid' = IF Permits \/ cpu.result # None THEN forbid - 1 ELSE forbid
  /\ IF cpu.precise /\ cpu.result = None /\ cpu.batch < Batches
     THEN pc' = "batch" /\ cpu' = [cpu EXCEPT !.batch = @ + 1]
     ELSE IF cpu.result # None /\ ~enough /\ cpu.mult < Multipliers
     THEN pc' = "batch" /\ cpu' = [cpu EXCEPT !.batch = 1, !.mult = @ + 1]
     ELSE /\ pc' = IF cpu.loop = "cpu" THEN "config" ELSE "fpu done"
          /\ cpu' = [cpu EXCEPT !.result = IF enough THEN @ ELSE None]
  /\ UNCHANGED <<disabled, probe, settings, previous, mhz>>

\* Mutant: the settings are not read again after the measurement.
BugUnchanged == TRUE

Unchanged == Config(cpu.precise) = cpu.config

\* What the comparison cannot see: a change and its undoing in between.
ChangedBack == settings.changed /\ settings.real = cpu.config.settings

\* The result holds if the settings are the same again; without one, the last
\* for the same settings is retained.
Conclude ==
  /\ Go("config", "fpu")
  /\ settings' = [settings EXCEPT !.shown = settings.real, !.changed = FALSE]
  /\ LET kept == previous.mhz # None /\ previous.config = cpu.config
     IN  IF ~Unchanged
         THEN /\ previous' = Forgotten
              /\ mhz' = [mhz EXCEPT !.cpu = None, !.back = FALSE]
         ELSE IF cpu.result # None
         THEN /\ previous' = [config |-> cpu.config, mhz |-> cpu.result,
                              back |-> ChangedBack]
              /\ mhz' = [mhz EXCEPT !.cpu = cpu.result, !.back = ChangedBack]
         ELSE /\ previous' = IF kept THEN previous ELSE Forgotten
              /\ mhz' = [mhz EXCEPT !.cpu = IF kept THEN previous.mhz ELSE None,
                                    !.back = kept /\ previous.back]
  /\ UNCHANGED <<masks, probe, cpu>>

\* get_mhz_fpu: an integrated FPU has the frequency of its processor, a
\* separate one is timed with the FPCR of the program set aside.
Fpu(kind) ==
  /\ pc = "fpu"
  /\ pc' = IF kind = "separate" THEN "batch" ELSE "release"
  /\ cpu' = IF kind = "separate"
            THEN [NoCpu EXCEPT !.loop = "fpu", !.fpcr = TRUE,
                    !.precise = cpu.precise]
            ELSE cpu
  /\ mhz' = [mhz EXCEPT !.fpu = kind = "integrated" /\ mhz.cpu # None]
  /\ UNCHANGED <<masks, probe, settings, previous>>

\* end_fpu_frequency, on failure too.
FpuDone ==
  /\ Go("fpu done", "release")
  /\ mhz' = [mhz EXCEPT !.fpu = cpu.result # None]
  /\ cpu' = [cpu EXCEPT !.fpcr = FALSE]
  /\ UNCHANGED <<masks, probe, settings, previous>>

EndMeasure ==
  /\ Go("released", "cpu done")
  /\ cpu.loop # None
  /\ cpu' = NoCpu
  /\ UNCHANGED <<masks, probe, settings, previous, mhz>>

FreqStep ==
  \/ Measure \/ BeginBatch \/ Conclude \/ FpuDone \/ EndMeasure
  \/ \E ok \in BOOLEAN : ReadConfig(ok) \/ CoarseLoop(ok) \/ EndBatch(ok)
                         \/ Triple(ok)
  \/ \E valid, enough \in BOOLEAN : CalibrateLoop(valid, enough)
  \/ \E kind \in {"none", "integrated", "separate"} : Fpu(kind)

\* When a measurement ends, the frequency it leaves was measured under the
\* settings it leaves beside it, never a retained one of other settings or one
\* taken while they changed (benchmark.c 1544-1570); but a change and its
\* undoing between the two readings of the settings goes unseen (1557).
SpeedCurrent ==
  pc \in {"fpu", "release", "released", "cpu done"} /\ mhz.cpu # None =>
    mhz.cpu = settings.shown \/ mhz.back
=============================================================================
