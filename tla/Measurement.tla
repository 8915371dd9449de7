---------------------------- MODULE Measurement -----------------------------
(***************************************************************************)
(* The measurements of the program, one after the other as main and the    *)
(* speed page call them, with the other tasks, drivers and chips that run  *)
(* beside them.                                                            *)
(***************************************************************************)
EXTENDS BusClock, RealTimeClock, Overlay, Benchmark, Frequency

CONSTANTS
  Scenarios   \* what is measured on which machine: todo, the measurements to
              \* make, kind and bank of the clock chip, settings of the caches

\* What main and the pages call.
Calls == {"bus", "rtc", "overlay", "overlay hide", "dhrystone", "flops", "memory",
          "cpu", "client", "forbid", "permit"}

\* By how much a call changes how often the speed page has called Forbid.
Level(call) == IF call = "forbid" THEN 1 ELSE IF call = "permit" THEN -1 ELSE 0

\* Every Forbid of the speed page is followed by its Permit, before another;
\* n: how often it is in force at the beginning.
Keeps(list, n) ==
  \E level \in [0 .. Len(list) -> {0, 1}] :
    /\ level[0] = n /\ level[Len(list)] = 0
    /\ \A i \in DOMAIN list : level[i] = level[i - 1] + Level(list[i])

\* The bus clock is measured once, by main.
ASSUME ScenariosAssumption ==
  \A s \in Scenarios :
    /\ s.todo \in Seq(Calls) /\ Keeps(s.todo, 0)
    /\ \A i, j \in DOMAIN s.todo : s.todo[i] = "bus" /\ s.todo[j] = "bus" => i = j

VARIABLES
  todo      \* the measurements still to make

vars == <<pc, masks, probe, busVars, rtcVars, overlayVars, benchVars, freqVars,
          todo>>

Init ==
  /\ pc = "idle" /\ Free
  /\ \E s \in Scenarios :
       todo = s.todo /\ RtcInit(s.kind, s.bank) /\ FreqInit(s.settings)
  /\ ClockInit /\ BusInit /\ OverlayInit /\ BenchInit

\* What a measurement leaves in pc.
Finished == {"bus done", "rtc done", "overlay shown", "overlay hidden",
             "dhrystone done", "flops done", "memory done", "cpu done",
             "client done", "kept"}

\* A client of the probe clock times its windows between acquiring the clock
\* and releasing it; without a clock it gives up.
Client ==
  /\ cpu.loop = None
  /\ \/ Go("client", "clock")
     \/ pc = "acquired" /\ pc' = IF Acquired THEN "window" ELSE "client done"
     \/ Go("released", "client done")
  /\ UNCHANGED <<masks, probe>>

\* The speed page keeps other tasks out of its timing with a Forbid around
\* run_benchmarks; main does not.
Keep ==
  \/ Go("forbid", "kept") /\ forbid' = forbid + 1
  \/ Go("permit", "kept") /\ forbid' = forbid - 1

\* The next measurement is called, or the last one returns.
Call ==
  /\ pc = "idle" /\ todo # <<>>
  /\ pc' = Head(todo)
  /\ UNCHANGED <<masks, probe, busVars, rtcVars, overlayVars, benchVars,
                 freqVars, todo>>

Return ==
  /\ pc \in Finished
  /\ pc' = "idle" /\ todo' = Tail(todo)
  /\ clk' = NoClock /\ counter' = 0 /\ bus' = NoBus
  /\ run' = NoRun /\ dhry' = NoDhry
  /\ UNCHANGED <<masks, cia, ramsey, busMHz, rtcVars, overlayVars, mem, freqVars>>

\* A step of the program.
Program ==
  \/ Call
  \/ Return
  \/ /\ Keep
     /\ UNCHANGED <<disabled, probe, busVars, rtcVars, overlayVars, benchVars,
                    freqVars, todo>>
  \/ /\ ClockStep \/ Client
     /\ UNCHANGED <<busVars, rtcVars, overlayVars, benchVars, freqVars, todo>>
  \/ /\ BusStep
     /\ UNCHANGED <<probe, rtcVars, overlayVars, benchVars, freqVars, todo>>
  \/ /\ RtcStep
     /\ UNCHANGED <<probe, busVars, overlayVars, benchVars, freqVars, todo>>
  \/ /\ OverlayStep
     /\ UNCHANGED <<probe, busVars, rtcVars, benchVars, freqVars, todo>>
  \/ /\ BenchStep
     /\ UNCHANGED <<probe, busVars, rtcVars, overlayVars, freqVars, todo>>
  \/ /\ FreqStep
     /\ UNCHANGED <<busVars, rtcVars, overlayVars, benchVars, todo>>

\* A step of a chip, of another driver or of another task.
Environment ==
  \/ /\ OtherDriver \/ CountDown
     /\ UNCHANGED <<busVars, rtcVars, overlayVars, benchVars, freqVars, todo>>
  \/ /\ Refresh \/ Reconfigure
     /\ UNCHANGED <<probe, rtcVars, overlayVars, benchVars, freqVars, todo>>
  \/ /\ RtcTick \/ RtcBusy \/ RtcWritten
     /\ UNCHANGED <<probe, busVars, overlayVars, benchVars, freqVars, todo>>
  \/ /\ ChangeSettings
     /\ UNCHANGED <<busVars, rtcVars, overlayVars, benchVars, todo>>

Next == Program \/ Environment

\* The processor goes on with the program; no chip is bound to answer.
Spec == Init /\ [][Next]_vars /\ WF_vars(Program)
-----------------------------------------------------------------------------
\* Between two measurements everything they borrowed is given back, whichever
\* of their steps failed: the masks, the timer with the bits of its drivers,
\* the control bits of the clock chip, the DMA of the display, buffers, the
\* overlay and the control register of the FPU.  The refresh period of RAMSEY is
\* back whenever an interrupt can run, not only then.
GivenBack ==
  /\ SharedKept /\ OverlayFreed /\ RefreshRestored
  /\ pc = "idle" =>
       /\ ~disabled /\ ~rtc.hold /\ rtc.bank = rtc.found
       /\ mem.dma /\ ~mem.buffer /\ ~cpu.fpcr
       /\ todo = <<>> => Free

\* What is read from a chip while it runs is what it held at one moment.
NotTorn == ReadingReal /\ TimeNotTorn

\* Every measurement returns, with a clock that stands still, a chip that stays
\* busy or a register that never latches (benchmark.c 214-268, clock.c 73,
\* busclock.c 54-71).
CallsReturn == <>(pc = "idle" /\ todo = <<>>)
=============================================================================
