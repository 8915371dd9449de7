------------------------------ MODULE BusClock ------------------------------
(***************************************************************************)
(* busclock.c: the clock of the motherboard of an A3000 or A4000, measured *)
(* by the refresh of its memory.  RAMSEY latches a value written to its    *)
(* control register at the next refresh, so writing two values in turn and *)
(* waiting for each to appear counts refreshes.  The register sets the     *)
(* refresh of the memory the program runs in: it is changed only with      *)
(* interrupts masked, and each way out writes the original value last.     *)
(***************************************************************************)
EXTENDS Task

CONSTANTS
  PollLimit,    \* BUS_POLL_LIMIT
  PollBudget,   \* BUS_POLL_BUDGET
  ShortPairs,   \* BUS_SHORT_PAIRS
  LongPairs,    \* BUS_LONG_PAIRS
  Rates,        \* the rates a sample may give, in MHz / 100
  ValidRates    \* 1000..8000

ASSUME BusAssumption ==
  /\ PollLimit \in Nat \ {0} /\ PollBudget \in Nat
  /\ ShortPairs \in Nat \ {0} /\ LongPairs \in Nat \ {0}
  /\ Rates \subseteq Nat /\ ValidRates \subseteq Nat

VARIABLES
  ramsey,   \* the control register: what it shows, what was written last,
            \* and what the rest of the system wants it to be
  bus,      \* probe and the locals of measure_bus_frequency
  busMHz    \* hw_info.bus_mhz

busVars == <<ramsey, bus, busMHz>>

Samples == 3

NoBus == [original |-> "none", pairs |-> 0, pair |-> 0, value |-> "none",
          polls |-> 0, budget |-> 0, delayed |-> 0, status |-> "none",
          readings |-> <<>>]

BusInit ==
  /\ ramsey = [shown |-> "host", written |-> "host", wanted |-> "host"]
  /\ bus = NoBus
  /\ busMHz = 0
-----------------------------------------------------------------------------
\* The chip latches what was written; it may do so late, or never.
Refresh ==
  /\ ramsey.shown # ramsey.written
  /\ ramsey' = [ramsey EXCEPT !.shown = ramsey.written]
  /\ UNCHANGED <<pc, masks, bus, busMHz>>

\* Another program sets the memory up differently, once.
Reconfigure ==
  /\ TasksRun /\ ramsey.wanted = "host" /\ bus.original # "none"
  /\ ramsey' = [shown |-> "other", written |-> "other", wanted |-> "other"]
  /\ UNCHANGED <<pc, masks, bus, busMHz>>

Write(v) == ramsey' = [ramsey EXCEPT !.written = v]

\* The guards of measure_bus_frequency.  usable: an E-clock of about 709 or
\* 716 kHz, Fat Gary, RAMSEY, a 68030 to 68060, refresh on, and a setting to
\* alternate with that never slows refresh.
MeasureBus(usable) ==
  /\ Go("bus", IF usable THEN "bus sample" ELSE "bus done")
  /\ bus' = [NoBus EXCEPT !.original = IF usable THEN ramsey.shown ELSE "none"]
  /\ busMHz' = 0
  /\ UNCHANGED <<masks, ramsey>>

\* RunRamseyProbe and the first check of sample_ramsey_refreshes.
BeginSample(pairs) ==
  /\ pc = "bus sample"
  /\ disabled' = TRUE
  /\ IF ramsey.shown # bus.original
     THEN /\ pc' = "bus leave"
          /\ bus' = [bus EXCEPT !.status = "CONTROL_CHANGED"]
     ELSE /\ pc' = "bus pair"
          /\ bus' = [bus EXCEPT !.pairs = pairs, !.pair = 0, !.delayed = 0,
                       !.budget = PollBudget, !.status = "LATCH_TIMEOUT"]
  /\ UNCHANGED <<forbid, ramsey, busMHz>>

\* The two halves of a pair: write one value and wait until it shows.
Alternate ==
  /\ Go("bus pair", "bus wait")
  /\ LET v == IF bus.value = "alternate" THEN bus.original ELSE "alternate"
     IN  /\ Write(v)
         /\ bus' = [bus EXCEPT !.value = v, !.polls = 0]
  /\ UNCHANGED <<masks, busMHz>>

PairDone == bus.value = bus.original

\* Mutant: a value that never shows leaves without writing the original back.
BugGivesUp == "bus leave"

GivesUp == "bus restore"

\* wait_for_ramsey: as many polls as its limit and the budget of the sample
\* allow; a wait is one that did not end at the first poll.
Poll ==
  /\ pc = "bus wait"
  /\ \/ /\ bus.polls = PollLimit \/ bus.budget = 0
        /\ pc' = GivesUp
        /\ bus' = [bus EXCEPT !.value = "none"]
     \/ /\ bus.polls < PollLimit /\ bus.budget > 0
        /\ ramsey.shown # bus.value
        /\ bus' = [bus EXCEPT !.polls = @ + 1, !.budget = @ - 1]
        /\ UNCHANGED pc
     \/ /\ bus.polls < PollLimit /\ bus.budget > 0
        /\ ramsey.shown = bus.value
        /\ LET pair == bus.pair + IF PairDone THEN 1 ELSE 0
           IN /\ pc' = IF pair = bus.pairs THEN "bus stop" ELSE "bus pair"
              /\ bus' = [bus EXCEPT !.budget = @ - 1, !.pair = pair,
                           !.delayed = @ + IF bus.polls > 0 THEN 1 ELSE 0,
                           !.value = IF PairDone THEN "none" ELSE @]
  /\ UNCHANGED <<masks, ramsey, busMHz>>

\* The E-clock is read again; timerOK: it ran on, by less than 20 ms.
StopSample(timerOK) ==
  /\ Go("bus stop", "bus restore")
  /\ bus' = [bus EXCEPT !.status =
       IF ~timerOK THEN "BAD_TIMER"
       ELSE IF bus.delayed < bus.pairs THEN "NO_DELAY" ELSE "OK"]
  /\ UNCHANGED <<masks, ramsey, busMHz>>

\* restore: the original value is written once more, over one that may still
\* wait for its refresh, and has to show.
RestoreBus ==
  /\ Go("bus restore", "bus settle")
  /\ Write(bus.original)
  /\ bus' = [bus EXCEPT !.polls = 0]
  /\ UNCHANGED <<masks, busMHz>>

Settle ==
  /\ pc = "bus settle"
  /\ \/ /\ ramsey.shown = bus.original /\ bus.polls < PollLimit
        /\ pc' = "bus leave" /\ UNCHANGED bus
     \/ /\ ramsey.shown # bus.original /\ bus.polls < PollLimit
        /\ bus' = [bus EXCEPT !.polls = @ + 1] /\ UNCHANGED pc
     \/ /\ bus.polls = PollLimit
        /\ pc' = "bus leave"
        /\ bus' = [bus EXCEPT !.status = "RESTORE_TIMEOUT"]
  /\ UNCHANGED <<masks, ramsey, busMHz>>

\* Back from supervisor mode.  A short sample is followed by a long one; the
\* two must scale and give a rate in range.  scales: they do; rate: what they
\* give.
LeaveSample(scales, rate) ==
  /\ pc = "bus leave"
  /\ disabled' = FALSE
  /\ LET long == bus.pairs = LongPairs
         readings == IF long THEN Append(bus.readings, rate) ELSE bus.readings
     IN  /\ pc' = IF bus.status # "OK" THEN "bus done"
                  ELSE IF ~long THEN "bus sample"
                  ELSE IF ~scales \/ rate \notin ValidRates THEN "bus done"
                  ELSE IF Len(readings) < Samples THEN "bus sample"
                  ELSE "bus agree"
         /\ bus' = [bus EXCEPT !.readings = readings]
  /\ UNCHANGED <<forbid, ramsey, busMHz>>

MinOf(s) == CHOOSE x \in {s[i] : i \in DOMAIN s} : \A i \in DOMAIN s : x <= s[i]
MaxOf(s) == CHOOSE x \in {s[i] : i \in DOMAIN s} : \A i \in DOMAIN s : x >= s[i]

\* Within 2 %: the median of the three is the result.
Agree ==
  /\ Go("bus agree", "bus done")
  /\ LET r == bus.readings
         agree == MaxOf(r) - MinOf(r) <= MinOf(r) \div 50
     IN  busMHz' = IF agree THEN r[1] + r[2] + r[3] - MinOf(r) - MaxOf(r)
                   ELSE busMHz
  /\ UNCHANGED <<masks, ramsey, bus>>

BusStep ==
  \/ \E usable \in BOOLEAN : MeasureBus(usable)
  \/ BeginSample(IF bus.pairs = ShortPairs THEN LongPairs ELSE ShortPairs)
  \/ Alternate \/ Poll
  \/ \E timerOK \in BOOLEAN : StopSample(timerOK)
  \/ RestoreBus \/ Settle
  \/ \E scales \in BOOLEAN, rate \in Rates : LeaveSample(scales, rate)
  \/ Agree

\* The memory is never left at the refresh of the probe: whenever interrupts
\* are enabled, the last value written to RAMSEY is the one the rest of the
\* system set, also when that changed between two samples (busclock.c 85-120).
RefreshRestored == ~disabled => ramsey.written = ramsey.wanted
=============================================================================
