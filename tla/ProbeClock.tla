---------------------------- MODULE ProbeClock ------------------------------
(***************************************************************************)
(* probeclock.c: the clock of the short probes.  From Kickstart 2.0 on it  *)
(* is the E-clock of timer.device; before, an interval timer of one of the *)
(* two CIA chips is borrowed.  Its control register also holds bits of the *)
(* serial and time-of-day drivers, which may change them at any interrupt, *)
(* and its counter is read byte by byte while it counts down.              *)
(*                                                                         *)
(* A byte has Byte values instead of 256.  A client acquires the clock,    *)
(* times Windows windows with interrupts disabled and releases it, as      *)
(* frequency_sample and probe_wd_controller do.                            *)
(***************************************************************************)
EXTENDS Task

CONSTANTS
  Timers,    \* the timers in the order they are tried
  Byte,      \* the values of a byte of the counter
  Tries,     \* readings of the counter before giving up: 4
  Slack,     \* by how much a window may outlast the counter
  Windows    \* how often a client times something

ASSUME ClockAssumption ==
  /\ Len(Timers) \in Nat \ {0}
  /\ Byte \in Nat \ {0} /\ Tries \in Nat \ {0} /\ Slack \in Nat /\ Windows \in Nat

VARIABLES
  cia,       \* the control registers of the timers and their interrupts
  counter,   \* the counter of the borrowed timer: its ticks since the start
  clk        \* the static variables of probeclock.c and the locals of a reading

probe == <<cia, counter, clk>>

Last == Byte * Byte - 1

\* "host" is what the bits of the timer itself held before.  Of the bits shared
\* with other drivers only this counts: whether the register, or a copy of it,
\* holds what their drivers last wrote.
HostTimer == [own |-> "host", shared |-> TRUE, start |-> FALSE,
              vector |-> FALSE]
NoClock == [use |-> "none", try |-> 1, saved |-> "none", now |-> TRUE, hi |-> 0,
            lo |-> 0, tries |-> 0, windows |-> 0, second |-> FALSE,
            began |-> 0, value |-> -1]

ClockInit ==
  /\ cia = [t \in 1..Len(Timers) |-> HostTimer]
  /\ counter = 0
  /\ clk = NoClock

Acquired == clk.use # "none"
-----------------------------------------------------------------------------
\* A driver changes the bits of the control register that are its own: a copy
\* made before is out of date.
OtherDriver ==
  /\ InterruptsRun /\ clk.use = "cia"
  /\ clk' = [clk EXCEPT !.now = FALSE]
  /\ UNCHANGED <<pc, masks, cia, counter>>

\* The counter runs down and, at its end, stops and reloads.
CountDown ==
  /\ clk.use = "cia" /\ cia[clk.try].start
  /\ counter < Last + 1 + Slack
  /\ counter' = counter + 1
  /\ cia' = [cia EXCEPT ![clk.try].start = counter < Last]
  /\ UNCHANGED <<pc, masks, clk>>

\* What the two bytes show.
Shown == Last - IF counter > Last THEN 0 ELSE counter
Hi == Shown \div Byte
Lo == Shown % Byte
-----------------------------------------------------------------------------
\* acquire_probe_clock: the E-clock when Exec and timer.device are new enough,
\* or the first timer that AddICRVector grants; FALSE when neither is there.
\* kind: the clock this Kickstart calls for, "none" without timer.device.
Acquire(kind) ==
  /\ Go("clock", IF kind = "cia" THEN "try" ELSE "acquired")
  /\ ~Acquired
  /\ clk' = [clk EXCEPT !.use = IF kind = "eclock" THEN kind ELSE "none",
                        !.try = 1]
  /\ UNCHANGED <<masks, cia, counter>>

\* One turn of the loop, under Disable: the vector is added and its interrupt
\* masked, the register saved.  granted: no other program holds this timer.
TryTimer(granted) ==
  /\ pc = "try"
  /\ IF ~granted
     THEN /\ pc' = IF clk.try = Len(Timers) THEN "acquired" ELSE "try"
          /\ clk' = [clk EXCEPT !.try = IF @ = Len(Timers) THEN @ ELSE @ + 1]
          /\ UNCHANGED <<disabled, cia>>
     ELSE /\ pc' = "borrow" /\ disabled' = TRUE
          /\ clk' = [clk EXCEPT !.saved = cia[clk.try].own,
                                !.now = cia[clk.try].shared]
          /\ cia' = [cia EXCEPT ![clk.try].vector = TRUE]
  /\ UNCHANGED <<forbid, counter>>

\* The timer is set to one-shot mode with the shared bits as they were read.
Borrow ==
  /\ Go("borrow", "acquired")
  /\ cia' = [cia EXCEPT ![clk.try].own = "one-shot",
                        ![clk.try].shared = clk.now, ![clk.try].start = FALSE]
  /\ clk' = [clk EXCEPT !.use = "cia", !.now = TRUE]
  /\ disabled' = FALSE
  /\ UNCHANGED <<forbid, counter>>

\* Mutant: release reads and writes the register with interrupts enabled.
BugMaskRelease == UNCHANGED disabled

MaskRelease == disabled' = TRUE

\* release_probe_clock reads the register with interrupts disabled ...
Release ==
  /\ clk.use = "cia"
  /\ Go("release", "restore")
  /\ MaskRelease
  /\ clk' = [clk EXCEPT !.now = cia[clk.try].shared]
  /\ UNCHANGED <<forbid, cia, counter>>

\* ... keeps the shared bits, restores the others stopped, and removes the
\* vector.
Restore ==
  /\ Go("restore", "released")
  /\ cia' = [cia EXCEPT ![clk.try].own = clk.saved,
                        ![clk.try].shared = clk.now, ![clk.try].start = FALSE,
                        ![clk.try].vector = FALSE]
  /\ clk' = [clk EXCEPT !.use = "none", !.saved = "none", !.now = TRUE]
  /\ disabled' = FALSE
  /\ UNCHANGED <<forbid, counter>>

ReleaseEClock ==
  /\ clk.use # "cia"
  /\ Go("release", "released")
  /\ clk' = [clk EXCEPT !.use = "none"]
  /\ UNCHANGED <<masks, cia, counter>>
-----------------------------------------------------------------------------
\* A window: Disable, start_probe_clock, which loads the counter, starts the
\* one-shot and takes the first reading; the work; the second reading.
StartWindow ==
  /\ Go("window", "work")
  /\ disabled' = TRUE
  /\ clk' = [clk EXCEPT !.windows = @ + 1, !.second = FALSE, !.value = -1]
  /\ IF clk.use = "cia"
     THEN /\ counter' = 0
          /\ cia' = [cia EXCEPT ![clk.try].own = "one-shot",
                                ![clk.try].start = TRUE]
     ELSE UNCHANGED <<cia, counter>>
  /\ UNCHANGED forbid

\* read_probe_clock: the E-clock answers at once.
ReadEClock ==
  /\ clk.use = "eclock"
  /\ Go("work", "read")
  /\ UNCHANGED <<masks, probe>>

ReadHi ==
  /\ clk.use = "cia" /\ pc \in {"work", "again"} /\ pc' = "lo"
  /\ clk' = [clk EXCEPT !.hi = Hi,
                        !.tries = IF pc = "work" THEN 1 ELSE @ + 1,
                        !.value = -1,
                        !.began = IF pc = "work" THEN counter ELSE @]
  /\ UNCHANGED <<masks, cia, counter>>

ReadLo ==
  /\ Go("lo", "compare")
  /\ clk' = [clk EXCEPT !.lo = Lo]
  /\ UNCHANGED <<masks, cia, counter>>

\* Mutant: the high byte is not read again.
BugSteady == TRUE

Steady == clk.hi = Hi

Compare ==
  /\ pc = "compare"
  /\ pc' = IF Steady THEN "expired" ELSE IF clk.tries < Tries THEN "again"
           ELSE "read"
  /\ UNCHANGED <<masks, probe>>

\* The one-shot that has expired makes the reading worthless.
CheckExpiry ==
  /\ Go("expired", "read")
  /\ clk' = [clk EXCEPT !.value = IF cia[clk.try].start
                                  THEN Last - (clk.hi * Byte + clk.lo) ELSE -1]
  /\ UNCHANGED <<masks, cia, counter>>

EndReading ==
  /\ pc = "read"
  /\ IF clk.second
     THEN /\ pc' = IF clk.windows < Windows THEN "window" ELSE "release"
          /\ disabled' = FALSE /\ UNCHANGED clk
     ELSE /\ pc' = "work" /\ clk' = [clk EXCEPT !.second = TRUE]
          /\ UNCHANGED disabled
  /\ UNCHANGED <<forbid, cia, counter>>
-----------------------------------------------------------------------------
ClockStep ==
  \/ \E kind \in {"none", "eclock", "cia"} : Acquire(kind)
  \/ \E granted \in BOOLEAN : TryTimer(granted)
  \/ Borrow
  \/ Release \/ Restore \/ ReleaseEClock
  \/ StartWindow \/ ReadEClock \/ ReadHi \/ ReadLo \/ Compare
  \/ CheckExpiry \/ EndReading

\* No driver loses a bit it has set: whenever interrupts are enabled, the
\* shared bits hold what their drivers last wrote (probeclock.c 68-72 and
\* 90-98), and a timer that is not borrowed has its own bits and is stopped.
SharedKept ==
  ~disabled =>
    \A t \in 1..Len(Timers) :
      /\ cia[t].shared
      /\ ~Acquired /\ pc # "restore" =>
           cia[t].own = "host" /\ ~cia[t].start /\ ~cia[t].vector

\* A reading is 0 (failed) or a time the counter really had while it was read
\* (probeclock.c 105-126).
ReadingReal ==
  clk.use = "cia" /\ clk.value # -1 => clk.value \in clk.began .. counter
=============================================================================
