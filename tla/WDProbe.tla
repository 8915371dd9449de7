------------------------------ MODULE WDProbe ------------------------------
(***************************************************************************)
(* The diagnostic of wdprobe.c: probe_wd_controller resets the SCSI        *)
(* controller of an A3000 under the driver that owns it, measures its      *)
(* clock with two pairs of selection timeouts and puts everything back.    *)
(* It runs as a task that the SCSI driver's task and interrupts preempt    *)
(* until it has called Forbid and Disable.                                 *)
(*                                                                         *)
(* Every register holds "host", what the driver put there, "probe", what   *)
(* the probe put there, or "lost", what a reset left there.  The chip may  *)
(* answer late, wrongly or never, the bus may be open, a restored register *)
(* may not stick, and the probe clock may stop or fail.                    *)
(***************************************************************************)
EXTENDS Integers, Sequences

CONSTANTS
  ProbeEnd,    \* deadline of the measurement, 60 ms in clock ticks
  RecoverEnd,  \* deadline of the recovery, 80 ms in clock ticks
  PollLimit,   \* WD_POLL_LIMIT
  Ticks,       \* how far the clock may move between two looks at it
  LongestLook, \* the farthest of them
  Rates,       \* the rates a pair of selections may yield, in kHz
  ValidRates,  \* 5000..50000
  Types,       \* the kinds of chip that may be met, and "unknown"
  StuckSets    \* the sets of registers whose restoring write may not stick

Chips == {"unknown", "33C93", "33C93A", "33C93B"}

ASSUME WaitAssumption ==
  /\ ProbeEnd \in Nat \ {0} /\ RecoverEnd \in Nat /\ PollLimit \in Nat \ {0}
  /\ LongestLook \in Nat /\ Ticks \subseteq 0..LongestLook
  /\ Rates \subseteq Nat /\ ValidRates \subseteq Nat \ {0}
  /\ Types \subseteq Chips

\* The 20 ms between the deadlines, some 14000 ticks, are longer than the three
\* looks at the clock after which a measurement is given up at the latest.
ASSUME DeadlineAssumption == ProbeEnd + 3 * LongestLook <= RecoverEnd

VARIABLES
  pc,             \* the label reached, "idle" between calls
  stage,          \* what is waited for: "identify", "short", "long", "recover"
  driver,         \* the driver: "idle", "busy", or "disconnected" from a target
  forbid,         \* Forbid() is in force
  disabled,       \* Disable() is in force
  clock,          \* the probe clock is acquired
  time,           \* what the clock has shown since it was started
  clockFailed,    \* clock_failed
  polls,          \* polls of the wait in progress
  register,       \* the registers of the chip
  mode,           \* whose operating mode the last reset gave it
  irq,            \* an interrupt of the chip is pending
  restoreFailed,  \* restore_failed
  outcome,        \* outcome
  changed,        \* changed
  rates,          \* rates[0], rates[1] as far as measured
  result,         \* the WDProbeInfo of the call
  info            \* wd_info

control == <<pc, stage>>
mask == <<forbid, disabled>>
timing == <<time, clockFailed, polls>>
chip == <<register, mode, irq>>
answer == <<outcome, changed, rates, result>>
vars == <<control, driver, mask, clock, timing, chip, restoreFailed, answer,
          info>>

\* The registers the probe saves; CDB stands for 0x03..0x0e and 0x10, LUN for
\* the one whose read-only bits exempt it from verification.
Registers == {"OWN_ID", "CONTROL", "TIMEOUT", "CDB", "LUN", "SYNC", "COUNT",
              "DEST", "SOURCE", "QUEUE_TAG"}
HostRegisters == [r \in Registers |-> "host"]

NoInfo == [chip |-> "unknown", khz |-> 0]
-----------------------------------------------------------------------------
Init ==
  /\ pc = "idle" /\ stage = "identify"
  /\ driver = "idle"
  /\ forbid = FALSE /\ disabled = FALSE /\ clock = FALSE
  /\ time = 0 /\ clockFailed = FALSE /\ polls = 0
  /\ register = HostRegisters /\ mode = "host" /\ irq = FALSE
  /\ restoreFailed = FALSE
  /\ outcome = "none" /\ changed = FALSE /\ rates = <<>>
  /\ result = NoInfo /\ info = NoInfo

\* The driver's task and interrupts: whatever it does ends in one of its three
\* states, and it does nothing while interrupts are disabled.  Forbid alone
\* does not stop its interrupts.
Driver ==
  /\ ~disabled
  /\ driver' \in {"idle", "busy", "disconnected"} \ {driver}
  /\ UNCHANGED <<control, mask, clock, timing, chip, restoreFailed,
                 answer, info>>

\* ASR is 0 and ISTR shows an empty FIFO.  A disconnected command shows in
\* neither.
LooksIdle == driver # "busy" /\ ~irq

Return(o) == pc' = "idle" /\ outcome' = o

\* Mutant: a failed recovery is reported once and then forgotten.
BugForgets == FALSE

Refused == restoreFailed

\* The checks made while other tasks run.  applicable: an A3000's SDMAC with
\* this chip; mapped: its registers answer without a bus error.
Call(applicable, mapped) ==
  /\ pc = "idle"
  /\ \/ Refused /\ Return("RESTORE_FAILED")
     \/ ~Refused /\ ~applicable /\ Return("NOT_APPLICABLE")
     \/ ~Refused /\ applicable /\ ~mapped /\ Return("UNAVAILABLE")
     \/ ~Refused /\ applicable /\ mapped /\ ~LooksIdle /\ Return("BUSY")
     \/ /\ ~Refused /\ applicable /\ mapped /\ LooksIdle
        /\ pc' = "acquire" /\ outcome' = "BUSY"
  /\ changed' = FALSE
  /\ UNCHANGED <<stage, driver, mask, clock, timing, chip, restoreFailed, rates,
                 result, info>>

Acquire(ok) ==
  /\ pc = "acquire"
  /\ IF ok THEN pc' = "forbid" /\ UNCHANGED outcome ELSE Return("UNAVAILABLE")
  /\ clock' = ok
  /\ UNCHANGED <<stage, driver, mask, timing, chip, restoreFailed, changed,
                 rates, result, info>>

Forbid ==
  /\ pc = "forbid"
  /\ pc' = "disable"
  /\ forbid' = TRUE
  /\ UNCHANGED <<stage, driver, disabled, clock, timing, chip, restoreFailed,
                 answer, info>>

\* Mutant: the early return for a bad clock forgets Permit and the clock.
BugDisable(rateOK) ==
  /\ pc = "disable"
  /\ IF rateOK THEN pc' = "inspect" /\ UNCHANGED outcome ELSE Return("UNAVAILABLE")
  /\ disabled' = rateOK
  /\ UNCHANGED <<stage, driver, forbid, clock, timing, chip, restoreFailed,
                 changed, rates, result, info>>

\* Disable and start the clock; a clock of the wrong rate ends the call here.
Disable(rateOK) ==
  /\ pc = "disable"
  /\ IF rateOK
     THEN /\ pc' = "inspect" /\ disabled' = TRUE
          /\ UNCHANGED <<forbid, clock, outcome>>
     ELSE /\ Return("UNAVAILABLE")
          /\ forbid' = FALSE /\ clock' = FALSE
          /\ UNCHANGED disabled
  /\ UNCHANGED <<stage, driver, timing, chip, restoreFailed, changed, rates,
                 result, info>>

FirstPoll == 0

\* reset_controller's writes: what the chip held is lost, and it comes up in
\* the mode of who.
WriteReset(who) ==
  /\ register' = [r \in Registers |-> IF r = "OWN_ID" THEN who ELSE "lost"]
  /\ mode' = who
  /\ polls' = FirstPoll

\* Mutant: ASR and ISTR are not looked at again under Disable.
BugTrustsFirstCheck == driver # "disconnected"

SafeToReset == LooksIdle /\ driver # "disconnected"

\* Nothing has been written to the chip yet: refuse it, or reset it.  plausible
\* says that its invalid register reads as open and that OWN_ID is a reset
\* image of this host.
Inspect(plausible) ==
  /\ pc = "inspect"
  /\ IF plausible /\ SafeToReset
     THEN /\ WriteReset("probe")
          /\ pc' = "wait" /\ stage' = "identify"
          /\ outcome' = "FAILED" /\ changed' = TRUE
          /\ UNCHANGED irq
     ELSE /\ pc' = "done"
          /\ outcome' = IF LooksIdle /\ ~plausible THEN "UNAVAILABLE" ELSE "BUSY"
          /\ UNCHANGED <<stage, chip, polls, changed>>
  /\ UNCHANGED <<driver, mask, clock, time, clockFailed, restoreFailed, rates,
                 result, info>>
-----------------------------------------------------------------------------
(* Waiting.                                                                *)

\* A look at the clock: how far it has moved, or that it has stopped.
Stopped == -1
Readings == Ticks \cup {Stopped}

\* elapsed(): a clock that has stopped is not believed again in this call.
Elapsed(t) ==
  IF t = Stopped THEN clockFailed' = TRUE /\ UNCHANGED time
                ELSE time' = time + t /\ UNCHANGED clockFailed

\* Mutant: the recovery has a deadline of its own.
BugRecoverAfresh == IF stage = "recover" THEN ProbeEnd + RecoverEnd ELSE ProbeEnd

Deadline == IF stage = "recover" THEN RecoverEnd ELSE ProbeEnd

\* Leaving a step that failed: the measurement is cut short and recovered
\* from; a failed recovery is reported and remembered.
AfterFailure == IF stage = "recover" THEN "unrestored" ELSE "recover"

\* Mutant: the counter of polls has 16 bits and never reaches 65536.
BugShortCounter == (polls + 1) % PollLimit

CountPoll == polls + 1

\* wait_status: one look at ASR that shows no interrupt.  Without a clock only
\* a recovery goes on, until the polls run out.  A stopped clock shows no time:
\* what the look that finds it so is compared with the deadline is garbage.
PollNothing(t, garbage) ==
  /\ pc = "wait"
  /\ IF clockFailed THEN UNCHANGED <<time, clockFailed>> ELSE Elapsed(t)
  /\ polls' = CountPoll
  /\ LET late == ~clockFailed /\ (IF t = Stopped THEN garbage ELSE time' >= Deadline)
         blind == clockFailed' /\ stage # "recover"
     IN  pc' = IF late \/ blind \/ polls' = PollLimit THEN AfterFailure ELSE "wait"
  /\ UNCHANGED <<stage, driver, mask, clock, register, mode, irq, restoreFailed,
                 answer, info>>

\* The bus is open: reserved bits are set.
PollOpenBus ==
  /\ pc = "wait"
  /\ pc' = AfterFailure
  /\ UNCHANGED <<stage, driver, mask, clock, timing, chip, restoreFailed, answer,
                 info>>

\* An answer that comes after the wait for it was given up.
LateAnswer ==
  /\ pc \in {"select", "recover"} /\ ~irq
  /\ irq' = TRUE
  /\ UNCHANGED <<control, driver, mask, clock, timing, register, mode,
                 restoreFailed, answer, info>>
-----------------------------------------------------------------------------
(* The measurement.  Each action reads the status that ended a wait.       *)

\* status 0 or 1 is a completed reset; then the chip is identified, with the
\* queue tag register, and set up to select its own id.
Identify(type) ==
  /\ pc = "wait" /\ stage = "identify"
  /\ IF type = "unknown"
     THEN /\ pc' = "recover"
          /\ UNCHANGED <<stage, register, outcome, result>>
     ELSE /\ pc' = "select" /\ stage' = "short"
          /\ register' =
               [r \in Registers |->
                  IF \/ r \in {"CONTROL", "SOURCE", "DEST", "LUN", "SYNC"}
                     \/ r = "QUEUE_TAG" /\ type # "33C93"
                  THEN "probe" ELSE register[r]]
          /\ outcome' = "CLOCK_FAILED"
          /\ result' = [result EXCEPT !.chip = type]
  /\ UNCHANGED <<driver, mask, clock, timing, mode, irq, restoreFailed, changed,
                 rates, info>>

\* selection_ticks up to its command.  The clock is read twice: for the
\* deadline, and for the start of the selection.
Select(t, u) ==
  /\ pc = "select"
  /\ IF irq
     THEN pc' = "recover" /\ UNCHANGED <<register, timing>>
     ELSE /\ polls' = 0
          /\ IF t = Stopped \/ clockFailed \/ time + t >= ProbeEnd
             THEN /\ Elapsed(t)
                  /\ pc' = "recover" /\ UNCHANGED register
             ELSE /\ clockFailed' = (u = Stopped)
                  /\ time' = time + t + (IF u = Stopped THEN 0 ELSE u)
                  /\ register' = [register EXCEPT !["TIMEOUT"] = "probe"]
                  /\ pc' = "wait"
  /\ UNCHANGED <<stage, driver, mask, clock, mode, irq, restoreFailed, answer, info>>

\* The rate check of the two samples.
Agree(r) == (IF r[1] > r[2] THEN r[1] - r[2] ELSE r[2] - r[1]) <= r[1] \div 50

\* The rest of selection_ticks.  ok: the status was that of a selection timeout
\* and took some ticks; rate: what the pair it completes yields (0: the longer
\* timeout was not longer).
Selected(t, ok, rate) ==
  /\ pc = "wait" /\ stage \in {"short", "long"}
  /\ IF clockFailed THEN UNCHANGED <<time, clockFailed>> ELSE Elapsed(t)
  /\ LET good == ok /\ ~clockFailed' /\ (stage = "long" => rate \in ValidRates)
         both == Append(rates, rate)
         last == good /\ stage = "long" /\ Len(both) = 2
     IN  /\ pc' = IF good /\ ~last THEN "select" ELSE "recover"
         /\ stage' = IF good THEN IF stage = "short" THEN "long" ELSE "short"
                     ELSE stage
         /\ rates' = IF good /\ stage = "long" THEN both ELSE rates
         /\ IF last /\ Agree(both)
            THEN /\ outcome' = "OK"
                 /\ result' = [result EXCEPT !.khz = (both[1] + both[2] + 1) \div 2]
            ELSE UNCHANGED <<outcome, result>>
  /\ UNCHANGED <<driver, mask, clock, polls, chip, restoreFailed, changed, info>>
-----------------------------------------------------------------------------
(* The recovery.                                                           *)

\* Acknowledge an interrupt of our own and reset into the driver's mode.
Recover ==
  /\ pc = "recover"
  /\ irq' = FALSE
  /\ WriteReset("host")
  /\ pc' = "wait" /\ stage' = "recover"
  /\ UNCHANGED <<driver, mask, clock, time, clockFailed, restoreFailed, answer, info>>

\* Reading the registers back finds them all as the driver left them, and no
\* interrupt.
\* Mutant: a write is taken for granted.
BugUnverified == ~irq'

Verified == (\A r \in Registers \ {"LUN"} : register'[r] = "host") /\ ~irq'

\* The reset of the recovery has ended.  expected: with the status of the
\* driver's mode; stuck: the registers whose write does not stick.
Restore(expected, stuck, raised) ==
  /\ pc = "wait" /\ stage = "recover"
  /\ IF expected
     THEN /\ register' = [r \in Registers |->
                            IF r \notin stuck THEN "host" ELSE register[r]]
          /\ irq' = raised
          /\ pc' = IF Verified THEN "done" ELSE "unrestored"
     ELSE /\ pc' = "unrestored"
          /\ UNCHANGED <<register, irq>>
  /\ UNCHANGED <<stage, driver, mask, clock, timing, mode, restoreFailed, answer,
                 info>>

DoubtfulResult == NoInfo

Unrestored ==
  /\ pc = "unrestored"
  /\ restoreFailed' = TRUE
  /\ outcome' = "RESTORE_FAILED"
  /\ result' = DoubtfulResult
  /\ pc' = "done"
  /\ UNCHANGED <<stage, driver, mask, clock, timing, chip, changed, rates, info>>

\* Enable and Permit, from which on the driver runs again.
Unmask ==
  /\ pc = "done"
  /\ pc' = "release"
  /\ forbid' = FALSE /\ disabled' = FALSE
  /\ UNCHANGED <<stage, driver, clock, timing, chip, restoreFailed, answer, info>>

\* The end of the call, and of its locals.
Release ==
  /\ pc = "release"
  /\ pc' = "idle" /\ stage' = "identify"
  /\ clock' = FALSE
  /\ info' = IF changed THEN result ELSE info
  /\ time' = 0 /\ clockFailed' = FALSE /\ polls' = 0
  /\ rates' = <<>> /\ result' = NoInfo
  /\ UNCHANGED <<driver, mask, chip, restoreFailed, outcome, changed>>
-----------------------------------------------------------------------------
Probe ==
  \/ \E ok \in BOOLEAN : Acquire(ok)
  \/ Forbid
  \/ \E ok \in BOOLEAN : Disable(ok)
  \/ \E plausible \in BOOLEAN : Inspect(plausible)
  \/ \E t \in Readings, garbage \in BOOLEAN : PollNothing(t, garbage)
  \/ PollOpenBus
  \/ \E type \in Types : Identify(type)
  \/ \E t, u \in Readings : Select(t, u)
  \/ \E t \in Readings, ok \in BOOLEAN, rate \in Rates : Selected(t, ok, rate)
  \/ Recover
  \/ \E expected, raised \in BOOLEAN, stuck \in StuckSets :
       Restore(expected, stuck, raised)
  \/ Unrestored
  \/ Unmask
  \/ Release

Next == \/ \E applicable, mapped \in BOOLEAN : Call(applicable, mapped)
        \/ Driver
        \/ LateAnswer
        \/ Probe

\* The masked section is straight-line code that nothing can preempt, and the
\* calling task runs again as long as others do not keep the processor.
Spec == Init /\ [][Next]_vars /\ WF_vars(Probe)
-----------------------------------------------------------------------------
(* Properties.                                                             *)

Owners == {"host", "probe", "lost"}

\* The probe writes to the chip only while the driver is kept from running and
\* has no command in it, running or disconnected.
Exclusive ==
  [][register' # register \/ mode' # mode =>
       disabled /\ clock /\ driver = "idle"]_vars

\* Whenever the driver can run, the chip is in its mode with its registers
\* (LUN cannot be verified) and without an interrupt of the probe's, unless
\* the probe knows that it is not.
IntactForDriver ==
  ~disabled /\ ~restoreFailed =>
    /\ \A r \in Registers \ {"LUN"} : register[r] = "host"
    /\ mode = "host" /\ ~irq

\* A chip that could not be restored is never touched again.
FailureIsFinal ==
  [][restoreFailed => restoreFailed' /\ UNCHANGED <<register, mode>>]_vars

\* Disable is only used inside Forbid and with the clock, and every return has
\* undone all three.
Balanced == /\ disabled => forbid /\ clock
            /\ pc = "idle" => ~forbid /\ ~disabled /\ ~clock

\* While the clock works, interrupts are off no longer than until the look that
\* finds the recovery deadline passed, and the recovery starts before it
\* (wdprobe.c:69-71, "work including recovery finishes within 80 ms").
MaskedInTime ==
  disabled /\ ~clockFailed =>
    /\ time < RecoverEnd + LongestLook
    /\ pc = "recover" => time < RecoverEnd

\* Interrupts are enabled again, though the chip never answers and the clock
\* stands still.
Unmasks == disabled ~> ~disabled
=============================================================================
