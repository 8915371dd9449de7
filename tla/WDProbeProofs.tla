--------------------------- MODULE WDProbeProofs ---------------------------
(***************************************************************************)
(* What the probe of WDProbe guarantees the driver it interrupts, for every *)
(* deadline, poll limit, clock and set of writes that may not stick.       *)
(***************************************************************************)
EXTENDS WDProbe, TLAPS

Labels == {"idle", "acquire", "forbid", "disable", "inspect", "wait", "select",
           "recover", "unrestored", "done", "release"}
Masked == {"inspect", "wait", "select", "recover", "unrestored", "done"}
Inside == {"wait", "select", "recover", "unrestored"}

\* The code path says what is held.
SectionInv ==
  /\ disabled <=> pc \in Masked
  /\ forbid <=> pc \in Masked \cup {"disable"}
  /\ clock <=> pc \in Masked \cup {"forbid", "disable", "release"}

\* Between the first write and the end of the recovery the driver has no
\* command in the chip and no recovery has failed yet.
InsideInv ==
  /\ pc \in Inside => driver = "idle" /\ ~restoreFailed
  /\ restoreFailed => pc \in {"idle", "done", "release"}

\* Outside it, the chip is as the driver left it; and the mode is right as soon
\* as the recovery has reset it.
Intact == /\ \A r \in Registers \ {"LUN"} : register[r] = "host"
          /\ mode = "host" /\ ~irq
ChipInv ==
  /\ ~restoreFailed /\ pc \notin Inside => Intact
  /\ pc = "wait" /\ stage = "recover" => mode = "host"
  /\ pc = "select" => stage # "recover"

IInv == SectionInv /\ InsideInv /\ ChipInv

\* The types the invariant needs: what a step writes to a register has an owner.
TypedChip == /\ pc \in Labels
             /\ driver \in {"idle", "busy", "disconnected"}
             /\ register \in [Registers -> Owners]

LEMMA InitEstablishes == Init => IInv /\ TypedChip
BY DEF Init, IInv, SectionInv, InsideInv, ChipInv, Intact, TypedChip, Labels,
       Owners, HostRegisters, Masked, Inside

\* The steps outside the masked section, and those into it and out of it.
LEMMA OuterStep ==
  ASSUME IInv, TypedChip,
         \/ \E applicable, mapped \in BOOLEAN : Call(applicable, mapped)
         \/ Driver
         \/ \E ok \in BOOLEAN : Acquire(ok)
         \/ Forbid
         \/ \E ok \in BOOLEAN : Disable(ok)
         \/ Unmask
         \/ Release
  PROVE  IInv' /\ TypedChip'
<1> USE DEF IInv, SectionInv, InsideInv, ChipInv, Intact, TypedChip, Labels,
            Masked, Inside, chip, timing, mask, control, answer, Return
<1>1. ASSUME NEW applicable \in BOOLEAN, NEW mapped \in BOOLEAN,
             Call(applicable, mapped)
      PROVE  IInv' /\ TypedChip'
  BY <1>1 DEF Call, Refused
<1>2. CASE Driver
  BY <1>2 DEF Driver
<1>3. ASSUME NEW ok \in BOOLEAN, Acquire(ok)
      PROVE  IInv' /\ TypedChip'
  BY <1>3 DEF Acquire
<1>4. CASE Forbid
  BY <1>4 DEF Forbid
<1>5. ASSUME NEW ok \in BOOLEAN, Disable(ok)
      PROVE  IInv' /\ TypedChip'
  BY <1>5 DEF Disable
<1>6. CASE Unmask
  BY <1>6 DEF Unmask
<1>7. CASE Release
  BY <1>7 DEF Release
<1> QED
  BY <1>1, <1>2, <1>3, <1>4, <1>5, <1>6, <1>7

\* The steps of the masked section.
LEMMA InnerStep ==
  ASSUME IInv, TypedChip,
         \/ \E plausible \in BOOLEAN : Inspect(plausible)
         \/ \E t \in Readings, garbage \in BOOLEAN : PollNothing(t, garbage)
         \/ PollOpenBus
         \/ LateAnswer
         \/ \E type \in Types : Identify(type)
         \/ \E t, u \in Readings : Select(t, u)
         \/ \E t \in Readings, ok \in BOOLEAN, rate \in Rates :
              Selected(t, ok, rate)
         \/ Recover
         \/ \E expected, raised \in BOOLEAN, stuck \in StuckSets :
              Restore(expected, stuck, raised)
         \/ Unrestored
  PROVE  IInv' /\ TypedChip'
<1> USE DEF IInv, SectionInv, InsideInv, ChipInv, Intact, TypedChip, Labels,
            Owners, Masked, Inside, chip, timing, mask, control, answer
<1>1. ASSUME NEW plausible \in BOOLEAN, Inspect(plausible)
      PROVE  IInv' /\ TypedChip'
  <2>1. CASE plausible /\ SafeToReset
    <3>1. register' \in [Registers -> Owners]
      BY <1>1, <2>1 DEF Inspect, WriteReset
    <3>2. pc' = "wait" /\ stage' = "identify" /\ pc = "inspect"
      BY <1>1, <2>1 DEF Inspect
    <3>3. driver = "idle"
      BY <1>1, <2>1 DEF SafeToReset, LooksIdle, Inspect
    <3> QED
      BY <1>1, <2>1, <3>1, <3>2, <3>3 DEF Inspect
  <2>2. CASE ~(plausible /\ SafeToReset)
    BY <1>1, <2>2 DEF Inspect
  <2> QED
    BY <2>1, <2>2
<1>2. ASSUME NEW t \in Readings, NEW garbage \in BOOLEAN, PollNothing(t, garbage)
      PROVE  IInv' /\ TypedChip'
  <2>1. pc' \in {"wait", "recover", "unrestored"}
    BY <1>2 DEF PollNothing, AfterFailure
  <2> QED
    BY <1>2, <2>1 DEF PollNothing
<1>3. CASE PollOpenBus
  BY <1>3 DEF PollOpenBus, AfterFailure
<1>4. CASE LateAnswer
  BY <1>4 DEF LateAnswer
<1>5. ASSUME NEW type \in Types, Identify(type)
      PROVE  IInv' /\ TypedChip'
  BY <1>5 DEF Identify
<1>6. ASSUME NEW t \in Readings, NEW u \in Readings, Select(t, u)
      PROVE  IInv' /\ TypedChip'
  <2>1. pc' \in {"wait", "recover"} /\ pc = "select" /\ stage' = stage
    BY <1>6 DEF Select
  <2>2. register' \in [Registers -> Owners]
    BY <1>6 DEF Select
  <2>3. UNCHANGED <<driver, mask, clock, mode, irq, restoreFailed>>
    BY <1>6 DEF Select
  <2> QED
    BY <2>1, <2>2, <2>3
<1>7. ASSUME NEW t \in Readings, NEW ok \in BOOLEAN, NEW rate \in Rates,
             Selected(t, ok, rate)
      PROVE  IInv' /\ TypedChip'
  <2>1. pc' \in {"select", "recover"}
    BY <1>7 DEF Selected
  <2> QED
    BY <1>7, <2>1 DEF Selected
<1>8. CASE Recover
  BY <1>8 DEF Recover, WriteReset
<1>9. ASSUME NEW expected \in BOOLEAN, NEW raised \in BOOLEAN,
             NEW stuck \in StuckSets, Restore(expected, stuck, raised)
      PROVE  IInv' /\ TypedChip'
  <2>1. pc' = "done" => Intact'
    BY <1>9 DEF Restore, Verified
  <2>2. register' \in [Registers -> Owners]
    BY <1>9 DEF Restore
  <2> QED
    BY <1>9, <2>1, <2>2 DEF Restore
<1>10. CASE Unrestored
  BY <1>10 DEF Unrestored
<1> QED
  BY <1>1, <1>2, <1>3, <1>4, <1>5, <1>6, <1>7, <1>8, <1>9, <1>10

LEMMA NextPreserves ==
  ASSUME IInv, TypedChip, [Next]_vars
  PROVE  IInv' /\ TypedChip'
<1>1. CASE Next
  BY <1>1, OuterStep, InnerStep DEF Next, Probe
<1>2. CASE UNCHANGED vars
  BY <1>2 DEF vars, IInv, SectionInv, InsideInv, ChipInv, Intact, TypedChip,
              chip, mask, control
<1> QED
  BY <1>1, <1>2

\* A step of the chip's registers is one of the masked section.
LEMMA WritesInside ==
  ASSUME IInv, TypedChip, [Next]_vars, register' # register \/ mode' # mode
  PROVE  disabled /\ clock /\ driver = "idle" /\ ~restoreFailed
<1> USE DEF IInv, SectionInv, InsideInv, ChipInv, Intact, TypedChip, Masked,
            Inside, chip
<1>1. Next
  BY DEF vars
<1>2. ASSUME NEW plausible \in BOOLEAN, Inspect(plausible)
      PROVE  disabled /\ clock /\ driver = "idle" /\ ~restoreFailed
  BY <1>2 DEF Inspect, SafeToReset, LooksIdle
<1>3. \/ pc \in Inside
      \/ \E plausible \in BOOLEAN : Inspect(plausible)
      \/ UNCHANGED <<register, mode>>
  BY <1>1 DEF Next, Probe, Call, Driver, Acquire, Forbid, Disable, PollNothing,
              PollOpenBus, LateAnswer, Identify, Select, Selected, Recover,
              Restore, Unrestored, Unmask, Release
<1> QED
  BY <1>2, <1>3

\* restore_failed is set once and never cleared.
LEMMA FailureSticks ==
  ASSUME [Next]_vars, restoreFailed
  PROVE  restoreFailed'
BY DEF vars, Next, Probe, Call, Driver, Acquire, Forbid, Disable, Inspect,
       PollNothing, PollOpenBus, LateAnswer, Identify, Select, Selected, Recover,
       Restore, Unrestored, Unmask, Release

THEOREM Inductive == Spec => [](IInv /\ TypedChip)
<1>1. Init => IInv /\ TypedChip
  BY InitEstablishes
<1>2. IInv /\ TypedChip /\ [Next]_vars => (IInv /\ TypedChip)'
  BY NextPreserves
<1> QED
  BY <1>1, <1>2, PTL DEF Spec

\* Whenever the SCSI driver can run, the probe has left the chip as the driver
\* had it, or has recorded that it could not (wdprobe.c:235-270).
THEOREM ChipIntact == Spec => []IntactForDriver
<1>1. IInv => IntactForDriver
  BY DEF IInv, SectionInv, InsideInv, ChipInv, Intact, IntactForDriver, Masked,
         Inside
<1> QED
  BY <1>1, Inductive, PTL

\* Every return of probe_wd_controller has undone Disable, Forbid and the
\* acquisition of the clock, and they are nested in that order.
THEOREM SectionBalanced == Spec => []Balanced
<1>1. IInv => Balanced
  BY DEF IInv, SectionInv, Balanced, Masked
<1> QED
  BY <1>1, Inductive, PTL

\* The chip is written to only while the driver can neither run nor have a
\* command in it (wdprobe.c:164-184 repeat the checks of line 143 for this).
THEOREM DriverExcluded == Spec => Exclusive
<1>1. IInv /\ TypedChip /\ [Next]_vars =>
        [register' # register \/ mode' # mode =>
           disabled /\ clock /\ driver = "idle"]_vars
  BY WritesInside
<1> QED
  BY <1>1, Inductive, PTL DEF Spec, Exclusive

\* After a recovery that failed the chip is never written to again
\* (wdprobe.c:133 and 266).
THEOREM NeverTouchedAgain == Spec => FailureIsFinal
<1>1. IInv /\ TypedChip /\ [Next]_vars =>
        [restoreFailed => restoreFailed' /\ UNCHANGED <<register, mode>>]_vars
  BY WritesInside, FailureSticks
<1> QED
  BY <1>1, Inductive, PTL DEF Spec, FailureIsFinal
-----------------------------------------------------------------------------
(* The time for which interrupts are off.                                  *)

\* Nothing has passed before the first reset; a wait for the measurement begins
\* before its deadline but for one look, and each of the two steps that may
\* still follow it adds one; the recovery ends with the first look that finds
\* its deadline passed.
TimeInv ==
  /\ time \in Nat
  /\ pc \in Labels \ (Masked \cup {"release"}) => time = 0
  /\ pc = "inspect" => time = 0
  /\ ~clockFailed =>
       /\ pc = "wait" /\ stage # "recover" => time < ProbeEnd + LongestLook
       /\ pc = "select" => time < ProbeEnd + 2 * LongestLook
       /\ pc = "recover" => time < ProbeEnd + 3 * LongestLook
       /\ pc = "wait" /\ stage = "recover" => time < RecoverEnd
       /\ pc \in Masked => time < RecoverEnd + LongestLook

LEMMA TickBounds ==
  ASSUME NEW t \in Readings, t # Stopped
  PROVE  t \in Nat /\ t <= LongestLook
BY WaitAssumption DEF Readings

LEMMA LookNat ==
  /\ LongestLook \in Nat /\ ProbeEnd \in Nat /\ ProbeEnd > 0 /\ RecoverEnd \in Nat
  /\ ProbeEnd + 3 * LongestLook <= RecoverEnd
BY WaitAssumption, DeadlineAssumption

LEMMA TimeKept ==
  ASSUME IInv, TypedChip, TimeInv, [Next]_vars
  PROVE  TimeInv'
<1> USE LookNat DEF IInv, SectionInv, ChipInv, TypedChip, TimeInv, Labels, Masked,
            Inside, chip, timing, mask, control, answer
<1>1. CASE UNCHANGED vars
  BY <1>1 DEF vars
<1>2. ASSUME NEW applicable \in BOOLEAN, NEW mapped \in BOOLEAN,
             Call(applicable, mapped)
      PROVE  TimeInv'
  BY <1>2 DEF Call, Return
<1>3. CASE Driver
  BY <1>3 DEF Driver
<1>4. CASE LateAnswer
  BY <1>4 DEF LateAnswer
<1>5. ASSUME NEW ok \in BOOLEAN, Acquire(ok) \/ Disable(ok)
      PROVE  TimeInv'
  BY <1>5 DEF Acquire, Disable, Return
<1>6. CASE Forbid
  BY <1>6 DEF Forbid
<1>7. ASSUME NEW plausible \in BOOLEAN, Inspect(plausible)
      PROVE  TimeInv'
  <2>1. /\ pc = "inspect" /\ pc' \in {"wait", "done"} /\ time' = time
        /\ pc' = "wait" => stage' = "identify"
    BY <1>7 DEF Inspect
  <2> QED
    BY <2>1
<1>8. ASSUME NEW t \in Readings, NEW garbage \in BOOLEAN, PollNothing(t, garbage)
      PROVE  TimeInv'
  <2>1. /\ pc = "wait" /\ stage' = stage
        /\ pc' \in {"wait", AfterFailure}
    BY <1>8 DEF PollNothing
  <2>2. CASE clockFailed \/ t = Stopped
    BY <1>8, <2>1, <2>2 DEF PollNothing, Elapsed, AfterFailure
  <2>3. CASE ~clockFailed /\ t # Stopped
    <3>1. time' = time + t /\ t \in Nat /\ t <= LongestLook
      BY <1>8, <2>3, TickBounds DEF PollNothing, Elapsed
    <3>2. time' >= Deadline => pc' = AfterFailure
      BY <1>8, <2>3 DEF PollNothing
    <3>3. CASE stage = "recover"
      BY <2>1, <2>3, <3>1, <3>2, <3>3 DEF AfterFailure, Deadline
    <3>4. CASE stage # "recover"
      BY <2>1, <2>3, <3>1, <3>2, <3>4 DEF AfterFailure, Deadline
    <3> QED
      BY <3>3, <3>4
  <2> QED
    BY <2>2, <2>3
<1>9. CASE PollOpenBus
  BY <1>9 DEF PollOpenBus, AfterFailure
<1>10. ASSUME NEW type \in Types, Identify(type)
       PROVE  TimeInv'
  <2>1. /\ pc = "wait" /\ stage = "identify" /\ pc' \in {"recover", "select"}
        /\ UNCHANGED timing
    BY <1>10 DEF Identify
  <2> QED
    BY <2>1
<1>11. ASSUME NEW t \in Readings, NEW u \in Readings, Select(t, u)
       PROVE  TimeInv'
  <2>1. pc = "select" /\ stage' = stage /\ stage # "recover"
    BY <1>11 DEF Select
  <2>2. CASE irq
    BY <1>11, <2>1, <2>2 DEF Select
  <2>3. CASE ~irq /\ (t = Stopped \/ clockFailed \/ time + t >= ProbeEnd)
    <3>1. Elapsed(t) /\ pc' = "recover"
      BY <1>11, <2>3 DEF Select
    <3> QED
      BY <2>1, <3>1, TickBounds DEF Elapsed
  <2>4. CASE ~irq /\ ~(t = Stopped \/ clockFailed \/ time + t >= ProbeEnd)
    <3>1. /\ clockFailed' = (u = Stopped)
          /\ time' = time + t + (IF u = Stopped THEN 0 ELSE u)
          /\ pc' = "wait"
      BY <1>11, <2>4 DEF Select
    <3>2. t \in Nat /\ time + t < ProbeEnd
      BY <2>4, TickBounds
    <3>3. CASE u = Stopped
      BY <2>1, <3>1, <3>2, <3>3
    <3>4. CASE u # Stopped
      BY <2>1, <3>1, <3>2, <3>4, TickBounds
    <3> QED
      BY <3>3, <3>4
  <2> QED
    BY <2>2, <2>3, <2>4
<1>12. ASSUME NEW t \in Readings, NEW ok \in BOOLEAN, NEW rate \in Rates,
              Selected(t, ok, rate)
       PROVE  TimeInv'
  <2>1. /\ pc = "wait" /\ stage # "recover" /\ pc' \in {"select", "recover"}
        /\ IF clockFailed THEN UNCHANGED <<time, clockFailed>> ELSE Elapsed(t)
    BY <1>12 DEF Selected
  <2> QED
    BY <2>1, TickBounds DEF Elapsed
<1>13. CASE Recover
  BY <1>13 DEF Recover, WriteReset
<1>14. ASSUME NEW expected \in BOOLEAN, NEW raised \in BOOLEAN,
              NEW stuck \in StuckSets, Restore(expected, stuck, raised)
       PROVE  TimeInv'
  <2>1. pc = "wait" /\ pc' \in {"done", "unrestored"} /\ UNCHANGED timing
    BY <1>14 DEF Restore
  <2> QED
    BY <2>1
<1>15. CASE Unrestored
  BY <1>15 DEF Unrestored
<1>16. CASE Unmask
  BY <1>16 DEF Unmask
<1>17. CASE Release
  BY <1>17 DEF Release
<1> QED
  BY <1>1, <1>2, <1>3, <1>4, <1>5, <1>6, <1>7, <1>8, <1>9, <1>10, <1>11, <1>12,
     <1>13, <1>14, <1>15, <1>16, <1>17 DEF Next, Probe

\* However the waits of the measurement and of the recovery interleave with the
\* ticks of the clock, the recovery begins before its deadline and interrupts
\* are on again by the first look past it (wdprobe.c:69-95 and 235-245).
THEOREM MaskedShortly == Spec => []MaskedInTime
<1>1. Init => TimeInv
  BY LookNat DEF Init, TimeInv, Labels, Masked
<1>2. IInv /\ TypedChip /\ TimeInv /\ [Next]_vars => TimeInv'
  BY TimeKept
<1>3. IInv /\ TimeInv => MaskedInTime
  BY LookNat DEF IInv, SectionInv, TimeInv, MaskedInTime, Masked
<1> QED
  BY <1>1, <1>2, <1>3, Inductive, PTL DEF Spec
=============================================================================
