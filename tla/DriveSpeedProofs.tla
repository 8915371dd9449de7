-------------------------- MODULE DriveSpeedProofs --------------------------
(***************************************************************************)
(* Proofs about DriveSpeed, for every size, limit, duration and drive.     *)
(*                                                                         *)
(* The budgets of a run need an invariant stronger than ReadBudget: what   *)
(* the timed reads have asked for is what the byte budget has lost plus    *)
(* what the sample in progress will be charged, and a sample never asks    *)
(* for more than the share it was given out of that budget.                *)
(***************************************************************************)
EXTENDS DriveSpeed, FiniteSetTheorems, TLAPS

LEMMA AlignBounds ==
  ASSUME NEW n \in Int
  PROVE  Align(n) \in Int /\ Align(n) <= n /\ (n \in Nat => Align(n) \in Nat)
<1>1. n % BlockSize \in Int /\ 0 <= n % BlockSize /\ n % BlockSize < BlockSize
  BY SizeAssumption
<1>2. n \in Nat => n % BlockSize <= n
  BY SizeAssumption
<1> QED BY <1>1, <1>2 DEF Align

LEMMA RateNat ==
  ASSUME NEW bytes \in Nat, NEW us \in Nat \ {0}
  PROVE  Rate(bytes, us) \in Nat
<1>1. bytes * UsPerSecond \in Nat
  BY TimeAssumption
<1>2. (bytes * UsPerSecond) \div us \in Nat
  BY <1>1
<1> QED BY <1>2, TimeAssumption DEF Rate, MinOf

LEMMA NoSpeeds == <<>> \in Seq(Nat)
  OBVIOUS

LEMMA TotalNat == TotalUs \in Nat
  BY TimeAssumption DEF TotalUs

LEMMA DriveType ==
  ASSUME NEW d \in Drives
  PROVE  /\ d.base \in Nat /\ d.blocks \in Nat /\ d.track \in Nat
         /\ d.maxTransfer \in Nat /\ d.chs \in BOOLEAN /\ d.mask \in BOOLEAN
         /\ Base(d) \in Nat
  BY DriveAssumption DEF DriveRecord, Base

LEMMA PlanNat ==
  ASSUME NEW d \in Drives
  PROVE  /\ IsFloppy(d) \in BOOLEAN
         /\ ByteLimit(d) \in Nat /\ SampleLimit(d) \in Nat
         /\ RangeBytes(d, ByteLimit(d)) \in Nat
         /\ TransferSize(d) \in Nat
<1>1. GeometryBlocks(d) \in Nat
  BY DriveType, SizeAssumption DEF GeometryBlocks
<1>2. IsFloppy(d) \in BOOLEAN
  BY DEF IsFloppy
<1>3. ByteLimit(d) \in Nat /\ SampleLimit(d) \in Nat
  BY DriveType, SizeAssumption, TimeAssumption DEF ByteLimit, SampleLimit
<1>4. Available(d) \in Nat
  BY <1>1, DriveType, SizeAssumption DEF Available
<1>5. RangeBytes(d, ByteLimit(d)) \in Nat
  BY <1>3, <1>4, AlignBounds DEF RangeBytes
<1>6. WholeBuffer(d) \in Nat
  <2> DEFINE first == MaxOf(IF IsFloppy(d) THEN d.track ELSE HardChunk, BlockSize)
  <2>1. first \in Nat
    BY DriveType, SizeAssumption DEF MaxOf
  <2>2. Align(first) \in Nat
    BY <2>1, AlignBounds
  <2> QED BY <2>2, SizeAssumption DEF WholeBuffer, MaxOf
<1>7. TransferSize(d) \in Nat
  BY <1>6, DriveType, AlignBounds DEF TransferSize
<1> QED BY <1>2, <1>3, <1>5, <1>7

-----------------------------------------------------------------------------
(* The byte budget.                                                        *)

\* Outside the read loop nothing is pending; inside it a sample asks for what
\* has arrived, plus at most the request that ended it, within its share.
SampleInv ==
  IF pc = "read"
  THEN /\ sample.issued <= sample.maxBytes
       /\ sample.maxBytes <= bytesLeft
       /\ sample.status = "run" => sample.issued = sample.bytes
  ELSE sample.issued = 0

Accounted == timed = (maxTest - bytesLeft) + sample.issued

BudgetInv == TypeOK /\ SampleInv /\ Accounted

LEMMA BudgetInit == Init => BudgetInv
<1> SUFFICES ASSUME Init PROVE BudgetInv
  OBVIOUS
<1>1. NoSample \in SampleRecord /\ NoSample.issued = 0
  BY DEF NoSample, SampleRecord
<1>2. ControlOK
  BY DEF Init, ControlOK, Labels, Resources
<1>3. NumbersOK
  BY DEF Init, NumbersOK
<1>4. ResultOK
  BY NoSpeeds DEF Init, ResultOK
<1> QED BY <1>1, <1>2, <1>3, <1>4 DEF Init, BudgetInv, TypeOK, SampleInv, Accounted

LEMMA BudgetStart ==
  ASSUME BudgetInv, NEW d \in Drives, NEW usable \in BOOLEAN, Start(d, usable)
  PROVE  BudgetInv'
<1> DEFINE limit == RangeBytes(d, ByteLimit(d))
<1>1. limit \in Nat /\ limit \div BlockSize \in Nat
  BY PlanNat, SizeAssumption
<1>2. NoSample \in SampleRecord /\ NoSample.issued = 0
  BY DEF NoSample, SampleRecord
<1>3. /\ pc' \in {"open", "idle"}
      /\ maxTest' \in Nat /\ bytesLeft' = maxTest'
      /\ bufferSize' \in Nat /\ wanted' \in Nat
  BY <1>1, PlanNat DEF Start, MinOf
<1>4. ControlOK'
  BY <1>3 DEF Start, ControlOK, Labels, BudgetInv, TypeOK
<1>5. NumbersOK'
  BY <1>3, DriveType DEF Start, NumbersOK
<1>6. sample' \in SampleRecord
  BY <1>2 DEF Start
<1>7. ResultOK'
  BY NoSpeeds DEF Start, ResultOK
<1> QED BY <1>2, <1>3, <1>4, <1>5, <1>6, <1>7
        DEF BudgetInv, TypeOK, SampleInv, Accounted, Start, NumbersOK

\* The labels before the samples: only control, offset and command change.
LEMMA BudgetSetUp ==
  ASSUME BudgetInv,
         \/ \E acquired \in {{}, {"port"}, {"port", "io"}, {"port", "io", "device"}} :
              Open(acquired)
         \/ \E allocated, fellBack \in BOOLEAN : Retry(allocated, fellBack)
         \/ \E ok \in BOOLEAN : Probe(ok)
         \/ WarmUp
  PROVE  BudgetInv'
<1> USE DEF BudgetInv, TypeOK
<1>1. ASSUME NEW acquired \in {{}, {"port"}, {"port", "io"}, {"port", "io", "device"}},
             Open(acquired)
      PROVE  BudgetInv'
  <2>1. ControlOK'
    BY <1>1 DEF Open, ControlOK, Labels, Resources, plan
  <2>2. NumbersOK' /\ ResultOK' /\ sample' \in SampleRecord
    BY <1>1 DEF Open, NumbersOK, ResultOK, plan, budget, result
  <2> QED BY <1>1, <2>1, <2>2 DEF SampleInv, Accounted, Open, plan, budget
<1>2. ASSUME NEW allocated \in BOOLEAN, NEW fellBack \in BOOLEAN,
             Retry(allocated, fellBack)
      PROVE  BudgetInv'
  <2>1. pc' \in {"cleanup", "probe", "warmup"}
    BY <1>2 DEF Retry
  <2>2. ControlOK'
    BY <1>2, <2>1 DEF Retry, ControlOK, Labels, Resources, plan
  <2>3. NumbersOK' /\ sample' \in SampleRecord
    BY <1>2, DriveType DEF Retry, NumbersOK, ControlOK, plan, budget
  <2>4. ResultOK'
    BY <1>2, NoSpeeds DEF Retry, ResultOK
  <2> QED BY <1>2, <2>1, <2>2, <2>3, <2>4 DEF SampleInv, Accounted, Retry, plan, budget
<1>3. ASSUME NEW ok \in BOOLEAN, Probe(ok)
      PROVE  BudgetInv'
  <2>1. pc' \in {"retry", "warmup"} /\ motor' \in BOOLEAN /\ safeRetry' \in BOOLEAN
    BY <1>3 DEF Probe, ControlOK, SafeAfter
  <2>2. ControlOK'
    BY <1>3, <2>1 DEF Probe, ControlOK, Labels, plan
  <2>3. NumbersOK' /\ ResultOK' /\ sample' \in SampleRecord
    BY <1>3 DEF Probe, NumbersOK, ResultOK, plan, budget
  <2> QED BY <1>3, <2>1, <2>2, <2>3 DEF SampleInv, Accounted, Probe, plan, budget
<1>4. ASSUME WarmUp PROVE BudgetInv'
  <2>1. ControlOK'
    BY <1>4 DEF WarmUp, ControlOK, Labels, plan
  <2>2. NumbersOK' /\ ResultOK' /\ sample' \in SampleRecord
    BY <1>4 DEF WarmUp, NumbersOK, ResultOK, plan, budget, result
  <2> QED BY <1>4, <2>1, <2>2 DEF SampleInv, Accounted, WarmUp, plan, budget
<1> QED BY <1>1, <1>2, <1>3, <1>4

LEMMA ShareBounds ==
  ASSUME BudgetInv, NEW samplesLeft \in Nat, samplesLeft > 0,
         Share(samplesLeft) >= BlockSize
  PROVE  Share(samplesLeft) \in Nat /\ Share(samplesLeft) <= bytesLeft
<1> DEFINE part == (maxTest - totalRead) \div samplesLeft
<1>1. part \in Int /\ bytesLeft \in Nat
  BY DEF BudgetInv, TypeOK, NumbersOK
<1>2. MinOf(part, bytesLeft) \in Int /\ MinOf(part, bytesLeft) <= bytesLeft
  BY <1>1 DEF MinOf
<1>3. Share(samplesLeft) \in Int /\ Share(samplesLeft) <= MinOf(part, bytesLeft)
  BY <1>2, AlignBounds DEF Share
<1> QED BY <1>1, <1>2, <1>3, SizeAssumption

LEMMA BudgetBeginSample ==
  ASSUME BudgetInv, BeginSample
  PROVE  BudgetInv'
<1> DEFINE left == wanted - Len(speeds)
<1>1. wanted \in Nat /\ Len(speeds) \in Nat /\ bytesLeft \in Nat /\ elapsed \in Nat
  BY DEF BudgetInv, TypeOK, NumbersOK, ResultOK
<1>2. ControlOK' /\ NumbersOK' /\ ResultOK'
  BY DEF BeginSample, BudgetInv, TypeOK, ControlOK, NumbersOK, ResultOK, Labels,
         plan, budget, result
<1>3. CASE pc' = "publish" /\ UNCHANGED sample
  BY <1>2, <1>3 DEF BeginSample, BudgetInv, TypeOK, SampleInv, Accounted, plan, budget
<1>4. CASE /\ left > 0 /\ bytesLeft >= BlockSize /\ elapsed < TotalUs
           /\ Share(left) >= BlockSize /\ pc' = "read"
           /\ sample' = [NoSample EXCEPT !.maxBytes = Share(left),
                                         !.maxUs = SampleUs, !.status = "run"]
  <2>1. Share(left) \in Nat /\ Share(left) <= bytesLeft
    BY <1>1, <1>4, ShareBounds
  <2>2. SampleUs \in Nat
    BY <1>1, <1>4, TotalNat, TimeAssumption DEF SampleUs, MinOf
  <2>3. /\ sample' \in SampleRecord
        /\ sample'.maxBytes = Share(left) /\ sample'.issued = 0
        /\ sample'.bytes = 0 /\ sample'.status = "run"
    BY <1>4, <2>1, <2>2 DEF NoSample, SampleRecord
  <2>4. sample.issued = 0 /\ timed = maxTest - bytesLeft
    BY DEF BeginSample, BudgetInv, SampleInv, Accounted, TypeOK, NumbersOK
  <2> QED BY <1>2, <1>4, <2>1, <2>3, <2>4
          DEF BeginSample, BudgetInv, TypeOK, SampleInv, Accounted, plan, budget,
              NumbersOK
<1> QED BY <1>3, <1>4 DEF BeginSample

\* A request fits the buffer and what is left of the sample's share.
LEMMA ReadLengthBounds ==
  ASSUME BudgetInv, MoreToRead
  PROVE  /\ ReadLength \in Nat /\ ReadLength > 0
         /\ ReadLength <= sample.maxBytes - sample.bytes
<1> DEFINE room == sample.maxBytes - sample.bytes
           size == IF ShortReads THEN FirstChunk ELSE bufferSize
<1>1. size \in Nat /\ room \in Int
  BY SizeAssumption DEF BudgetInv, TypeOK, NumbersOK, SampleRecord
<1>2. MinOf(size, room) \in Int /\ MinOf(size, room) <= room
  BY <1>1 DEF MinOf
<1>3. ReadLength \in Int /\ ReadLength <= MinOf(size, room)
  BY <1>2, AlignBounds DEF ReadLength
<1>4. ReadLength >= BlockSize
  BY DEF MoreToRead
<1> QED BY <1>1, <1>2, <1>3, <1>4, SizeAssumption

LEMMA BudgetRead ==
  ASSUME BudgetInv, NEW d \in Durations, NEW outcome \in {"ok", "error", "timer"},
         Read(d, outcome)
  PROVE  BudgetInv'
<1>1. d \in Nat /\ sample \in SampleRecord /\ pc = "read" /\ MoreToRead
  BY TimeAssumption DEF BudgetInv, TypeOK, Read
<1>2. /\ ReadLength \in Nat
      /\ ReadLength <= sample.maxBytes - sample.bytes
      /\ sample.status = "run"
  BY <1>1, ReadLengthBounds DEF MoreToRead
<1>3. sample.issued = sample.bytes /\ sample.maxBytes <= bytesLeft
  BY <1>1, <1>2 DEF BudgetInv, SampleInv
<1>4. /\ sample' \in SampleRecord
      /\ sample'.issued = sample.issued + ReadLength
      /\ sample'.maxBytes = sample.maxBytes
      /\ sample'.status = "run" => sample'.bytes = sample.bytes + ReadLength
  <2>1. sample' = [sample EXCEPT
                     !.issued = @ + ReadLength,
                     !.us = IF outcome = "timer" THEN @ ELSE @ + d,
                     !.bytes = IF outcome = "ok" THEN @ + ReadLength ELSE @,
                     !.reads = IF outcome = "ok" THEN @ + 1 ELSE @,
                     !.status = IF outcome = "ok" THEN "run" ELSE outcome]
    BY DEF Read
  <2>2. /\ sample.us \in Nat /\ sample.bytes \in Nat /\ sample.reads \in Nat
        /\ sample.issued \in Nat
    BY <1>1 DEF SampleRecord
  <2> DEFINE us == IF outcome = "timer" THEN sample.us ELSE sample.us + d
             bytes == IF outcome = "ok" THEN sample.bytes + ReadLength ELSE sample.bytes
             reads == IF outcome = "ok" THEN sample.reads + 1 ELSE sample.reads
             status == IF outcome = "ok" THEN "run" ELSE outcome
  <2>3. /\ us \in Nat /\ bytes \in Nat /\ reads \in Nat
        /\ status \in {"run", "done", "error", "timer"}
        /\ sample.issued + ReadLength \in Nat
    BY <1>1, <1>2, <2>2
  <2>4. sample' = [sample EXCEPT !.issued = @ + ReadLength, !.us = us,
                                 !.bytes = bytes, !.reads = reads,
                                 !.status = status]
    BY <2>1
  <2> HIDE DEF us, bytes, reads, status
  <2>5. /\ sample' \in SampleRecord
        /\ sample'.issued = sample.issued + ReadLength
        /\ sample'.maxBytes = sample.maxBytes
        /\ sample'.bytes = bytes /\ sample'.status = status
    BY <1>1, <2>3, <2>4 DEF SampleRecord
  <2> QED BY <2>5 DEF bytes, status
<1>5. pc' = "read" /\ timed' = timed + ReadLength /\ UNCHANGED <<plan, budget>>
  BY <1>1 DEF Read
<1>6. ControlOK' /\ ResultOK'
  BY DEF Read, BudgetInv, TypeOK, ControlOK, ResultOK, plan, result
<1>7. NumbersOK'
  BY <1>2 DEF Read, BudgetInv, TypeOK, NumbersOK, plan, budget
<1>8. sample.bytes \in Nat /\ sample.maxBytes \in Nat /\ sample.issued \in Nat
  BY <1>1 DEF SampleRecord
<1>9. SampleInv'
  BY <1>2, <1>3, <1>4, <1>5, <1>8 DEF SampleInv, budget
<1>10. Accounted'
  BY <1>2, <1>4, <1>5, <1>8 DEF Accounted, BudgetInv, TypeOK, NumbersOK, plan, budget
<1> QED BY <1>4, <1>6, <1>7, <1>9, <1>10 DEF BudgetInv, TypeOK

LEMMA BudgetEndSample ==
  ASSUME BudgetInv, NEW d \in Durations, NEW clockOK \in BOOLEAN,
         EndSample(d, clockOK)
  PROVE  BudgetInv'
<1> DEFINE timerOK == clockOK /\ sample.status # "timer"
           us == IF timerOK THEN sample.us + d ELSE sample.us
           failed == timerOK /\ sample.status = "error"
           valid == /\ timerOK /\ ~failed
                    /\ us # 0 /\ sample.bytes # 0 /\ Rate(sample.bytes, us) # 0
<1>1. /\ d \in Nat /\ sample \in SampleRecord /\ pc = "read"
      /\ sample.us \in Nat /\ sample.bytes \in Nat /\ sample.issued \in Nat
      /\ sample.maxBytes \in Nat
  BY TimeAssumption DEF BudgetInv, TypeOK, EndSample, SampleRecord
<1>2. us \in Nat
  BY <1>1
<1>3. /\ bytesLeft' = bytesLeft - sample.issued /\ elapsed' = elapsed + us
      /\ pc' \in {"loop", "retry", "cleanup"}
      /\ safeRetry' \in BOOLEAN
      /\ UNCHANGED timed /\ UNCHANGED plan
      /\ sample' = NoSample
  BY DEF EndSample, Charge, SafeAfter, BudgetInv, TypeOK, ControlOK
<1>4. bytesLeft' \in Nat
  BY <1>1, <1>3 DEF BudgetInv, SampleInv, TypeOK, NumbersOK
<1>5. ControlOK'
  BY <1>3 DEF EndSample, BudgetInv, TypeOK, ControlOK, Labels, plan
<1>6. NumbersOK'
  <2>1. totalRead' \in Nat
    BY <1>1 DEF EndSample, BudgetInv, TypeOK, NumbersOK
  <2> QED BY SMTT(20), <1>2, <1>3, <1>4, <2>1
          DEF EndSample, BudgetInv, TypeOK, NumbersOK, plan
<1>7. ResultOK'
  <2>1. valid => Rate(sample.bytes, us) \in Nat
    BY <1>1, <1>2, RateNat
  <2>2. speeds' = IF valid THEN Append(speeds, Rate(sample.bytes, us)) ELSE speeds
    BY DEF EndSample
  <2>3. speeds' \in Seq(Nat)
    BY <2>1, <2>2 DEF BudgetInv, TypeOK, ResultOK
  <2> QED BY <2>3 DEF EndSample, BudgetInv, TypeOK, ResultOK
<1>8. sample' \in SampleRecord /\ sample'.issued = 0
  BY <1>3 DEF NoSample, SampleRecord
<1>9. SampleInv' /\ Accounted'
  BY <1>1, <1>3, <1>8 DEF SampleInv, Accounted, BudgetInv, TypeOK, NumbersOK, plan
<1> QED BY <1>5, <1>6, <1>7, <1>8, <1>9 DEF BudgetInv, TypeOK

LEMMA BudgetFinish ==
  ASSUME BudgetInv, Publish \/ Cleanup
  PROVE  BudgetInv'
<1> USE DEF BudgetInv, TypeOK
<1>1. ASSUME Publish PROVE BudgetInv'
  <2>1. ControlOK' /\ NumbersOK' /\ sample' \in SampleRecord
    BY <1>1 DEF Publish, ControlOK, NumbersOK, Labels, plan, budget
  <2>2. ResultOK'
    BY <1>1 DEF Publish, ResultOK
  <2> QED BY <1>1, <2>1, <2>2 DEF Publish, SampleInv, Accounted, plan, budget
<1>2. ASSUME Cleanup PROVE BudgetInv'
  <2>1. ControlOK' /\ NumbersOK' /\ sample' \in SampleRecord
    BY <1>2 DEF Cleanup, ControlOK, NumbersOK, Labels, plan, budget
  <2>2. speeds' \in Seq(Nat)
    BY <1>2, NoSpeeds DEF Cleanup, ResultOK
  <2>3. ResultOK'
    BY <1>2, <2>2 DEF Cleanup, ResultOK, KeepsResult
  <2> QED BY <1>2, <2>1, <2>3 DEF Cleanup, SampleInv, Accounted, plan, budget
<1> QED BY <1>1, <1>2

LEMMA BudgetStutter == BudgetInv /\ UNCHANGED vars => BudgetInv'
  BY DEF BudgetInv, TypeOK, ControlOK, NumbersOK, ResultOK, SampleInv, Accounted,
         vars, plan, budget, result

LEMMA BudgetInductive == Spec => []BudgetInv
<1>1. BudgetInv /\ [Next]_vars => BudgetInv'
  <2> SUFFICES ASSUME BudgetInv, [Next]_vars PROVE BudgetInv'
    OBVIOUS
  <2>1. CASE \E d \in Drives, usable \in BOOLEAN : Start(d, usable)
    BY <2>1, BudgetStart
  <2>2. CASE Run
    BY <2>2, BudgetSetUp, BudgetBeginSample, BudgetRead, BudgetEndSample, BudgetFinish
       DEF Run
  <2>3. CASE UNCHANGED vars
    BY <2>3, BudgetStutter
  <2> QED BY <2>1, <2>2, <2>3 DEF Next
<1> QED BY <1>1, BudgetInit, PTL DEF Spec

\* Every variable has its type, whatever the sizes, limits and drives: neither
\* budget, both ULONGs in drives.c, is ever driven below zero.
THEOREM TypeCorrect == Spec => []TypeOK
<1>1. BudgetInv => TypeOK
  BY DEF BudgetInv
<1> QED BY <1>1, BudgetInductive, PTL

\* The timed reads of a run, those before its restart included, ask for no
\* more than the one budget measure_drive_speed computed for it.
THEOREM ReadBudgetHolds == Spec => []ReadBudget
<1>1. BudgetInv => ReadBudget
  <2> SUFFICES ASSUME BudgetInv PROVE ReadBudget
    OBVIOUS
  <2>1. sample.issued \in Nat /\ sample.maxBytes \in Nat
    BY DEF BudgetInv, TypeOK, SampleRecord
  <2>2. sample.issued <= bytesLeft
    BY <2>1 DEF BudgetInv, SampleInv, TypeOK, NumbersOK
  <2> QED BY <2>1, <2>2 DEF BudgetInv, Accounted, ReadBudget, TypeOK, NumbersOK
<1> QED BY <1>1, BudgetInductive, PTL

-----------------------------------------------------------------------------
(* The time budget.                                                        *)

\* A sample starts within the time of the run and is limited to the rest of
\* it; until its first read has come back it has used none.
TimeInv ==
  pc = "read" => /\ elapsed < TotalUs
                 /\ sample.maxUs <= TotalUs - elapsed
                 /\ sample.reads = 0 /\ sample.status = "run" => sample.us = 0

LEMMA TimeInductive == Spec => []TimeInv
<1>1. Init => TimeInv
  BY DEF Init, TimeInv
<1>2. BudgetInv /\ TimeInv /\ [Next]_vars => TimeInv'
  <2> SUFFICES ASSUME BudgetInv, TimeInv, [Next]_vars, pc' = "read" PROVE TimeInv'
    BY DEF TimeInv
  <2>1. CASE BeginSample
    <3>1. elapsed \in Nat /\ elapsed < TotalUs /\ elapsed' = elapsed
      BY <2>1 DEF BeginSample, BudgetInv, TypeOK, NumbersOK, budget
    <3>2. sample'.maxUs = SampleUs /\ sample'.us = 0
      BY <2>1 DEF BeginSample, NoSample
    <3> QED BY <3>1, <3>2, TotalNat, TimeAssumption DEF TimeInv, SampleUs, MinOf
  <2>2. ASSUME NEW d \in Durations, NEW outcome \in {"ok", "error", "timer"},
               Read(d, outcome)
        PROVE  TimeInv'
    <3>1. pc = "read" /\ elapsed' = elapsed /\ sample \in SampleRecord
      BY <2>2 DEF Read, budget, BudgetInv, TypeOK
    <3>2. sample'.maxUs = sample.maxUs
      BY <2>2, <3>1 DEF Read, SampleRecord
    <3>3. sample'.status = "run" => sample'.reads = sample.reads + 1
      BY <2>2, <3>1 DEF Read, SampleRecord
    <3>4. sample.reads \in Nat
      BY <3>1 DEF SampleRecord
    <3> QED BY <3>1, <3>2, <3>3, <3>4 DEF TimeInv
  <2>3. ASSUME NEW d \in Durations, NEW clockOK \in BOOLEAN, EndSample(d, clockOK)
        PROVE  FALSE
    BY <2>3 DEF EndSample
  <2>4. CASE UNCHANGED vars
    BY <2>4 DEF vars, budget, TimeInv
  <2>5. ASSUME NEW d \in Drives, NEW usable \in BOOLEAN, Start(d, usable)
        PROVE  FALSE
    BY <2>5 DEF Start
  <2>6. ASSUME NEW acquired, Open(acquired) PROVE FALSE
    BY <2>6 DEF Open
  <2>7. ASSUME NEW allocated \in BOOLEAN, NEW fellBack \in BOOLEAN,
               Retry(allocated, fellBack)
        PROVE  FALSE
    BY <2>7 DEF Retry
  <2>8. ASSUME NEW ok \in BOOLEAN, Probe(ok) PROVE FALSE
    BY <2>8 DEF Probe
  <2>9. ~WarmUp /\ ~Publish /\ ~Cleanup
    BY DEF WarmUp, Publish, Cleanup
  <2> QED BY <2>1, <2>2, <2>3, <2>4, <2>5, <2>6, <2>7, <2>8, <2>9 DEF Next, Run
<1> QED BY <1>1, <1>2, BudgetInductive, PTL DEF Spec

\* No timed request goes to a hard disk once the run's time is used up: not
\* in a later read of a sample, not in a later sample, not after a restart.
THEOREM TimeBudgetHolds == Spec => TimeBudget
<1>1. /\ BudgetInv /\ TimeInv /\ [Next]_vars
      => [timed' > timed /\ ~IsFloppy(drive) => elapsed + sample.us < TotalUs]_vars
  <2> SUFFICES ASSUME BudgetInv, TimeInv, Next, timed' > timed, ~IsFloppy(drive)
               PROVE  elapsed + sample.us < TotalUs
    OBVIOUS
  <2>1. timed \in Nat
    BY DEF BudgetInv, TypeOK, NumbersOK
  <2>2. ASSUME NEW d \in Durations, NEW outcome \in {"ok", "error", "timer"},
               Read(d, outcome)
        PROVE  elapsed + sample.us < TotalUs
    <3>1. pc = "read" /\ sample.status = "run" /\ ~OutOfTime
      BY <2>2 DEF Read, MoreToRead
    <3>2. /\ sample.us \in Nat /\ sample.maxUs \in Nat /\ sample.reads \in Nat
          /\ elapsed \in Nat
      BY DEF BudgetInv, TypeOK, NumbersOK, SampleRecord
    <3>3. sample.reads = 0 \/ sample.us < sample.maxUs
      BY <3>1, <3>2 DEF OutOfTime
    <3> QED BY <3>1, <3>2, <3>3, TotalNat DEF TimeInv
  <2>3. ASSUME NEW d \in Drives, NEW usable \in BOOLEAN, Start(d, usable)
        PROVE  FALSE
    BY <2>1, <2>3 DEF Start
  <2>4. ASSUME timed' = timed PROVE FALSE
    BY <2>1, <2>4
  <2> QED BY <2>2, <2>3, <2>4
          DEF Next, Run, Open, Retry, Probe, WarmUp, BeginSample, EndSample,
              Publish, Cleanup
<1> QED BY <1>1, BudgetInductive, TimeInductive, PTL DEF Spec, TimeBudget

-----------------------------------------------------------------------------
(* What a run acquires.                                                    *)

\* Nothing is held before the resources are opened, the device all the way
\* from then to the end, and a running motor belongs to an open floppy.
HeldInv ==
  /\ pc \in {"idle", "open"} => held = {} /\ ~motor
  /\ pc \notin {"idle", "open", "cleanup"} => "device" \in held
  /\ motor => "device" \in held /\ IsFloppy(drive)

LEMMA HeldInductive == Spec => []HeldInv
<1>1. Init => HeldInv
  BY DEF Init, HeldInv
<1>2. BudgetInv /\ HeldInv /\ [Next]_vars => HeldInv'
  <2> SUFFICES ASSUME BudgetInv, HeldInv, [Next]_vars PROVE HeldInv'
    OBVIOUS
  <2> USE DEF HeldInv
  <2>1. ASSUME NEW d \in Drives, NEW usable \in BOOLEAN, Start(d, usable)
        PROVE  HeldInv'
    BY <2>1 DEF Start
  <2>2. ASSUME NEW acquired, Open(acquired) PROVE HeldInv'
    BY <2>2 DEF Open
  <2>3. ASSUME NEW allocated \in BOOLEAN, NEW fellBack \in BOOLEAN,
               Retry(allocated, fellBack)
        PROVE  HeldInv'
    <3>1. "device" \in held' /\ pc' \notin {"idle", "open"}
      BY <2>3 DEF Retry
    <3>2. motor' = motor /\ drive' = drive
      BY <2>3 DEF Retry, plan
    <3> QED BY <3>1, <3>2 DEF IsFloppy, GeometryBlocks
  <2>4. ASSUME NEW ok \in BOOLEAN, Probe(ok) PROVE HeldInv'
    <3>1. "device" \in held' /\ pc' \notin {"idle", "open"}
      BY <2>4 DEF Probe
    <3>2. motor' = (motor \/ IsFloppy(drive)) /\ drive' = drive
      BY <2>4 DEF Probe, plan
    <3> QED BY <3>1, <3>2 DEF IsFloppy, GeometryBlocks
  <2>5. CASE WarmUp
    <3>1. "device" \in held' /\ pc' \notin {"idle", "open"}
      BY <2>5 DEF WarmUp
    <3>2. motor' = (motor \/ IsFloppy(drive)) /\ drive' = drive
      BY <2>5 DEF WarmUp, plan
    <3> QED BY <3>1, <3>2 DEF IsFloppy, GeometryBlocks
  <2>6. CASE BeginSample
    BY <2>6 DEF BeginSample, plan, IsFloppy, GeometryBlocks
  <2>7. ASSUME NEW d \in Durations, NEW outcome \in {"ok", "error", "timer"},
               Read(d, outcome)
        PROVE  HeldInv'
    <3>1. "device" \in held' /\ pc' \notin {"idle", "open"}
      BY <2>7 DEF Read
    <3>2. motor' = (motor \/ IsFloppy(drive)) /\ drive' = drive
      BY <2>7 DEF Read, plan
    <3> QED BY <3>1, <3>2 DEF IsFloppy, GeometryBlocks
  <2>8. ASSUME NEW d \in Durations, NEW clockOK \in BOOLEAN, EndSample(d, clockOK)
        PROVE  HeldInv'
    BY <2>8 DEF EndSample, plan, IsFloppy, GeometryBlocks
  <2>9. CASE Publish
    BY <2>9 DEF Publish, plan, IsFloppy, GeometryBlocks
  <2>10. CASE Cleanup
    BY <2>10 DEF Cleanup, StopsMotor
  <2>11. CASE UNCHANGED vars
    BY <2>11 DEF vars, plan, IsFloppy, GeometryBlocks
  <2> QED BY <2>1, <2>2, <2>3, <2>4, <2>5, <2>6, <2>7, <2>8, <2>9, <2>10, <2>11
          DEF Next, Run
<1> QED BY <1>1, <1>2, BudgetInductive, PTL DEF Spec

\* Whatever step of a run failed, once it has returned nothing it acquired is
\* held and the motor it started is off.
THEOREM NothingHeldAfterRun == Spec => []NothingHeld
<1>1. HeldInv => NothingHeld
  BY DEF HeldInv, NothingHeld
<1> QED BY <1>1, HeldInductive, PTL
-----------------------------------------------------------------------------
(* The median.  Sorted is a CHOOSE, so that it says something only because *)
(* every place of a sorted sequence is taken by one of its speeds.         *)

Smaller == {ss \in Nat \X Nat : ss[1] < ss[2]}

LEMMA SmallerWellFounded == IsWellFoundedOn(Smaller, Nat)
BY NatLessThanWellFounded DEF OpToRel, Smaller

LEMMA LeastExists ==
  ASSUME NEW S, S \subseteq Nat, S # {}
  PROVE  \E n \in S : \A m \in S : n <= m
<1>1. PICK n \in S : \A m \in S : <<m, n>> \notin Smaller
  BY WFMin, SmallerWellFounded
<1>2. \A m \in S : ~(m < n)
  BY <1>1 DEF Smaller
<1> QED BY <1>2

\* Of the elements of a finite set one has the largest value: the one below
\* which the fewest lie.
LEMMA GreatestExists ==
  ASSUME NEW I, IsFiniteSet(I), I # {}, NEW f, \A i \in I : f[i] \in Nat
  PROVE  \E j \in I : \A i \in I : f[i] <= f[j]
<1> DEFINE Above(j) == {i \in I : f[j] < f[i]}
           Counts == {Cardinality(Above(j)) : j \in I}
<1>1. ASSUME NEW j \in I PROVE IsFiniteSet(Above(j)) /\ Cardinality(Above(j)) \in Nat
  BY FS_Subset, FS_CardinalityType
<1>2. Counts \subseteq Nat /\ Counts # {}
  BY <1>1
<1>3. PICK j \in I : \A i \in I : Cardinality(Above(j)) <= Cardinality(Above(i))
  <2> HIDE DEF Above
  <2>1. PICK n \in Counts : \A m \in Counts : n <= m
    BY <1>2, LeastExists
  <2> QED BY <2>1
<1>4. ASSUME NEW i \in I, ~(f[i] <= f[j]) PROVE FALSE
  <2>1. Above(i) \subseteq Above(j) /\ i \in Above(j) /\ i \notin Above(i)
    BY <1>4
  <2>2. /\ Cardinality(Above(i)) <= Cardinality(Above(j))
        /\ Cardinality(Above(j)) = Cardinality(Above(i)) => Above(j) = Above(i)
    BY <1>1, <2>1, FS_Subset
  <2>3. Cardinality(Above(j)) <= Cardinality(Above(i))
    BY <1>3
  <2>4. Cardinality(Above(i)) \in Nat /\ Cardinality(Above(j)) \in Nat
    BY <1>1
  <2> QED BY <2>1, <2>2, <2>3, <2>4
<1> QED BY <1>4

LEMMA SortedInside ==
  ASSUME NEW s \in Seq(Nat), NEW k \in 1..Len(s)
  PROVE  \E i \in DOMAIN s : Sorted(s, k) = s[i]
<1> DEFINE D == DOMAIN s
           Upto(x) == {i \in D : s[i] <= x}
           Under(x) == {i \in D : s[i] < x}
           Reaching == {s[i] : i \in {j \in D : Cardinality(Upto(s[j])) >= k}}
<1>1. D = 1..Len(s) /\ Len(s) \in Nat /\ k \in Nat /\ k >= 1 /\ k <= Len(s)
  OBVIOUS
<1>2. \A i \in D : s[i] \in Nat
  OBVIOUS
<1>3. IsFiniteSet(D) /\ Cardinality(D) = Len(s)
  <2>1. IsFiniteSet(1..Len(s)) /\ Cardinality(1..Len(s)) = Len(s)
    <3>1. 1 \in Int /\ Len(s) \in Int /\ ~(1 > Len(s))
      BY <1>1
    <3> QED BY SMTT(20), <1>1, <3>1, FS_Interval
  <2> QED BY <1>1, <2>1
<1>4. ASSUME NEW x \in Nat
      PROVE  /\ IsFiniteSet(Upto(x)) /\ Cardinality(Upto(x)) \in Nat
             /\ IsFiniteSet(Under(x)) /\ Cardinality(Under(x)) \in Nat
  BY <1>3, FS_Subset, FS_CardinalityType
<1>5. Reaching \subseteq Nat
  BY <1>2
<1>6. Reaching # {}
  <2>1. D # {}
    BY <1>1
  <2>2. PICK j \in D : \A i \in D : s[i] <= s[j]
    BY <1>2, <1>3, <2>1, GreatestExists
  <2>3. Upto(s[j]) = D
    BY <2>2
  <2>4. Cardinality(Upto(s[j])) >= k
    BY <1>1, <1>3, <2>3
  <2> QED BY <2>4
<1>7. PICK x \in Reaching : \A y \in Reaching : x <= y
  BY <1>5, <1>6, LeastExists
<1>8. Cardinality(Under(x)) < k
  <2>1. x \in Nat
    BY <1>5
  <2>2. CASE Under(x) = {}
    <3> HIDE DEF Under
    <3>1. Cardinality(Under(x)) = 0
      BY <2>2, FS_EmptySet
    <3> QED BY <1>1, <3>1
  <2>3. CASE Under(x) # {}
    <3>1. PICK j \in Under(x) : \A i \in Under(x) : s[i] <= s[j]
      BY <1>2, <1>4, <2>1, <2>3, GreatestExists
    <3>2. s[j] \in Nat /\ s[j] < x /\ j \in D
      BY <1>2, <3>1
    <3>3. ~(Cardinality(Upto(s[j])) >= k)
      <4> HIDE DEF Upto, Under
      <4>1. s[j] \notin Reaching
        <5> HIDE DEF Reaching
        <5> QED BY <1>7, <2>1, <3>2
      <4> QED BY <3>2, <4>1
    <3>4. Under(x) \subseteq Upto(s[j])
      BY <3>1
    <3>5. Cardinality(Under(x)) <= Cardinality(Upto(s[j]))
      BY <1>4, <3>2, <3>4, FS_Subset
    <3>6. Cardinality(Under(x)) \in Nat /\ Cardinality(Upto(s[j])) \in Nat
      BY <1>4, <2>1, <3>2
    <3> HIDE DEF Upto, Under, D, Reaching
    <3> QED BY <1>1, <3>3, <3>5, <3>6
  <2> QED BY <2>2, <2>3
<1>9. \E speed \in {s[i] : i \in DOMAIN s} :
        /\ Cardinality({i \in DOMAIN s : s[i] < speed}) < k
        /\ Cardinality({i \in DOMAIN s : s[i] <= speed}) >= k
  BY <1>7, <1>8
<1> QED BY <1>9 DEF Sorted

\* A median lies between two of the speeds it is taken of.
LEMMA MedianBetween ==
  ASSUME NEW s \in Seq(Nat), s # <<>>
  PROVE  /\ Median(s) \in Nat
         /\ \E i \in DOMAIN s : s[i] <= Median(s)
         /\ \E i \in DOMAIN s : Median(s) <= s[i]
<1> DEFINE half == Len(s) \div 2
<1>1. Len(s) \in Nat /\ Len(s) > 0 /\ half \in Nat
  OBVIOUS
<1>2. \A i \in DOMAIN s : s[i] \in Nat
  OBVIOUS
<1>3. CASE Len(s) % 2 = 1
  <2>1. half + 1 \in 1..Len(s)
    BY <1>1, <1>3
  <2>2. PICK i \in DOMAIN s : Sorted(s, half + 1) = s[i]
    BY <2>1, SortedInside
  <2> QED BY <1>2, <1>3, <2>2 DEF Median
<1>4. CASE Len(s) % 2 # 1
  <2>1. half \in 1..Len(s) /\ half + 1 \in 1..Len(s)
    BY <1>1, <1>4
  <2>2. PICK i \in DOMAIN s : Sorted(s, half) = s[i]
    BY <2>1, SortedInside
  <2>3. PICK j \in DOMAIN s : Sorted(s, half + 1) = s[j]
    BY <2>1, SortedInside
  <2>4. Median(s) = (s[i] + s[j]) \div 2
    BY <1>4, <2>2, <2>3 DEF Median
  <2>5. s[i] \in Nat /\ s[j] \in Nat
    BY <1>2
  <2>6. CASE s[i] <= s[j]
    <3>1. Median(s) \in Nat /\ s[i] <= Median(s) /\ Median(s) <= s[j]
      BY SMTT(20), <2>4, <2>5, <2>6
    <3> QED BY <3>1
  <2>7. CASE s[j] <= s[i]
    <3>1. Median(s) \in Nat /\ s[j] <= Median(s) /\ Median(s) <= s[i]
      BY SMTT(20), <2>4, <2>5, <2>7
    <3> QED BY <3>1
  <2> QED BY <2>5, <2>6, <2>7
<1> QED BY <1>3, <1>4
-----------------------------------------------------------------------------
(* Where a run reads, and what it publishes.                               *)

\* The plan of a run stays inside the partition and below the wrap of a 32-bit
\* offset, and leaves a block for every sample.
PlanInv ==
  /\ wanted <= Samples /\ wanted * BlockSize <= maxTest
  /\ Available(drive) # 0 => maxTest <= Available(drive)
  /\ maxTest <= OffsetLimit

\* Reading goes on from what was read, each sample within what it leaves; a
\* 32-bit command is used only where the whole plan fits below the wrap.
ReadingInv ==
  /\ totalRead <= maxTest
  /\ pc \in {"probe", "warmup", "loop", "read"} => "buffer" \in held
  /\ pc = "probe" => command = "READ64"
  /\ pc \in {"warmup", "loop", "read"} /\ command = "CMD_READ" =>
       offset + maxTest <= OffsetLimit
  /\ pc = "read" => /\ sample.maxBytes <= maxTest - totalRead
                    /\ sample.bytes <= sample.issued

\* Before a restart every block left belongs to the samples left, and there is
\* one for each of them beside what the sample in progress may take.
Begun == {"probe", "warmup", "loop", "read", "publish"}
ShareInv ==
  /\ Len(speeds) <= wanted
  /\ pc = "read" => Len(speeds) < wanted /\ sample.status # "done"
  /\ ~safeRetry =>
       /\ pc \in {"open", "retry"} => bytesLeft = maxTest
       /\ pc \in Begun =>
            /\ bytesLeft = maxTest - totalRead
            /\ (wanted - Len(speeds)) * BlockSize <= maxTest - totalRead
       /\ pc = "read" =>
            (wanted - Len(speeds) - 1) * BlockSize
              <= maxTest - totalRead - sample.maxBytes
       /\ pc = "publish" /\ elapsed < TotalUs => Len(speeds) = wanted

\* There is a result only once it has been published.
Between == /\ \E i \in DOMAIN speeds : speeds[i] <= bytesSec
           /\ \E i \in DOMAIN speeds : bytesSec <= speeds[i]
ResultInv ==
  /\ pc \notin {"idle", "cleanup"} => ~measured
  /\ ~measured => bytesSec = 0
  /\ measured => speeds # <<>> /\ Between
  /\ pc = "idle" /\ ~measured => speeds = <<>> /\ ~fallback

RunInv == PlanInv /\ ReadingInv /\ ShareInv /\ ResultInv

LEMMA Division ==
  ASSUME NEW a \in Nat, NEW b \in Nat, b > 0
  PROVE  /\ a \div b \in Nat /\ a % b \in Nat /\ a % b < b
         /\ b * (a \div b) \in Nat
         /\ a = b * (a \div b) + (a % b)
<1>1. /\ a \div b \in Nat /\ a % b \in Nat /\ a % b < b
      /\ a = b * (a \div b) + (a % b)
  OBVIOUS
<1> QED BY <1>1

LEMMA AlignKeepsBlock ==
  ASSUME NEW n \in Nat, n >= BlockSize
  PROVE  Align(n) >= BlockSize
<1>1. BlockSize \in Nat /\ BlockSize > 0
  BY SizeAssumption
<1>2. n = BlockSize * (n \div BlockSize) + (n % BlockSize)
  BY <1>1, Division
<1>3. n \div BlockSize \in Nat /\ n % BlockSize \in Nat /\ n % BlockSize < BlockSize
  BY <1>1, Division
<1>4. n \div BlockSize >= 1
  BY <1>1, <1>2, <1>3
<1>5. BlockSize * (n \div BlockSize) >= BlockSize
  BY <1>1, <1>3, <1>4
<1> QED BY <1>1, <1>2, <1>3, <1>5 DEF Align

\* An equal part of bytes that hold a block for each of so many samples holds a
\* block, and leaves one for each of the others.
LEMMA EqualParts ==
  ASSUME NEW bytes \in Nat, NEW n \in Nat, n > 0, n * BlockSize <= bytes
  PROVE  LET part == bytes \div n
         IN  /\ part \in Nat /\ part >= BlockSize /\ part <= bytes
             /\ (n - 1) * BlockSize <= bytes - part
<1> DEFINE part == bytes \div n
           rest == bytes % n
<1>1. BlockSize \in Nat /\ BlockSize > 0
  BY SizeAssumption
<1>2. part \in Nat /\ rest \in Nat /\ rest < n /\ bytes = n * part + rest
  OBVIOUS
<1> HIDE DEF part, rest
<1>3. part >= BlockSize
  <2> SUFFICES ASSUME part + 1 <= BlockSize PROVE FALSE
    BY <1>1, <1>2
  <2>1. n * (part + 1) <= n * BlockSize
    BY <1>1, <1>2
  <2>2. n * (part + 1) = n * part + n
    BY <1>2
  <2>3. n * part \in Nat /\ n * BlockSize \in Nat
    BY <1>1, <1>2
  <2> QED BY <1>2, <2>1, <2>2, <2>3
<1>4. (n - 1) * part + part = n * part
  BY <1>2
<1>5. (n - 1) * BlockSize <= (n - 1) * part
  <2>1. n - 1 \in Nat
    OBVIOUS
  <2> QED BY <1>1, <1>2, <1>3, <2>1
<1>6. (n - 1) * part \in Nat /\ (n - 1) * BlockSize \in Nat /\ n * part \in Nat
  <2>1. n - 1 \in Nat
    OBVIOUS
  <2> QED BY <1>1, <1>2, <2>1
<1>7. part <= bytes /\ (n - 1) * BlockSize <= bytes - part
  BY <1>1, <1>2, <1>4, <1>5, <1>6
<1> QED BY <1>2, <1>3, <1>7 DEF part

LEMMA PlanFits ==
  ASSUME NEW d \in Drives, TracksOK(d)
  PROVE  LET limit == RangeBytes(d, ByteLimit(d))
         IN  /\ limit \in Nat /\ limit <= OffsetLimit
             /\ Available(d) # 0 => limit <= Available(d)
             /\ limit \div BlockSize \in Nat
             /\ (limit \div BlockSize) * BlockSize <= limit
<1> DEFINE limit == RangeBytes(d, ByteLimit(d))
<1>1. ByteLimit(d) \in Nat /\ ByteLimit(d) <= OffsetLimit
  BY PlanNat, SizeAssumption DEF ByteLimit, TracksOK
<1>2. Available(d) \in Nat
  BY DriveType, SizeAssumption DEF Available, GeometryBlocks
<1>3. limit \in Nat /\ limit <= ByteLimit(d)
      /\ (Available(d) # 0 => limit <= Available(d))
  BY <1>1, <1>2, AlignBounds DEF RangeBytes
<1> HIDE DEF limit
<1>4. BlockSize \in Nat /\ BlockSize > 0
  BY SizeAssumption
<1>5. /\ limit \div BlockSize \in Nat /\ limit % BlockSize \in Nat
      /\ BlockSize * (limit \div BlockSize) \in Nat
      /\ limit = BlockSize * (limit \div BlockSize) + (limit % BlockSize)
  BY <1>3, <1>4, Division
<1>6. (limit \div BlockSize) * BlockSize = BlockSize * (limit \div BlockSize)
  BY <1>4, <1>5
<1>7. (limit \div BlockSize) * BlockSize <= limit
  <2> DEFINE whole == BlockSize * (limit \div BlockSize)
             rest == limit % BlockSize
  <2>1. whole \in Nat /\ rest \in Nat /\ limit = whole + rest
    BY <1>5
  <2> HIDE DEF whole, rest
  <2>2. whole <= limit
    BY <2>1
  <2> QED BY <1>6, <2>2 DEF whole
<1> QED BY <1>1, <1>3, <1>5, <1>7, SizeAssumption DEF limit
LEMMA NothingYet == Len(<<>>) = 0
OBVIOUS

LEMMA Units ==
  /\ BlockSize \in Nat /\ BlockSize > 0 /\ OffsetLimit \in Nat
  /\ Samples \in Nat /\ Samples > 0
BY SizeAssumption, TimeAssumption

LEMMA Products ==
  ASSUME NEW a \in Nat, NEW b \in Nat, NEW c \in Nat, a <= b
  PROVE  a * c \in Nat /\ b * c \in Nat /\ a * c <= b * c
<1>1. PICK e \in Nat : b = a + e
  <2>1. b - a \in Nat /\ b = a + (b - a)
    OBVIOUS
  <2> QED BY <2>1
<1>2. b * c = a * c + e * c /\ a * c \in Nat /\ e * c \in Nat
  BY <1>1
<1> QED BY <1>2

LEMMA RunInit == Init => RunInv
<1> SUFFICES ASSUME Init PROVE RunInv
  OBVIOUS
<1>1. PlanInv
  <2>1. 0 * BlockSize = 0 /\ Available(drive) \in Nat
    BY Units, SizeAssumption, DriveType DEF Init, Available, GeometryBlocks
  <2> QED BY <2>1, Units DEF Init, PlanInv
<1>2. ReadingInv
  BY DEF Init, ReadingInv
<1>3. ShareInv
  BY NothingYet DEF Init, ShareInv, Begun
<1>4. ResultInv
  BY DEF Init, ResultInv
<1> QED BY <1>1, <1>2, <1>3, <1>4 DEF RunInv

LEMMA RunStart ==
  ASSUME BudgetInv, NEW d \in Drives, NEW usable \in BOOLEAN, Start(d, usable)
  PROVE  RunInv'
<1> DEFINE limit == RangeBytes(d, ByteLimit(d))
           go == usable /\ TracksOK(d) /\ TransferOK(d) /\ RangeOK(d, ByteLimit(d))
<1>1. /\ drive' = d /\ measured' = FALSE /\ bytesSec' = 0 /\ speeds' = <<>>
      /\ fallback' = FALSE /\ totalRead' = 0 /\ command' = "CMD_READ"
      /\ pc' = IF go THEN "open" ELSE "idle"
      /\ maxTest' = IF go THEN limit ELSE 0
      /\ bytesLeft' = IF go THEN limit ELSE 0
      /\ wanted' = IF go THEN MinOf(SampleLimit(d), limit \div BlockSize) ELSE 0
  BY DEF Start
<1>2. SampleLimit(d) \in Nat /\ SampleLimit(d) <= Samples
  BY Units DEF SampleLimit
<1>3. Available(d) \in Nat
  BY DriveType, SizeAssumption DEF Available, GeometryBlocks
<1>4. CASE go
  <2>1. /\ limit \in Nat /\ limit <= OffsetLimit
        /\ Available(d) # 0 => limit <= Available(d)
        /\ limit \div BlockSize \in Nat
        /\ (limit \div BlockSize) * BlockSize <= limit
    BY <1>4, PlanFits
  <2> HIDE DEF limit
  <2>2. /\ wanted' \in Nat /\ wanted' <= Samples /\ wanted' <= limit \div BlockSize
    BY <1>1, <1>2, <1>4, <2>1, Units DEF MinOf
  <2>3. wanted' * BlockSize <= (limit \div BlockSize) * BlockSize
    BY <2>1, <2>2, Units, Products
  <2>4. wanted' * BlockSize \in Nat /\ (limit \div BlockSize) * BlockSize \in Nat
    BY <2>1, <2>2, Units, Products
  <2>5. wanted' * BlockSize <= limit
    <3> DEFINE a == wanted' * BlockSize
               b == (limit \div BlockSize) * BlockSize
    <3>1. a \in Nat /\ b \in Nat /\ a <= b /\ b <= limit
      BY <2>1, <2>3, <2>4
    <3> HIDE DEF a, b
    <3>2. a <= limit
      BY <2>1, <3>1
    <3> QED BY <3>2 DEF a
  <2>6. PlanInv'
    <3>1. Available(drive)' = Available(d)
      BY <1>1 DEF Available, GeometryBlocks
    <3> QED BY <1>1, <1>4, <2>1, <2>2, <2>5, <3>1 DEF PlanInv
  <2>7. ReadingInv'
    BY <1>1, <1>4, <2>1 DEF ReadingInv
  <2>8. ShareInv'
    BY <1>1, <1>4, <2>1, <2>2, NothingYet DEF ShareInv, Begun
  <2>9. ResultInv'
    BY <1>1 DEF ResultInv
  <2> QED BY <2>6, <2>7, <2>8, <2>9 DEF RunInv
<1>5. CASE ~go
  <2>1. PlanInv'
    <3>1. Available(drive)' \in Nat /\ 0 * BlockSize = 0
      BY <1>1, <1>3, Units DEF Available, GeometryBlocks
    <3> QED BY <1>1, <1>5, <3>1, Units DEF PlanInv
  <2>2. ReadingInv'
    BY <1>1, <1>5 DEF ReadingInv
  <2>3. ShareInv'
    BY <1>1, <1>5, NothingYet DEF ShareInv, Begun
  <2>4. ResultInv'
    BY <1>1 DEF ResultInv
  <2> QED BY <2>1, <2>2, <2>3, <2>4 DEF RunInv
<1> QED BY <1>4, <1>5

\* Once begun, a run changes neither its plan nor its drive.
LEMMA PlanKept ==
  ASSUME PlanInv, UNCHANGED plan
  PROVE  PlanInv'
BY DEF PlanInv, plan, Available, GeometryBlocks

LEMMA RunSetUp ==
  ASSUME BudgetInv, RunInv,
         \/ \E acquired \in {{}, {"port"}, {"port", "io"}, {"port", "io", "device"}} :
              Open(acquired)
         \/ \E allocated, fellBack \in BOOLEAN : Retry(allocated, fellBack)
         \/ \E ok \in BOOLEAN : Probe(ok)
         \/ WarmUp
  PROVE  RunInv'
<1> USE DEF RunInv
<1>1. ASSUME NEW acquired, Open(acquired) PROVE RunInv'
  <2>1. PlanInv'
    BY <1>1, PlanKept DEF Open
  <2>2. /\ pc = "open" /\ pc' \in {"retry", "cleanup"}
        /\ UNCHANGED <<plan, budget, totalRead, safeRetry, sample, result>>
    BY <1>1 DEF Open
  <2>3. ReadingInv' /\ ResultInv'
    BY <2>2 DEF ReadingInv, ResultInv, Between, plan, result
  <2>4. ShareInv'
    BY <2>2 DEF ShareInv, Begun, plan, budget, result
  <2> QED BY <2>1, <2>3, <2>4
<1>2. ASSUME NEW allocated \in BOOLEAN, NEW fellBack \in BOOLEAN,
             Retry(allocated, fellBack)
      PROVE  RunInv'
  <2> DEFINE go == bytesLeft >= BlockSize /\ elapsed < TotalUs /\ allocated
  <2>1. PlanInv'
    BY <1>2, PlanKept DEF Retry
  <2>2. /\ pc = "retry" /\ totalRead' = 0 /\ speeds' = <<>> /\ fallback' = FALSE
        /\ pc' = CASE ~go -> "cleanup" [] go /\ Needs64(drive) -> "probe"
                   [] OTHER -> "warmup"
        /\ go => "buffer" \in held'
        /\ command' = IF go /\ Needs64(drive) THEN "READ64" ELSE "CMD_READ"
        /\ offset' = Base(drive)
        /\ UNCHANGED <<plan, budget, safeRetry, sample, measured, bytesSec>>
    BY <1>2 DEF Retry
  <2>3. maxTest \in Nat /\ wanted \in Nat /\ Base(drive) \in Nat /\ bytesLeft \in Nat
    BY DriveType DEF BudgetInv, TypeOK, NumbersOK, ControlOK
  <2>4. pc' \in {"cleanup", "probe", "warmup"} /\ (pc' # "cleanup" => go)
        /\ (pc' = "probe" <=> go /\ Needs64(drive))
    BY <2>2
  <2>5. ReadingInv'
    BY <2>2, <2>3, <2>4, Units DEF ReadingInv, Needs64, plan
  <2>6. ShareInv'
    <3>1. (wanted - Len(speeds')) * BlockSize = wanted * BlockSize
      BY <2>2, <2>3, NothingYet
    <3> QED BY <2>2, <2>3, <2>4, <3>1, NothingYet
            DEF ShareInv, Begun, PlanInv, plan, budget
  <2>7. ResultInv'
    BY <2>2, <2>4 DEF ResultInv
  <2> QED BY <2>1, <2>5, <2>6, <2>7
<1>3. ASSUME NEW ok \in BOOLEAN, Probe(ok) PROVE RunInv'
  <2> DEFINE restart == Restarts(~ok)
  <2>1. PlanInv'
    BY <1>3, PlanKept DEF Probe
  <2>2. /\ pc = "probe" /\ pc' = IF restart THEN "retry" ELSE "warmup"
        /\ safeRetry' = (safeRetry \/ restart)
        /\ command' = IF ok \/ restart THEN command ELSE "CMD_READ"
        /\ offset' = IF ok \/ restart THEN offset ELSE 0
        /\ UNCHANGED <<plan, held, budget, totalRead, sample, speeds, measured,
                       bytesSec>>
    BY <1>3 DEF Probe, SafeAfter
  <2>3. maxTest \in Nat
    BY DEF BudgetInv, TypeOK, NumbersOK
  <2>4. ReadingInv'
    BY <2>2, <2>3, Units DEF ReadingInv, PlanInv, plan
  <2>5. ShareInv'
    BY <2>2 DEF ShareInv, Begun, plan, budget
  <2>6. ResultInv'
    BY <2>2 DEF ResultInv, Between
  <2> QED BY <2>1, <2>4, <2>5, <2>6
<1>4. ASSUME WarmUp PROVE RunInv'
  <2>1. PlanInv'
    BY <1>4, PlanKept DEF WarmUp
  <2>2. /\ pc = "warmup" /\ pc' = "loop"
        /\ UNCHANGED <<plan, held, budget, totalRead, offset, command, safeRetry,
                       sample, result>>
    BY <1>4 DEF WarmUp
  <2>3. ReadingInv' /\ ResultInv'
    BY <2>2 DEF ReadingInv, ResultInv, Between, plan, result
  <2>4. ShareInv'
    BY <2>2 DEF ShareInv, Begun, plan, budget, result
  <2> QED BY <2>1, <2>3, <2>4
<1> QED BY <1>1, <1>2, <1>3, <1>4
\* A share is within what the plan leaves; before a restart there is always one.
LEMMA ShareInPlan ==
  ASSUME BudgetInv, RunInv, pc = "loop", wanted - Len(speeds) > 0
  PROVE  /\ Share(wanted - Len(speeds)) <= maxTest - totalRead
         /\ ~safeRetry =>
              /\ Share(wanted - Len(speeds)) >= BlockSize
              /\ bytesLeft >= BlockSize
              /\ (wanted - Len(speeds) - 1) * BlockSize
                   <= maxTest - totalRead - Share(wanted - Len(speeds))
<1> DEFINE left == wanted - Len(speeds)
           rest == maxTest - totalRead
           part == rest \div left
<1>1. /\ left \in Nat /\ left > 0 /\ rest \in Nat /\ bytesLeft \in Nat
  BY DEF BudgetInv, TypeOK, NumbersOK, ResultOK, RunInv, ReadingInv
<1>2. ~safeRetry => bytesLeft = rest /\ left * BlockSize <= rest
  BY DEF RunInv, ShareInv, Begun
<1>3. Share(left) = Align(MinOf(part, bytesLeft))
  BY DEF Share
<1> HIDE DEF left, rest
<1>4. part \in Nat /\ part <= rest
  <2>1. /\ part \in Nat /\ rest % left \in Nat /\ left * part \in Nat
        /\ rest = left * part + (rest % left)
    BY <1>1, Division
  <2> HIDE DEF part
  <2>2. part <= left * part
    <3>1. 1 * part <= left * part
      BY <1>1, <2>1, Products
    <3> QED BY <2>1, <3>1
  <2> QED BY <1>1, <2>1, <2>2
<1>5. Share(left) \in Int /\ Share(left) <= part
  <2> HIDE DEF part
  <2>1. MinOf(part, bytesLeft) \in Int /\ MinOf(part, bytesLeft) <= part
    BY <1>1, <1>4 DEF MinOf
  <2>2. Align(MinOf(part, bytesLeft)) <= MinOf(part, bytesLeft)
        /\ Align(MinOf(part, bytesLeft)) \in Int
    BY <2>1, AlignBounds
  <2> QED BY <1>3, <1>4, <2>1, <2>2
<1>6. ASSUME ~safeRetry
      PROVE  /\ Share(left) >= BlockSize /\ bytesLeft >= BlockSize
             /\ (left - 1) * BlockSize <= rest - Share(left)
  <2>1. /\ part >= BlockSize
        /\ (left - 1) * BlockSize <= rest - part
    BY <1>1, <1>2, <1>6, EqualParts
  <2> HIDE DEF part
  <2>2. MinOf(part, bytesLeft) = part
    BY <1>1, <1>2, <1>4, <1>6 DEF MinOf
  <2>3. Share(left) >= BlockSize
    BY <1>3, <1>4, <2>1, <2>2, AlignKeepsBlock
  <2>4. (left - 1) * BlockSize \in Int
    BY <1>1, Units
  <2> QED BY <1>1, <1>2, <1>4, <1>5, <1>6, <2>1, <2>3, <2>4, Units
<1>7. Share(left) <= rest
  <2> HIDE DEF part
  <2> QED BY <1>1, <1>4, <1>5
<1> QED BY <1>6, <1>7 DEF left, rest

LEMMA RunBeginSample ==
  ASSUME BudgetInv, RunInv, BeginSample
  PROVE  RunInv'
<1> USE DEF RunInv
<1> DEFINE left == wanted - Len(speeds)
           more == left > 0 /\ bytesLeft >= BlockSize /\ elapsed < TotalUs
                   /\ Share(left) >= BlockSize
<1>1. PlanInv'
  BY PlanKept DEF BeginSample
<1>2. /\ pc = "loop"
      /\ UNCHANGED <<plan, held, budget, totalRead, offset, command, safeRetry,
                     result>>
      /\ pc' = IF more THEN "read" ELSE "publish"
      /\ more => sample' = [NoSample EXCEPT !.maxBytes = Share(left),
                                            !.maxUs = SampleUs, !.status = "run"]
  BY DEF BeginSample
<1>3. /\ wanted \in Nat /\ Len(speeds) \in Nat /\ left \in Int
      /\ Len(speeds) <= wanted
  BY DEF BudgetInv, TypeOK, NumbersOK, ResultOK, ShareInv
<1>4. ResultInv'
  BY <1>2 DEF ResultInv, Between, result
<1>5. CASE more
  <2>1. /\ sample'.maxBytes = Share(left) /\ sample'.bytes = 0
        /\ sample'.issued = 0 /\ sample'.status = "run"
    BY <1>2, <1>5 DEF NoSample
  <2>2. Share(left) <= maxTest - totalRead
    BY <1>2, <1>5, ShareInPlan
  <2>3. ~safeRetry => (left - 1) * BlockSize <= maxTest - totalRead - Share(left)
    BY <1>2, <1>5, ShareInPlan
  <2>4. ReadingInv'
    BY <1>2, <1>5, <2>1, <2>2 DEF ReadingInv, plan
  <2>5. ShareInv'
    <3> HIDE DEF left
    <3>1. pc' = "read" /\ pc = "loop" /\ left > 0
      BY <1>2, <1>5
    <3>2. Len(speeds) < wanted
      BY <1>3, <3>1 DEF left
    <3>3. wanted - Len(speeds) - 1 = left - 1
      BY DEF left
    <3> QED BY <1>2, <1>3, <2>1, <2>3, <3>1, <3>2, <3>3
            DEF ShareInv, Begun, plan, budget, result
  <2> QED BY <1>1, <1>4, <2>4, <2>5
<1>6. CASE ~more
  <2>1. ReadingInv'
    BY <1>2, <1>6 DEF ReadingInv, plan
  <2>2. ~safeRetry /\ elapsed < TotalUs => Len(speeds) = wanted
    <3>1. left > 0 /\ ~safeRetry /\ elapsed < TotalUs => more
      BY <1>2, ShareInPlan
    <3> QED BY <1>3, <1>6, <3>1
  <2>3. ShareInv'
    BY <1>2, <1>3, <1>6, <2>2 DEF ShareInv, Begun, plan, budget, result
  <2> QED BY <1>1, <1>4, <2>1, <2>3
<1> QED BY <1>5, <1>6

\* A timed request asks for no more than the buffer holds.
LEMMA ReadLengthFits ==
  ASSUME BudgetInv, MoreToRead
  PROVE  ReadLength <= bufferSize
<1> DEFINE room == sample.maxBytes - sample.bytes
           size == IF ShortReads THEN FirstChunk ELSE bufferSize
<1>1. size \in Nat /\ size <= bufferSize /\ bufferSize \in Nat /\ room \in Int
  BY SizeAssumption DEF BudgetInv, TypeOK, NumbersOK, SampleRecord, ShortReads
<1>2. MinOf(size, room) \in Int /\ MinOf(size, room) <= size
  BY <1>1 DEF MinOf
<1>3. ReadLength \in Int /\ ReadLength <= MinOf(size, room)
  BY <1>2, AlignBounds DEF ReadLength
<1> QED BY <1>1, <1>2, <1>3

LEMMA RunRead ==
  ASSUME BudgetInv, RunInv, NEW d \in Durations,
         NEW outcome \in {"ok", "error", "timer"}, Read(d, outcome)
  PROVE  RunInv'
<1> USE DEF RunInv
<1>1. PlanInv'
  BY PlanKept DEF Read
<1>2. /\ pc = "read" /\ pc' = "read" /\ MoreToRead /\ sample \in SampleRecord
      /\ UNCHANGED <<plan, held, budget, totalRead, offset, command, safeRetry,
                     result>>
  BY DEF Read, BudgetInv, TypeOK
<1>3. ReadLength \in Nat
  BY <1>2, ReadLengthBounds
<1>4. /\ sample'.maxBytes = sample.maxBytes
      /\ sample'.issued = sample.issued + ReadLength
      /\ sample'.bytes \in {sample.bytes, sample.bytes + ReadLength}
      /\ sample'.status \in {"run", "error", "timer"}
  BY <1>2 DEF Read, SampleRecord
<1>5. sample.bytes \in Nat /\ sample.issued \in Nat
  BY <1>2 DEF SampleRecord
<1>6. ReadingInv'
  BY <1>2, <1>3, <1>4, <1>5 DEF ReadingInv, plan
<1>7. ShareInv'
  BY <1>2, <1>4 DEF ShareInv, Begun, plan, budget, result
<1>8. ResultInv'
  BY <1>2 DEF ResultInv, Between, result
<1> QED BY <1>1, <1>6, <1>7, <1>8
LEMMA RunEndSample ==
  ASSUME BudgetInv, RunInv, NEW d \in Durations, NEW clockOK \in BOOLEAN,
         EndSample(d, clockOK)
  PROVE  RunInv'
<1> USE DEF RunInv
<1> DEFINE timerOK == clockOK /\ sample.status # "timer"
           us == IF timerOK THEN sample.us + d ELSE sample.us
           failed == timerOK /\ sample.status = "error"
           rate == Rate(sample.bytes, us)
           valid == timerOK /\ ~failed /\ us # 0 /\ sample.bytes # 0 /\ rate # 0
<1>1. PlanInv'
  BY PlanKept DEF EndSample
<1>2. /\ pc = "read"
      /\ bytesLeft' = bytesLeft - sample.issued
      /\ ~safeRetry' => ~safeRetry
      /\ valid => /\ pc' = "loop" /\ totalRead' = totalRead + sample.bytes
                  /\ speeds' = Append(speeds, rate)
      /\ ~valid => /\ pc' \in {"retry", "cleanup"}
                   /\ pc' = "retry" => safeRetry'
                   /\ totalRead' = totalRead /\ speeds' = speeds
      /\ UNCHANGED <<plan, held, offset, command, fallback, measured, bytesSec>>
  <2> DEFINE restart == Restarts(failed)
  <2>1. /\ pc = "read"
        /\ bytesLeft' = bytesLeft - sample.issued
        /\ UNCHANGED <<plan, held, offset, command, fallback, measured, bytesSec>>
    BY DEF EndSample, Charge
  <2>2. /\ pc' = CASE valid -> "loop" [] restart -> "retry" [] OTHER -> "cleanup"
        /\ totalRead' = IF valid THEN totalRead + sample.bytes ELSE totalRead
        /\ speeds' = IF valid THEN Append(speeds, rate) ELSE speeds
    BY DEF EndSample
  <2>3. safeRetry' = (safeRetry \/ restart)
    BY DEF EndSample, SafeAfter
  <2>4. valid => ~restart
    BY DEF Restarts
  <2> HIDE DEF timerOK, us, failed, rate, valid, restart
  <2>5. ~safeRetry' => ~safeRetry
    BY <2>3
  <2>6. restart => safeRetry'
    BY <2>3
  <2>7. valid => /\ pc' = "loop" /\ totalRead' = totalRead + sample.bytes
                 /\ speeds' = Append(speeds, rate)
    BY <2>2, <2>4
  <2>8. ~valid => /\ pc' \in {"retry", "cleanup"}
                  /\ pc' = "retry" => safeRetry'
                  /\ totalRead' = totalRead /\ speeds' = speeds
    BY <2>2, <2>6
  <2> QED BY <2>1, <2>5, <2>7, <2>8
<1>3. /\ sample.bytes \in Nat /\ sample.issued \in Nat /\ sample.maxBytes \in Nat
      /\ sample.status \in {"run", "done", "error", "timer"}
      /\ totalRead \in Nat /\ maxTest \in Nat /\ wanted \in Nat
      /\ bytesLeft \in Nat /\ speeds \in Seq(Nat)
  BY DEF BudgetInv, TypeOK, NumbersOK, ResultOK, SampleRecord
<1>4. /\ sample.bytes <= sample.issued /\ sample.issued <= sample.maxBytes
      /\ sample.maxBytes <= maxTest - totalRead
      /\ sample.status = "run" => sample.issued = sample.bytes
      /\ sample.status # "done" /\ Len(speeds) < wanted
  BY <1>2 DEF ReadingInv, ShareInv, BudgetInv, SampleInv
<1>5. ResultInv'
  <2>1. pc' \in {"loop", "retry", "cleanup"} /\ ~measured /\ bytesSec = 0
    BY <1>2 DEF ResultInv
  <2> QED BY <1>2, <2>1 DEF ResultInv
<1> HIDE DEF valid
<1>6. CASE valid
  <2>1. sample.status = "run" /\ sample.issued = sample.bytes
    BY <1>3, <1>4, <1>6 DEF valid
  <2>2. Len(speeds') = Len(speeds) + 1 /\ Len(speeds) \in Nat
    BY <1>2, <1>3, <1>6
  <2>3. /\ pc' = "loop" /\ totalRead' = totalRead + sample.bytes
        /\ ~safeRetry' => ~safeRetry
    BY <1>2, <1>6
  <2>4. ReadingInv'
    BY SMTT(20), <1>2, <1>3, <1>4, <2>3 DEF ReadingInv, plan
  <2>5. ~safeRetry =>
          /\ bytesLeft' = maxTest - totalRead'
          /\ (wanted - Len(speeds')) * BlockSize <= maxTest - totalRead'
    <3> SUFFICES ASSUME ~safeRetry
                 PROVE  /\ bytesLeft' = maxTest - totalRead'
                        /\ (wanted - Len(speeds')) * BlockSize
                             <= maxTest - totalRead'
      OBVIOUS
    <3>1. bytesLeft = maxTest - totalRead
      BY <1>2 DEF ShareInv, Begun
    <3>2. bytesLeft' = maxTest - totalRead'
      BY <1>2, <1>3, <2>1, <2>3, <3>1
    <3> DEFINE spare == (wanted - Len(speeds) - 1) * BlockSize
    <3>3. spare <= maxTest - totalRead - sample.maxBytes
      BY <1>2 DEF ShareInv
    <3>4. wanted - Len(speeds') = wanted - Len(speeds) - 1
      BY <1>3, <2>2
    <3>5. spare \in Int
      BY <1>3, <2>2, Units
    <3>6. (wanted - Len(speeds')) * BlockSize = spare
      BY <3>4
    <3> HIDE DEF spare
    <3>7. spare <= maxTest - totalRead'
      BY SMTT(20), <1>3, <1>4, <2>3, <3>3, <3>5
    <3> QED BY <3>2, <3>6, <3>7
  <2>6. ShareInv'
    <3> DEFINE need == (wanted' - Len(speeds')) * BlockSize
    <3>1. wanted' = wanted /\ maxTest' = maxTest /\ Len(speeds') <= wanted'
      BY <1>2, <1>3, <1>4, <2>2 DEF plan
    <3>2. ~safeRetry' => bytesLeft' = maxTest' - totalRead' /\ need <= maxTest' - totalRead'
      BY <2>3, <2>5, <3>1
    <3> QED BY <2>3, <3>1, <3>2 DEF ShareInv, Begun
  <2> QED BY <1>1, <1>5, <2>4, <2>6
<1>7. CASE ~valid
  <2>1. pc' \in {"retry", "cleanup"} /\ (pc' = "retry" => safeRetry')
        /\ totalRead' = totalRead /\ speeds' = speeds
    BY <1>2, <1>7
  <2>2. ReadingInv'
    BY <1>2, <2>1 DEF ReadingInv, plan
  <2>3. ShareInv'
    BY <1>2, <1>4, <2>1 DEF ShareInv, Begun, plan
  <2> QED BY <1>1, <1>5, <2>2, <2>3
<1> QED BY <1>6, <1>7

LEMMA RunFinish ==
  ASSUME BudgetInv, RunInv, Publish \/ Cleanup
  PROVE  RunInv'
<1> USE DEF RunInv
<1>1. PlanInv'
  BY PlanKept DEF Publish, Cleanup
<1>2. ASSUME Publish PROVE RunInv'
  <2>1. /\ pc = "publish" /\ pc' = "cleanup"
        /\ UNCHANGED <<plan, held, budget, totalRead, sample, speeds, safeRetry>>
        /\ bytesSec' = IF speeds = <<>> THEN 0 ELSE Median(speeds)
        /\ measured' = (bytesSec' # 0)
    BY <1>2 DEF Publish
  <2>2. ReadingInv' /\ ShareInv'
    BY <2>1 DEF ReadingInv, ShareInv, Begun, plan, budget
  <2>3. speeds # <<>> => Between'
    BY <2>1, MedianBetween DEF Between, BudgetInv, TypeOK, ResultOK
  <2>4. ResultInv'
    BY <2>1, <2>3 DEF ResultInv
  <2> QED BY <1>1, <2>2, <2>4
<1>3. ASSUME Cleanup PROVE RunInv'
  <2>1. /\ pc = "cleanup" /\ pc' = "idle"
        /\ UNCHANGED <<plan, budget, totalRead, safeRetry, measured, bytesSec>>
        /\ speeds' = IF measured THEN speeds ELSE <<>>
        /\ fallback' = (measured /\ fallback)
    BY <1>3 DEF Cleanup, KeepsResult
  <2>2. ReadingInv'
    BY <2>1 DEF ReadingInv, plan
  <2>3. ShareInv'
    <3>1. wanted \in Nat
      BY DEF BudgetInv, TypeOK, NumbersOK
    <3> QED BY <2>1, <3>1, NothingYet DEF ShareInv, Begun, plan
  <2>4. ResultInv'
    BY <2>1 DEF ResultInv, Between
  <2> QED BY <1>1, <2>2, <2>3, <2>4
<1> QED BY <1>2, <1>3

LEMMA RunInductive == Spec => []RunInv
<1>1. BudgetInv /\ RunInv /\ [Next]_vars => RunInv'
  <2> SUFFICES ASSUME BudgetInv, RunInv, [Next]_vars PROVE RunInv'
    OBVIOUS
  <2>1. CASE \E d \in Drives, usable \in BOOLEAN : Start(d, usable)
    BY <2>1, RunStart
  <2>2. CASE Run
    BY <2>2, RunSetUp, RunBeginSample, RunRead, RunEndSample, RunFinish DEF Run
  <2>3. CASE UNCHANGED vars
    <3>1. PlanInv'
      BY <2>3, PlanKept DEF RunInv, vars
    <3>2. ReadingInv' /\ ShareInv'
      BY <2>3 DEF RunInv, vars, plan, budget, result, ReadingInv, ShareInv, Begun
    <3>3. ResultInv'
      BY <2>3 DEF RunInv, vars, result, ResultInv, Between
    <3> QED BY <3>1, <3>2, <3>3 DEF RunInv
  <2> QED BY <2>1, <2>2, <2>3 DEF Next
<1> QED BY <1>1, RunInit, BudgetInductive, PTL DEF Spec

\* A result is published whole, from every planned sample unless the run was
\* restarted or out of time, with a median between two of its samples; a run
\* that failed leaves no trace of a result (drives.c:1296-1313 and 1533-1623).
THEOREM PublishedWholeAlways == Spec => []PublishedWhole
<1>1. BudgetInv /\ RunInv => PublishedWhole
  <2> SUFFICES ASSUME BudgetInv, RunInv PROVE PublishedWhole
    OBVIOUS
  <2>1. speeds # <<>> => Len(speeds) \in 1..Samples
    <3>1. /\ speeds \in Seq(Nat) /\ wanted \in Nat /\ wanted <= Samples
          /\ Len(speeds) <= wanted
      BY DEF BudgetInv, TypeOK, NumbersOK, ResultOK, RunInv, PlanInv, ShareInv
    <3> QED BY <3>1, Units
  <2> QED BY <2>1 DEF RunInv, ShareInv, ResultInv, Between, PublishedWhole
<1> QED BY <1>1, BudgetInductive, RunInductive, PTL

\* From the set-up on a run reads where it has to: at the partition's start,
\* or, once it has fallen back, at the device's start with the 32-bit command.
Placed ==
  pc \in {"probe", "warmup", "loop", "read"} =>
    /\ offset = Origin
    /\ pc = "probe" => ~fallback
    /\ fallback => command = "CMD_READ"

LEMMA PlacedInductive == Spec => []Placed
<1>1. Init => Placed
  BY DEF Init, Placed
<1>2. Placed /\ [Next]_vars => Placed'
  <2> SUFFICES ASSUME Placed, [Next]_vars PROVE Placed'
    OBVIOUS
  <2> USE DEF Placed, Origin
  <2>1. ASSUME NEW d \in Drives, NEW usable \in BOOLEAN, Start(d, usable)
        PROVE  Placed'
    <3>1. pc' \in {"open", "idle"}
      BY <2>1 DEF Start
    <3> QED BY <3>1
  <2>2. ASSUME NEW acquired, Open(acquired) PROVE Placed'
    <3>1. pc' \in {"retry", "cleanup"}
      BY <2>2 DEF Open
    <3> QED BY <3>1
  <2>3. ASSUME NEW allocated, NEW fellBack, Retry(allocated, fellBack)
        PROVE  Placed'
    BY <2>3 DEF Retry, plan, Base
  <2>4. ASSUME NEW ok \in BOOLEAN, Probe(ok) PROVE Placed'
    <3>1. /\ pc = "probe" /\ drive' = drive /\ ~fallback /\ offset = Base(drive)
          /\ pc' \in {"retry", "warmup"}
          /\ pc' = "warmup" => ~Restarts(~ok)
      BY <2>4 DEF Probe, plan
    <3>2. CASE pc' = "retry"
      BY <3>2
    <3>3. CASE pc' = "warmup"
      BY <2>4, <3>1, <3>3 DEF Probe, Base
    <3> QED BY <3>1, <3>2, <3>3
  <2>5. CASE WarmUp \/ BeginSample
    BY <2>5 DEF WarmUp, BeginSample, plan, result, Base
  <2>6. ASSUME NEW d, NEW outcome, Read(d, outcome) PROVE Placed'
    BY <2>6 DEF Read, plan, result, Base
  <2>7. ASSUME NEW d, NEW clockOK, EndSample(d, clockOK) PROVE Placed'
    <3>1. /\ pc = "read" /\ pc' \in {"loop", "retry", "cleanup"}
          /\ UNCHANGED <<drive, offset, command, fallback>>
      BY <2>7 DEF EndSample, plan
    <3> QED BY <3>1 DEF Base
  <2>8. CASE Publish \/ Cleanup
    <3>1. pc' \in {"cleanup", "idle"}
      BY <2>8 DEF Publish, Cleanup
    <3> QED BY <3>1
  <2>9. CASE UNCHANGED vars
    BY <2>9 DEF vars, plan, result, Base
  <2> QED BY <2>1, <2>2, <2>3, <2>4, <2>5, <2>6, <2>7, <2>8, <2>9 DEF Next, Run
<1> QED BY <1>1, <1>2, PTL DEF Spec

\* Every timed request goes through the open device into the buffer, below the
\* wrap of a 32-bit offset and inside the partition, restarted or not; only a
\* run that has fallen back reads, as far, from the start of the device
\* (drives.c:1486-1518).
THEOREM ReadsStayInBounds == Spec => ReadsInBounds
<1> DEFINE length == timed' - timed
           first == offset + totalRead + sample.bytes
           Within ==
             /\ {"device", "buffer"} \subseteq held
             /\ length \in 1..bufferSize
             /\ first >= Origin
             /\ Available(drive) # 0 => first + length <= Origin + Available(drive)
             /\ fallback => command = "CMD_READ"
             /\ command = "CMD_READ" => first + length <= OffsetLimit
<1>1. BudgetInv /\ HeldInv /\ RunInv /\ Placed /\ [Next]_vars =>
        [timed' > timed => Within]_vars
  <2> SUFFICES ASSUME BudgetInv, HeldInv, RunInv, Placed, Next, timed' > timed
               PROVE  Within
    OBVIOUS
  <2>1. timed \in Nat
    BY DEF BudgetInv, TypeOK, NumbersOK
  <2>2. ASSUME NEW d \in Drives, NEW usable \in BOOLEAN, Start(d, usable)
        PROVE  FALSE
    BY <2>1, <2>2 DEF Start
  <2>3. \E d \in Durations, outcome \in {"ok", "error", "timer"} : Read(d, outcome)
    BY <2>1, <2>2 DEF Next, Run, Open, Retry, Probe, WarmUp, BeginSample, EndSample,
                      Publish, Cleanup
  <2>4. pc = "read" /\ MoreToRead /\ timed' = timed + ReadLength
    BY <2>3 DEF Read
  <2>5. /\ ReadLength \in Nat /\ ReadLength > 0 /\ ReadLength <= bufferSize
        /\ ReadLength <= sample.maxBytes - sample.bytes
    BY <2>4, ReadLengthBounds, ReadLengthFits
  <2>6. length = ReadLength
    BY <2>1, <2>4, <2>5
  <2>7. /\ totalRead \in Nat /\ maxTest \in Nat /\ offset \in Nat /\ bufferSize \in Nat
        /\ sample.bytes \in Nat /\ sample.maxBytes \in Nat
    BY DEF BudgetInv, TypeOK, NumbersOK, SampleRecord
  <2>8. sample.maxBytes <= maxTest - totalRead
    BY <2>4 DEF RunInv, ReadingInv
  <2>9. totalRead + sample.bytes + ReadLength <= maxTest
    BY <2>5, <2>7, <2>8
  <2>10. Available(drive) \in Nat /\ OffsetLimit \in Nat
    BY DriveType, SizeAssumption
       DEF BudgetInv, TypeOK, ControlOK, Available, GeometryBlocks
  <2>11. {"device", "buffer"} \subseteq held
    BY <2>4 DEF HeldInv, RunInv, ReadingInv
  <2>12. offset = Origin /\ (fallback => command = "CMD_READ")
    BY <2>4 DEF Placed
  <2>13. Available(drive) # 0 => maxTest <= Available(drive)
    BY DEF RunInv, PlanInv
  <2>14. command = "CMD_READ" => offset + maxTest <= OffsetLimit
    BY <2>4 DEF RunInv, ReadingInv
  <2> DEFINE range == Available(drive)
             origin == Origin
  <2>15. /\ range \in Nat /\ origin = offset
         /\ range # 0 => maxTest <= range
    BY <2>10, <2>12, <2>13
  <2>16. /\ first \in Nat /\ first >= offset
         /\ first + length <= offset + maxTest
    <3> HIDE DEF length
    <3> QED BY <2>5, <2>6, <2>7, <2>9
  <2> HIDE DEF range, origin, first, length
  <2>17. /\ first >= origin
         /\ range # 0 => first + length <= origin + range
         /\ command = "CMD_READ" => first + length <= OffsetLimit
    <3>1. length \in Nat
      BY <2>5, <2>6
    <3> QED BY <3>1, <2>7, <2>10, <2>14, <2>15, <2>16
  <2>18. length \in 1..bufferSize
    BY <2>5, <2>6, <2>7
  <2> QED BY <2>11, <2>12, <2>17, <2>18 DEF range, origin
<1> QED BY <1>1, BudgetInductive, HeldInductive, RunInductive, PlacedInductive, PTL
        DEF Spec, ReadsInBounds
=============================================================================
