----------------------------- MODULE DriveSpeed -----------------------------
(***************************************************************************)
(* The device speed test of drives.c: measure_drive_speed and everything   *)
(* it calls.  One run clears the drive's result, checks the geometry,      *)
(* acquires a message port, an I/O request, the device and a buffer, reads *)
(* sequentially in up to Samples timed samples, publishes the median and   *)
(* releases what it acquired.  A run restarts at most once, with a buffer  *)
(* in Chip memory, and keeps its byte and time budgets across the restart. *)
(*                                                                         *)
(* The environment is the device (which may fail any request), memory (any *)
(* allocation may fail), the clock (any interval may be long, or invalid)  *)
(* and the caller, who may start a run on any of Drives again and again.   *)
(* Sizes and times are numbers with the source's arithmetic; the constants *)
(* replace the source's figures so that small instances reach every limit. *)
(***************************************************************************)
EXTENDS Integers, Sequences, FiniteSets

CONSTANTS
  BlockSize,     \* bytes_per_block of the drive
  FirstChunk,    \* DRIVE_SPEED_FIRST_CHUNK
  HardChunk,     \* DRIVE_SPEED_HARD_CHUNK
  MaxBytes,      \* DRIVE_SPEED_MAX_BYTES
  FloppyTracks,  \* DRIVE_SPEED_FLOPPY_TRACKS
  FloppyBlocks,  \* 7040, the blocks of an ED floppy
  Samples,       \* DRIVE_SPEED_SAMPLES
  TargetUs,      \* DRIVE_SPEED_TARGET_US
  MaxUs,         \* DRIVE_SPEED_MAX_US
  UsPerSecond,   \* 1000000
  MaxRate,       \* ULONG_MAX, the clamp of bytes_sec
  BlockWrap,     \* 2^32, modulus of the ULONG geometry_total_blocks
  OffsetLimit,   \* $FFFFFFFF, the reach of a 32-bit byte offset, ULONG_MAX
  Durations,     \* the times one request may take
  Drives         \* the drives of the list

(***************************************************************************)
(* A drive: base and blocks are its range on the device, chs says whether  *)
(* its surfaces and sectors are known, ordered that its cylinders are not  *)
(* reversed, track the bytes of one track, maxTransfer the DosEnvec limit  *)
(* (0: none), mask that a non-zero address mask was given, bufMem the      *)
(* kind of memory the DosEnvec asks for.                                   *)
(***************************************************************************)
DriveRecord ==
  [base: Nat, blocks: Nat, chs: BOOLEAN, ordered: BOOLEAN, track: Nat,
   maxTransfer: Nat, mask: BOOLEAN, bufMem: {"none", "chip", "other"}]

ASSUME SizeAssumption ==
  /\ BlockSize \in Nat \ {0}
  /\ FirstChunk \in Nat
  /\ HardChunk \in Nat
  /\ MaxBytes \in 0..OffsetLimit
  /\ FloppyTracks \in Nat
  /\ FloppyBlocks \in Nat
  /\ BlockWrap \in Nat \ {0}
  /\ OffsetLimit \in Nat

ASSUME TimeAssumption ==
  /\ Samples \in Nat \ {0}
  /\ TargetUs \in Nat
  /\ MaxUs \in Nat
  /\ UsPerSecond \in Nat
  /\ MaxRate \in Nat
  /\ Durations \subseteq Nat

ASSUME DriveAssumption == Drives \subseteq DriveRecord

VARIABLES
  pc,          \* the label the run has reached, "idle" between runs
  drive,       \* the drive of the run
  held,        \* what the run has acquired: "port", "io", "device", "buffer"
  motor,       \* the floppy motor runs
  bufferSize,  \* buffer_size
  maxTest,     \* max_test_bytes
  wanted,      \* wanted_samples
  bytesLeft,   \* bytes_left
  elapsed,     \* total_elapsed
  totalRead,   \* total_read
  offset,      \* read_offset_bytes
  command,     \* read_cmd: "CMD_READ" or "READ64"
  safeRetry,   \* safe_buffer_retry
  canRetry,    \* can_retry_safe_buffer
  sample,      \* the sample being measured, see SampleRecord
  speeds,      \* bytes_sec of the samples completed, in order
  fallback,    \* speed_results.offset_fallback
  measured,    \* speed_measured
  bytesSec,    \* speed_bytes_sec
  timed        \* history: the bytes this run's timed reads have asked for

budget == <<bytesLeft, elapsed>>
plan == <<drive, bufferSize, maxTest, wanted>>
result == <<speeds, fallback, measured, bytesSec>>
vars == <<pc, plan, held, motor, budget, totalRead, offset, command,
          safeRetry, canRetry, sample, result, timed>>

TotalUs == MaxUs * Samples
Resources == {"port", "io", "device", "buffer"}
MinOf(a, b) == IF a < b THEN a ELSE b
MaxOf(a, b) == IF a < b THEN b ELSE a

\* A sample in progress: its limits, what it has read and when, and status:
\* "run", or why the read loop ended ("done", "error", "timer").
SampleRecord ==
  [maxBytes: Nat, maxUs: Nat, bytes: Nat, reads: Nat, us: Nat, issued: Nat,
   status: {"run", "done", "error", "timer"}]
NoSample == [maxBytes |-> 0, maxUs |-> 0, bytes |-> 0, reads |-> 0, us |-> 0,
             issued |-> 0, status |-> "done"]
-----------------------------------------------------------------------------
(* Geometry and sizes.                                                     *)

Align(size) == size - (size % BlockSize)

GeometryBlocks(d) == d.blocks % BlockWrap
IsFloppy(d) == GeometryBlocks(d) \in 1..FloppyBlocks

\* The bytes of the partition, 0 when its extent is unknown.
Available(d) == IF d.chs THEN d.blocks * BlockSize
                ELSE GeometryBlocks(d) * BlockSize
Base(d) == IF d.chs THEN d.base ELSE 0

\* drive_speed_range: the budget a caller's limit is cut to, and whether any
\* block of it can be read.
RangeBytes(d, limit) ==
  Align(IF Available(d) # 0 /\ Available(d) < limit THEN Available(d) ELSE limit)
RangeOK(d, limit) == /\ d.chs => d.ordered
                     /\ RangeBytes(d, limit) >= BlockSize

WholeBuffer(d) ==
  MaxOf(Align(MaxOf(IF IsFloppy(d) THEN d.track ELSE HardChunk, BlockSize)),
        BlockSize)
Capped(d) == d.maxTransfer # 0 /\ d.maxTransfer < WholeBuffer(d)
TransferOK(d) == Capped(d) => Align(d.maxTransfer) >= BlockSize
TransferSize(d) == IF Capped(d) THEN Align(d.maxTransfer) ELSE WholeBuffer(d)

ByteLimit(d) == IF IsFloppy(d) THEN d.track * FloppyTracks ELSE MaxBytes
SampleLimit(d) == IF IsFloppy(d) THEN 1 ELSE Samples

Rate(bytes, us) == MinOf((bytes * UsPerSecond) \div us, MaxRate)

\* The speed that comes to place k when they are sorted.
Sorted(s, k) ==
  CHOOSE speed \in {s[i] : i \in DOMAIN s} :
    /\ Cardinality({i \in DOMAIN s : s[i] < speed}) < k
    /\ Cardinality({i \in DOMAIN s : s[i] <= speed}) >= k

\* summarize_drive_speed: the middle of the sorted speeds.
Median(s) ==
  LET half == Len(s) \div 2
  IN  IF Len(s) % 2 = 1 THEN Sorted(s, half + 1)
      ELSE (Sorted(s, half) + Sorted(s, half + 1)) \div 2
-----------------------------------------------------------------------------
(* The run.                                                                *)

Init ==
  /\ pc = "idle"
  /\ drive \in Drives
  /\ held = {}
  /\ motor = FALSE
  /\ bufferSize = 0 /\ maxTest = 0 /\ wanted = 0
  /\ bytesLeft = 0 /\ elapsed = 0
  /\ totalRead = 0 /\ offset = 0
  /\ command = "CMD_READ"
  /\ safeRetry = FALSE /\ canRetry = FALSE
  /\ sample = NoSample
  /\ speeds = <<>> /\ fallback = FALSE
  /\ measured = FALSE /\ bytesSec = 0
  /\ timed = 0

\* Three tracks must not overflow a ULONG.
TracksOK(d) == IsFloppy(d) => d.track * FloppyTracks <= OffsetLimit

\* The old result goes first; then the run is refused, with nothing acquired,
\* or planned.  usable: a timer, a handler name and evidence of a medium.
Start(d, usable) ==
  /\ pc = "idle"
  /\ drive' = d
  /\ measured' = FALSE /\ bytesSec' = 0
  /\ speeds' = <<>> /\ fallback' = FALSE
  /\ LET go == usable /\ TracksOK(d) /\ TransferOK(d) /\ RangeOK(d, ByteLimit(d))
         limit == RangeBytes(d, ByteLimit(d))
     IN  /\ pc' = IF go THEN "open" ELSE "idle"
         /\ maxTest' = IF go THEN limit ELSE 0
         /\ bufferSize' = IF go THEN MinOf(TransferSize(d), limit) ELSE 0
         /\ wanted' = IF go THEN MinOf(SampleLimit(d), limit \div BlockSize) ELSE 0
         /\ bytesLeft' = IF go THEN limit ELSE 0
  /\ elapsed' = 0 /\ totalRead' = 0 /\ offset' = Base(d)
  /\ command' = "CMD_READ" /\ safeRetry' = FALSE /\ canRetry' = FALSE
  /\ sample' = NoSample
  /\ timed' = 0
  /\ UNCHANGED <<held, motor>>

\* CreatePort, CreateExtIO and OpenDevice in turn; the first failure ends it.
Open(acquired) ==
  /\ pc = "open"
  /\ held' = acquired
  /\ pc' = IF "device" \in acquired THEN "retry" ELSE "cleanup"
  /\ UNCHANGED <<plan, motor, budget, totalRead, offset, command, safeRetry,
                 canRetry, sample, result, timed>>

\* Which retry alloc_drive_speed_buffer offers with the buffer it returned:
\* only an unmasked first run whose buffer may have been unsuitable memory.
OffersRetry(fellBack) ==
  /\ ~safeRetry /\ ~drive.mask
  /\ \/ drive.bufMem = "none"
     \/ drive.bufMem = "other" /\ ~fellBack

\* Mutant: only where the partition starts decides which command is used.
BugStartOnly(d) == Base(d) > OffsetLimit

Needs64(d) == Base(d) + maxTest > OffsetLimit

\* retry_speed_test: forget the samples but neither budget, then allocate.
Retry(allocated, fellBack) ==
  /\ pc = "retry"
  /\ totalRead' = 0 /\ speeds' = <<>> /\ fallback' = FALSE
  /\ LET go == /\ bytesLeft >= BlockSize /\ elapsed < TotalUs
               /\ allocated
     IN  /\ held' = (held \ {"buffer"}) \cup (IF go THEN {"buffer"} ELSE {})
         /\ canRetry' = (go /\ OffersRetry(fellBack))
         /\ offset' = Base(drive)
         /\ command' = IF go /\ Needs64(drive) THEN "READ64" ELSE "CMD_READ"
         /\ pc' = CASE ~go -> "cleanup"
                    [] go /\ Needs64(drive) -> "probe"
                    [] OTHER -> "warmup"
  /\ UNCHANGED <<plan, motor, budget, safeRetry, sample, measured, bytesSec, timed>>

\* A failed request restarts the run if that is still offered, and then the
\* buffer must come from safe memory.
Restarts(failed) == failed /\ canRetry /\ ~safeRetry
\* Mutant: a restart forgets to ask for safe memory.
BugForgetsSafe(restart) == safeRetry

SafeAfter(restart) == safeRetry \/ restart

\* The untimed probe of the 64-bit command: a failure restarts with a safe
\* buffer while that is still offered, else reading moves to offset 0.
Probe(ok) ==
  /\ pc = "probe"
  /\ LET restart == Restarts(~ok)
     IN  /\ safeRetry' = SafeAfter(restart)
         /\ command' = IF ok \/ restart THEN command ELSE "CMD_READ"
         /\ offset' = IF ok \/ restart THEN offset ELSE 0
         /\ fallback' = (fallback \/ (~ok /\ ~restart))
         /\ pc' = IF restart THEN "retry" ELSE "warmup"
  /\ motor' = (motor \/ IsFloppy(drive))
  /\ UNCHANGED <<plan, held, budget, totalRead, canRetry, sample, speeds,
                 measured, bytesSec, timed>>

\* Position the head of a floppy with one read whose outcome is ignored.
WarmUp ==
  /\ pc = "warmup"
  /\ motor' = (motor \/ IsFloppy(drive))
  /\ pc' = "loop"
  /\ UNCHANGED <<plan, held, budget, totalRead, offset, command, safeRetry,
                 canRetry, sample, result, timed>>

\* sample_bytes: a share of the range that leaves as much to every later
\* sample, within what is left of the budget.  samplesLeft is wanted - i.
\* Mutants: the share ignores the bytes spent before a restart; a sample may
\* take all that is left.
BugShareOfRange(samplesLeft) == Align((maxTest - totalRead) \div samplesLeft)
BugGreedyShare(samplesLeft) ==
  Align(MinOf(maxTest - totalRead, bytesLeft))

Share(samplesLeft) ==
  Align(MinOf((maxTest - totalRead) \div samplesLeft, bytesLeft))

\* sample_us: what the run has left, at most the limit of one sample.
\* Mutant: each sample has its own time limit and no other.
BugOwnLimit == MaxUs

SampleUs == MinOf(TotalUs - elapsed, MaxUs)

\* The head of the sample loop: another sample while both budgets last.
BeginSample ==
  /\ pc = "loop"
  /\ LET samplesLeft == wanted - Len(speeds)
     IN  IF /\ samplesLeft > 0 /\ bytesLeft >= BlockSize /\ elapsed < TotalUs
            /\ Share(samplesLeft) >= BlockSize
         THEN /\ pc' = "read"
              /\ sample' = [NoSample EXCEPT !.maxBytes = Share(samplesLeft),
                                            !.maxUs = SampleUs,
                                            !.status = "run"]
         ELSE /\ pc' = "publish"
              /\ UNCHANGED sample
  /\ UNCHANGED <<plan, held, motor, budget, totalRead, offset, command,
                 safeRetry, canRetry, result, timed>>

\* measure_drive_sample: a hard disk stops on time, never before one read.
OutOfTime ==
  /\ ~IsFloppy(drive) /\ sample.reads > 0
  /\ \/ sample.us >= sample.maxUs
     \/ sample.reads >= 2 /\ sample.us >= TargetUs

\* The first read and every read of a slow disk are short ones.
ShortReads ==
  /\ ~IsFloppy(drive) /\ bufferSize > FirstChunk /\ BlockSize <= FirstChunk
  /\ sample.reads = 0 \/ sample.us > TargetUs \div 4

ReadLength ==
  Align(MinOf(IF ShortReads THEN FirstChunk ELSE bufferSize,
              sample.maxBytes - sample.bytes))

MoreToRead == /\ sample.status = "run"
              /\ sample.bytes < sample.maxBytes
              /\ ~OutOfTime
              /\ ReadLength >= BlockSize

\* One timed DoIO: the clock is read before its outcome is looked at.
Read(d, outcome) ==
  /\ pc = "read" /\ MoreToRead
  /\ sample' =
       [sample EXCEPT
          !.issued = @ + ReadLength,
          !.us = IF outcome = "timer" THEN @ ELSE @ + d,
          !.bytes = IF outcome = "ok" THEN @ + ReadLength ELSE @,
          !.reads = IF outcome = "ok" THEN @ + 1 ELSE @,
          !.status = IF outcome = "ok" THEN "run" ELSE outcome]
  /\ timed' = timed + ReadLength
  /\ motor' = (motor \/ IsFloppy(drive))
  /\ UNCHANGED <<pc, plan, held, budget, totalRead, offset, command,
                 safeRetry, canRetry, result>>

\* What a sample costs the byte budget: all it asked for, read or not.
\* Mutant: only bytes that arrived are charged.
BugChargeArrived == sample.bytes

Charge == sample.issued

\* The rest of measure_drive_sample, which takes the final time, and of the
\* sample loop, which charges both budgets whatever became of the sample.
EndSample(d, clockOK) ==
  /\ pc = "read" /\ ~MoreToRead
  /\ LET timerOK == clockOK /\ sample.status # "timer"
         us == IF timerOK THEN sample.us + d ELSE sample.us
         failed == timerOK /\ sample.status = "error"
         valid == /\ timerOK /\ ~failed
                  /\ us # 0 /\ sample.bytes # 0
                  /\ Rate(sample.bytes, us) # 0
         restart == Restarts(failed)
     IN  /\ bytesLeft' = bytesLeft - Charge
         /\ elapsed' = elapsed + us
         /\ safeRetry' = SafeAfter(restart)
         /\ pc' = CASE valid -> "loop"
                    [] restart -> "retry"
                    [] OTHER -> "cleanup"
         /\ totalRead' = IF valid THEN totalRead + sample.bytes ELSE totalRead
         /\ speeds' = IF valid THEN Append(speeds, Rate(sample.bytes, us))
                      ELSE speeds
  /\ sample' = NoSample
  /\ UNCHANGED <<plan, held, motor, offset, command, canRetry, fallback,
                 measured, bytesSec, timed>>

Publish ==
  /\ pc = "publish"
  /\ bytesSec' = IF speeds = <<>> THEN 0 ELSE Median(speeds)
  /\ measured' = (bytesSec' # 0)
  /\ pc' = "cleanup"
  /\ UNCHANGED <<plan, held, motor, budget, totalRead, offset, command,
                 safeRetry, canRetry, sample, speeds, fallback, timed>>

\* Mutants: only a successful run stops the motor; samples survive a failure.
BugMotorOnSuccess == measured /\ IsFloppy(drive)
BugKeepsSamples == speeds # <<>>

StopsMotor == "device" \in held /\ IsFloppy(drive)
KeepsResult == measured

\* Every exit: stop a floppy's motor through the open device, give back what
\* was acquired and leave no partial result behind.
Cleanup ==
  /\ pc = "cleanup"
  /\ motor' = (motor /\ ~StopsMotor)
  /\ held' = {}
  /\ speeds' = IF KeepsResult THEN speeds ELSE <<>>
  /\ fallback' = (KeepsResult /\ fallback)
  /\ pc' = "idle"
  /\ UNCHANGED <<plan, budget, totalRead, offset, command, safeRetry,
                 canRetry, sample, measured, bytesSec, timed>>

Run ==
  \/ \E acquired \in {{}, {"port"}, {"port", "io"}, {"port", "io", "device"}} :
       Open(acquired)
  \/ \E allocated, fellBack \in BOOLEAN : Retry(allocated, fellBack)
  \/ \E ok \in BOOLEAN : Probe(ok)
  \/ WarmUp
  \/ BeginSample
  \/ \E d \in Durations, outcome \in {"ok", "error", "timer"} : Read(d, outcome)
  \/ \E d \in Durations, clockOK \in BOOLEAN : EndSample(d, clockOK)
  \/ Publish
  \/ Cleanup

Next == \/ \E d \in Drives, usable \in BOOLEAN : Start(d, usable)
        \/ Run

\* A started run is one synchronous call, so it keeps taking steps; nothing
\* makes the caller start one.
Spec == Init /\ [][Next]_vars /\ WF_vars(Run)
-----------------------------------------------------------------------------
(* Properties.                                                             *)

Labels == {"idle", "open", "retry", "probe", "warmup", "loop", "read",
           "publish", "cleanup"}

\* Every variable keeps its type; in particular neither budget goes negative
\* (drives.c subtracts from ULONGs).
\* (PublishedWhole bounds bytesSec, which is a median.)
ControlOK ==
  /\ pc \in Labels
  /\ drive \in Drives
  /\ held \subseteq Resources
  /\ motor \in BOOLEAN
  /\ command \in {"CMD_READ", "READ64"}
  /\ safeRetry \in BOOLEAN /\ canRetry \in BOOLEAN
NumbersOK ==
  /\ bufferSize \in Nat /\ maxTest \in Nat /\ wanted \in Nat
  /\ bytesLeft \in Nat /\ elapsed \in Nat
  /\ totalRead \in Nat /\ offset \in Nat /\ timed \in Nat
ResultOK == speeds \in Seq(Nat) /\ fallback \in BOOLEAN /\ measured \in BOOLEAN
TypeOK == ControlOK /\ NumbersOK /\ sample \in SampleRecord /\ ResultOK

\* The timed reads of a run, failed ones and those before a restart
\* included, never ask the device for more than the budget of one run.
ReadBudget == timed <= maxTest

\* A run that has returned holds nothing and has stopped the motor, whatever
\* step it failed in.
NothingHeld == pc = "idle" => held = {} /\ ~motor

\* A result is published whole, the median lying between the extremes, or
\* there is no trace of one: no partial samples, no result of an earlier run.
\* Without a restart and in time, it is made of every sample that was planned:
\* an earlier sample never eats the share reserved for a later one.
PublishedWhole ==
  /\ pc = "publish" /\ elapsed < TotalUs /\ ~safeRetry => Len(speeds) = wanted
  /\ pc = "idle" =>
       IF measured
       THEN /\ Len(speeds) \in 1..Samples
            /\ \E i \in DOMAIN speeds : speeds[i] <= bytesSec
            /\ \E i \in DOMAIN speeds : bytesSec <= speeds[i]
       ELSE speeds = <<>> /\ ~fallback /\ bytesSec = 0

\* A timed request is made through the open device into a buffer that holds
\* it, with an offset that cannot wrap, and lies in the partition.  Only after
\* the 64-bit probe failed for good is it at the start of the device instead,
\* as far in as the partition is long (drives.c:1515-1518): the result then
\* says so, and the command is the 32-bit one.
Origin == IF fallback THEN 0 ELSE Base(drive)
ReadsInBounds ==
  [][timed' > timed =>
       LET length == timed' - timed
           first == offset + totalRead + sample.bytes
       IN  /\ {"device", "buffer"} \subseteq held
           /\ length \in 1..bufferSize
           /\ first >= Origin
           /\ Available(drive) # 0 => first + length <= Origin + Available(drive)
           /\ fallback => command = "CMD_READ"
           /\ command = "CMD_READ" => first + length <= OffsetLimit
    ]_vars

\* A hard disk is not sent another timed request once the time of the whole
\* run, restarts included, is used up.
TimeBudget ==
  [][timed' > timed /\ ~IsFloppy(drive) => elapsed + sample.us < TotalUs]_vars

\* A run ends, however often the device, the memory or the clock fails it.
Terminates == pc = "open" ~> pc = "idle"

\* The comment at drives.c:1490 says of every read that it is not issued at a
\* wrapped 32-bit offset; this is that claim for the warm-up of a floppy.
NoWrappedWarmUp ==
  pc = "warmup" /\ IsFloppy(drive) => offset + BlockSize <= OffsetLimit + 1
=============================================================================
