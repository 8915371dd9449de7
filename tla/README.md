# xSysInfo in TLA+

These modules specify xSysInfo, a system information and benchmark program for
AmigaOS, as its C source under `src/src/` has it.  TLC checks them on small
instances; TLAPS proves every safety property of the passing runs for every
value of the constants.  `PROJECT.json` lists the components, the runs, the mutants, the
lines each definition stands for, the hazards and the theorems.

On AmigaOS there is no memory protection.  A message left unanswered, a request
freed while a device holds it, or code unloaded under a running task corrupts
the whole system.  Most properties here are about that: what is borrowed, from
whom, and whether it is returned at a moment when nobody uses it.

## 1. Inventory

| Component | State it keeps | Operations | Interacts with |
|---|---|---|---|
| Drive speed test (`drives.c`) | plan, budgets, samples of one run; the result in the drive list | `measure_drive_speed` and its helpers | device (DoIO), memory, timer |
| SCSI diagnostic (`wdprobe.c`) | saved registers, `restore_failed`, `wd_info` | `probe_wd_controller` | the chip, its driver's task and interrupts, probe clock |
| Loader (`loading.c`, `display.c`) | public control ports, the loaded copy, the splash's resources | START, STOP, splash process, `display_ready` | Exec, Intuition, other command lines |
| Views (`gui.c`, `report_view.c`, view parts of `memory.c`, `drives.c`, `boards*.c`, `scsi.c`) | view, list positions, enabled buttons, cached hardware rows, report | button, key, scroll bar, switch of view | event loop |
| Event loop (`main.c`, `clock.c`, requester in `gui.c`) | pressed button, drag, clock request, text field | `main_loop`, `clock_refresh_*`, `show_filename_requester` | Intuition's port, timer.device, CTRL-C |
| Life cycle (`main.c`) | all that is open or allocated, pens, return code | `main`, `open_display`, `close_display`, `allocate_pens` | libraries, screen, all of the above |
| Clock chip (`clock.c`) | hold, bank and read bits of the chip | `read_hardware_time` | other readers and writers of the chip |
| Probe clock (`probeclock.c`) | the CIA timer it borrows, saved control bits | acquire, start, read, release | CIA resources, their other drivers, interrupts |
| Bus clock (`busclock.c`) | RAMSEY's control register | `measure_bus_frequency` | memory refresh, probe clock |
| Benchmarks (`benchmark.c`, `dhry_*.c`) | results, the frequency kept with its settings | `run_until_steady`, Dhrystone, MFLOPS, memory, frequencies | timers, cache settings |
| Overlay (`gui.c`) | saved planes, blank pointer | show, hide | graphics.library, memory |
| Drives and SCSI (`drives.c`, `scsi.c`, `growlist.c`) | lists | enumerate, match, query, scan | DOS lists, file systems, devices |
| Memory, boards, software (`memory.c`, `boards.c`, `software.c`) | lists | enumerate, refresh, measure | Exec's lists under Forbid, identify.library |
| Chips and processor (`hardware.c`, `berr_trap.S`, `cpu.S`, `battmem.c`) | `hw_info` | `detect_hardware` | registers, vectors, mmu.library, the SCSI driver |
| Caches (`cache.c`) | CACR, PCR | toggle, show | Exec, other programs |
| Reports (`print.c`, `which.c`, `format.c`) | a text | create, show, save | all lists, DOS |
| MUI interface (`mui_gui.c`) | objects whose rows point into the lists | `mui_gui_run` | muimaster, all lists |

xSysInfo is one task.  Concurrency comes from outside: Intuition posts
messages at any time, timer.device answers later, the SCSI driver and its
interrupts run until they are masked, the splash is a process of its own with a
VBlank interrupt server, and any command line may run the loader.  The hard
behaviours are

* **failure at each step** of long acquisition sequences with one cleanup
  (speed test, splash, `open_display`, `main`);
* **ownership across tasks**: code, message ports, requests, pens;
* **looking, then acting**: the idle check of the SCSI chip, the search in a
  Copper list, the look for the splash's task;
* **bounded waiting** on clocks that may stop;
* **chips read while they run**, and registers tried while the system uses
  them: torn values, a mask that ends a moment too early, a bit not put back;
* **lists of the system** copied while other tasks change them, and pointers
  into the program's own lists while it replaces them;
* **stages that trust the ones before**: the detection of a chip needs what was
  found out about the others, and any answer may come from an idle bus;
* **nested loops and cached state** in the user interface.

Section 5 gives each component's properties; `hazards` in `PROJECT.json`
lists every hazard at its line, with the properties that would catch it.

## 2. Modules

| Module | Models | Composed with |
|---|---|---|
| `DriveSpeed` | the speed test | |
| `WDProbe` | the SCSI diagnostic with the driver and the chip | its results in `Program` |
| `Loader` | loader commands, splash, `display_ready` | |
| `Views` | the views as functions on one record | `EventLoop` (EXTENDS) |
| `EventLoop` | `main_loop`, clock refresh, requester | `Views`; implements `LoopPromise` |
| `LoopPromise` | abstract: what `main_loop` promises | `EventLoop` refines it, `Program` is built on it |
| `Program` | `main`, display, pens, window | `LoopPromise` (INSTANCE) |
| `Task` | the one task: how far it is, Forbid, Disable | all modules below (EXTENDS) |
| `ProbeClock` | the borrowed CIA timer and its reading | `Frequency` |
| `Frequency` | processor and FPU frequency, and the settings they belong to | `Measurement` |
| `BusClock` | the bus frequency from RAMSEY's refresh | `Measurement` |
| `RealTimeClock` | reading the three clock chips | `Measurement` |
| `Overlay` | the status overlay and what it covers | `Measurement` |
| `Benchmark` | `run_until_steady`, MFLOPS, memory speed, Dhrystone | `Measurement` |
| `Measurement` | the measurements in turn, with chips and drivers beside them | |
| `GrowList` | a growing list: block, count, capacity, and what else is held | the lists below |
| `DeviceIO` | SCSI requests, probes and the scan of a bus | `DriveList`, `MuiGui` |
| `DriveList` | devices and volumes under two locks | `Lists` |
| `MemoryList`, `BoardList`, `SoftwareList` | the lists copied from Exec and its libraries | `Lists` |
| `MuiGui` | the MUI interface over these lists, its reports | `Lists` |
| `Lists` | the lists filled in turn, with handlers, disks and tasks beside them | |
| `BusTrap` | one protected read | `Processor`, `SystemChips` |
| `Processor` | kind of processor, FPU, MMU; the caches | `Hardware` |
| `SystemChips` | the chips of the motherboard | `Hardware` |
| `Hardware` | the stages of `detect_hardware`, then cache buttons | |
| `MC*` | constants of the runs | |
| `DriveSpeedProofs`, `WDProbeProofs`, `LoaderProofs`, `EventLoopProofs`, `ProgramProofs`, `MeasurementProofs`, `ListsProofs`, `HardwareProofs` | invariants, lemmas and theorems | each extends its component |

A variable has the name of the C variable it stands for where there is one
(`bytesLeft` is `bytes_left`); its declaration says so.  `pc` variables name
places in straight-line code between which something else can happen or the
code can fail.  Code between `Forbid` and `Permit`, or `Disable` and `Enable`,
is split only where a step of it can fail or a wait is inside.  Operators named
`Bug...` are mistakes someone could make in the operator that follows them; no
action uses them, they show that a property can tell the difference.

**DriveSpeed.**  A run is `Start`, `Open`, `Retry`, `Probe`, `WarmUp`, then
`BeginSample`, `Read`s and `EndSample` for each sample, `Publish`, `Cleanup`.
`Retry` is the label `retry_speed_test`, the target of a backward goto.
Offsets, lengths and times are numbers; the constants shrink the source's
figures so that every limit is reached: `OffsetLimit` is `$FFFFFFFF`,
`BlockWrap` the wrap of a ULONG block count.  Real sizes enter only through the
assumptions, so the proofs cover them.

**WDProbe.**  A register holds `"host"`, `"probe"` or `"lost"`, which is all
the properties distinguish.  `Driver` is enabled whenever interrupts are; the
chip answers with any status, late, or not at all; the bus may read as open;
any write of the restoration may not stick; the clock may stop at any look.
A stopped clock makes `elapsed()` return 0 or a stale value to a comparison:
that value is the parameter `garbage`.

**Loader.**  A segment and the control that owns it have one identity.  `Clis`
is the set of command lines.  The splash acquires what `Needed` lists, in order,
and may fail at each.  `Rebuild` is Intuition replacing the Copper list shown.

**Views, EventLoop.**  The record `ui` is the part of `AppContext` and of the
static variables that later input depends on.  Enabled buttons are state,
rebuilt exactly where the code calls `update_button_states` or sets single
buttons, and rows of the hardware panel remember the data they were formatted
from.  What a message says is chosen when it is taken, among what the user can
have done.  The requester takes messages from the same queue in a loop of its
own and drops those behind its answer.

**LoopPromise, Program.**  `LoopPromise` has five pieces of state: running or over,
timer held, request out, report open, area saved.  `Program` models `main` from
the locale to the exit with it in place of the loop, so that the cleanup is
checked against everything the loop may leave behind, not against one run of
it.  Other programs hold pens of the same screen; `uses` is the system's count,
`ours` and `others` say who really holds them.

**Task and Measurement.**  The routines of `probeclock.c`, `busclock.c`,
`clock.c`, `benchmark.c` and the overlay run in one task, so they share one `pc`
and the two masks; `Measurement` calls them in the orders `main` and the speed
page do and lets the chips and other drivers act at every step that `TasksRun`
or `InterruptsRun` allows.  A byte of a CIA counter has two values, so that it
carries into the upper byte at every second tick.  Registers and dates hold
what the properties tell apart: what they show, what was written last, what the
rest of the system wants.  Clocks are of four kinds, as `Benchmark` says: fine,
coarse at the declared rate (and wrapping on Kickstart 1.3), jumping, and
standing still.  A timed run is one step, in which the clock may have done
anything its kind allows.

**Lists.**  A list is its items, `count` and `capacity`; `heap` is what the
allocator has given for it, so that losing or freeing a block twice shows.  An
item is a record of what it was read from: the unit, header or node, not its
text.  What the code does under Forbid or with a list locked is one step unless
it may fail or wait inside.  `dos` is the DOS list with handlers that come and
go; ports are addresses which another handler may be given again.  `MuiGui`
keeps, of each object, the set of entries its rows point to, and `live` are the
reports that are allocated.

**Hardware.**  `machine` is the computer the program was started on and never
changes; registers answer as that computer's would, open addresses with a bus
error, with the last value or with noise.  `BusTrap` is the read both other modules
use.  `wanted` is what Exec, the user and other programs have set, apart from
what `chip` holds at the moment; `lost` are the bits another program changed
between the halves of a toggle.  Registers of the MMU say whose value they hold:
`tt` is `"off"` and `crp` and `sfc` are `"own"` while, or after, a 68030 runs on the
tree of the test.  `Hardware` runs the stages in the order of
`detect_hardware` and then lets the user press cache buttons.

## 3. Runs

| Run | Instance | States | Shows |
|---|---|---|---|
| `drive_speed` | 8 kinds of drive, 3 samples, requests taking 0, 1 or 3 units | 46 k | all properties of the speed test |
| `drive_speed_far` | a tiny partition beyond the 32-bit offset | | **finding**: warm-up read at a truncated offset |
| `wd_probe` | deadlines 2 and 5, a look takes at most 1, 4 polls, every single stuck register | 250 k | all properties of the diagnostic |
| `loader` | 1 command line, 2 segments, 3 Copper lists of which 2 hold the plasma, 2 columns | 6 k | all properties of the loader |
| `loader_race` | 2 command lines | | **finding**: code unloaded under a new process |
| `event_loop` | 6 messages, at most 2 waiting, 1 break; lists that fit and lists that scroll | 345 k | all properties of the interface |
| `event_loop_drag` | 7 messages | | **finding**: a drag without a button |
| `program` | 2 colours, 2 pens, 1 other user of each | 1.5 M | all properties of the life cycle |
| `program_pens` | the same | | **finding**: a pen of another program released |
| `measurement` | 5 sequences of measurements and the 4 answers to the search for a clock chip | 558 k | all properties of the measurements |
| `lists` | 8 sequences of enumerations, 2 changes of the DOS list (4 with two devices), 3 MUI inputs | 1.3 M | all properties of the lists and of MUI |
| `hardware` | 97 computers, 2 cache buttons, 2 changes by others between the halves of a toggle | 1.9 M | all properties of the detection and the caches |

*Bounds.*  The drives of `drive_speed` are one for each branch of the planning
code: across the offset limit, known by blocks only, limited, floppy, unknown
size, reversed cylinders, Chip memory.  Three samples are the source's number,
and durations below, at and above both limits reach every exit of the read loop.
In `wd_probe` the deadlines leave time to fail early, late and after the first
deadline, and four polls let the counter end a wait with and without a clock.
In `loader` one segment more than is ever loaded shows that the second copy is
not confused with the first.  Six messages (seven for the drag) are enough to
open any view, act in it, leave it and come back, or to open a report, press,
enter the requester and answer it; each list has one case that fits its panel
and one that does not.  In `program` two colours distinguish the first from the
last in both pen loops, and two pens the fallback pen from another.
In `measurement` the limits of loops are a few rounds, enough to leave each of
them early, at the limit and by failure; the settings of the caches change any number
of times, before, during and after each part of a measurement, and back.  The
dates are New Year's Eve of 1999, New Year, and 30 February: each digit that could
be read torn differs.  In `lists` each list may grow once within its maximum and meets the
maximum (`GrowStep` 2, three or four items), and the copy of the tasks has room for
`MaxPrograms` 2, so that the program of a stack is among the first, the last, or
left out; the DOS list has a device without
an environment, two devices of one controller unit and a floppy drive; four
changes, in the scenario with two devices, let a handler end between the two locks and
another take its port and mount a disk.  In `hardware` the computers are those of
`MCMachines`: each board with each answer of its bus, each processor with and
without `mmu.library`, with its MMU on and off, and under Kickstart 1.3 where
such a computer starts it.  Two presses switch one cache twice or two once, and
`Tampers` 2 lets another program change a bit in each toggle, or two in one.

*Deadlock* is checked except in the two runs of `EventLoop`, in `measurement`
and in `lists`: when the user has sent all the messages of the bound the program
rightly waits for ever, and after the last call of a sequence nothing happens.
`CallsReturn` checks that the sequences of `measurement` do reach their end.

*Fairness.*  `WF_vars(Run)` in `DriveSpeed` and `WF_vars(Probe)` in `WDProbe`:
straight-line code of a task that nothing suspends for ever.  In `Loader` a
command and the splash are weakly fair (they wait in `Delay` and `WaitTOF`,
which end), but no user has to start a command and Intuition need not rebuild
anything.  In `EventLoop` the program's turn is weakly fair because `Wait`
returns as soon as a signal is set, and `Tick` because timer.device returns
each request.  Users and breaks are never fair.  `WF_vars(Program)` in
`Measurement` and `Lists` says that the processor goes on with the program; no
chip has to answer, latch, tick or become ready.

## 4. Proofs

TLAPS proves each safety invariant and each action property that a passing run
checks, for all values of the constants that satisfy the named assumptions of
the modules, and that `EventLoop` implements `LoopPromise`.  Almost none of the
properties is inductive; this section says what each needed besides.

All invariants go by the label reached: what is held, masked or written there.
A step of one part keeps the invariant of another because their labels are
apart and it leaves the other's variables alone; such *frames* are lemmas of
their own, so that each action is looked at only where it does something.

* **DriveSpeed** — `TypeCorrect`, `ReadBudgetHolds`, `TimeBudgetHolds`,
  `NothingHeldAfterRun`, `PublishedWholeAlways`, `ReadsStayInBounds`.
  `ReadBudget` says nothing of how much a `Read` may add.  `BudgetInv` accounts for
  every byte: what has been asked for equals what the budget has lost plus what
  the sample in progress will be charged, and a sample never asks for more than
  the share it was given.  The restart is covered since the account speaks of the
  budget and not of the samples.  `TimeInv` and `HeldInv` do the same for time and
  resources.  That reads stay in bounds is arithmetic of the plan: what
  alignment, truncation and the limit of bytes leave of a partition, and that the
  offset is its start, or that of the device once the run is marked as a fallback.
* **WDProbe** — `ChipIntact`, `SectionBalanced`, `DriverExcluded`,
  `NeverTouchedAgain`, `MaskedShortly`.  `IInv` says what is masked at each label,
  that inside the section the driver is idle and no recovery has failed, and
  that outside the chip is as the driver left it.  The last part needs the mode:
  the registers are the driver's only if the recovery's reset was in its mode.
  `MaskedShortly` follows the time since the mask through three deadlines.  It
  needs `DeadlineAssumption`: the deadline of the recovery leaves room for the
  looks that may overrun the others, and the source leaves 20 ms between them.
* **Loader** — `CodeStaysLoaded`, `NoOrphans`, `BlitsOnlyDisplayed`,
  `SplashKeepsNothing`, each for one command line, which is the assumption
  `Clis = {c}` of the theorem; with two the first is false.  `LoaderInv` relates
  memory to the label of the command, ties the splash to a port, and says of each
  of the splash's labels which of `Needed` it has.
* **EventLoop** — `NeverSleepsOnWork` and `LoopImplementsPromise` rest on
  `Accounted`, one account of the clock request: not out without a timer, an
  answer keeps its signal until both are taken, and whoever waits with the timer
  open has sent a request.  The refinement shows initial states map to initial
  states and each step to a step of `LoopPromise` or a stutter; it also needs that
  drawing keeps the report, so that the initial view has none.
  `PositionsInRange` and `PanelStaysCurrent` take each input of each view: the
  positions are clamped with the lengths the lists have, and a panel row is
  formatted again by whatever changes its data while the panel is shown.
* **Program** — `EverythingReleased`, `NeededWhileUsed`, `EveryMessageReplied`.
  `main` is straight-line code, so the invariant lists, for the way up, which calls
  have been made, and for the cleanup which have been undone.  Pens need a count:
  `ReleasePen` is called once per colour wherever its pen came from, so a pen is
  released at least as often as it was obtained.  `IsFiniteSet(Colours)` makes
  that count a number.
* **Measurement** — `BorrowedGivenBack`, `ReadingsWhole`, `NumbersTrusted`,
  `SpeedStaysCurrent`.  `MeasureInv` is one invariant for each measurement.  Of a
  timer it says whose it is and what its driver has asked for meanwhile; of a
  reading, between which ticks it lies (that two reads of the upper byte agree
  excludes a carry between them); of RAMSEY, that
  nobody else changed the register while the probe's value is in it; of the clock
  chips, which of their fields were read before the date went on; of a run, that
  the floor covers the steps of its clock; of the run made last (`LastInv`), that it
  is as near to the one accepted as the miss seen.  `SpeedCurrent` follows, from the
  first reading of the settings to the last, whether they were changed in between.
* **Lists** — `NothingStaysHeld`, `RowsStayValid`, `StackIsTheOne`,
  `VolumesStayRight`, `ListsStayWhole`.  `ListsInv` goes by labels, and since
  requests, memory regions and scans are used with and without the MUI window, the
  label of the caller is part of it.  `ContentInv` rests on it and goes by lists:
  `SoundInv` ties each list to its block; `DosInv`, `VolumesInv` and `NamesInv` say what
  the ports read under the first lock are worth under the second (a port found
  again belongs to the same handler, or to one that was given it since: `PortsKept`,
  which is why the exception of `VolumeOfItsDevice` is exactly the port given again),
  and what sorting and pruning keep; `ProbesInv` that one drive of each unit is asked;
  `TargetsInv`, `RegionsInv`, `BoardsInv` and `EntriesInv` what each entry was made of
  and how far the routine has come.  Sorts are stated as relations between a list and
  its sorted form, which says all that the properties need.
* **Hardware** — `VectorsStayOwn`, `CountStaysOwn`, `EverythingPutBack`,
  `ShownStaysTrue`, `ComputerIdentified`.  Three invariants rest on each other.
  * `HardwareInv` treats a protected read as part of the code it returns to
    (`At`), so that a pass over the transfer counter has interrupts off from its
    first status to the write that restores, reads included; a controller seen idle
    can then be reselected but starts no transfer.  That a live mapping is left
    alone needs to know why the processor was recognised: `KindInv` follows FreezeI,
    which no other program touches, through the test of `detect_cpu`.
  * `WorkInv` says which labels mask, hold or have changed something; what the bit
    that is tried does to the CACR; of which family the processor was found to be;
    which bits a toggle has lost (`LostInv`), and on which processor the root pointer
    of the test is left (`RootInv`); that a Fat Gary's old value is at hand; and that
    the caches are looked at last.
  * `FoundInv` says what each stage has found once it is past (`Past`), and of a stage under
    way what its tests have seen.  The type of the processor is known in three forms, as
    Exec and the CACR tell it, with the FPU, and with the MMU.  The serial ID of
    Gayle has been the same in each round, since Forbid keeps others from
    restarting it.  A 53C770 has given at most one answer that is noise; a ReSDMAC
    nothing but its version.  The status registers have told a bus without a chip
    from one that looks idle; if that bus keeps what is written, the third pattern
    unmasks it (`PatternInv`); an SDMAC keeps no pattern with the upper byte, and
    bit 2 has told an SDMAC-04 by the second.  The answers of the upper megabyte are
    as many as the passes.

*Assumptions.*  Most only say of what type a constant is.  Those that carry an
argument:

| Assumption | Says |
|---|---|
| `SizeAssumption` (`DriveSpeed`) | the most a run may read lies within an offset of 32 bits |
| `WaitAssumption`, `DeadlineAssumption` (`WDProbe`) | a look at the clock takes at most `LongestLook`, and the deadlines are that far apart |
| `ProgramAssumption` | colours are numbered from 1 |
| `ScenariosAssumption` (`Measurement`) | the calls nest as `main` and the speed page make them, and the bus is measured once |
| `ScenariosAssumption`, `FilledAssumption`, `ZeroAssumption` (`Lists`) | a scenario starts with lists that are what a routine would have left, and memory that was never written is no entry |
| `MachineAssumption` (`Hardware`) | a 68851 sits beside a 68020, a 68030's MMU in a 68030; a processor keeps only bits it has; Emu68 is a 68040 |
| `ProcessorAssumption`, `ChipsAssumption` (`Hardware`) | which computers can be identified: which units and chips go together, what the IDs of Denise and Agnus stand for, what an open bus answers |

The last two are the precise form of what section 5 says in words about
`Identified`.  Only `ComputerIdentified` uses them.  TLC evaluates every assumption
on the constants of the runs, among them the 97 computers of `MCMachines`.

*Only model-checked:* liveness (`Terminates`, `Unmasks`, `SplashEnds`,
`BreakEnds`, `CallsReturn`), which is out of the prover's reach.  Where a proof needs
induction on a number, as for the least unit not yet asked, it takes the least
counterexample instead, since the induction theorems of the library take an
operator.

## 5. Properties

*DriveSpeed.*  `ReadBudget`, `TimeBudget`: one run's bytes and time, restarts
included.
`ReadsInBounds`: each timed read lies in the partition and the buffer and its
offset fits the command.  When the 64-bit probe has failed for good the code reads
at the start of the device instead (`drives.c` 1515-1518), which lies outside the
partition; then the result is marked as a fallback and the reads go no further in
than the partition is long.  `NothingHeld`: everything released, motor off.
`PublishedWhole`: a whole result or none, and an early sample never starves a
later one of its share.  `Terminates`: the restart happens
once.

*WDProbe.*  `Exclusive`: the chip is written only while the driver cannot run
and has no command in it.  `IntactForDriver`: when it can run again the chip is
its own, or `restore_failed` says otherwise.  `FailureIsFinal`, `Balanced`,
`MaskedInTime`, `Unmasks`.

`Exclusive` takes the driver's state to be visible to the checks of the second
look, including the phase register that betrays a disconnected command
(`wdprobe.c` 172-184).  `MaskedInTime` says nothing of a clock that has stopped;
then only the polls bound the wait, which `Unmasks` covers.  LUN is exempt from
`IntactForDriver` as it is from the code's verification.

*Loader.*  `CodeInUse`, `NothingOrphaned`, `SplashGivesBack`, `BlitsDisplayed`,
`SplashEnds`.  When STOP gives up waiting, the segment stays loaded and its port
stays public; a later STOP finds both, which is why `NothingOrphaned` holds.

*EventLoop.*  `InRange` (with the report owned by its view), `PanelCurrent`,
`NoLostWakeup`, `KeepsPromise`, `BreakEnds`.  `BreakEnds` excepts the requester, whose loop does
not wait for CTRL-C; it relies on the bound of messages, as a user who sends
messages faster than they are handled could keep any loop from looking.

*Program.*  `AllReleased`, `NeededHeld` (nothing is closed before what needs it,
and after a failed recovery the disks are left alone), `MessagesReplied`.

*Measurement.*  `GivenBack`: timers with the bits other drivers changed
meanwhile, the refresh period whenever an interrupt can run, hold and bank bits,
display DMA, buffers, planes, the FPU's control register and the masks.
`NotTorn`: what was read from a running chip is what it held at one moment.
`Trusted`: an accepted time is long against the steps the clock showed, a
wrapped time gives no speed, and a score of Dhrystone relates the work and the
time of the same attempt.  `SpeedCurrent`: when a measurement ends, its speed is of
the settings it leaves beside it.  `CallsReturn`: every call returns.

The speed of memory is that of the run made last, since each run writes over it
(`benchmark.c` 1404, 1427): often the one of half the work that confirmed the
accepted run (1233).  `Trusted` says that it is as near to the accepted run and to
the truth.

`SpeedCurrent` does not speak of the time between measurements: a cache button then
shows the settings it has changed beside the old speed (`gui.c` 2282) until the
next measurement.  It excepts settings that were changed and changed back
between the two readings that are compared (`benchmark.c` 1557), which the code
cannot see.

`Trusted` speaks of Dhrystone in chunks, the form used with an E-clock.  Without
one the code scales its loop count once more after the third timed run
(`benchmark.c` 1131-1177), which no later run confirms.

*Lists.*  `ListsWhole`: after any failure, count, capacity and block agree and
the rows are those of what was there: drives sorted and probed once per unit,
targets, regions, boards, software.  `NothingHeld`: locks, ports, requests,
devices, libraries and requesters.  `VolumeOfItsDevice`: a drive shows the
volume that its handler has.  `StackNamed`: the network stack named is one that
ran, by a name read while it could not end.  `NoStaleRow`: no row points to
what is freed.

`VolumeOfItsDevice` excepts one case that the code lets happen: a handler ends
after its port was read and another one is given the same address
(`drives.c` 555-602).  `dos.taken` remembers the pairs of a drive and the handler
that was given its port, and only a volume of that handler in that drive is
excepted.

`StackNamed` excepts a system with many programs: the copy of the tasks has room
for 128 (`software.c` 995, 1005; `MaxPrograms`), and a stack whose program comes after
them is not found.  A row of the SCSI scan may also hold the data of unit 0,
which the scan falls back to (`scsi.c` 281-284).

*Hardware.*  `VectorsOwn`: no interrupt meets a borrowed vector or vector base,
transparent ranges that are off, an MMU that is off or one on the tree of the test.
`CountKept`: the transfer counter of the SDMAC.  `LeftAsFound`: the registers that
were tried, two of a 68030 excepted.  `Identified`: the computer found is the one
it runs on.  `ShownAsSet`: caches and super scalar mode shown are those that are on,
and a button switches its cache and no other.

What the code cannot tell apart is excepted in `Identified`, or excluded by the
assumptions about the computers:

* a 68020 with a mirrored ROM and no 32-bit RAM looks like a 68EC020, any FPU of
  Kickstart 1.3 like a 68881; the MMU of a 68080 is left open;
* the version of the SDMAC stays 0 when SCSI was active, and an open bus
  that passes for an SDMAC is reported as one (`PassesForSdmac`; `hardware.c`
  1464-1475, 1491-1524): its answers have no reserved bit set, and its status is busy
  for ever, or idle with a transfer count that faults or gives a value of its own
  with bit 2 clear.  A bus of one value for every register can only be busy, as an
  idle status and the others ask for different values; an `"idle"` bus is one whose
  registers answer differently, and `machine.count` says how its counter does.
  Each register answers the same at each read;
* JOY0DAT is read twice to recognise Gary; a mouse that moves in between could
  make an A500 look like Fat Gary (`hardware.c` 1672); the mouse of the model rests;
* a 53C770 is disturbed on the first attempt only;
* the power register is restored for Fat Gary, the only chip that has it, and
  registers C and D of an RP5C01 are not written back after the probe of its
  bank (`hardware.c` 1191-1202), so neither is in `LeftAsFound`;
* the test for a 68040's MMU turns the mapping off for some instructions with
  interrupts masked (`cpu.S` 664-669), those for a 68851 and a 68030 never do:
  hence the parts of `VectorsOwn`;
* a 68030 that does not translate is run on a tree of the program's own
  (`cpu.S` 565-599).  TC is cleared again and the ranges that TT0 and TT1 enable come
  back (602-609); a register whose enable bit was clear stays zero, which maps the
  same.  CRP and SFC keep the values of the test: the code that restores CRP
  (614-617) runs only if TC was on, which was excluded before.  Nothing uses the two
  until somebody sets them;
* other programs may switch a cache while a bit of the CACR is tried, but none of
  them changes the very bit, freezes the cache or switches bursts just then
  (`Tamper`);
* with Kickstart 1.3 or a 68080 a toggle reads the caches and writes them in two
  steps (`cache.c` 124-133), and so does the super scalar mode
  (`hardware.c` 493-501).  What another program changes in between is lost, and
  `ShownAsSet` excepts the bits it changed (`lost`); where Exec switches the cache
  there are none.  `SetCPUReg` also clears the other bits of the PCR
  (`cpu.S` 152-155).

## 6. Findings

1. `drive_speed_far` — `drives.c:1524`: the warm-up of a partition of at most
   7040 blocks uses `CMD_READ` with the offset cut to 32 bits, though the
   partition lies beyond 4 GB (compare `drives.c:1469` and `1490`).
2. `loader_race` — `loading.c:129-133`: the control port is public before the
   process exists; a STOP from another command line in between unloads its code.
3. `event_loop_drag` — `main.c:1316`, `gui.c:2793`: the requester, opened with a
   key during a drag, takes the message that would end the drag.
4. `program_pens` — `main.c:1195-1238`: the fallback pen, never obtained, is
   released.

## 7. Not modelled

* Drawing, wording, formatting and localisation: the layout of both interfaces,
  the text `print.c` makes of the lists, names and sizes of boards and drives.
  They change no state that later steps depend on.
* The bodies of Dhrystone and of the copy loops, which are time that passes, and
  the arithmetic of scales and decimals.
* The tables of `hardware.c`: computer model, PowerPC, native graphics,
  Kickstart size and detail formats, `fpu_enabled`; frequencies are in
  `Frequency`, on their own machine.  `writeBattMem` has no caller.
* The version look-ups of `software.c`, one opened and closed library after
  another, and the resident modules that `which.c` names.
* The product of block size and number of `scsi.c` 505 beyond 4 TB.
* In MUI, `publish_memory_speed` follows the `Permit` of its measurement; the model
  lets no other task change the memory list while the window is open, so the two
  are one step.
* The start-up code, the font loader and the log, beyond opening and closing.

## 8. What could follow

1. An abstract clock that may stop, implemented by `ProbeClock`, in place of the
   readings of `WDProbe` and `BusClock`.
2. The saving of a report: a file that is opened, written in part and closed.
3. The scenarios of `Lists` with the memory list changing while the MUI window is
   open.
