---------------------------- MODULE SystemChips ----------------------------
(***************************************************************************)
(* What hardware.c finds out about the chips of the motherboard: each is   *)
(* told by how its registers answer, and some by how they answer after a   *)
(* write.  The SCSI driver, another task reading the serial ID of Gayle    *)
(* and the bus that keeps the last value go on meanwhile.                  *)
(***************************************************************************)
EXTENDS BusTrap, FiniteSets

VARIABLES
  scsi,    \* the controller: what it does, its transfer count WTC, the count
           \* its driver has set, how often it may still start a transfer and a
           \* target reselect it
  gary,    \* Fat Gary's power register, the last value on the bus, and
           \* whether the serial ID is at its first bit
  rtc,     \* registers D and C of the clock
  chips,   \* hw_info: the chips
  test,    \* the locals of the routine that runs
  held     \* the buffer in Chip RAM and the semaphore of the battery memory

chipVars == <<scsi, gary, rtc, chips, test, held>>

NoChips == [denise |-> "none", agnus |-> "none", gary |-> "UNKNOWN",
            ramsey |-> FALSE, ncr |-> "NONE", config |-> FALSE,
            sdmac |-> FALSE, rev |-> "0", slots |-> "none",
            alias |-> "unknown", clock |-> "none", batt |-> "none"]
NoTest == [saved |-> "none", round |-> 0, first |-> "none", prev |-> "none",
           count |-> 0, answers |-> <<>>, value |-> "none"]

ChipsInit ==
  /\ scsi = [state |-> machine.scsi, wtc |-> 0, count |-> 0,
             starts |-> 1, reselects |-> 1]
  /\ gary = [power |-> machine.power, bus |-> machine.joy, serial |-> TRUE]
  /\ rtc = [d |-> machine.rtcD, c |-> 0]
  /\ chips = NoChips
  /\ test = NoTest
  /\ held = {}

Step(from, to) == Go(from, to) /\ UNCHANGED <<masks, trapVars>>
-----------------------------------------------------------------------------
(* detect_chipset *)

\* The bus floats below an OCS Denise: 33 reads do not agree, or give $FF.
Denise ==
  CASE machine.paula = "SAGA" -> "ISABEL"
    [] machine.paula # "SAGA" /\ Cardinality(machine.denise) > 1 -> "OCS"
    [] OTHER -> LET id == CHOOSE d \in machine.denise : TRUE
                IN  CASE id \in {"FF", "00"} -> "OCS" [] id = "FC" -> "ECS"
                      [] id = "F8" -> "LISA" [] OTHER -> "UNKNOWN"

\* Agnus by the ID in VPOSR; a DIP Agnus mirrors that register.
Agnus ==
  CASE machine.paula = "SAGA" -> "SAGA"
    [] machine.paula # "SAGA" /\ machine.vpos = "OCS" ->
         IF machine.vposMirror THEN "OCS" ELSE "OCS_FAT"
    [] OTHER -> machine.vpos

DetectChipset ==
  /\ Step("chipset", "next")
  /\ chips' = [chips EXCEPT !.denise = Denise, !.agnus = Agnus]
  /\ UNCHANGED <<scsi, gary, rtc, test, held>>
-----------------------------------------------------------------------------
(* detect_gary *)

Fat == machine.gary = "FAT_GARY"
Power == IF Fat THEN gary.power ELSE gary.bus
Drive(v) == gary' = [gary EXCEPT !.power = IF Fat THEN v ELSE @, !.bus = v]

\* The register of an A3000 or A4000 that keeps what is written.
SavePower ==
  /\ Step("gary", "gary cycle")
  /\ test' = [NoTest EXCEPT !.saved = Power]
  /\ Drive("cycle")
  /\ UNCHANGED <<scsi, rtc, chips, held>>

\* Mutant: the register is read back at once.
BugSettled == gary.bus

\* Another register is read first, so that a bus nobody drives forgets what
\* was written.
Settled == machine.joy

\* Mutant: the second value stays.
BugPowerBack == "good"

PowerBack == test.saved

\* The first value: a Fat Gary keeps it, and a bus may look as if it did.
TestCycle ==
  LET seen == IF Fat THEN gary.power ELSE Settled
  IN  /\ Step("gary cycle", IF seen = "cycle" THEN "gary good" ELSE "gary mirror")
      /\ IF seen = "cycle" THEN Drive("good")
         ELSE gary' = [gary EXCEPT !.bus = Settled]
      /\ UNCHANGED <<scsi, rtc, chips, test, held>>

\* The second; only a Fat Gary gets its old value back.
TestGood ==
  LET fat == (IF Fat THEN gary.power ELSE Settled) = "good"
  IN  /\ Step("gary good", IF fat THEN "next" ELSE "gary mirror")
      /\ IF fat THEN Drive(PowerBack) ELSE gary' = [gary EXCEPT !.bus = Settled]
      /\ chips' = IF ~fat THEN chips
                  ELSE [chips EXCEPT !.gary = "FAT_GARY",
                          !.agnus = IF @ = "ECS" THEN "ECS_B" ELSE @]
      /\ UNCHANGED <<scsi, rtc, test, held>>

\* Mutant: idle ports that read zero twice are a mirror.
BugMirrored ==
  machine.mirrors = "all" \/ (machine.mirrors = "zero" /\ machine.portsIdle)

\* Both ports and then the interrupt enable, which is never zero, are seen at
\* their mirrors.
Mirrored == machine.mirrors = "all"

\* An A1000 has a DIP Agnus.
TestMirror ==
  /\ Step("gary mirror", IF Mirrored THEN "next" ELSE "gary id")
  /\ chips' = IF ~Mirrored THEN chips
              ELSE [chips EXCEPT !.gary = "A1000",
                      !.agnus = IF @ = "OCS_FAT" THEN "OCS" ELSE @]
  /\ UNCHANGED <<scsi, gary, rtc, test, held>>

\* Mutant: other tasks may run.
BugAlone == 0

Alone == 1

\* The serial ID of Gayle, four times: a write restarts it.
StartId ==
  /\ Go("gary id", "gary bits")
  /\ forbid' = Alone
  /\ gary' = [gary EXCEPT !.serial = TRUE, !.bus = "good"]
  /\ test' = [test EXCEPT !.round = @ + 1]
  /\ UNCHANGED <<disabled, trapVars, scsi, rtc, chips, held>>

\* Another task restarts the ID in between.
DisturbId ==
  /\ pc = "gary bits" /\ TasksRun /\ machine.gary = "GAYLE" /\ gary.serial
  /\ gary' = [gary EXCEPT !.serial = FALSE]
  /\ UNCHANGED <<pc, masks, trapVars, scsi, rtc, chips, test, held>>

\* The first bit that is only the bus tells a Gary, so does an ID that changes
\* or is no ID.
ReadId ==
  \E id \in IF machine.gary = "GAYLE"
            THEN {IF gary.serial THEN "id" ELSE "shifted"}
            ELSE {"bus", "FF", "junk"} \ ({test.first} \cap {"junk"}) :
    LET gayle == id \notin {"FF", "00"}
        last == id = "bus" \/ (test.round > 1 /\ id # test.first) \/ test.round = 4
    IN  /\ Go("gary bits", IF last THEN "next" ELSE "gary id")
        /\ forbid' = IF last THEN 0 ELSE forbid
        /\ test' = IF last THEN NoTest ELSE [test EXCEPT !.first = id]
        /\ chips' =
             IF ~last THEN chips
             ELSE [chips EXCEPT !.gary =
                     IF id # "bus" /\ test.first = id /\ gayle THEN "GAYLE" ELSE "A500"]
        /\ UNCHANGED <<disabled, trapVars, scsi, gary, rtc, held>>

\* detect_ramsey
DetectRamsey ==
  /\ Step("ramsey", "next")
  /\ chips' = [chips EXCEPT !.ramsey = chips.gary = "FAT_GARY" /\ machine.ramsey]
  /\ UNCHANGED <<scsi, gary, rtc, test, held>>
-----------------------------------------------------------------------------
(* detect_sdmac *)

\* A 53C770 reads alike but for a first noise, others never do.
Id770 == IF machine.ncr = "770"
         THEN IF test.count = 1 THEN {"770", "noise"} ELSE {"770"}
         ELSE {"fault", "noise", "like a", "like b"} \ {test.prev}

\* The transfer counter of the chip: an SDMAC-02 has 24 bits, bit 2 of an
\* SDMAC-04 is always zero; a bus without the chip keeps the value.
Wtc(chip, w) ==
  CASE chip = "02" -> [w EXCEPT !.upper = FALSE]
    [] chip = "04" -> [w EXCEPT !.upper = FALSE, !.bit2 = FALSE]
    [] OTHER -> w

\* The patterns: all bits equal, any of the upper byte, bit 2.
Patterns ==
  LET P(plain, upper, bit2) == [plain |-> plain, upper |-> upper, bit2 |-> bit2]
  IN  <<P(TRUE, FALSE, FALSE), P(TRUE, TRUE, TRUE), P(FALSE, TRUE, TRUE),
        P(FALSE, TRUE, FALSE), P(FALSE, TRUE, FALSE), P(FALSE, TRUE, TRUE)>>
Pattern == Patterns[test.count]

\* Where no SDMAC is, the bus faults or floats: the status is a contradiction,
\* has reserved bits, passes for that of a busy chip or for that of an idle one;
\* the transfer count then faults, keeps what was written, or has a value of its
\* own with bit 2 set or clear.
Answers ==
  LET r == trap.register
      there == machine.dma # "none"
  IN  CASE r = "770" -> Id770
        [] r = "CTEST8" -> IF machine.ncr = "710" THEN {"rev"} ELSE {Fault, "0"}
        [] r = "config" -> IF machine.ncr = "770" THEN {"values", Fault} ELSE {"values"}
        [] r = "REVISION" -> IF machine.dma = "Re" THEN {"v1.2"}
                             ELSE {Fault, "v0.0", "v9.9"} \ {test.prev}
        [] r \in {"ISTR", "ASR"} -> {IF there THEN scsi.state ELSE machine.bus}
        [] r = "WTC" -> {IF there THEN "kept" ELSE machine.count}
        [] r = "UPPER" -> CASE machine.upper = "alias" -> {"match"}
                            [] machine.upper = "none" -> {Fault, "other"}
                            [] OTHER -> {IF machine.upper = <<"first", "second">>[test.count]
                                         THEN "match" ELSE "other"}
        [] OTHER -> IF machine.rtc = "MK48T02" THEN {"date"} ELSE {Fault, "FF"}

AskAt(from, register, back) ==
  /\ pc = from /\ Probe(register, back)
  /\ UNCHANGED <<scsi, gary, rtc, chips, held>>
Ask(from, register, back) == AskAt(from, register, back) /\ UNCHANGED test

Read == (\E a \in Answers : TrapRead(a)) /\ UNCHANGED chipVars

StartDma ==
  /\ Step("dma", IF chips.gary = "FAT_GARY" THEN "ncr 770" ELSE "next")
  /\ test' = NoTest
  /\ UNCHANGED <<scsi, gary, rtc, chips, held>>

Ask770 == AskAt("ncr 770", "770", "ncr 770 read")
          /\ test' = [test EXCEPT !.count = @ + 1]

Valid770(a) == a \in {"770", "like a", "like b"}

\* Mutant: one valid answer is enough.
BugSteady(a) == Valid770(a)

\* detect_ncr53c770: two valid answers in a row that agree.
Steady(a) == Valid770(a) /\ a = test.prev

\* Up to four times, a tick apart.
Read770 ==
  LET a == trap.answer
  IN  /\ Step("ncr 770 read",
              IF a = Fault \/ (~Steady(a) /\ test.count = 4) THEN "ncr 710"
              ELSE IF Steady(a) THEN "ncr config" ELSE "ncr 770")
      /\ test' = [test EXCEPT !.prev = a]
      /\ chips' = [chips EXCEPT !.ncr = IF a # Fault /\ Steady(a) THEN "770" ELSE @]
      /\ UNCHANGED <<scsi, gary, rtc, held>>

Ask710 == Ask("ncr 710", "CTEST8", "ncr 710 read")

Read710 ==
  LET ncr == trap.answer = "rev"
  IN  /\ Step("ncr 710 read", IF ncr THEN "ncr config" ELSE "sdmac")
      /\ chips' = [chips EXCEPT !.ncr = IF ncr THEN "710" ELSE @]
      /\ test' = NoTest
      /\ UNCHANGED <<scsi, gary, rtc, held>>

\* read_ncr_config: published whole or not at all.
AskConfig == Ask("ncr config", "config", "ncr config read")

ReadConfig ==
  /\ Step("ncr config read", "next")
  /\ chips' = [chips EXCEPT !.config = trap.answer # Fault]
  /\ test' = NoTest
  /\ UNCHANGED <<scsi, gary, rtc, held>>

\* SDMAC registers need RAMSEY.
AskSignature ==
  IF chips.ramsey THEN Ask("sdmac", "REVISION", "sdmac signature")
  ELSE Step("sdmac", "next") /\ UNCHANGED chipVars

\* A ReSDMAC shows its version in letters, twice the same.
ReadSignature ==
  LET a == trap.answer
  IN  /\ pc = "sdmac signature"
      /\ IF a \in {Fault, test.prev} \/ test.prev # "none"
         THEN /\ Step("sdmac signature",
                      IF a # Fault /\ a = test.prev THEN "next" ELSE "sdmac istr")
              /\ chips' = IF a = Fault \/ a # test.prev THEN chips
                          ELSE [chips EXCEPT !.sdmac = TRUE, !.rev = "Re"]
              /\ test' = NoTest
         ELSE /\ Probe("REVISION", "sdmac signature")
              /\ test' = [test EXCEPT !.prev = a]
              /\ UNCHANGED chips
      /\ UNCHANGED <<scsi, gary, rtc, held>>

AskIstr == Ask("sdmac istr", "ISTR", "sdmac istr read")
ReadIstr ==
  /\ Step("sdmac istr read",
          IF trap.answer \in {Fault, "contradiction"} THEN "next" ELSE "sdmac asr")
  /\ UNCHANGED chipVars

AskAsr == Ask("sdmac asr", "ASR", "sdmac asr read")
ReadAsr ==
  LET there == trap.answer \notin {Fault, "reserved"}
  IN  /\ Step("sdmac asr read", IF there THEN "sdmac pass" ELSE "next")
      /\ chips' = [chips EXCEPT !.sdmac = there]
      /\ test' = NoTest
      /\ UNCHANGED <<scsi, gary, rtc, held>>

\* One pattern, with interrupts off: the status twice, the count, the write.
StartPass ==
  /\ Go("sdmac pass", "pass asr")
  /\ disabled' = TRUE
  /\ test' = [test EXCEPT !.count = @ + 1]
  /\ UNCHANGED <<forbid, trapVars, scsi, gary, rtc, chips, held>>

PassAsr == Ask("pass asr", "ASR", "pass asr read")
PassIstr == Ask("pass istr", "ISTR", "pass istr read")
PassWtc == Ask("pass wtc", "WTC", "pass write")

\* Mutant: a controller that moves data is taken for idle.
BugQuiet == trap.answer \in {"idle", "transfer"}

\* Never while SCSI is active or awaits service.
Quiet == trap.answer = "idle"

LeavePass(to) ==
  /\ pc' = to
  /\ disabled' = FALSE
  /\ UNCHANGED <<forbid, trapVars>>

\* A status that forbids it ends the detection with what is known.
PassStatus(from, to) ==
  /\ pc = from
  /\ IF Quiet THEN pc' = to /\ UNCHANGED <<masks, trapVars>> ELSE LeavePass("next")
  /\ UNCHANGED chipVars

\* Mutant: interrupts go on before the count is written back.
BugKeptOff == FALSE

KeptOff == TRUE

\* A count that no driver has set.
Foreign == -1

PassWrite ==
  /\ pc = "pass write"
  /\ IF trap.answer = Fault
     THEN LeavePass("next") /\ UNCHANGED <<scsi, test>>
     ELSE /\ Go("pass write", "pass back")
          /\ disabled' = KeptOff
          /\ test' = [test EXCEPT !.value = scsi.wtc]
          /\ scsi' = [scsi EXCEPT !.wtc = IF machine.dma = "none" THEN @ ELSE Foreign]
          /\ UNCHANGED <<forbid, trapVars>>
  /\ UNCHANGED <<gary, rtc, chips, held>>

PassBack == Ask("pass back", "WTC", "pass restore")

\* The count as it was.
PassRestore ==
  /\ Go("pass restore", "pass judge")
  /\ scsi' = [scsi EXCEPT !.wtc = test.value]
  /\ UNCHANGED <<masks, trapVars, gary, rtc, chips, test, held>>

\* Mutant: an echo of the pattern is the chip.
BugEcho == FALSE

\* A bus that keeps a pattern other than all bits equal is no SDMAC, nor is one
\* that answers with bit 2 set but another value.
Echo ==
  \/ trap.answer = "kept" /\ Wtc(machine.dma, Pattern) = Pattern /\ ~Pattern.plain
  \/ trap.answer = "high"

\* Bit 2 of the value that came back.
Bit2 == trap.answer = "kept" /\ Wtc(machine.dma, Pattern).bit2

\* After the last pattern: version 2, or 4 if bit 2 was zero once.
PassJudge ==
  LET answers == Append(test.answers, IF ~Bit2 /\ Pattern.bit2 THEN "04" ELSE "02")
  IN  /\ pc = "pass judge"
      /\ LeavePass(IF trap.answer = Fault \/ Echo \/ test.count = Len(Patterns)
                   THEN "next" ELSE "sdmac pass")
      /\ test' = [test EXCEPT !.answers = answers]
      /\ chips' = IF trap.answer = Fault THEN chips
                  ELSE IF Echo THEN [chips EXCEPT !.sdmac = FALSE]
                  ELSE IF test.count < Len(Patterns) THEN chips
                  ELSE [chips EXCEPT !.rev =
                          IF \E i \in DOMAIN answers : answers[i] = "04"
                          THEN "04" ELSE "02"]
      /\ UNCHANGED <<scsi, gary, rtc, held>>
-----------------------------------------------------------------------------
(* detect_additional_chips and the slots of detect_system_chips *)

DetectSlots ==
  /\ Step("slots", "next")
  /\ chips' = [chips EXCEPT !.slots =
                CASE machine.card -> "PCMCIA"
                  [] ~machine.card /\ chips.gary = "FAT_GARY" -> "ZORRO_III"
                  [] ~machine.card /\ chips.gary = "GAYLE" -> "PCMCIA"
                  [] OTHER -> IF chips.gary = "A1000" THEN "ZORRO" ELSE "ZORRO_II"]
  /\ UNCHANGED <<scsi, gary, rtc, test, held>>
-----------------------------------------------------------------------------
(* probe_agnus_alias: does an ECS Agnus repeat its first megabyte? *)

\* Only in debug output, on a plain 68000, with a buffer in the lower megabyte.
StartAlias(plain) ==
  /\ \/ /\ machine.debug /\ plain /\ chips.agnus \in {"ECS", "ECS_B"}
        /\ Step("alias", "alias pass")
        /\ held' = held \cup {"buffer"}
     \/ Step("alias", "next") /\ held' = held
  /\ test' = NoTest
  /\ UNCHANGED <<scsi, gary, rtc, chips>>

\* The buffer is filled and its address in the upper megabyte read, interrupts
\* off.
AliasPass ==
  /\ Go("alias pass", "alias ask")
  /\ disabled' = TRUE
  /\ test' = [test EXCEPT !.count = @ + 1]
  /\ UNCHANGED <<forbid, trapVars, scsi, gary, rtc, chips, held>>

AskUpper == Ask("alias ask", "UPPER", "alias read")

\* Mutant: one pattern is enough.
BugMirror(answers) == \E i \in DOMAIN answers : answers[i] = "match"

\* RAM may hold one pattern by chance, never one and its inverse.
Mirror(answers) == \A i \in DOMAIN answers : answers[i] = "match"

\* The second pass has the inverse pattern; then the buffer is freed.
AliasRead ==
  LET answers == Append(test.answers, trap.answer)
      last == trap.answer = Fault \/ test.count = 2
  IN  /\ pc = "alias read"
      /\ LeavePass(IF last THEN "next" ELSE "alias pass")
      /\ test' = [test EXCEPT !.answers = answers]
      /\ held' = IF last THEN held \ {"buffer"} ELSE held
      /\ chips' = IF ~last THEN chips
                  ELSE [chips EXCEPT !.alias =
                          IF trap.answer = Fault THEN "inconclusive"
                          ELSE IF Mirror(answers) THEN "mirrored"
                          ELSE IF \A i \in DOMAIN answers : answers[i] = "other"
                               THEN "none" ELSE "inconclusive"]
      /\ UNCHANGED <<scsi, gary, rtc>>
-----------------------------------------------------------------------------
(* detect_clock and detect_batt_mem *)

\* Register F of the clocks, or of no clock.
RegisterF == CASE machine.rtc = "MSM6242" -> "4" [] machine.rtc = "RP5C01" -> "0"
               [] OTHER -> machine.rtcF

Is5C01 == machine.rtc = "RP5C01"

\* An RP5C01 keeps 9 in register D, which selects the bank where C reads zero
\* and A one; neither register is written back.
DetectClock ==
  /\ Step("clock", "next")
  /\ chips.gary # "A1000"
  /\ chips' = [chips EXCEPT !.clock =
                CASE RegisterF = "4" -> "MSM6242"
                  [] RegisterF = "0" /\ Is5C01 -> "RP5C01"
                  [] OTHER -> "NONE"]
  /\ rtc' = IF RegisterF = "0" /\ Is5C01 THEN [d |-> 9, c |-> 5] ELSE rtc
  /\ UNCHANGED <<scsi, gary, test, held>>

\* A clock card of a plain A1000: its six registers, under the bus error trap.
AskClock(plain) ==
  /\ chips.gary = "A1000"
  /\ IF plain THEN Ask("clock", "TIME", "clock read")
     ELSE /\ Step("clock", "next")
          /\ chips' = [chips EXCEPT !.clock = "NONE"]
          /\ UNCHANGED <<scsi, gary, rtc, test, held>>

ReadClock ==
  /\ Step("clock read", "next")
  /\ chips' = [chips EXCEPT !.clock =
                IF trap.answer = "date" THEN "MK48T02" ELSE "NONE"]
  /\ UNCHANGED <<scsi, gary, rtc, test, held>>

\* openBattMem and readBattMem: the resource, its semaphore, eight reads.
OpenBatt ==
  LET there == chips.clock \in {"RP5C01", "MK48T02"} /\ Exec36
  IN  /\ Step("batt", IF there THEN "batt read" ELSE "next")
      /\ held' = IF there THEN held \cup {"semaphore"} ELSE held
      /\ UNCHANGED <<scsi, gary, rtc, chips, test>>

\* Mutant: a read that fails returns at once.
BugReleased(valid) == IF valid THEN held \ {"semaphore"} ELSE held

Released(valid) == held \ {"semaphore"}

\* Any read may fail, and then the values are not valid.
ReadBatt ==
  \E valid \in BOOLEAN :
    /\ Step("batt read", "next")
    /\ held' = Released(valid)
    /\ chips' = [chips EXCEPT !.batt = IF valid THEN "valid" ELSE "read error"]
    /\ UNCHANGED <<scsi, gary, rtc, test>>
-----------------------------------------------------------------------------
(* The SCSI driver and its controller. *)

Scsi(change) == scsi' = change
                /\ UNCHANGED <<pc, masks, trapVars, gary, rtc, chips, test, held>>

\* The driver starts a transfer: it sets the count.
ScsiStart ==
  /\ machine.dma # "none" /\ TasksRun /\ scsi.state = "idle" /\ scsi.starts > 0
  /\ Scsi([scsi EXCEPT !.state = "transfer", !.wtc = 1, !.count = 1, !.starts = @ - 1])

\* The transfer ends, or a target reselects an idle controller.
ScsiAsks ==
  /\ machine.dma # "none"
  /\ scsi.state = "transfer" \/ (scsi.state = "idle" /\ scsi.reselects > 0)
  /\ Scsi([scsi EXCEPT !.state = "service",
                       !.reselects = IF scsi.state = "idle" THEN @ - 1 ELSE @])

\* The interrupt of the driver, and what it may go on with.
ScsiService ==
  /\ InterruptsRun /\ scsi.state = "service"
  /\ Scsi([scsi EXCEPT !.state = "idle"])

ScsiStep == ScsiStart \/ ScsiAsks \/ ScsiService

ChipStep(plain) ==
  \/ DetectChipset \/ SavePower \/ TestCycle \/ TestGood \/ TestMirror
  \/ StartId \/ DisturbId \/ ReadId \/ DetectRamsey \/ Read
  \/ StartDma \/ Ask770 \/ Read770 \/ Ask710 \/ Read710 \/ AskConfig \/ ReadConfig
  \/ AskSignature \/ ReadSignature \/ AskIstr \/ ReadIstr \/ AskAsr \/ ReadAsr
  \/ StartPass \/ PassAsr \/ PassStatus("pass asr read", "pass istr")
  \/ PassIstr \/ PassStatus("pass istr read", "pass wtc") \/ PassWtc \/ PassWrite
  \/ PassBack \/ PassRestore \/ PassJudge \/ DetectSlots
  \/ StartAlias(plain) \/ AliasPass \/ AskUpper \/ AliasRead
  \/ DetectClock \/ AskClock(plain) \/ ReadClock \/ OpenBatt \/ ReadBatt
=============================================================================
