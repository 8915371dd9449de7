------------------------------ MODULE Hardware ------------------------------
(***************************************************************************)
(* detect_hardware of hardware.c on any of the Machines: its stages one    *)
(* after the other, each using what the ones before have found, while the  *)
(* SCSI driver and other tasks run; afterwards the user switches caches.   *)
(***************************************************************************)
EXTENDS Processor, SystemChips

CONSTANTS
  Machines,   \* the computers the program may find itself on
  Presses     \* how many cache buttons the user presses

ASSUME PressesAssumption == Presses \in Nat

\* A 68851 is the MMU of a 68020, that of a 68030 is in a 68030.  No processor
\* keeps a bit it does not have.  Emu68 is a 68040, and is not run
\* under Kickstart 1.3.
ASSUME MachineAssumption ==
  \A m \in Machines :
    /\ m.cpu \in {"68000", "68010"} \cup Of020 \cup Of030 \cup Of040
    /\ m.tc \in {"on", "off"}
    /\ m.mmu \in {"68851", "68030"} => m.cpu \in Of020 \cup Of030
    /\ m.cacr \subseteq BitsOf(m.cpu)
    /\ m.emu \in BOOLEAN
    /\ m.emu => m.cpu \in Of040 /\ m.exec # "1.3"

\* The units of a processor; a 68040 with an FPU and no MMU is an emulator's.
MmusOf(cpu) ==
  CASE cpu \in Of020 -> {"NONE", "68851"}
    [] cpu = "68030" -> {"68030"}
    [] cpu = "68040" -> {"NONE", "68040"}
    [] cpu = "68LC040" -> {"68040"}
    [] cpu \in {"68060", "68LC060"} -> {"68060"}
    [] OTHER -> {"NONE"}
FpusOf(cpu) ==
  CASE cpu \in {"68040", "68060", "68080"} -> {cpu}
    [] cpu \in Of040 \ {"68040", "68060", "68080"} -> {"NONE"}
    [] OTHER -> {"NONE", "68881", "68882"}

\* How a processor can be told: mmu.library takes the MMU of a 68030 for a
\* 68851, Exec may miss the FPU of a 68060, and only the 68EC020 has the ROM
\* mirrored and no RAM beyond 24 bits.
ASSUME ProcessorAssumption ==
  \A m \in Machines :
    /\ m.mmu \in MmusOf(m.cpu) /\ m.fpu \in FpusOf(m.cpu)
    /\ m.mmu = "NONE" => m.tc = "off"
    /\ m.emu => m.cpu = "68040" /\ m.mmu = "NONE"
    /\ m.seen \/ (m.cpu = "68060" /\ m.exec # "1.3")
    /\ m.cpu \in Of020 => (m.cpu = "68EC020" <=> ~m.ram32 /\ m.mirror)
    /\ \A t \in m.types : \/ t = m.mmu \/ m.cpu = "68080"
                          \/ t = "68851" /\ m.mmu = "68030"

\* The IDs of Denise; the Agnus behind the ID in VPOSR, which a DIP Agnus of an
\* A1000 need not mirror.
DeniseIds(ids, chipset) ==
  \/ chipset = "OCS" /\ (Cardinality(ids) > 1 \/ ids \in {{"FF"}, {"00"}})
  \/ chipset = "ECS" /\ ids = {"FC"}
  \/ chipset = "LISA" /\ ids = {"F8"}
AgnusOf(m) ==
  CASE m.vpos = "OCS" -> IF m.vposMirror \/ m.gary = "A1000" THEN "OCS" ELSE "OCS_FAT"
    [] m.vpos = "ECS" -> IF m.gary = "FAT_GARY" THEN "ECS_B" ELSE "ECS"
    [] OTHER -> m.vpos

\* What is found on which board: only an A1000 mirrors its registers and may
\* have a MK48T02, in a plain 68000; SCSI chips sit beside a Fat Gary, the
\* SDMAC beside a RAMSEY.  Kickstart 1.3 does not run a 68060 there, whose
\* branch prediction errors it would take for absent chips.
ASSUME ChipsAssumption ==
  \A m \in Machines :
    /\ m.gary \in {"A1000", "A500", "GAYLE", "FAT_GARY"}
    /\ m.mirrors = "all" <=> m.gary = "A1000"
    /\ m.vpos \in {"OCS", "ECS", "ALICE"}
    /\ IF m.paula = "SAGA" THEN m.chipset = "ISABEL" /\ m.agnus = "SAGA"
       ELSE DeniseIds(m.denise, m.chipset) /\ m.agnus = AgnusOf(m)
    /\ m.ncr \in {"NONE", "710", "770"} /\ m.dma \in {"none", "02", "04", "Re"}
    /\ m.ncr # "NONE" => m.gary = "FAT_GARY" /\ m.dma = "none"
    /\ m.dma # "none" => m.gary = "FAT_GARY" /\ m.ramsey
    /\ m.scsi \in {"idle", "transfer"}
    /\ m.bus \in {Fault, "contradiction", "reserved", "busy", "idle"}
    /\ m.count \in {Fault, "kept", "high", "low"}
    /\ m.gary = "FAT_GARY" /\ m.cpu \in Of060 => m.exec # "1.3"
    /\ IF m.gary = "A1000"
       THEN m.rtc = "NONE" \/ (m.rtc = "MK48T02" /\ m.cpu = "68000")
       ELSE m.rtc \in {"NONE", "MSM6242", "RP5C01"} /\ (m.rtc = "NONE" => m.rtcF # "4")

VARIABLES
  stage,     \* the stage of detect_hardware that runs
  presses    \* buttons pressed so far

vars == <<pc, masks, machine, trapVars, cpuVars, chipVars, stage, presses>>

\* Mutant: the clock is looked for before the chips it depends on are known.
BugStages == <<"cpu", "fpu", "mmu", "remap", "vbr", "chipset", "clock", "gary",
               "ramsey", "dma", "slots", "alias", "batt", "caches">>

Stages == <<"cpu", "fpu", "mmu", "remap", "vbr", "chipset", "gary", "ramsey",
            "dma", "slots", "alias", "clock", "batt", "caches">>

Init ==
  /\ machine \in Machines
  /\ pc = Stages[1] /\ stage = 1 /\ presses = 0
  /\ forbid = 0 /\ disabled = FALSE
  /\ TrapInit /\ CpuInit /\ ChipsInit

NextStage ==
  /\ pc = "next"
  /\ IF stage < Len(Stages)
     THEN stage' = stage + 1 /\ pc' = Stages[stage + 1]
     ELSE stage' = 0 /\ pc' = "idle"
  /\ UNCHANGED <<masks, trapVars, cpuVars, chipVars, presses>>

\* The probes of the alias and of the A1000 clock need a plain 68000.
Plain == info.type = "68000" /\ (pc = "alias" => info.mmu = "NONE")

Cpu == /\ CpuStep
       /\ presses' = presses + IF pc = "idle" /\ pc' # "idle" THEN 1 ELSE 0
       /\ presses' <= Presses
       /\ UNCHANGED <<chipVars, stage>>

Chips ==
  /\ \/ ChipStep(Plain)
     \/ BranchError /\ UNCHANGED chipVars
     \/ TrapLeave /\ UNCHANGED chipVars
     \/ ScsiStep
  /\ UNCHANGED <<cpuVars, stage, presses>>

Done == pc = "idle" /\ UNCHANGED vars

Next == (NextStage \/ Cpu \/ Chips \/ Done) /\ UNCHANGED machine

Spec == Init /\ [][Next]_vars
-----------------------------------------------------------------------------
(* Properties *)

\* Whenever an interrupt or another task can run, it finds its own exception
\* vectors and vector base, the MMU and its transparent ranges as it set them up
\* and no tree of the test enabled.  While they are not as it set them up, not
\* even the NMI meets anything but the test's own vectors.  A mapping that a
\* 68851 or 68030 uses is never off or replaced (berr_trap.S 21-22, 48-57; cpu.S
\* 170, 344-361, 449, 470-475, 541-546 and 573-609).
VectorsOwn ==
  LET own == chip.tc = wanted.tc /\ chip.tt = "system"
             /\ (chip.tc = "on" => chip.crp = "system")
  IN  /\ InterruptsRun => vectors = "system" /\ chip.vbr = "system" /\ own
      /\ ~own => chip.vbr = "stack"
      /\ machine.mmu \in {"68851", "68030"} /\ wanted.tc = "on" => own

\* The SDMAC never moves data by, and its driver never finds, another transfer
\* count than the one the driver set: the probe for the version of the chip
\* keeps the driver out and the controller is idle (hardware.c 1478-1500).
CountKept ==
  InterruptsRun \/ scsi.state = "transfer" => scsi.wtc = scsi.count

\* After the detection nothing is held, and the registers it tried are as they
\* were, whichever way a test ended: the bits of the CACR, the vector base, TC,
\* the ranges that TT0 and TT1 enable (cpu.S 602-609), the power register of Fat
\* Gary.  Not so are the root pointer and the function code of the test, which a
\* 68030 that does not translate keeps and nothing uses until somebody sets them
\* (cpu.S 587-588 and 614-617).  Registers C and D of an RP5C01, which the code does
\* not write back either, are not among them (hardware.c 1191-1202).
LeftAsFound ==
  pc = "idle" /\ presses = 0 =>
    /\ Free /\ library = "closed" /\ held = {}
    /\ chip.cacr = wanted.cacr /\ chip.pcr = wanted.pcr
    /\ chip.vbr = "system" /\ chip.tc = wanted.tc /\ chip.tt = "system"
    /\ "own" \in {chip.crp, chip.sfc} => machine.cpu \in Of030 /\ chip.tc = "off"
    /\ Fat => gary.power = machine.power

\* A bus without an SDMAC whose answers are all such as the chip might give: a
\* busy status for ever, or an idle one and a transfer count that faults or has
\* a value of its own with bit 2 clear.
PassesForSdmac ==
  /\ machine.dma = "none" /\ machine.ramsey /\ machine.ncr = "NONE"
  /\ machine.bus = "busy" \/ (machine.bus = "idle" /\ machine.count \in {Fault, "low"})

\* The machine the program reports is the one it runs on, however Exec and the
\* library answered, and whatever went on meanwhile.  Kickstart 1.3 calls any FPU
\* a 68881; the type of MMU of a 68080 is not known; the SDMAC version stays 0
\* when SCSI was active or the chip did not answer, and a 68020 without 32-bit
\* RAM whose ROM is mirrored cannot be told from an EC.  An open bus is taken
\* for an SDMAC only if it passes for one (hardware.c 1464-1475 and 1491-1524).
Identified ==
  pc = "idle" =>
    /\ info.type = IF machine.emu THEN "EMU" ELSE machine.cpu
    /\ info.fpu = IF machine.fpu # "NONE" /\ ~Exec36 THEN "68881"
                  ELSE IF machine.emu THEN "68882" ELSE machine.fpu
    /\ info.type # "68080" => info.mmu = machine.mmu
                              /\ info.present = (machine.mmu # "NONE")
                              /\ info.translation = machine.tc
    /\ chips.gary = machine.gary /\ chips.agnus = machine.agnus
    /\ chips.denise = machine.chipset
    /\ chips.ncr = machine.ncr
    /\ ~PassesForSdmac =>
         chips.sdmac = (machine.dma # "none") /\ chips.rev \in {"0", machine.dma}
    /\ chips.alias = "mirrored" => machine.upper = "alias"
    /\ chips.alias = "none" => machine.upper # "alias"
    /\ chips.clock = machine.rtc

\* The caches shown are those that are on, super scalar mode with them, and a
\* button has switched its cache and nothing else: the rest of the CACR is as
\* everybody left it.  What another program changes between the halves of a
\* toggle may be lost, but not where Exec switches the cache.  SetCPUReg() keeps
\* no other bit of the processor register (cache.c 34-58, 84-89, 114-133;
\* hardware.c 465-502; gui.c 2279-2282).
ShownAsSet ==
  pc = "idle" =>
    /\ chip.cacr \ lost = wanted.cacr \ lost
    /\ UsesExec /\ info.type \notin Of060 => lost = {}
    /\ chip.pcr \in {wanted.pcr, wanted.pcr \cap {"ESS"}}
    /\ \A s \in info.has :
         s \in info.shown <=> IF s = "super" THEN SuperOn ELSE Group(s) \subseteq chip.cacr
=============================================================================
