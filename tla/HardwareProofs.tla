--------------------------- MODULE HardwareProofs ---------------------------
(***************************************************************************)
(* What detect_hardware guarantees on every set of computers that the      *)
(* assumptions of Hardware allow: the vectors, the vector base, the MMU    *)
(* and the transfer counter of the SDMAC are never wrong when somebody     *)
(* else can use them, the registers that were tried are put back but for   *)
(* CRP and SFC of a 68030 that does not translate, the caches shown are    *)
(* those that are on, and the computer reported is the one it runs on,     *)
(* unless an open bus passes for an SDMAC.                                 *)
(***************************************************************************)
EXTENDS Hardware, FiniteSetTheorems, TLAPS

\* The labels at which the vectors are hooked, those at which the program's own
\* vector table is in use, and those of the tests of the processor.
Hooked == {"trap read", "trap leave"}
OwnTableUsed == {"cpu id", "mmu try", "mmu own tree", "mmu leave", "mmu read"}
CpuTests == {"cpu set", "cpu test", "cpu reset", "cpu 060"} \cup OwnTableUsed

\* A pass over the transfer counter, after its status was found idle, and while
\* the counter may hold a pattern.
Pass == {"pass asr", "pass asr read", "pass istr", "pass istr read", "pass wtc",
         "pass write", "pass back", "pass restore", "pass judge"}
IdleSeen == {"pass istr", "pass istr read", "pass wtc", "pass write",
             "pass back", "pass restore"}
Written == {"pass back", "pass restore"}

\* A protected read is part of the code it returns to.
At == IF pc \in Hooked THEN trap.back ELSE pc

\* MMUs whose mapping is never switched off.
Live == {"68851", "68030"}

\* The fields the steps read and write.
Fields ==
  /\ DOMAIN chip = {"cacr", "pcr", "vbr", "tc", "tt", "crp", "sfc"}
  /\ DOMAIN wanted = {"cacr", "pcr", "tc"}
  /\ {"bit", "old", "new"} \subseteq DOMAIN look
  /\ "type" \in DOMAIN info
  /\ {"register", "back", "was", "branch", "answer"} \subseteq DOMAIN trap
  /\ {"state", "wtc", "count", "starts", "reselects"} \subseteq DOMAIN scsi
  /\ "value" \in DOMAIN test

StageInv == stage \in Nat

TrapInv ==
  /\ vectors = IF pc \in Hooked THEN "probe" ELSE "system"
  /\ pc \in Hooked => disabled = TRUE /\ trap.back \notin Hooked \cup CpuTests

TableInv ==
  /\ chip.vbr = IF pc \in OwnTableUsed THEN "stack" ELSE "system"
  /\ pc \in OwnTableUsed => disabled = TRUE

\* The test changes TC for its own instructions, and TT0 and TT1 with it only
\* when nothing translates; a tree that is used is never replaced.
MmuInv ==
  /\ wanted.tc \in {"on", "off"}
  /\ wanted.tc = "on" => chip.crp = "system"
  /\ pc # "mmu own tree" => chip.tt = "system"
  /\ pc = "mmu own tree" => /\ wanted.tc = "off" /\ look.old = FALSE
                            /\ machine.mmu = "NONE" => chip.tc = "off"
  /\ pc \notin {"mmu own tree", "mmu leave"} => chip.tc = wanted.tc
  /\ pc = "mmu leave" => chip.tc \in {wanted.tc, "off"} /\ look.old = (wanted.tc = "on")
  /\ machine.mmu \in Live /\ wanted.tc = "on" => chip.tc = "on"

\* Why a live mapping is left alone: the processor has been recognised by the
\* bit FreezeI, which nobody else touches.
KindInv ==
  machine.mmu \in Live =>
    /\ machine.cpu \in Of020 \cup Of030
    /\ info.type \in {"UNKNOWN", "EMU"} \cup Of020 \cup Of030
    /\ pc \notin {"cpu 060", "cpu id"}
    /\ pc = "mmu try" => info.type \in Of020 \cup Of030
    /\ pc = "cpu test" /\ look.bit = "FreezeI" => "FreezeI" \in chip.cacr
    /\ pc = "cpu reset" /\ look.bit = "FreezeI" => look.new = TRUE

\* A pass runs with interrupts off throughout, so an SCSI controller seen idle
\* starts no transfer before the counter is restored.
CountInv ==
  /\ At \in Pass => disabled = TRUE /\ (pc \in Hooked => trap.was = TRUE)
  /\ At = "pass asr read" /\ pc \in Hooked => trap.register = "ASR"
  /\ machine.dma # "none" =>
       /\ At \in IdleSeen => scsi.state # "transfer"
       /\ At = "pass asr read" /\ pc # "trap read" /\ trap.answer = "idle" =>
            scsi.state # "transfer"
  /\ At \in Written => test.value = scsi.count
  /\ At \notin Written \/ machine.dma = "none" => scsi.wtc = scsi.count

HardwareInv ==
  Fields /\ StageInv /\ TrapInv /\ TableInv /\ MmuInv /\ KindInv /\ CountInv
-----------------------------------------------------------------------------
(* That everything is put back, and what is shown, need more: which labels *)
(* run with the interrupts off or hold something, what the bit that is     *)
(* tried does to the CACR, of which family the processor was found to be,  *)
(* and that the caches are looked at last.                                 *)

AliasLabels == {"alias pass", "alias ask", "alias read"}
Shut == Pass \cup OwnTableUsed \cup {"alias ask", "alias read"}
Backs == {"ncr 770 read", "ncr 710 read", "ncr config read", "sdmac signature",
          "sdmac istr read", "sdmac asr read", "pass asr read", "pass istr read",
          "pass write", "pass restore", "alias read", "clock read"}
Trying == {"cpu set", "cpu test", "cpu reset"}
Early == {"cpu", "cpu 060", "cpu id"} \cup Trying
Toggles == {"toggle", "toggle super", "super write"}
Late == {"idle", "caches", "next"} \cup Toggles

MoreFields ==
  /\ machine \in Machines
  /\ DOMAIN look = {"bit", "old", "new", "setting", "on", "current"}
  /\ {"type", "has", "shown"} \subseteq DOMAIN info
  /\ DOMAIN gary = {"power", "bus", "serial"}
  /\ "saved" \in DOMAIN test

\* Forbid and Disable are in force where the code needs them and nowhere else.
MaskInv ==
  /\ pc \notin {"gary id", "gary bits"} => forbid = 0
  /\ pc \notin Hooked => (disabled = TRUE <=> pc \in Shut) /\ disabled \in BOOLEAN
  /\ pc \in Hooked => /\ trap.back \in Backs /\ trap.was \in BOOLEAN
                      /\ (trap.was = TRUE <=> trap.back \in Shut)

HeldInv ==
  /\ library # "closed" => pc \in {"mmu type", "remap close"}
  /\ held \subseteq IF At \in AliasLabels THEN {"buffer"}
                    ELSE IF pc = "batt read" THEN {"semaphore"} ELSE {}

\* A Fat Gary keeps what is written, and the test has the value to write back.
PowerInv ==
  Fat => /\ pc \notin {"gary mirror", "gary id", "gary bits"}
         /\ IF pc \in {"gary cycle", "gary good"}
            THEN /\ test.saved = machine.power
                 /\ gary.power = IF pc = "gary cycle" THEN "cycle" ELSE "good"
            ELSE gary.power = machine.power

\* The CACR differs from what everybody set in the bit that is tried alone, and
\* in what a toggle has lost; a toggle keeps one bit of the processor register.
BitInv ==
  /\ chip.cacr \subseteq Bits /\ wanted.cacr \subseteq Bits
  /\ chip.pcr \in {wanted.pcr, wanted.pcr \cap {"ESS"}}
  /\ pc \in Trying => look.bit \in {"FreezeI", "IBE"}
  /\ IF pc \in {"cpu test", "cpu reset"}
     THEN /\ chip.cacr = (wanted.cacr \ {look.bit}) \cup ({look.bit} \cap Bits)
          /\ look.old <=> look.bit \in wanted.cacr
          /\ pc = "cpu reset" => (look.new <=> look.bit \in Bits)
     ELSE chip.cacr \ lost = wanted.cacr \ lost

\* Nothing is lost before the first button is pressed, nor where Exec does the
\* switching.
LostInv ==
  /\ presses \in Nat
  /\ stage # 0 => presses = 0
  /\ pc \in Toggles => presses # 0
  /\ presses = 0 => lost = {} /\ chip.pcr = wanted.pcr
  /\ UsesExec /\ info.type \notin Of060 => lost = {}
  /\ pc \in {"toggle super", "super write"} => info.type \in Of060

\* The root pointer and function code of the test stay only where nothing
\* translates.
RootInv ==
  "own" \in {chip.crp, chip.sfc} => machine.cpu \in Of030 /\ wanted.tc = "off"

\* The family of the processor that was found.
SameFamily(type, cpu) ==
  /\ type \in Of020 <=> cpu \in Of020
  /\ type \in Of030 <=> cpu \in Of030
  /\ type \in Of040 <=> cpu \in Of040
  /\ type \in Of060 <=> cpu \in Of060
  /\ type \in {"68000", "68010"} <=> cpu \in {"68000", "68010"}

FamilyInv ==
  /\ pc \in Early \ {"cpu"} => ~machine.emu
  /\ pc \in Trying => machine.cpu \in Of020 \cup Of030 \cup Of040
  /\ pc \in Trying /\ look.bit = "IBE" => machine.cpu \in Of020 \cup Of030
  /\ pc \in {"cpu 060", "cpu id"} => machine.cpu \in Of040
  /\ pc \notin Early => IF machine.emu THEN info.type = "EMU"
                        ELSE SameFamily(info.type, machine.cpu)

\* The stages before the last are over when the caches are looked at, and only
\* the last or a button ends in "idle".
OrderInv ==
  /\ stage \in 0..14
  /\ pc \in {"idle"} \cup Toggles => stage = 0
  /\ pc = "next" => stage # 0
  /\ pc = "caches" => stage \in {0, 14}
  /\ pc \notin Late => stage \in 1..13
  /\ look.setting # "none" <=> pc \in Toggles \/ (pc = "caches" /\ stage = 0)

\* The caches shown are those that are on.
ShownCurrent ==
  /\ info.has = HasCaches
  /\ \A s \in info.has :
       s \in info.shown <=> IF s = "super" THEN SuperOn ELSE Group(s) \subseteq chip.cacr

\* How the caches are looked at.
CacheView == IF UsesExec THEN ExecView(chip.cacr) ELSE To030(chip.cacr)

ShownInv ==
  /\ pc = "idle" \/ (pc = "next" /\ stage = 14) => ShownCurrent
  /\ pc \in Toggles => look.on \in BOOLEAN
  /\ pc = "toggle" =>
       /\ look.setting \in HasCaches \ {"super"} /\ look.current \subseteq Bits
       /\ ~UsesExec => chip.cacr \ lost = look.current \ lost
  /\ pc = "super write" => look.current \ lost \subseteq chip.cacr

WorkInv ==
  /\ MoreFields /\ MaskInv /\ HeldInv /\ PowerInv
  /\ BitInv /\ FamilyInv /\ OrderInv /\ ShownInv /\ LostInv /\ RootInv
-----------------------------------------------------------------------------
LEMMA InitEstablishes == Init => HardwareInv
BY MachineAssumption
   DEF Init, Stages, TrapInit, NoTrap, CpuInit, NoLook, Nothing, ChipsInit, NoTest,
       HardwareInv, Fields, StageInv, TrapInv, TableInv, MmuInv, KindInv, CountInv, At,
       Hooked, OwnTableUsed, CpuTests, Pass, IdleSeen, Written, Live

\* A step that leaves the processor alone, outside its tests, leaves its part of
\* the invariant alone.
LEMMA CpuPartKept ==
  ASSUME TableInv, MmuInv, KindInv, UNCHANGED <<cpuVars, machine>>,
         pc \notin CpuTests, pc' \notin CpuTests
  PROVE  TableInv' /\ MmuInv' /\ KindInv'
BY DEF TableInv, MmuInv, KindInv, cpuVars, CpuTests, OwnTableUsed

\* So does a step of the processor's part with the chips' part.
LEMMA ChipPartKept ==
  ASSUME TrapInv, CountInv, UNCHANGED <<chipVars, trapVars, machine>>,
         pc \notin Hooked \cup Pass, pc' \notin Hooked \cup Pass
  PROVE  TrapInv' /\ CountInv'
BY DEF TrapInv, CountInv, At, chipVars, trapVars, Hooked, Pass, IdleSeen, Written

\* The stages have labels of their own.
LEMMA StageLabels ==
  ASSUME NEW i \in 1 .. Len(Stages)
  PROVE  Stages[i] \notin Hooked \cup CpuTests \cup Pass
<1>1. Len(Stages) = 14
  BY DEF Stages
<1>2. i \in {1, 2, 3, 4, 5, 6, 7, 8, 9, 10, 11, 12, 13, 14}
  BY <1>1
<1>3. Stages[i] \in {"cpu", "fpu", "mmu", "remap", "vbr", "chipset", "gary", "ramsey",
                     "dma", "slots", "alias", "clock", "batt", "caches"}
  BY <1>2 DEF Stages
<1> QED
  BY <1>3 DEF Hooked, CpuTests, OwnTableUsed, Pass
-----------------------------------------------------------------------------
(* The steps of the processor *)

\* None of them is part of a protected read or of a pass over the counter.
LEMMA CpuStepApart ==
  ASSUME CpuStep
  PROVE  /\ pc \notin Hooked \cup Pass /\ pc' \notin Hooked \cup Pass
         /\ UNCHANGED trapVars
<1> USE DEF Go, Idle, OwnTable, Hooked, Pass, TasksRun
<1>1. CASE DetectCpu \/ SetTestBit \/ ReadTestBit \/ ResetTestBit
  BY <1>1 DEF DetectCpu, SetTestBit, ReadTestBit, ResetTestBit
<1>2. CASE GetCpu060 \/ LeaveCpu060 \/ DetectFpu
  BY <1>2 DEF GetCpu060, LeaveCpu060, DetectFpu
<1>3. CASE OpenMmu \/ MmuType \/ TestMmu \/ TryMmu
  BY <1>3 DEF OpenMmu, MmuType, TestMmu, TryMmu
<1>6. CASE LeaveOwnTree \/ LeaveMmu \/ Translation \/ ReadTranslation
  BY <1>6 DEF LeaveOwnTree, LeaveMmu, Translation, ReadTranslation
<1>4. CASE LoadRemap \/ CloseRemap \/ ReadVbr \/ RefreshCaches
  BY <1>4 DEF LoadRemap, CloseRemap, ReadVbr, RefreshCaches
<1>5. CASE (\E s \in Settings : Press(s)) \/ Toggle \/ ToggleSuper \/ WriteSuper \/ Tamper
  BY <1>5 DEF Press, Toggle, ToggleSuper, WriteSuper, Tamper
<1> QED
  BY <1>1, <1>2, <1>3, <1>4, <1>5, <1>6 DEF CpuStep

\* The processors with FreezeI keep it when it is written.
LEMMA FreezeIKept ==
  ASSUME machine.cpu \in Of020 \cup Of030
  PROVE  "FreezeI" \in Bits
BY DEF Bits, BitsOf, Of020, Of030

LEMMA NoLookFields ==
  /\ {"bit", "old", "new"} \subseteq DOMAIN NoLook
  /\ \A b : {"bit", "old", "new"} \subseteq DOMAIN [NoLook EXCEPT !.bit = b]
<1>1. {"bit", "old", "new"} \subseteq DOMAIN NoLook
  BY DEF NoLook
<1> QED
  BY <1>1

\* The tests keep their part of the invariant.
LEMMA CpuStepKeeps ==
  ASSUME HardwareInv, CpuStep, UNCHANGED <<chipVars, machine>>
  PROVE  Fields' /\ TableInv' /\ MmuInv' /\ KindInv'
<1> USE DEF HardwareInv, Fields, TableInv, MmuInv, KindInv, OwnTableUsed, Live, Go,
            Idle, OwnTable, chipVars, trapVars, masks
<1>1. CASE DetectCpu
  <2>1. Fields'
    <3>1. look' = NoLook \/ look' = [NoLook EXCEPT !.bit = "FreezeI"]
      BY <1>1 DEF DetectCpu
    <3>2. {"bit", "old", "new"} \subseteq DOMAIN look'
      BY <3>1, NoLookFields
    <3>3. "type" \in DOMAIN info'
      BY <1>1 DEF DetectCpu
    <3> QED
      BY <1>1, <3>2, <3>3 DEF DetectCpu
  <2>4. TableInv'
    BY <1>1 DEF DetectCpu
  <2>5. MmuInv'
    BY <1>1 DEF DetectCpu
  <2>2. CASE machine.cpu \in Of020 \cup Of030 \cup Of040 /\ ~machine.emu
    BY <1>1, <2>1, <2>2, <2>4, <2>5 DEF DetectCpu
  <2>3. CASE ~(machine.cpu \in Of020 \cup Of030 \cup Of040 /\ ~machine.emu)
    <3>1. pc' = "next"
      BY <1>1, <2>3 DEF DetectCpu
    <3>2. info'.type = "EMU" \/ info'.type = machine.cpu
      BY <1>1, <2>3 DEF DetectCpu
    <3>3. machine.mmu \in Live => info'.type \in {"EMU"} \cup Of020 \cup Of030
      BY <3>2
    <3>4. KindInv'
      BY <3>1, <3>3
    <3> QED
      BY <2>1, <2>4, <2>5, <3>4
  <2> QED
    BY <2>1, <2>2, <2>3, <2>4, <2>5
<1>2. CASE SetTestBit
  BY <1>2, FreezeIKept DEF SetTestBit, SetBits
<1>3. CASE ReadTestBit
  BY <1>3 DEF ReadTestBit
<1>4. CASE ResetTestBit
  <2>1. Fields'
    <3>1. look' = NoLook \/ look' = [NoLook EXCEPT !.bit = "IBE"]
      BY <1>4 DEF ResetTestBit
    <3>2. {"bit", "old", "new"} \subseteq DOMAIN look'
      BY <3>1, NoLookFields
    <3>3. "type" \in DOMAIN info'
      BY <1>4 DEF ResetTestBit
    <3> QED
      BY <1>4, <3>2, <3>3 DEF ResetTestBit, SetBits
  <2>4. TableInv'
    BY <1>4 DEF ResetTestBit, SetBits
  <2>5. MmuInv'
    BY <1>4 DEF ResetTestBit, SetBits
  <2>2. CASE look.bit = "FreezeI"
    BY <1>4, <2>1, <2>2, <2>4, <2>5 DEF ResetTestBit
  <2>3. CASE look.bit # "FreezeI"
    <3>1. info'.type \in Of020 \cup Of030 /\ pc' = "next"
      BY <1>4, <2>3 DEF ResetTestBit, Of020, Of030
    <3> QED
      BY <1>4, <2>1, <2>4, <2>5, <3>1
  <2> QED
    BY <2>2, <2>3
<1>5. CASE GetCpu060
  BY <1>5 DEF GetCpu060
<1>6. CASE LeaveCpu060
  BY <1>6 DEF LeaveCpu060, OwnTableLeft
<1>7. CASE DetectFpu
  BY <1>7 DEF DetectFpu, Of020, Of030
<1>8. CASE OpenMmu
  BY <1>8 DEF OpenMmu
<1>9. CASE MmuType
  BY ZenonT(60), <1>9 DEF MmuType, NoMmu, WithMmu, EcOf, Of020, Of030
<1>10. CASE TestMmu
  BY ZenonT(60), <1>10 DEF TestMmu, NoMmu, WithMmu, EcOf, MmuOf, Of020, Of030
<1>11. CASE TryMmu
  <2>1. pc = "mmu try" /\ chip.tc = wanted.tc /\ look'.old = (chip.tc = "on")
        /\ UNCHANGED <<wanted, info, disabled>>
    BY <1>11 DEF TryMmu
  <2>2. CASE chip' = chip /\ pc' = "mmu leave"
    BY <1>11, <2>1, <2>2 DEF TryMmu
  <2>3. CASE /\ machine.mmu # "NONE" /\ ~LeavesAlone /\ info.type \notin Of030
             /\ pc' = "mmu leave" /\ chip' = [chip EXCEPT !.tc = "off"]
    BY <1>11, <2>1, <2>3 DEF TryMmu, LeavesAlone
  <2>4. CASE ~LeavesAlone /\ info.type \in Of030 /\ pc' = "mmu own tree"
    <3>1. chip.tc = "off" /\ wanted.tc = "off" /\ look'.old = FALSE
      BY <2>1, <2>4 DEF LeavesAlone
    <3>2. chip' = [chip EXCEPT !.tt = "off", !.sfc = "own",
                     !.crp = IF machine.mmu # "NONE" THEN "own" ELSE @,
                     !.tc = IF machine.mmu # "NONE" THEN "on" ELSE @]
      BY <1>11, <2>4 DEF TryMmu
    <3>3. /\ DOMAIN chip' = DOMAIN chip /\ chip'.vbr = chip.vbr
          /\ chip'.cacr = chip.cacr
          /\ machine.mmu = "NONE" => chip'.tc = "off"
      BY <3>1, <3>2
    <3>4. Fields'
      BY <1>11, <3>3 DEF TryMmu
    <3>5. TableInv' /\ MmuInv'
      BY <2>1, <2>4, <3>1, <3>3
    <3>6. KindInv'
      BY <2>1, <2>4
    <3> QED
      BY <3>4, <3>5, <3>6
  <2> QED
    BY <1>11, <2>2, <2>3, <2>4 DEF TryMmu
<1>22. CASE LeaveOwnTree
  <2>1. /\ pc = "mmu own tree" /\ pc' = "mmu leave" /\ UNCHANGED <<wanted, info, look, disabled>>
        /\ chip'.tt = "system" /\ chip'.vbr = chip.vbr /\ DOMAIN chip' = DOMAIN chip
        /\ chip'.tc = IF machine.mmu = "NONE" THEN chip.tc ELSE "off"
    BY <1>22 DEF LeaveOwnTree, TtBack
  <2>2. Fields'
    BY <1>22, <2>1 DEF LeaveOwnTree
  <2>3. TableInv' /\ MmuInv'
    BY <2>1
  <2>4. KindInv'
    BY <2>1
  <2> QED
    BY <2>2, <2>3, <2>4
<1>23. CASE ReadTranslation
  BY <1>23 DEF ReadTranslation
<1>24. CASE WriteSuper
  BY <1>24 DEF WriteSuper, SetBits
<1>12. CASE LeaveMmu
  BY <1>12 DEF LeaveMmu, TcBack, NoLook, NoMmu, WithMmu, EcOf, Of020, Of030
<1>13. CASE Translation
  BY <1>13 DEF Translation
<1>14. CASE LoadRemap
  BY <1>14 DEF LoadRemap
<1>15. CASE CloseRemap
  BY <1>15 DEF CloseRemap
<1>16. CASE ReadVbr
  BY <1>16 DEF ReadVbr
<1>17. CASE RefreshCaches
  BY <1>17 DEF RefreshCaches, NoLook
<1>18. CASE \E s \in Settings : Press(s)
  BY <1>18 DEF Press, NoLook
<1>19. CASE Toggle
  BY <1>19 DEF Toggle, SetBits
<1>20. CASE ToggleSuper
  BY <1>20 DEF ToggleSuper
<1>21. CASE Tamper
  <2>1. PICK b \in Bits \ {look.bit} :
          /\ chip' = [chip EXCEPT !.cacr = IF b \in chip.cacr THEN @ \ {b} ELSE @ \cup {b}]
          /\ wanted' = [wanted EXCEPT !.cacr =
                          IF b \in chip.cacr THEN @ \ {b} ELSE @ \cup {b}]
    BY <1>21 DEF Tamper
  <2>2. UNCHANGED <<pc, masks, info, look, machine>>
    BY <1>21 DEF Tamper
  <2>3. Fields'
    BY <2>1, <2>2, <1>21 DEF Tamper
  <2>5. TableInv'
    BY <2>1, <2>2
  <2>6. MmuInv'
    BY <2>1, <2>2
  <2>4. look.bit = "FreezeI" /\ "FreezeI" \in chip.cacr => "FreezeI" \in chip'.cacr
    BY <2>1
  <2> QED
    BY <2>2, <2>3, <2>4, <2>5, <2>6
<1> QED
  BY <1>1, <1>2, <1>3, <1>4, <1>5, <1>6, <1>7, <1>8, <1>9, <1>10, <1>11, <1>12,
     <1>13, <1>14, <1>15, <1>16, <1>17, <1>18, <1>19, <1>20, <1>21, <1>22, <1>23,
     <1>24 DEF CpuStep
-----------------------------------------------------------------------------
(* The steps of the chips *)

ChipsKept == TrapInv' /\ CountInv'
TrapFields == {"register", "back", "was", "branch", "answer"} \subseteq DOMAIN trap

\* What those that are neither a pass nor a protected read may do.
Elsewhere ==
  /\ pc \notin Hooked \cup Pass \cup CpuTests
  /\ pc' \notin Hooked \cup Pass \cup CpuTests
  /\ UNCHANGED <<vectors, trap, scsi>>

LEMMA ElsewhereKeeps ==
  ASSUME HardwareInv, Elsewhere, UNCHANGED machine
  PROVE  ChipsKept
BY DEF HardwareInv, TrapInv, CountInv, Elsewhere, ChipsKept, At, Hooked, Pass,
       IdleSeen, Written

\* A protected read that is part of no pass.
Asks == \E register, back :
          /\ Probe(register, back)
          /\ back \notin Hooked \cup Pass \cup CpuTests
          /\ pc \notin Hooked \cup Pass \cup CpuTests
          /\ UNCHANGED scsi

LEMMA AskKeeps ==
  ASSUME HardwareInv, Asks, UNCHANGED machine
  PROVE  ChipsKept /\ TrapFields'
<1>1. PICK register, back :
        /\ Probe(register, back)
        /\ back \notin Hooked \cup Pass \cup CpuTests
        /\ pc \notin Hooked \cup Pass \cup CpuTests
        /\ UNCHANGED scsi
  BY DEF Asks
<1>2. {"register", "back", "was", "branch", "answer"} \subseteq DOMAIN NoTrap
  BY DEF NoTrap
<1>3. trap'.back = back /\ TrapFields'
  BY <1>1, <1>2 DEF Probe, TrapFields
<1>4. pc' = "trap read" /\ disabled' = TRUE /\ vectors' = "probe"
  BY <1>1 DEF Probe, Masked
<1> QED
  BY <1>1, <1>3, <1>4 DEF HardwareInv, TrapInv, CountInv, ChipsKept, At, Hooked, Pass,
       IdleSeen, Written, CpuTests, OwnTableUsed

\* The detection steps that are part of no pass, with and without a question.
LEMMA Outside ==
  ASSUME NEW plain \in BOOLEAN,
         \/ DetectChipset \/ SavePower \/ TestCycle \/ TestGood \/ TestMirror
         \/ StartId \/ DisturbId \/ ReadId \/ DetectRamsey
         \/ StartDma \/ Ask770 \/ Read770 \/ Ask710 \/ Read710 \/ AskConfig
         \/ ReadConfig \/ AskSignature \/ ReadSignature \/ AskIstr \/ ReadIstr
         \/ AskAsr \/ ReadAsr \/ DetectSlots
         \/ StartAlias(plain) \/ AliasPass \/ AskUpper \/ AliasRead
         \/ DetectClock \/ AskClock(plain) \/ ReadClock \/ OpenBatt \/ ReadBatt
  PROVE  Elsewhere \/ Asks
<1> USE DEF Elsewhere, Asks, Step, Go, Ask, AskAt, LeavePass, trapVars, chipVars,
            Hooked, Pass, CpuTests, OwnTableUsed
<1>1. CASE DetectChipset \/ SavePower \/ TestCycle \/ TestGood \/ TestMirror
  BY <1>1 DEF DetectChipset, SavePower, TestCycle, TestGood, TestMirror
<1>2. CASE StartId \/ DisturbId \/ ReadId \/ DetectRamsey
  BY ZenonT(60), <1>2 DEF StartId, DisturbId, ReadId, DetectRamsey
<1>3. CASE StartDma \/ Read770 \/ Read710 \/ ReadConfig
  BY <1>3 DEF StartDma, Read770, Read710, ReadConfig
<1>4. CASE Ask770 \/ Ask710 \/ AskConfig \/ AskIstr \/ AskAsr \/ AskUpper
  BY <1>4 DEF Ask770, Ask710, AskConfig, AskIstr, AskAsr, AskUpper
<1>5. CASE AskSignature
  BY <1>5 DEF AskSignature
<1>6. CASE ReadSignature
  BY <1>6 DEF ReadSignature
<1>7. CASE ReadIstr \/ ReadAsr \/ DetectSlots
  BY <1>7 DEF ReadIstr, ReadAsr, DetectSlots
<1>8. CASE StartAlias(plain) \/ AliasPass \/ AliasRead
  BY <1>8 DEF StartAlias, AliasPass, AliasRead
<1>9. CASE AskClock(plain)
  BY <1>9 DEF AskClock
<1>10. CASE DetectClock \/ ReadClock \/ OpenBatt \/ ReadBatt
  BY <1>10 DEF DetectClock, ReadClock, OpenBatt, ReadBatt
<1> QED
  BY <1>1, <1>2, <1>3, <1>4, <1>5, <1>6, <1>7, <1>8, <1>9, <1>10

\* The question of a pass, and what comes back.
LEMMA PassAsks ==
  ASSUME HardwareInv, UNCHANGED <<machine, scsi, test>>, NEW register, NEW back \in Pass,
         pc \in Pass, Probe(register, back),
         back = "pass asr read" => register = "ASR",
         back \in IdleSeen => pc \in IdleSeen,
         back \in Written <=> pc \in Written
  PROVE  ChipsKept /\ TrapFields'
<1>1. {"register", "back", "was", "branch", "answer"} \subseteq DOMAIN NoTrap
  BY DEF NoTrap
<1>2. pc' = "trap read" /\ disabled' = TRUE /\ vectors' = "probe"
  BY DEF Probe, Masked
<1>3. TrapFields' /\ trap'.back = back /\ trap'.register = register
  BY <1>1 DEF Probe, TrapFields
<1>4. disabled = TRUE
  BY DEF HardwareInv, CountInv, At, Hooked, Pass
<1>5. trap'.was = TRUE
  BY <1>1, <1>4 DEF Probe
<1>6. At' = back /\ At = pc
  BY <1>2, <1>3 DEF At, Hooked, Pass
<1>7. back \notin Hooked \cup CpuTests
  BY DEF Hooked, CpuTests, OwnTableUsed, Pass
<1>8. TrapInv'
  BY <1>2, <1>3, <1>7 DEF TrapInv, Hooked
<1>9. CountInv'
  BY <1>2, <1>3, <1>5, <1>6 DEF HardwareInv, CountInv, Hooked
<1> QED
  BY <1>3, <1>8, <1>9 DEF ChipsKept

LEMMA AnswersOfAsr ==
  ASSUME trap.register = "ASR", machine.dma # "none"
  PROVE  Answers = {scsi.state}
BY DEF Answers

\* The read itself, its return, and the branch prediction error before it.
LEMMA TrapSteps ==
  ASSUME HardwareInv, UNCHANGED <<chipVars, machine>>,
         (\E a \in Answers : TrapRead(a)) \/ TrapLeave \/ BranchError
  PROVE  ChipsKept /\ TrapFields' /\ pc \notin CpuTests /\ pc' \notin CpuTests
<1> USE DEF chipVars, masks, Hooked, Pass, IdleSeen, Written, CpuTests, OwnTableUsed
<1>1. ASSUME NEW a \in Answers, TrapRead(a)
      PROVE  ChipsKept /\ TrapFields' /\ pc \notin CpuTests /\ pc' \notin CpuTests
  <2>1. TrapFields' /\ trap'.answer = a /\ UNCHANGED <<trap.back, trap.was, trap.register>>
    BY <1>1 DEF TrapRead, TrapFields, HardwareInv, Fields
  <2>2. pc = "trap read" /\ pc' = "trap leave" /\ UNCHANGED <<masks, vectors>>
    BY <1>1 DEF TrapRead, Go
  <2>3. TrapInv'
    BY <2>1, <2>2 DEF HardwareInv, TrapInv
  <2>4. At' = At /\ At = trap.back
    BY <2>1, <2>2 DEF At
  <2>5. At = "pass asr read" /\ machine.dma # "none" => a = scsi.state
    BY <2>2, AnswersOfAsr DEF HardwareInv, CountInv
  <2>6. a = "idle" /\ a = scsi.state => scsi.state # "transfer"
    OBVIOUS
  <2>7. CountInv'
    BY <2>1, <2>2, <2>4, <2>5, <2>6 DEF HardwareInv, CountInv
  <2> QED
    BY <2>1, <2>2, <2>3, <2>7 DEF ChipsKept
<1>2. CASE TrapLeave
  <2>1. pc = "trap leave" /\ pc' = trap.back /\ UNCHANGED trap
    BY <1>2 DEF TrapLeave, Go
  <2>2. vectors' = "system" /\ disabled' = trap.was
    BY <1>2 DEF TrapLeave, Unhooked
  <2>3. trap.back \notin Hooked \cup CpuTests
    BY <2>1 DEF HardwareInv, TrapInv
  <2>4. At' = At /\ At = trap.back
    BY <2>1, <2>3 DEF At
  <2>5. TrapInv'
    BY <2>1, <2>2, <2>3 DEF TrapInv
  <2>6. CountInv'
    BY <2>1, <2>2, <2>3, <2>4 DEF HardwareInv, CountInv
  <2> QED
    BY <2>1, <2>3, <2>5, <2>6 DEF ChipsKept, TrapFields, HardwareInv, Fields
<1>3. CASE BranchError
  <2>1. TrapFields' /\ UNCHANGED <<trap.back, trap.was, trap.register>>
    BY <1>3 DEF BranchError, TrapFields, HardwareInv, Fields
  <2>2. pc = "trap read" /\ pc' \in Hooked /\ UNCHANGED <<masks, vectors>>
    BY <1>3 DEF BranchError
  <2>3. pc' = "trap leave" => trap'.answer # "idle"
    BY <1>3 DEF BranchError, Fault, HardwareInv, Fields
  <2>4. TrapInv'
    BY <2>1, <2>2 DEF HardwareInv, TrapInv
  <2>5. At' = At
    BY <2>1, <2>2 DEF At
  <2>6. CountInv'
    BY <2>1, <2>2, <2>3, <2>5 DEF HardwareInv, CountInv
  <2> QED
    BY <2>1, <2>2, <2>4, <2>6 DEF ChipsKept
<1> QED
  BY <1>1, <1>2, <1>3

\* The other steps of a pass.
LEMMA PassSteps ==
  ASSUME HardwareInv, UNCHANGED machine,
         \/ StartPass \/ PassStatus("pass asr read", "pass istr")
         \/ PassStatus("pass istr read", "pass wtc") \/ PassWrite
         \/ PassRestore \/ PassJudge
  PROVE  ChipsKept /\ TrapFields'
<1> USE DEF HardwareInv, Fields, TrapInv, CountInv, ChipsKept, TrapFields, At, Go,
            LeavePass, masks, trapVars, chipVars, Hooked, Pass, IdleSeen, Written,
            CpuTests, OwnTableUsed
<1>1. CASE StartPass
  BY <1>1 DEF StartPass
<1>2. CASE PassStatus("pass asr read", "pass istr")
  BY <1>2 DEF PassStatus, Quiet
<1>3. CASE PassStatus("pass istr read", "pass wtc")
  BY <1>3 DEF PassStatus, Quiet
<1>4. CASE PassWrite
  BY <1>4 DEF PassWrite, KeptOff
<1>5. CASE PassRestore
  BY <1>5 DEF PassRestore
<1>6. CASE PassJudge
  BY <1>6 DEF PassJudge
<1> QED
  BY <1>1, <1>2, <1>3, <1>4, <1>5, <1>6

\* The driver and its controller.
LEMMA ScsiSteps ==
  ASSUME HardwareInv, ScsiStep, UNCHANGED machine
  PROVE  /\ ChipsKept /\ {"state", "wtc", "count", "starts", "reselects"} \subseteq DOMAIN scsi'
         /\ UNCHANGED <<pc, masks, trapVars, gary, rtc, chips, test, held>>
<1> USE DEF HardwareInv, Fields, TrapInv, CountInv, ChipsKept, At, Scsi, masks, trapVars
<1>1. CASE ScsiStart
  BY <1>1 DEF ScsiStart, TasksRun, Pass, IdleSeen, Written
<1>2. CASE ScsiAsks
  BY <1>2 DEF ScsiAsks
<1>3. CASE ScsiService
  BY <1>3 DEF ScsiService
<1> QED
  BY <1>1, <1>2, <1>3 DEF ScsiStep

\* No step of the chips loses a field, and none is a test of the processor.
LEMMA ChipFields ==
  ASSUME HardwareInv, NEW plain \in BOOLEAN, ChipStep(plain)
  PROVE  /\ "value" \in DOMAIN test'
         /\ {"state", "wtc", "count", "starts", "reselects"} \subseteq DOMAIN scsi'
<1> USE DEF HardwareInv, Fields, chipVars, Step, Ask, AskAt
<1>1. "value" \in DOMAIN NoTest
  BY DEF NoTest
<1>2. CASE DetectChipset \/ SavePower \/ TestCycle \/ TestGood \/ TestMirror
  BY <1>1, <1>2 DEF DetectChipset, SavePower, TestCycle, TestGood, TestMirror, NoTest
<1>3. CASE StartId \/ DisturbId \/ ReadId \/ DetectRamsey \/ Read
  BY <1>1, <1>3 DEF StartId, DisturbId, ReadId, DetectRamsey, Read
<1>4. CASE StartDma \/ Ask770 \/ Read770 \/ Ask710 \/ Read710 \/ AskConfig \/ ReadConfig
  BY <1>1, <1>4 DEF StartDma, Ask770, Read770, Ask710, Read710, AskConfig, ReadConfig
<1>5. CASE AskSignature \/ ReadSignature \/ AskIstr \/ ReadIstr \/ AskAsr \/ ReadAsr
  BY <1>1, <1>5 DEF AskSignature, ReadSignature, AskIstr, ReadIstr, AskAsr, ReadAsr
<1>6. CASE \/ StartPass \/ PassAsr \/ PassStatus("pass asr read", "pass istr")
           \/ PassIstr \/ PassStatus("pass istr read", "pass wtc") \/ PassWtc
  BY <1>6 DEF StartPass, PassAsr, PassStatus, PassIstr, PassWtc
<1>7. CASE PassWrite \/ PassBack \/ PassRestore \/ PassJudge \/ DetectSlots
  BY <1>7 DEF PassWrite, PassBack, PassRestore, PassJudge, DetectSlots
<1>8. CASE StartAlias(plain) \/ AliasPass \/ AskUpper \/ AliasRead
  BY <1>1, <1>8 DEF StartAlias, AliasPass, AskUpper, AliasRead
<1>9. CASE DetectClock \/ AskClock(plain) \/ ReadClock \/ OpenBatt \/ ReadBatt
  BY <1>9 DEF DetectClock, AskClock, ReadClock, OpenBatt, ReadBatt
<1> QED
  BY <1>2, <1>3, <1>4, <1>5, <1>6, <1>7, <1>8, <1>9 DEF ChipStep

LEMMA ChipStepKeeps ==
  ASSUME HardwareInv, NEW plain \in BOOLEAN, ChipStep(plain), UNCHANGED machine
  PROVE  ChipsKept /\ TrapFields' /\ pc \notin CpuTests /\ pc' \notin CpuTests
<1>1. CASE Elsewhere
  BY <1>1, ElsewhereKeeps DEF Elsewhere, HardwareInv, Fields, TrapFields
<1>2. CASE Asks
  BY <1>2, AskKeeps DEF Asks, Probe, CpuTests, OwnTableUsed
<1>3. CASE Read
  BY <1>3, TrapSteps DEF Read
<1>4. CASE PassAsr \/ PassIstr \/ PassWtc \/ PassBack
  <2> USE DEF Ask, AskAt, Pass, IdleSeen, Written
  <2>1. ChipsKept /\ TrapFields'
    <3>1. CASE PassAsr
      BY <3>1, PassAsks DEF PassAsr
    <3>2. CASE PassIstr
      BY <3>2, PassAsks DEF PassIstr
    <3>3. CASE PassWtc
      BY <3>3, PassAsks DEF PassWtc
    <3>4. CASE PassBack
      BY <3>4, PassAsks DEF PassBack
    <3> QED
      BY <1>4, <3>1, <3>2, <3>3, <3>4
  <2>2. pc \notin CpuTests /\ pc' \notin CpuTests
    BY <1>4 DEF PassAsr, PassIstr, PassWtc, PassBack, Probe, CpuTests, OwnTableUsed
  <2> QED
    BY <2>1, <2>2
<1>5. CASE \/ StartPass \/ PassStatus("pass asr read", "pass istr")
           \/ PassStatus("pass istr read", "pass wtc") \/ PassWrite
           \/ PassRestore \/ PassJudge
  <2>1. pc \notin CpuTests /\ pc' \notin CpuTests
    BY <1>5 DEF StartPass, PassStatus, PassWrite, PassRestore, PassJudge, LeavePass,
                Go, CpuTests, OwnTableUsed
  <2> QED
    BY <1>5, <2>1, PassSteps
<1> QED
  BY <1>1, <1>2, <1>3, <1>4, <1>5, Outside DEF ChipStep
-----------------------------------------------------------------------------
LEMMA NextKeeps == HardwareInv /\ [Next]_vars => HardwareInv'
<1> SUFFICES ASSUME HardwareInv, [Next]_vars
             PROVE  HardwareInv'
  OBVIOUS
<1>1. CASE UNCHANGED vars \/ Done
  <2>1. UNCHANGED <<pc, masks, machine, trapVars, cpuVars, chipVars>>
    BY <1>1 DEF Done, vars
  <2>2. UNCHANGED At
    BY <2>1 DEF At, trapVars
  <2>3. Fields' /\ StageInv'
    BY <1>1, <2>1 DEF HardwareInv, Fields, StageInv, Done, vars, trapVars, cpuVars, chipVars
  <2>4. TrapInv' /\ CountInv'
    BY <2>1, <2>2 DEF HardwareInv, TrapInv, CountInv, masks, trapVars, chipVars
  <2>5. TableInv' /\ MmuInv' /\ KindInv'
    BY <2>1 DEF HardwareInv, TableInv, MmuInv, KindInv, masks, cpuVars
  <2> QED
    BY <2>3, <2>4, <2>5 DEF HardwareInv
<1>2. CASE NextStage /\ UNCHANGED machine
  <2>1. UNCHANGED <<masks, machine, trapVars, cpuVars, chipVars>>
    BY <1>2 DEF NextStage
  <2>2. pc \notin Hooked \cup Pass \cup CpuTests
    BY <1>2 DEF NextStage, Hooked, Pass, CpuTests, OwnTableUsed
  <2>3. pc' \notin Hooked \cup Pass \cup CpuTests
    <3>1. CASE stage < Len(Stages)
      <4>1. stage + 1 \in 1 .. Len(Stages)
        BY <3>1 DEF HardwareInv, StageInv, Stages
      <4> QED
        BY <1>2, <3>1, <4>1, StageLabels DEF NextStage
    <3>2. CASE ~(stage < Len(Stages))
      BY <1>2, <3>2 DEF NextStage, Hooked, Pass, CpuTests, OwnTableUsed
    <3> QED
      BY <3>1, <3>2
  <2>4. Elsewhere
    BY <2>1, <2>2, <2>3 DEF Elsewhere, trapVars, chipVars
  <2>5. TableInv' /\ MmuInv' /\ KindInv'
    BY <2>1, <2>2, <2>3, CpuPartKept DEF HardwareInv
  <2>6. Fields'
    BY <2>1 DEF HardwareInv, Fields, trapVars, cpuVars, chipVars
  <2>7. StageInv'
    BY <1>2 DEF NextStage, HardwareInv, StageInv
  <2> QED
    BY <2>1, <2>4, <2>5, <2>6, <2>7, ElsewhereKeeps DEF HardwareInv, ChipsKept
<1>3. CASE Cpu /\ UNCHANGED machine
  <2>1. CpuStep /\ UNCHANGED <<chipVars, machine>>
    BY <1>3 DEF Cpu
  <2>2. Fields' /\ TableInv' /\ MmuInv' /\ KindInv'
    BY <2>1, CpuStepKeeps
  <2>3. TrapInv' /\ CountInv'
    BY <2>1, CpuStepApart, ChipPartKept DEF HardwareInv
  <2>4. StageInv'
    BY <1>3 DEF Cpu, HardwareInv, StageInv
  <2> QED
    BY <2>2, <2>3, <2>4 DEF HardwareInv
<1>4. CASE Chips /\ UNCHANGED machine
  <2>1. UNCHANGED <<cpuVars, machine>> /\ StageInv'
    BY <1>4 DEF Chips, HardwareInv, StageInv
  <2>2. CASE ChipStep(Plain)
    <3>1. ASSUME NEW plain \in BOOLEAN, ChipStep(plain)
          PROVE  HardwareInv'
      <4>1. ChipsKept /\ TrapFields' /\ pc \notin CpuTests /\ pc' \notin CpuTests
        BY <2>1, <3>1, ChipStepKeeps
      <4>2. Fields'
        BY <2>1, <3>1, <4>1, ChipFields DEF HardwareInv, Fields, TrapFields, cpuVars
      <4> QED
        BY <2>1, <4>1, <4>2, CpuPartKept DEF HardwareInv, ChipsKept
    <3> QED
      BY <2>2, <3>1 DEF Plain
  <2>3. CASE (BranchError \/ TrapLeave) /\ UNCHANGED chipVars
    <3>1. ChipsKept /\ TrapFields' /\ pc \notin CpuTests /\ pc' \notin CpuTests
      BY <2>1, <2>3, TrapSteps
    <3>2. Fields'
      BY <2>1, <2>3, <3>1 DEF HardwareInv, Fields, TrapFields, cpuVars, chipVars
    <3> QED
      BY <2>1, <3>1, <3>2, CpuPartKept DEF HardwareInv, ChipsKept
  <2>4. CASE ScsiStep
    <3>1. ChipsKept /\ UNCHANGED <<pc, masks, trapVars, test>>
      BY <2>1, <2>4, ScsiSteps
    <3>2. Fields'
      BY <2>1, <2>4, <3>1, ScsiSteps DEF HardwareInv, Fields, cpuVars, trapVars
    <3>3. TableInv' /\ MmuInv' /\ KindInv'
      BY <2>1, <3>1 DEF HardwareInv, TableInv, MmuInv, KindInv, cpuVars, masks
    <3> QED
      BY <2>1, <3>1, <3>2, <3>3 DEF HardwareInv, ChipsKept
  <2> QED
    BY <1>4, <2>2, <2>3, <2>4 DEF Chips
<1> QED
  BY <1>1, <1>2, <1>3, <1>4 DEF Next

\* Every interrupt and every other task finds its own vectors, vector base,
\* transparent ranges and MMU, on whatever computer, whichever read faults and
\* however detection branches: while a 68030 runs on the tree of the test, and
\* while the vector table of a test is in use, nobody else runs
\* (berr_trap.S 48-57; cpu.S 168-205, 341-391, 402-672).
THEOREM VectorsStayOwn == Spec => []VectorsOwn
<1>1. HardwareInv => VectorsOwn
  BY DEF HardwareInv, TrapInv, TableInv, MmuInv, VectorsOwn, InterruptsRun, Live,
         OwnTableUsed
<1> QED
  BY <1>1, InitEstablishes, NextKeeps, PTL DEF Spec

\* The SCSI driver never finds, and its controller never uses, another transfer
\* count than the driver set, whatever the controller is doing when a pass of
\* the probe begins and whenever a target reselects it (hardware.c 1460-1520).
THEOREM CountStaysOwn == Spec => []CountKept
<1>1. HardwareInv => CountKept
  BY DEF HardwareInv, CountInv, CountKept, InterruptsRun, At, Pass, IdleSeen, Written,
         TrapInv, Hooked
<1> QED
  BY <1>1, InitEstablishes, NextKeeps, PTL DEF Spec
-----------------------------------------------------------------------------
(* Everything is put back, and what is shown. *)

LEMMA WorkInit == Init => WorkInv
<1> SUFFICES ASSUME Init PROVE WorkInv
  OBVIOUS
<1> USE DEF Init, TrapInit, NoTrap, CpuInit, ChipsInit
<1>0. pc = "cpu" /\ stage = 1 /\ machine \in Machines
  BY DEF Stages
<1>1. MoreFields
  BY <1>0 DEF MoreFields, NoLook, Nothing, NoTest
<1>2. MaskInv /\ HeldInv
  BY <1>0 DEF MaskInv, HeldInv, Hooked, Shut, Pass, OwnTableUsed
<1>3. PowerInv
  BY <1>0 DEF PowerInv
<1>4. BitInv
  BY <1>0, MachineAssumption DEF BitInv, Bits, Trying
<1>5. FamilyInv
  BY <1>0 DEF FamilyInv, Early, Trying
<1>6. OrderInv /\ ShownInv
  BY <1>0 DEF OrderInv, ShownInv, NoLook, Toggles, Late
<1>7. LostInv /\ RootInv
  BY <1>0 DEF LostInv, RootInv, Toggles
<1> QED BY <1>1, <1>2, <1>3, <1>4, <1>5, <1>6, <1>7 DEF WorkInv

\* The steps of the processor's part end where the interrupts are to be on or
\* off, and open or close the library.
LEMMA CpuMasks ==
  ASSUME WorkInv, CpuStep, UNCHANGED <<chipVars, machine, stage>>
  PROVE  MaskInv' /\ HeldInv' /\ PowerInv'
<1> USE DEF WorkInv, MaskInv, HeldInv, PowerInv, At, Go, Idle, OwnTable, Hooked, Shut,
            Pass, OwnTableUsed, AliasLabels, chipVars, trapVars, masks, TasksRun
<1>0. PowerInv'
  BY CpuStepApart DEF CpuStep, DetectCpu, SetTestBit, ReadTestBit, ResetTestBit, GetCpu060,
     LeaveCpu060, DetectFpu, OpenMmu, MmuType, TestMmu, TryMmu, LeaveOwnTree, LeaveMmu,
     Translation, ReadTranslation, LoadRemap, CloseRemap, ReadVbr, RefreshCaches, Press,
     Toggle, ToggleSuper, WriteSuper, Tamper, Fat
<1>1. CASE DetectCpu \/ SetTestBit \/ ReadTestBit \/ ResetTestBit
  BY <1>0, <1>1 DEF DetectCpu, SetTestBit, ReadTestBit, ResetTestBit
<1>2. CASE GetCpu060 \/ LeaveCpu060 \/ DetectFpu
  BY <1>0, <1>2 DEF GetCpu060, LeaveCpu060, DetectFpu
<1>3. CASE OpenMmu \/ MmuType \/ TestMmu
  BY <1>0, <1>3 DEF OpenMmu, MmuType, TestMmu
<1>4. CASE TryMmu \/ LeaveMmu \/ Translation
  BY <1>0, <1>4 DEF TryMmu, LeaveMmu, Translation
<1>8. CASE LeaveOwnTree \/ ReadTranslation
  BY <1>0, <1>8 DEF LeaveOwnTree, ReadTranslation
<1>5. CASE LoadRemap \/ CloseRemap
  BY <1>0, <1>5 DEF LoadRemap, CloseRemap, Closed
<1>6. CASE ReadVbr \/ RefreshCaches \/ (\E s \in Settings : Press(s))
  BY <1>0, <1>6 DEF ReadVbr, RefreshCaches, Press
<1>7. CASE Toggle \/ ToggleSuper \/ WriteSuper \/ Tamper
  BY <1>0, <1>7 DEF Toggle, ToggleSuper, WriteSuper, Tamper
<1> QED
  BY <1>1, <1>2, <1>3, <1>4, <1>5, <1>6, <1>7, <1>8 DEF CpuStep

\* A step of a stage before the last stays in it or ends it.
LEMMA StaysInOrder ==
  ASSUME OrderInv, UNCHANGED stage, pc \notin Late, pc' \notin Late \ {"next"},
         look'.setting \in {"none", look.setting}
  PROVE  OrderInv'
<1>1. pc' \notin {"idle", "caches"} \cup Toggles
  BY DEF Late, Toggles
<1>2. stage \in 1..13 /\ stage # 0
  BY DEF OrderInv
<1>3. look.setting = "none"
  BY DEF OrderInv, Late, Toggles
<1>4. pc' \notin Late => stage' \in 1..13
  BY <1>2
<1> QED
  BY <1>1, <1>2, <1>3, <1>4 DEF OrderInv, Toggles

LEMMA NoSetting ==
  /\ NoLook.setting = "none"
  /\ DOMAIN NoLook = {"bit", "old", "new", "setting", "on", "current"}
  /\ \A b : /\ [NoLook EXCEPT !.bit = b].setting = "none"
            /\ DOMAIN [NoLook EXCEPT !.bit = b] = DOMAIN NoLook
BY DEF NoLook

LEMMA CpuOrder ==
  ASSUME WorkInv, CpuStep, UNCHANGED <<chipVars, machine, stage>>
  PROVE  MoreFields' /\ OrderInv'
<1> USE DEF WorkInv, MoreFields, Go, Idle, OwnTable, chipVars
<1>1. CASE DetectCpu
  <2>1. MoreFields' /\ look'.setting = "none"
    BY <1>1, NoSetting DEF DetectCpu
  <2>2. pc \notin Late /\ pc' \notin Late \ {"next"}
    BY <1>1 DEF DetectCpu, Late, Toggles
  <2> QED
    BY <2>1, <2>2, StaysInOrder
<1>2. CASE SetTestBit \/ ReadTestBit
  <2>1. MoreFields' /\ look'.setting = look.setting
    BY <1>2 DEF SetTestBit, ReadTestBit
  <2>2. pc \notin Late /\ pc' \notin Late \ {"next"}
    BY <1>2 DEF SetTestBit, ReadTestBit, Late, Toggles
  <2> QED
    BY <2>1, <2>2, StaysInOrder
<1>3. CASE ResetTestBit
  <2>1. MoreFields' /\ look'.setting = "none"
    BY <1>3, NoSetting DEF ResetTestBit
  <2>2. pc \notin Late /\ pc' \notin Late \ {"next"}
    BY <1>3 DEF ResetTestBit, Late, Toggles
  <2> QED
    BY <2>1, <2>2, StaysInOrder
<1>4. CASE GetCpu060 \/ LeaveCpu060 \/ DetectFpu
  <2>1. MoreFields' /\ look'.setting = look.setting
    BY <1>4 DEF GetCpu060, LeaveCpu060, DetectFpu
  <2>2. pc \notin Late /\ pc' \notin Late \ {"next"}
    BY <1>4 DEF GetCpu060, LeaveCpu060, DetectFpu, Late, Toggles
  <2> QED
    BY <2>1, <2>2, StaysInOrder
<1>5. CASE OpenMmu \/ TestMmu
  <2>1. MoreFields' /\ look'.setting = look.setting
    BY <1>5 DEF OpenMmu, TestMmu, NoMmu, WithMmu
  <2>2. pc \notin Late /\ pc' \notin Late \ {"next"}
    BY <1>5 DEF OpenMmu, TestMmu, Late, Toggles
  <2> QED
    BY <2>1, <2>2, StaysInOrder
<1>6. CASE MmuType
  <2>1. MoreFields' /\ look'.setting = look.setting
    BY <1>6 DEF MmuType, NoMmu, WithMmu
  <2>2. pc \notin Late /\ pc' \notin Late \ {"next"}
    BY <1>6 DEF MmuType, Late, Toggles
  <2> QED
    BY <2>1, <2>2, StaysInOrder
<1>7. CASE TryMmu \/ LeaveOwnTree \/ Translation \/ ReadTranslation
  <2>1. MoreFields' /\ look'.setting = look.setting
    BY <1>7 DEF TryMmu, LeaveOwnTree, Translation, ReadTranslation
  <2>2. pc \notin Late /\ pc' \notin Late \ {"next"}
    BY <1>7 DEF TryMmu, LeaveOwnTree, Translation, ReadTranslation, Late, Toggles
  <2> QED
    BY <2>1, <2>2, StaysInOrder
<1>8. CASE LeaveMmu
  <2>1. MoreFields' /\ look'.setting = "none"
    BY <1>8, NoSetting DEF LeaveMmu, NoMmu, WithMmu
  <2>2. pc \notin Late /\ pc' \notin Late \ {"next"}
    BY <1>8 DEF LeaveMmu, Late, Toggles
  <2> QED
    BY <2>1, <2>2, StaysInOrder
<1>9. CASE LoadRemap \/ CloseRemap \/ ReadVbr
  <2>1. MoreFields' /\ look'.setting = look.setting
    BY <1>9 DEF LoadRemap, CloseRemap, ReadVbr
  <2>2. pc \notin Late /\ pc' \notin Late \ {"next"}
    BY <1>9 DEF LoadRemap, CloseRemap, ReadVbr, Late, Toggles
  <2> QED
    BY <2>1, <2>2, StaysInOrder
<1>10. CASE RefreshCaches
  <2>1. MoreFields' /\ look'.setting = "none"
    BY <1>10, NoSetting DEF RefreshCaches
  <2> QED
    BY <2>1, <1>10 DEF RefreshCaches, OrderInv, Late, Toggles
<1>11. CASE \E s \in Settings : Press(s)
  <2>1. MoreFields' /\ look'.setting \in Settings
    BY <1>11 DEF Press, NoLook
  <2> QED
    BY <2>1, <1>11 DEF Press, OrderInv, Late, Toggles, Settings
<1>12. CASE Toggle \/ ToggleSuper \/ WriteSuper
  BY <1>12 DEF Toggle, ToggleSuper, WriteSuper, OrderInv, Late, Toggles
<1>13. CASE Tamper
  BY <1>13 DEF Tamper, OrderInv, Late, Toggles
<1> QED
  BY <1>1, <1>2, <1>3, <1>4, <1>5, <1>6, <1>7, <1>8, <1>9, <1>10, <1>11, <1>12, <1>13
     DEF CpuStep
-----------------------------------------------------------------------------
(* The bits of the processor and the family it is of *)

\* The families are apart.
LEMMA Families ==
  ASSUME WorkInv
  PROVE  /\ machine.cpu \in Of020 => machine.cpu \notin Of030 \cup Of040
         /\ machine.cpu \in Of030 => machine.cpu \notin Of040
         /\ machine.cpu \in Of020 \cup Of030 \cup Of040 \cup {"68000", "68010"}
         /\ machine.emu => UsesExec \/ info.type # "EMU"
         /\ machine.emu \in BOOLEAN
         /\ machine.emu => machine.cpu \in Of040
BY MachineAssumption DEF WorkInv, MoreFields, Of020, Of030, Of040, Of060, UsesExec, Exec36

\* The bits that are tried tell the families.
LEMMA TriedBits ==
  ASSUME machine.cpu \in Of020 \cup Of030 \cup Of040
  PROVE  /\ "FreezeI" \in Bits <=> machine.cpu \in Of020 \cup Of030
         /\ "IBE" \in Bits <=> machine.cpu \in Of030
BY DEF Bits, BitsOf, Of020, Of030, Of040, Of060

\* A processor without MMU or FPU is of the same family.
LEMMA EcFamily ==
  ASSUME NEW t, NEW c
  PROVE  /\ SameFamily(t, c) => SameFamily(EcOf(t), c)
         /\ t = "EMU" => EcOf(t) = "EMU"
<1> USE DEF SameFamily, EcOf, Of020, Of030, Of040, Of060
<1>1. CASE t = "68030"
  BY <1>1
<1>2. CASE t \in {"68040", "68LC040"}
  BY <1>2
<1>3. CASE t \in {"68060", "68LC060"}
  BY <1>3
<1>4. CASE t \notin {"68030", "68040", "68LC040", "68060", "68LC060"}
  BY <1>4
<1> QED
  BY <1>1, <1>2, <1>3, <1>4

TypeFits(type) == IF machine.emu THEN type = "EMU" ELSE SameFamily(type, machine.cpu)

LEMMA EcFits == TypeFits(info.type) => TypeFits(EcOf(info.type))
BY EcFamily DEF TypeFits

\* Before the last stage a step that changes no register and keeps the family.
LEMMA RegistersKept ==
  ASSUME WorkInv, UNCHANGED <<chip.cacr, chip.pcr, wanted, lost, machine, stage>>,
         pc \notin Early \cup Late, pc' \notin Early \cup (Late \ {"next"}),
         TypeFits(info'.type)
  PROVE  BitInv' /\ FamilyInv' /\ ShownInv'
<1>1. stage \in 1..13
  BY DEF WorkInv, OrderInv
<1>2. stage # 14
  BY <1>1
<1>3. BitInv'
  BY DEF WorkInv, BitInv, Early, Trying, Bits
<1>4. FamilyInv'
  BY DEF FamilyInv, Early, Trying, TypeFits
<1>5. ShownInv'
  BY <1>2 DEF ShownInv, Late, Toggles
<1> QED
  BY <1>3, <1>4, <1>5
-----------------------------------------------------------------------------
(* What a cache looks like and what a button does to its bits *)

\* The processor found and the way its caches are read.
LEMMA FoundKind ==
  ASSUME WorkInv, TypeFits(info.type)
  PROVE  \/ machine.cpu \in Of040 /\ UsesExec
         \/ machine.cpu \in Of040 /\ ~UsesExec /\ info.type \in Of040 /\ info.type # "EMU"
         \/ machine.cpu \notin Of040 /\ info.type \notin Of040
BY Families DEF TypeFits, SameFamily, UsesExec, Of040, Of060, Of020, Of030

LEMMA ShownIsBit ==
  ASSUME WorkInv, TypeFits(info.type), NEW s \in HasCaches \ {"super"}
  PROVE  FlagOf(s) \in CacheView <=> Group(s) \subseteq chip.cacr
<1>1. s \in {"icache", "dcache", "iburst", "dburst"}
  BY DEF HasCaches
<1>2. machine.cpu \in Of040 => s \in {"icache", "dcache"}
  BY Families DEF HasCaches, TypeFits, SameFamily, Of020, Of030, Of040, Of060
<1> USE DEF CacheView, FlagOf, Group, Control, DataFlags, CodeFlags
<1>3. CASE machine.cpu \in Of040 /\ UsesExec
  BY <1>2, <1>3 DEF ExecView
<1>4. CASE machine.cpu \in Of040 /\ ~UsesExec /\ info.type \in Of040
  BY <1>2, <1>4 DEF To030
<1>5. CASE machine.cpu \notin Of040 /\ info.type \notin Of040
  BY <1>1, <1>5 DEF ExecView, To030
<1> QED
  BY <1>3, <1>4, <1>5, FoundKind

\* A cache the processor has has its bits.
LEMMA GroupInBits ==
  ASSUME WorkInv, TypeFits(info.type), NEW s \in HasCaches
  PROVE  Group(s) \subseteq Bits
<1>1. CASE machine.cpu \in Of040
  <2>1. {"ICache040", "CopyBack"} \subseteq Bits
    BY <1>1 DEF Bits, BitsOf
  <2>2. s \in {"icache", "dcache", "super"}
    BY <1>1, Families DEF HasCaches, TypeFits, SameFamily, Of020, Of030, Of040, Of060
  <2> QED
    BY <1>1, <2>1, <2>2 DEF Group
<1>2. CASE machine.cpu \in Of030
  <2>1. {"EnableI", "EnableD", "IBE", "DBE"} \subseteq Bits
    BY <1>2 DEF Bits, BitsOf
  <2>2. s \in {"icache", "dcache", "iburst", "dburst", "super"}
    BY DEF HasCaches
  <2>3. machine.cpu \notin Of040
    BY <1>2, Families
  <2> QED
    BY <2>1, <2>2, <2>3 DEF Group, FlagOf
<1>3. CASE machine.cpu \in Of020
  <2>1. "EnableI" \in Bits
    BY <1>3 DEF Bits, BitsOf
  <2>3. machine.cpu \notin Of030 \cup Of040
    BY <1>3, Families
  <2>2. s = "icache"
    BY <1>3, <2>3, Families
       DEF HasCaches, TypeFits, SameFamily, Of020, Of030, Of040, Of060
  <2> QED
    BY <2>1, <2>2, <2>3 DEF Group, FlagOf
<1>4. CASE machine.cpu \in {"68000", "68010"}
  BY <1>4, Families DEF HasCaches, TypeFits, SameFamily, Of020, Of030, Of040, Of060
<1> QED
  BY <1>1, <1>2, <1>3, <1>4, Families

\* What Kickstart 1.3 and the 68080 get back: the whole register as it was read
\* with one cache changed.
LEMMA WholeRegister ==
  ASSUME WorkInv, TypeFits(info.type), ~UsesExec, NEW read \in SUBSET Bits,
         NEW on \in BOOLEAN, NEW s \in HasCaches \ {"super"}
  PROVE  LET flags == Expand(FlagOf(s))
             new == IF on THEN To030(read) \cup flags ELSE To030(read) \ flags
         IN  To040(new) \cap Bits = Switched(read, s, on)
<1>1. s \in {"icache", "dcache", "iburst", "dburst"}
  BY DEF HasCaches
<1>2. machine.cpu \in Of040 => s \in {"icache", "dcache"}
  BY Families DEF HasCaches, TypeFits, SameFamily, Of020, Of030, Of040, Of060
<1>3. Group(s) \subseteq Bits
  BY GroupInBits
<1>4. CASE machine.cpu \in Of040 /\ info.type \in Of040
  <2>1. Bits \cap {"EnableI", "EnableD", "IBE", "DBE"} = {}
    BY <1>4, Families DEF Bits, BitsOf, Of020, Of030, Of040, Of060
  <2> USE DEF To030, To040, Expand, FlagOf, Control, DataFlags, CodeFlags, Switched, Group
  <2>2. CASE s = "icache"
    BY <1>3, <1>4, <2>1, <2>2
  <2>3. CASE s = "dcache"
    BY <1>3, <1>4, <2>1, <2>3
  <2> QED
    BY <1>2, <1>4, <2>2, <2>3
<1>5. CASE machine.cpu \notin Of040 /\ info.type \notin Of040
  <2>1. To030(read) = read /\ \A b : To040(b) = b
    BY <1>5 DEF To030, To040
  <2>2. Group(s) = {FlagOf(s)} /\ Expand(FlagOf(s)) = {FlagOf(s)}
    BY <1>1, <1>5 DEF Group, Expand
  <2> QED
    BY <1>3, <2>1, <2>2 DEF Switched
<1> QED
  BY <1>4, <1>5, FoundKind
-----------------------------------------------------------------------------
\* The tests of the kind of processor.
LEMMA KindBits ==
  ASSUME WorkInv, HardwareInv, UNCHANGED <<chipVars, machine, stage>>,
         \/ DetectCpu \/ SetTestBit \/ ReadTestBit \/ ResetTestBit
         \/ GetCpu060 \/ LeaveCpu060 \/ Tamper,
         pc \notin Toggles
  PROVE  BitInv' /\ FamilyInv' /\ ShownInv'
<1> USE DEF Go, Idle, OwnTable
<1>0. stage \in 1..13 /\ stage # 14
  <2>1. pc \notin Late
    BY DEF DetectCpu, SetTestBit, ReadTestBit, ResetTestBit, GetCpu060, LeaveCpu060,
           Tamper, Late, Toggles
  <2>2. stage \in 1..13
    BY <2>1 DEF WorkInv, OrderInv
  <2> QED
    BY <2>2
<1>1. ShownInv'
  <2>1. pc' \notin {"idle"} \cup Toggles
    BY DEF DetectCpu, SetTestBit, ReadTestBit, ResetTestBit, GetCpu060, LeaveCpu060,
           Tamper, Toggles
  <2> QED
    BY <1>0, <2>1 DEF ShownInv, Toggles
<1>9. lost = {} /\ lost' = {}
  <2>1. stage # 0
    BY <1>0
  <2>2. lost = {}
    BY <2>1 DEF WorkInv, LostInv
  <2>3. CASE Tamper
    <3>1. ~\E b : WritesBack(b)
      BY DEF WritesBack, Toggles
    <3> QED
      BY <2>2, <2>3, <3>1 DEF Tamper
  <2> QED
    BY <2>2, <2>3 DEF DetectCpu, SetTestBit, ReadTestBit, ResetTestBit, GetCpu060,
                      LeaveCpu060
<1> USE <1>9 DEF WorkInv, BitInv, FamilyInv, Early, Trying
<1>2. CASE DetectCpu
  <2>1. CASE machine.cpu \in Of020 \cup Of030 \cup Of040 /\ ~machine.emu
    <3>1. pc' = "cpu set" /\ look' = [NoLook EXCEPT !.bit = "FreezeI"]
          /\ UNCHANGED <<chip, wanted, info>>
      BY <1>2, <2>1 DEF DetectCpu
    <3>2. look'.bit = "FreezeI"
      BY <3>1 DEF NoLook
    <3> QED
      BY <1>1, <1>2, <2>1, <3>1, <3>2 DEF DetectCpu, Bits
  <2>2. CASE ~(machine.cpu \in Of020 \cup Of030 \cup Of040 /\ ~machine.emu)
    <3>1. pc' = "next" /\ UNCHANGED <<chip, wanted>>
          /\ info' = [info EXCEPT !.type = IF machine.emu THEN "EMU" ELSE machine.cpu]
      BY <1>2, <2>2 DEF DetectCpu
    <3>2. info'.type = IF machine.emu THEN "EMU" ELSE machine.cpu
      BY <3>1 DEF MoreFields
    <3> QED
      BY <1>1, <1>2, <3>1, <3>2 DEF DetectCpu, Bits, SameFamily
  <2> QED
    BY <2>1, <2>2
<1>3. CASE SetTestBit
  <2>1. /\ pc = "cpu set" /\ pc' = "cpu test" /\ UNCHANGED <<wanted, info>>
        /\ chip' = [chip EXCEPT !.cacr = (@ \ {look.bit}) \cup ({look.bit} \cap Bits)]
        /\ look' = [look EXCEPT !.old = look.bit \in chip.cacr]
    BY <1>3 DEF SetTestBit, SetBits
  <2>2. look'.bit = look.bit /\ (look'.old <=> look.bit \in chip.cacr)
    BY <2>1 DEF MoreFields
  <2>3. /\ chip'.cacr = (chip.cacr \ {look.bit}) \cup ({look.bit} \cap Bits)
        /\ UNCHANGED chip.pcr
    BY <2>1 DEF HardwareInv, Fields
  <2> QED
    BY <1>1, <2>1, <2>2, <2>3 DEF Bits
<1>4. CASE ReadTestBit
  <2>1. /\ pc = "cpu test" /\ pc' = "cpu reset" /\ UNCHANGED <<chip, wanted, info>>
        /\ look' = [look EXCEPT !.new = look.bit \in chip.cacr]
    BY <1>4 DEF ReadTestBit
  <2>2. UNCHANGED <<look.bit, look.old>> /\ (look'.new <=> look.bit \in chip.cacr)
    BY <2>1 DEF MoreFields
  <2>3. look.bit \in chip.cacr <=> look.bit \in Bits
    BY <2>1
  <2>4. FamilyInv'
    BY <2>1, <2>2
  <2>5. BitInv'
    BY <2>1, <2>2, <2>3 DEF Bits
  <2> QED
    BY <1>1, <2>4, <2>5
<1>5. CASE ResetTestBit
  <2>1. /\ pc = "cpu reset" /\ UNCHANGED wanted
        /\ chip' = [chip EXCEPT !.cacr = (@ \ {look.bit}) \cup (OldBit \cap Bits)]
    BY <1>5 DEF ResetTestBit, SetBits
  <2>2. /\ chip'.cacr = (chip.cacr \ {look.bit}) \cup (OldBit \cap Bits)
        /\ UNCHANGED chip.pcr
    BY <2>1 DEF HardwareInv, Fields
  <2>3. chip'.cacr = wanted.cacr
    <3>1. chip.cacr = (wanted.cacr \ {look.bit}) \cup ({look.bit} \cap Bits)
      BY <2>1
    <3>2. wanted.cacr \subseteq Bits /\ (look.old <=> look.bit \in wanted.cacr)
      BY <2>1
    <3>3. OldBit \cap Bits = {look.bit} \cap wanted.cacr
      BY <3>2 DEF OldBit
    <3> QED
      BY <2>2, <3>1, <3>3
  <2>4. machine.cpu \in Of020 \cup Of030 \cup Of040
        /\ (look.new <=> look.bit \in Bits) /\ ~machine.emu
    BY <2>1
  <2>5. CASE look.bit = "FreezeI"
    <3>1. /\ pc' = IF look.new THEN "cpu set" ELSE "cpu 060"
          /\ look' = [NoLook EXCEPT !.bit = "IBE"] /\ UNCHANGED info
      BY <1>5, <2>5 DEF ResetTestBit
    <3>2. look'.bit = "IBE"
      BY <3>1 DEF NoLook
    <3>3. look.new <=> machine.cpu \in Of020 \cup Of030
      BY <2>4, <2>5, TriedBits
    <3> QED
      BY <1>1, <2>1, <2>2, <2>3, <2>4, <3>1, <3>2, <3>3 DEF Bits
  <2>6. CASE look.bit = "IBE"
    <3>1. /\ pc' = "next"
          /\ info' = [info EXCEPT !.type = IF look.new THEN "68030"
                                           ELSE IF Ec020 THEN "68EC020" ELSE "68020"]
      BY <1>5, <2>6 DEF ResetTestBit
    <3>2. info'.type = IF look.new THEN "68030" ELSE IF Ec020 THEN "68EC020" ELSE "68020"
      BY <3>1 DEF MoreFields
    <3>3. look.new <=> machine.cpu \in Of030
      BY <2>4, <2>6, TriedBits
    <3>4. machine.cpu \in Of020 \cup Of030
      BY <2>1, <2>6
    <3>5. SameFamily(info'.type, machine.cpu)
      BY <3>2, <3>3, <3>4, Families DEF SameFamily, Of020, Of030, Of040, Of060
    <3> QED
      BY <1>1, <2>1, <2>2, <2>3, <2>4, <3>1, <3>5 DEF Bits
  <2> QED
    BY <2>1, <2>5, <2>6
<1>6. CASE GetCpu060
  <2>1. /\ pc = "cpu 060" /\ pc' = "cpu id" /\ UNCHANGED <<wanted, info, look>>
        /\ UNCHANGED <<chip.cacr, chip.pcr>>
    BY <1>6 DEF GetCpu060, HardwareInv, Fields
  <2> QED
    BY <1>1, <2>1 DEF Bits
<1>7. CASE LeaveCpu060
  <2>1. /\ pc = "cpu id" /\ pc' = "next" /\ UNCHANGED <<wanted, look>>
        /\ UNCHANGED <<chip.cacr, chip.pcr>> /\ info'.type = Cpu060
    BY <1>7 DEF LeaveCpu060, HardwareInv, Fields
  <2>2. SameFamily(Cpu060, machine.cpu)
    BY <2>1 DEF SameFamily, Cpu060, Of020, Of030, Of040, Of060
  <2> QED
    BY <1>1, <2>1, <2>2 DEF Bits
<1>8. CASE Tamper
  <2>1. PICK b \in Bits \ {look.bit} :
          /\ chip' = [chip EXCEPT !.cacr = IF b \in chip.cacr THEN @ \ {b} ELSE @ \cup {b}]
          /\ wanted' = [wanted EXCEPT !.cacr =
                          IF b \in chip.cacr THEN @ \ {b} ELSE @ \cup {b}]
    BY <1>8 DEF Tamper
  <2>2. UNCHANGED <<pc, info, look, machine>> /\ pc \in {"cpu test", "cpu reset"}
    <3>1. pc \in {"cpu test", "cpu reset", "toggle", "super write"}
          /\ UNCHANGED <<pc, info, look>>
      BY <1>8 DEF Tamper
    <3>2. pc # "toggle" /\ pc # "super write"
      BY DEF Toggles
    <3> QED
      BY <3>1, <3>2
  <2>3. /\ chip'.cacr = IF b \in chip.cacr THEN chip.cacr \ {b} ELSE chip.cacr \cup {b}
        /\ wanted'.cacr = IF b \in chip.cacr THEN wanted.cacr \ {b}
                          ELSE wanted.cacr \cup {b}
        /\ UNCHANGED <<chip.pcr, wanted.pcr>>
    BY <2>1 DEF HardwareInv, Fields
  <2>4. look.bit \in {"FreezeI", "IBE"} /\ b # look.bit
    BY <2>2
  <2>6. look.old <=> look.bit \in wanted'.cacr
    BY <2>2, <2>3, <2>4
  <2>7. chip.cacr = (wanted.cacr \ {look.bit}) \cup ({look.bit} \cap Bits)
    BY <2>2
  <2>8. chip'.cacr = (wanted'.cacr \ {look.bit}) \cup ({look.bit} \cap Bits)
    BY <2>3, <2>4, <2>7
  <2>9. /\ chip'.cacr \subseteq Bits /\ wanted'.cacr \subseteq Bits
        /\ chip'.pcr \in {wanted'.pcr, wanted'.pcr \cap {"ESS"}}
    BY <2>3
  <2>10. FamilyInv'
    BY <2>2
  <2>11. BitInv'
    BY <2>2, <2>4, <2>6, <2>8, <2>9 DEF Bits
  <2> QED
    BY <1>1, <2>10, <2>11
<1> QED
  BY <1>2, <1>3, <1>4, <1>5, <1>6, <1>7, <1>8

\* The stages of the FPU, the MMU and the vector base change no cache.
LEMMA UnitBits ==
  ASSUME WorkInv, HardwareInv, UNCHANGED <<chipVars, machine, stage>>,
         \/ DetectFpu \/ OpenMmu \/ MmuType \/ TestMmu \/ TryMmu \/ LeaveOwnTree
         \/ LeaveMmu \/ Translation \/ ReadTranslation \/ LoadRemap \/ CloseRemap
         \/ ReadVbr
  PROVE  BitInv' /\ FamilyInv' /\ ShownInv'
<1> USE DEF Go, Idle, OwnTable
<1>1. pc \notin Early \cup Late /\ pc' \notin Early \cup (Late \ {"next"})
  <2> USE DEF Early, Trying, Late, Toggles
  <2>1. CASE DetectFpu \/ OpenMmu \/ MmuType \/ TestMmu \/ TryMmu
    BY <2>1 DEF DetectFpu, OpenMmu, MmuType, TestMmu, TryMmu
  <2>2. CASE LeaveMmu \/ Translation \/ LoadRemap \/ CloseRemap \/ ReadVbr
    BY <2>2 DEF LeaveMmu, Translation, LoadRemap, CloseRemap, ReadVbr
  <2>3. CASE LeaveOwnTree \/ ReadTranslation
    BY <2>3 DEF LeaveOwnTree, ReadTranslation
  <2> QED
    BY <2>1, <2>2, <2>3
<1>2. UNCHANGED <<chip.cacr, chip.pcr, wanted, lost>>
  <2> USE DEF HardwareInv, Fields
  <2>1. CASE DetectFpu \/ OpenMmu \/ MmuType \/ TestMmu \/ TryMmu
    BY <2>1 DEF DetectFpu, OpenMmu, MmuType, TestMmu, TryMmu
  <2>2. CASE LeaveMmu \/ Translation \/ LoadRemap \/ CloseRemap \/ ReadVbr
    BY <2>2 DEF LeaveMmu, Translation, LoadRemap, CloseRemap, ReadVbr
  <2>3. CASE LeaveOwnTree \/ ReadTranslation
    BY <2>3 DEF LeaveOwnTree, ReadTranslation
  <2> QED
    BY <2>1, <2>2, <2>3
<1>3. TypeFits(info.type)
  BY <1>1 DEF WorkInv, FamilyInv, TypeFits
<1>4. \/ info'.type \in {info.type, EcOf(info.type)}
      \/ info.type = "68040" /\ info'.type = "68LC040"
  <2> USE DEF WorkInv, MoreFields
  <2>1. CASE DetectFpu
    BY <2>1 DEF DetectFpu
  <2>2. CASE OpenMmu \/ TryMmu \/ LeaveOwnTree \/ LoadRemap
    BY <2>2 DEF OpenMmu, TryMmu, LeaveOwnTree, LoadRemap
  <2>3. CASE MmuType \/ TestMmu \/ LeaveMmu
    BY <2>3 DEF MmuType, TestMmu, LeaveMmu, NoMmu, WithMmu
  <2>4. CASE Translation \/ ReadTranslation \/ CloseRemap \/ ReadVbr
    BY <2>4 DEF Translation, ReadTranslation, CloseRemap, ReadVbr
  <2> QED
    BY <2>1, <2>2, <2>3, <2>4
<1>5. TypeFits(info'.type)
  BY <1>3, <1>4, EcFits DEF TypeFits, SameFamily, Of020, Of030, Of040, Of060
<1> QED
  BY <1>1, <1>2, <1>5, RegistersKept

\* The last stage and the buttons.
LEMMA CacheBits ==
  ASSUME WorkInv, HardwareInv, UNCHANGED <<chipVars, machine, stage>>,
         \/ RefreshCaches \/ (\E s \in Settings : Press(s)) \/ Toggle \/ ToggleSuper
         \/ WriteSuper \/ Tamper,
         pc \notin Trying
  PROVE  BitInv' /\ FamilyInv' /\ ShownInv'
<1> USE DEF Go, Idle
<1>1. pc \notin Early /\ pc' \notin Early /\ info'.type = info.type
  BY DEF RefreshCaches, Press, Toggle, ToggleSuper, WriteSuper, Tamper, Early, Trying,
         WorkInv, MoreFields
<1>2. /\ TypeFits(info.type) /\ chip.cacr \ lost = wanted.cacr \ lost
      /\ chip.pcr \in {wanted.pcr, wanted.pcr \cap {"ESS"}}
      /\ chip.cacr \subseteq Bits /\ wanted.cacr \subseteq Bits
  BY <1>1 DEF WorkInv, FamilyInv, TypeFits, BitInv, Early, Trying
<1>3. FamilyInv'
  BY <1>1, <1>2 DEF FamilyInv, TypeFits, Early, Trying
<1>4. /\ Bits' = Bits /\ HasCaches' = HasCaches /\ UsesExec' = UsesExec
      /\ \A s : Group(s)' = Group(s)
  BY <1>1 DEF Bits, HasCaches, Group, UsesExec, Exec36
<1>5. ASSUME chip'.cacr \ lost' = wanted'.cacr \ lost', chip'.cacr \subseteq Bits,
             chip'.pcr \in {wanted'.pcr, wanted'.pcr \cap {"ESS"}},
             wanted'.cacr \subseteq Bits
      PROVE  BitInv'
  BY <1>1, <1>4, <1>5 DEF BitInv, Early, Trying
<1>6. CASE RefreshCaches
  <2>1. /\ UNCHANGED <<chip, wanted, lost>> /\ pc' \in {"next", "idle"}
        /\ info' = [info EXCEPT !.has = HasCaches,
                      !.shown = {s \in HasCaches :
                                   IF s = "super" THEN SuperOn
                                   ELSE FlagOf(s) \in CacheView}]
    BY <1>6 DEF RefreshCaches, CacheView
  <2>2. /\ info'.has = HasCaches
        /\ info'.shown = {s \in HasCaches : IF s = "super" THEN SuperOn
                                            ELSE FlagOf(s) \in CacheView}
    BY <2>1 DEF WorkInv, MoreFields
  <2>3. \A s \in HasCaches \ {"super"} : s \in info'.shown <=> Group(s) \subseteq chip.cacr
    BY <1>2, <2>2, ShownIsBit
  <2>4. "super" \in HasCaches => ("super" \in info'.shown <=> SuperOn)
    BY <2>2
  <2>5. SuperOn' = SuperOn
    BY <1>1, <2>1 DEF SuperOn
  <2>6. ShownCurrent'
    BY <1>4, <2>1, <2>2, <2>3, <2>4, <2>5 DEF ShownCurrent
  <2> QED
    BY <1>2, <1>3, <1>5, <2>1, <2>6 DEF ShownInv, Toggles
<1>7. CASE \E s \in Settings : Press(s)
  <2>1. PICK s \in Settings :
          /\ pc = "idle" /\ s \in info.has
          /\ pc' = IF s = "super" THEN "toggle super" ELSE "toggle"
          /\ look' = [NoLook EXCEPT !.setting = s, !.current = chip.cacr,
                        !.on = IF s = "super" THEN s \notin info.shown
                               ELSE FlagOf(s) \notin CacheView]
          /\ UNCHANGED <<chip, wanted, lost, info>>
    BY <1>7 DEF Press, CacheView
  <2>2. /\ look'.setting = s /\ look'.current = chip.cacr
        /\ look'.on = IF s = "super" THEN s \notin info.shown
                      ELSE FlagOf(s) \notin CacheView
    BY <2>1 DEF NoLook
  <2>3. s \in HasCaches
    BY <2>1 DEF WorkInv, ShownInv, ShownCurrent
  <2>5. ShownInv'
    <3>1. look'.on \in BOOLEAN
      BY <2>2
    <3>2. pc' \notin {"idle", "next", "super write"}
      BY <2>1
    <3>3. ASSUME pc' = "toggle"
          PROVE  /\ look'.setting \in HasCaches' \ {"super"} /\ look'.current \subseteq Bits'
                 /\ chip'.cacr \ lost' = look'.current \ lost'
      <4>1. s # "super"
        BY <2>1, <3>3
      <4> QED
        BY <1>2, <1>4, <2>1, <2>2, <2>3, <4>1
    <3> QED
      BY <3>1, <3>2, <3>3 DEF ShownInv
  <2> QED
    BY <1>2, <1>3, <1>5, <2>1, <2>5
<1>8. CASE Toggle
  <2>1. pc = "toggle" /\ pc' = "caches"
    BY <1>8 DEF Toggle
  <2>2. /\ look.setting \in HasCaches \ {"super"} /\ look.current \subseteq Bits
        /\ ~UsesExec => chip.cacr \ lost = look.current \ lost
        /\ look.on \in BOOLEAN
    BY <2>1 DEF WorkInv, ShownInv, Toggles
  <2> DEFINE s == look.setting
  <2>3. /\ wanted'.cacr = Switched(wanted.cacr, s, look.on)
        /\ lost' = lost \ Group(s)
        /\ UNCHANGED <<wanted.pcr, chip.pcr>>
    BY <1>8 DEF Toggle, SetBits, HardwareInv, Fields
  <2>4. Group(s) \subseteq Bits
    BY <1>2, <2>2, GroupInBits
  <2>5. \/ chip'.cacr = Switched(chip.cacr, s, look.on)
        \/ ~UsesExec /\ chip'.cacr = Switched(look.current, s, look.on)
    <3> DEFINE flags == Expand(FlagOf(s))
               new == IF look.on THEN To030(look.current) \cup flags
                      ELSE To030(look.current) \ flags
    <3>1. CASE UsesExec
      BY <1>8, <3>1 DEF Toggle, HardwareInv, Fields
    <3>2. CASE ~UsesExec
      <4>1. chip'.cacr = (chip.cacr \ Bits) \cup (To040(new) \cap Bits)
        BY <1>8, <3>2 DEF Toggle, SetBits, HardwareInv, Fields
      <4>2. To040(new) \cap Bits = Switched(look.current, s, look.on)
        BY <1>2, <2>2, <3>2, WholeRegister
      <4>3. chip.cacr \ Bits = {}
        BY <1>2
      <4> QED
        BY <3>2, <4>1, <4>2, <4>3
    <3> QED
      BY <3>1, <3>2
  <2>6. chip'.cacr \ lost' = wanted'.cacr \ lost'
    BY <1>2, <2>2, <2>3, <2>5 DEF Switched
  <2>7. chip'.cacr \subseteq Bits /\ wanted'.cacr \subseteq Bits
    BY <1>2, <2>2, <2>3, <2>4, <2>5 DEF Switched
  <2> QED
    BY <1>2, <1>3, <1>5, <2>1, <2>3, <2>6, <2>7 DEF ShownInv, Toggles
<1>9. CASE ToggleSuper
  <2>1. pc = "toggle super" /\ pc' = "super write" /\ look.on \in BOOLEAN
    BY <1>9 DEF ToggleSuper, WorkInv, ShownInv, Toggles
  <2>2. /\ UNCHANGED <<chip.cacr, wanted.cacr, lost>>
        /\ chip'.pcr = IF look.on THEN {"ESS"} ELSE {}
        /\ wanted'.pcr = IF look.on THEN wanted.pcr \cup {"ESS"} ELSE wanted.pcr \ {"ESS"}
    BY <1>9 DEF ToggleSuper, HardwareInv, Fields
  <2>3. look'.current = chip.cacr /\ look'.on = look.on
    BY <1>9 DEF ToggleSuper, WorkInv, MoreFields
  <2>4. chip'.pcr = wanted'.pcr \cap {"ESS"}
    BY <2>1, <2>2
  <2>5. ShownInv'
    BY <2>1, <2>2, <2>3 DEF ShownInv, Toggles
  <2> QED
    BY <1>2, <1>3, <1>5, <2>2, <2>4, <2>5
<1>10. CASE WriteSuper
  <2>1. pc = "super write" /\ pc' = "caches"
    BY <1>10 DEF WriteSuper
  <2>2. look.current \ lost \subseteq chip.cacr /\ look.on \in BOOLEAN
    BY <2>1 DEF WorkInv, ShownInv, Toggles
  <2>3. /\ chip'.cacr = (chip.cacr \ (SuperBits \cup {"EBC", "ESB"}))
                        \cup (SuperBits \cap Bits)
        /\ wanted'.cacr = Switched(wanted.cacr, "super", look.on)
        /\ lost' = lost \ Group("super")
        /\ UNCHANGED <<chip.pcr, wanted.pcr>>
    BY <1>10 DEF WriteSuper, SetBits, HardwareInv, Fields
  <2>4. Group("super") = {"EBC", "ESB"} \cap Bits
    BY DEF Group
  <2>5. SuperBits = IF look.on THEN look.current \cup {"EBC", "ESB"}
                    ELSE look.current \ {"EBC", "ESB"}
    BY DEF SuperBits
  <2>6. chip'.cacr \ lost' = wanted'.cacr \ lost'
    BY <1>2, <2>2, <2>3, <2>4, <2>5 DEF Switched
  <2>7. chip'.cacr \subseteq Bits /\ wanted'.cacr \subseteq Bits
    BY <1>2, <2>3, <2>4 DEF Switched
  <2> QED
    BY <1>2, <1>3, <1>5, <2>1, <2>3, <2>6, <2>7 DEF ShownInv, Toggles
<1>11. CASE Tamper
  <2>1. PICK b \in Bits :
          /\ chip' = [chip EXCEPT !.cacr = IF b \in chip.cacr THEN @ \ {b} ELSE @ \cup {b}]
          /\ wanted' = [wanted EXCEPT !.cacr =
                          IF b \in chip.cacr THEN @ \ {b} ELSE @ \cup {b}]
          /\ lost' = IF WritesBack(b) THEN lost \cup {b} ELSE lost \ {b}
    BY <1>11 DEF Tamper
  <2>2. UNCHANGED <<pc, info, look>>
    BY <1>11 DEF Tamper
  <2>3. /\ chip'.cacr = IF b \in chip.cacr THEN chip.cacr \ {b} ELSE chip.cacr \cup {b}
        /\ wanted'.cacr = IF b \in chip.cacr THEN wanted.cacr \ {b}
                          ELSE wanted.cacr \cup {b}
        /\ UNCHANGED <<chip.pcr, wanted.pcr>>
    BY <2>1 DEF HardwareInv, Fields
  <2>4. chip'.cacr \ lost' = wanted'.cacr \ lost'
    BY <1>2, <2>1, <2>3
  <2>5. chip'.cacr \subseteq Bits /\ wanted'.cacr \subseteq Bits
    BY <1>2, <2>3
  <2>6. ASSUME pc = "toggle", ~UsesExec
        PROVE  chip'.cacr \ lost' = look.current \ lost'
    <3>1. lost' = lost \cup {b}
      BY <2>1, <2>6 DEF WritesBack
    <3>2. chip.cacr \ lost = look.current \ lost
      BY <2>6 DEF WorkInv, ShownInv
    <3> QED
      BY <2>3, <3>1, <3>2
  <2>7. ASSUME pc = "super write"
        PROVE  look.current \ lost' \subseteq chip'.cacr
    <3>1. look.current \ lost \subseteq chip.cacr
      BY <2>7 DEF WorkInv, ShownInv
    <3>2. b \in look.current => lost' = lost \cup {b}
      BY <2>1, <2>7 DEF WritesBack
    <3>3. lost \ {b} \subseteq lost'
      BY <2>1
    <3> QED
      BY <2>3, <3>1, <3>2, <3>3
  <2>8. ShownInv'
    <3>1. pc \notin {"idle", "next"}
      BY <1>11 DEF Tamper
    <3>2. ShownInv
      BY DEF WorkInv
    <3> QED
      BY <1>4, <2>2, <2>6, <2>7, <3>1, <3>2 DEF ShownInv
  <2> QED
    BY <1>2, <1>3, <1>5, <2>3, <2>4, <2>5, <2>8
<1> QED
  BY <1>6, <1>7, <1>8, <1>9, <1>10, <1>11
-----------------------------------------------------------------------------
(* The steps of the chips *)

\* They begin and end in their own stages.
LEMMA ChipPlaces ==
  ASSUME WorkInv, NEW plain \in BOOLEAN, ChipStep(plain)
  PROVE  /\ pc \notin Early \cup Late \cup {"mmu type", "remap close"}
         /\ pc' \notin Early \cup (Late \ {"next"}) \cup {"mmu type", "remap close"}
<1> USE DEF Step, Go, Ask, AskAt, Probe, LeavePass, Early, Trying, Late, Toggles
<1>2. CASE DetectChipset \/ SavePower \/ TestCycle \/ TestGood \/ TestMirror
  BY <1>2 DEF DetectChipset, SavePower, TestCycle, TestGood, TestMirror
<1>3. CASE StartId \/ DisturbId \/ ReadId \/ DetectRamsey \/ Read
  BY <1>3 DEF StartId, DisturbId, ReadId, DetectRamsey, Read, TrapRead
<1>4. CASE StartDma \/ Ask770 \/ Read770 \/ Ask710 \/ Read710 \/ AskConfig \/ ReadConfig
  BY <1>4 DEF StartDma, Ask770, Read770, Ask710, Read710, AskConfig, ReadConfig
<1>5. CASE AskSignature \/ ReadSignature \/ AskIstr \/ ReadIstr \/ AskAsr \/ ReadAsr
  BY <1>5 DEF AskSignature, ReadSignature, AskIstr, ReadIstr, AskAsr, ReadAsr
<1>6. CASE \/ StartPass \/ PassAsr \/ PassStatus("pass asr read", "pass istr")
           \/ PassIstr \/ PassStatus("pass istr read", "pass wtc") \/ PassWtc
  BY <1>6 DEF StartPass, PassAsr, PassStatus, PassIstr, PassWtc
<1>7. CASE PassWrite \/ PassBack \/ PassRestore \/ PassJudge \/ DetectSlots
  BY <1>7 DEF PassWrite, PassBack, PassRestore, PassJudge, DetectSlots
<1>8. CASE StartAlias(plain) \/ AliasPass \/ AskUpper \/ AliasRead
  BY <1>8 DEF StartAlias, AliasPass, AskUpper, AliasRead
<1>9. CASE DetectClock \/ AskClock(plain) \/ ReadClock \/ OpenBatt \/ ReadBatt
  BY <1>9 DEF DetectClock, AskClock, ReadClock, OpenBatt, ReadBatt
<1> QED
  BY <1>2, <1>3, <1>4, <1>5, <1>6, <1>7, <1>8, <1>9 DEF ChipStep

\* They mask the interrupts and forbid other tasks where the code does, and end
\* so; a protected read leaves the mask as it was.
LEMMA ChipMasks ==
  ASSUME WorkInv, HardwareInv, NEW plain \in BOOLEAN, ChipStep(plain), UNCHANGED machine
  PROVE  MaskInv'
<1> USE DEF WorkInv, MaskInv, HardwareInv, Fields, Step, Go, Ask, AskAt, Probe, NoTrap,
            LeavePass, trapVars, masks, TasksRun, Hooked, Shut, Pass, OwnTableUsed, Backs,
            Masked, Alone, KeptOff
<1>2. CASE DetectChipset \/ SavePower \/ TestCycle \/ TestGood \/ TestMirror
  BY <1>2 DEF DetectChipset, SavePower, TestCycle, TestGood, TestMirror
<1>3. CASE StartId \/ DisturbId \/ ReadId \/ DetectRamsey \/ Read
  BY ZenonT(60), <1>3 DEF StartId, DisturbId, ReadId, DetectRamsey, Read, TrapRead
<1>4. CASE StartDma \/ Ask770 \/ Read770 \/ Ask710 \/ Read710 \/ AskConfig \/ ReadConfig
  BY ZenonT(60), <1>4 DEF StartDma, Ask770, Read770, Ask710, Read710, AskConfig, ReadConfig
<1>5. CASE AskSignature \/ ReadSignature \/ AskIstr \/ ReadIstr \/ AskAsr \/ ReadAsr
  BY ZenonT(60), <1>5 DEF AskSignature, ReadSignature, AskIstr, ReadIstr, AskAsr, ReadAsr
<1>6. CASE \/ StartPass \/ PassAsr \/ PassStatus("pass asr read", "pass istr")
           \/ PassIstr \/ PassStatus("pass istr read", "pass wtc") \/ PassWtc
  BY <1>6 DEF StartPass, PassAsr, PassStatus, PassIstr, PassWtc
<1>7. CASE PassWrite \/ PassBack \/ PassRestore \/ PassJudge \/ DetectSlots
  BY <1>7 DEF PassWrite, PassBack, PassRestore, PassJudge, DetectSlots
<1>8. CASE StartAlias(plain) \/ AliasPass \/ AskUpper \/ AliasRead
  BY <1>8 DEF StartAlias, AliasPass, AskUpper, AliasRead
<1>9. CASE DetectClock \/ AskClock(plain) \/ ReadClock \/ OpenBatt \/ ReadBatt
  <2>1. CASE DetectClock \/ ReadClock
    BY <1>9, <2>1 DEF DetectClock, ReadClock
  <2>2. CASE AskClock(plain)
    <3>1. CASE plain
      <4>1. /\ pc = "clock" /\ pc' = "trap read" /\ forbid' = forbid /\ disabled' = TRUE
            /\ trap' = [NoTrap EXCEPT !.register = "TIME", !.back = "clock read",
                                      !.was = disabled]
        BY <2>2, <3>1 DEF AskClock
      <4>2. trap'.back = "clock read" /\ trap'.was = disabled
        BY <4>1
      <4> QED
        BY <4>1, <4>2
    <3>2. CASE ~plain
      BY <2>2, <3>2 DEF AskClock
    <3> QED
      BY <3>1, <3>2
  <2>3. CASE OpenBatt
    BY <1>9, <2>3 DEF OpenBatt
  <2>4. CASE ReadBatt
    BY <1>9, <2>4 DEF ReadBatt
  <2> QED
    BY <1>9, <2>1, <2>2, <2>3, <2>4
<1> QED
  BY <1>2, <1>3, <1>4, <1>5, <1>6, <1>7, <1>8, <1>9 DEF ChipStep

\* They hold the buffer and the semaphore only where they use them.
LEMMA ChipHolds ==
  ASSUME WorkInv, HardwareInv, NEW plain \in BOOLEAN, ChipStep(plain),
         UNCHANGED <<cpuVars, machine>>
  PROVE  HeldInv'
<1>1. library' # "closed" => pc' \in {"mmu type", "remap close"}
  BY ChipPlaces DEF WorkInv, HeldInv, cpuVars
<1> USE <1>1 DEF WorkInv, HeldInv, HardwareInv, Fields, At, Step, Go, Ask, AskAt, Probe, NoTrap,
            LeavePass, trapVars, chipVars, Hooked, AliasLabels, Released
<1>2. CASE DetectChipset \/ SavePower \/ TestCycle \/ TestGood \/ TestMirror
  BY <1>2 DEF DetectChipset, SavePower, TestCycle, TestGood, TestMirror
<1>3. CASE StartId \/ DisturbId \/ ReadId \/ DetectRamsey \/ Read
  BY <1>3 DEF StartId, DisturbId, ReadId, DetectRamsey, Read, TrapRead
<1>4. CASE StartDma \/ Ask770 \/ Read770 \/ Ask710 \/ Read710 \/ AskConfig \/ ReadConfig
  BY <1>4 DEF StartDma, Ask770, Read770, Ask710, Read710, AskConfig, ReadConfig
<1>5. CASE AskSignature \/ ReadSignature \/ AskIstr \/ ReadIstr \/ AskAsr \/ ReadAsr
  BY <1>5 DEF AskSignature, ReadSignature, AskIstr, ReadIstr, AskAsr, ReadAsr
<1>6. CASE \/ StartPass \/ PassAsr \/ PassStatus("pass asr read", "pass istr")
           \/ PassIstr \/ PassStatus("pass istr read", "pass wtc") \/ PassWtc
  BY <1>6 DEF StartPass, PassAsr, PassStatus, PassIstr, PassWtc
<1>7. CASE PassWrite \/ PassBack \/ PassRestore \/ PassJudge \/ DetectSlots
  BY <1>7 DEF PassWrite, PassBack, PassRestore, PassJudge, DetectSlots
<1>8. CASE StartAlias(plain) \/ AliasPass \/ AskUpper \/ AliasRead
  BY <1>8 DEF StartAlias, AliasPass, AskUpper, AliasRead
<1>9. CASE DetectClock \/ AskClock(plain) \/ ReadClock \/ OpenBatt \/ ReadBatt
  BY <1>9 DEF DetectClock, AskClock, ReadClock, OpenBatt, ReadBatt
<1> QED
  BY <1>2, <1>3, <1>4, <1>5, <1>6, <1>7, <1>8, <1>9 DEF ChipStep

\* The power register of a Fat Gary is written back.
LEMMA ChipPower ==
  ASSUME WorkInv, HardwareInv, NEW plain \in BOOLEAN, ChipStep(plain), UNCHANGED machine
  PROVE  PowerInv' /\ DOMAIN gary' = {"power", "bus", "serial"} /\ "saved" \in DOMAIN test'
<1> USE DEF WorkInv, PowerInv, MoreFields, Step, Go, Ask, AskAt, Probe,
            LeavePass, chipVars, Fat, Power, Drive, PowerBack, NoTest
<1>2. CASE DetectChipset \/ SavePower \/ TestCycle \/ TestGood \/ TestMirror
  BY <1>2 DEF DetectChipset, SavePower, TestCycle, TestGood, TestMirror
<1>3. CASE StartId \/ DisturbId \/ ReadId \/ DetectRamsey \/ Read
  <2>1. CASE StartId \/ DisturbId
    BY <1>3, <2>1 DEF StartId, DisturbId
  <2>2. CASE ReadId
    <3>1. pc = "gary bits" /\ pc' \in {"next", "gary id"} /\ UNCHANGED gary
          /\ (test' = NoTest \/ \E id : test' = [test EXCEPT !.first = id])
      BY <2>2 DEF ReadId
    <3> QED
      BY <3>1
  <2>3. CASE DetectRamsey \/ Read
    BY <1>3, <2>3 DEF DetectRamsey, Read, TrapRead
  <2> QED
    BY <1>3, <2>1, <2>2, <2>3
<1>4. CASE StartDma \/ Ask770 \/ Read770 \/ Ask710 \/ Read710 \/ AskConfig \/ ReadConfig
  BY <1>4 DEF StartDma, Ask770, Read770, Ask710, Read710, AskConfig, ReadConfig
<1>5. CASE AskSignature \/ ReadSignature \/ AskIstr \/ ReadIstr \/ AskAsr \/ ReadAsr
  BY <1>5 DEF AskSignature, ReadSignature, AskIstr, ReadIstr, AskAsr, ReadAsr
<1>6. CASE \/ StartPass \/ PassAsr \/ PassStatus("pass asr read", "pass istr")
           \/ PassIstr \/ PassStatus("pass istr read", "pass wtc") \/ PassWtc
  BY <1>6 DEF StartPass, PassAsr, PassStatus, PassIstr, PassWtc
<1>7. CASE PassWrite \/ PassBack \/ PassRestore \/ PassJudge \/ DetectSlots
  BY <1>7 DEF PassWrite, PassBack, PassRestore, PassJudge, DetectSlots
<1>8. CASE StartAlias(plain) \/ AliasPass \/ AskUpper \/ AliasRead
  BY <1>8 DEF StartAlias, AliasPass, AskUpper, AliasRead
<1>9. CASE DetectClock \/ AskClock(plain) \/ ReadClock \/ OpenBatt \/ ReadBatt
  BY <1>9 DEF DetectClock, AskClock, ReadClock, OpenBatt, ReadBatt
<1> QED
  BY <1>2, <1>3, <1>4, <1>5, <1>6, <1>7, <1>8, <1>9 DEF ChipStep

\* The end of a protected read, and the branch prediction error before it.
LEMMA TrapWork ==
  ASSUME WorkInv, HardwareInv, TrapLeave \/ BranchError,
         UNCHANGED <<chipVars, cpuVars, machine, stage>>
  PROVE  /\ MaskInv' /\ HeldInv' /\ PowerInv'
         /\ pc \notin Early \cup Late /\ pc' \notin Early \cup (Late \ {"next"})
<1>1. CASE TrapLeave
  <2>1. /\ pc = "trap leave" /\ pc' = trap.back /\ UNCHANGED <<forbid, trap>>
        /\ disabled' = trap.was
    BY <1>1 DEF TrapLeave, Go
  <2>2. trap.back \in Backs /\ trap.was \in BOOLEAN
        /\ (trap.was = TRUE <=> trap.back \in Shut)
    BY <2>1 DEF WorkInv, MaskInv, Hooked
  <2>3. Backs \cap (Hooked \cup Early \cup Late) = {}
        /\ Backs \cap {"gary id", "gary bits", "gary mirror", "gary cycle", "gary good",
                       "mmu type", "remap close", "batt read"} = {}
    BY DEF Backs, Hooked, Early, Trying, Late, Toggles
  <2>4. forbid' = 0
    BY <2>1 DEF WorkInv, MaskInv
  <2>5. MaskInv'
    BY <2>1, <2>2, <2>3, <2>4 DEF MaskInv
  <2>6. HeldInv'
    BY <2>1, <2>2, <2>3 DEF WorkInv, HeldInv, At, Hooked, chipVars, cpuVars
  <2>7. PowerInv'
    BY <2>1, <2>2, <2>3 DEF WorkInv, PowerInv, chipVars, Fat
  <2> QED
    BY <2>1, <2>2, <2>3, <2>5, <2>6, <2>7 DEF Hooked, Early, Trying, Late, Toggles
<1>2. CASE BranchError
  <2>1. /\ pc = "trap read" /\ pc' \in Hooked /\ UNCHANGED <<masks, trap.back, trap.was>>
    BY <1>2 DEF BranchError, Hooked, HardwareInv, Fields
  <2>2. MaskInv'
    BY <2>1 DEF WorkInv, MaskInv, masks, Hooked
  <2>3. HeldInv'
    BY <2>1 DEF WorkInv, HeldInv, At, Hooked, chipVars, cpuVars
  <2>4. PowerInv'
    BY <2>1 DEF WorkInv, PowerInv, chipVars, Hooked, Fat
  <2> QED
    BY <2>1, <2>2, <2>3, <2>4 DEF Hooked, Early, Trying, Late, Toggles
<1> QED
  BY <1>1, <1>2
-----------------------------------------------------------------------------
LEMMA WorkKept ==
  ASSUME WorkInv, UNCHANGED <<pc, masks, machine, trap, cpuVars, gary, test, held, stage,
                              presses>>
  PROVE  WorkInv'
<1> USE DEF WorkInv, cpuVars, masks
<1>1. MoreFields'
  BY DEF MoreFields
<1>2. MaskInv' /\ HeldInv' /\ PowerInv'
  BY DEF MaskInv, HeldInv, PowerInv, At, Fat
<1>3. BitInv' /\ FamilyInv' /\ OrderInv'
  BY ZenonT(60) DEF BitInv, Bits, FamilyInv, OrderInv
<1>4. ShownInv'
  BY DEF ShownInv, ShownCurrent, HasCaches, Group, Bits, UsesExec, Exec36, SuperOn
<1>5. LostInv' /\ RootInv'
  BY DEF LostInv, RootInv, UsesExec, Exec36
<1> QED
  BY <1>1, <1>2, <1>3, <1>4, <1>5

LEMMA ChipWork ==
  ASSUME WorkInv, HardwareInv, Chips, UNCHANGED machine
  PROVE  WorkInv'
<1>1. UNCHANGED <<cpuVars, stage, machine, presses>>
  BY DEF Chips
<1>2. UNCHANGED <<chip, wanted, lost, info, look>>
  BY <1>1 DEF cpuVars
<1>3. ASSUME MaskInv', HeldInv', PowerInv', DOMAIN gary' = {"power", "bus", "serial"},
             "saved" \in DOMAIN test', pc \notin Early \cup Late,
             pc' \notin Early \cup (Late \ {"next"})
      PROVE  WorkInv'
  <2>1. TypeFits(info'.type)
    BY <1>2, <1>3 DEF WorkInv, FamilyInv, TypeFits
  <2>2. BitInv' /\ FamilyInv' /\ ShownInv'
    BY <1>1, <1>2, <1>3, <2>1, RegistersKept
  <2>3. OrderInv'
    BY <1>1, <1>2, <1>3, StaysInOrder DEF WorkInv
  <2>4. MoreFields'
    BY <1>1, <1>2, <1>3 DEF WorkInv, MoreFields
  <2>5. LostInv' /\ RootInv'
    <3>1. pc' \notin Toggles /\ pc' \notin {"toggle super", "super write"}
      BY <1>3 DEF Late, Toggles
    <3>2. LostInv /\ RootInv
      BY DEF WorkInv
    <3>3. UsesExec' <=> UsesExec
      BY <1>1, <1>2 DEF UsesExec, Exec36
    <3>4. LostInv'
      BY <1>1, <1>2, <3>1, <3>2, <3>3 DEF LostInv
    <3> QED
      BY <1>1, <1>2, <3>2, <3>4 DEF RootInv
  <2> QED
    BY <1>3, <2>2, <2>3, <2>4, <2>5 DEF WorkInv
<1>4. ASSUME NEW plain \in BOOLEAN, ChipStep(plain)
      PROVE  WorkInv'
  BY <1>1, <1>3, <1>4, ChipPlaces, ChipMasks, ChipHolds, ChipPower
<1>5. CASE (BranchError \/ TrapLeave) /\ UNCHANGED chipVars
  <2>1. DOMAIN gary' = {"power", "bus", "serial"} /\ "saved" \in DOMAIN test'
    BY <1>5 DEF chipVars, WorkInv, MoreFields
  <2> QED
    BY <1>1, <1>3, <1>5, <2>1, TrapWork
<1>6. CASE ScsiStep
  BY <1>1, <1>6, ScsiSteps, WorkKept DEF trapVars
<1> QED
  BY <1>4, <1>5, <1>6 DEF Chips, Plain

\* The stages before the last begin with labels that are neither early nor late,
\* save the first.
LEMMA StageBegins ==
  ASSUME NEW i \in 2 .. 14
  PROVE  /\ Stages[i] \notin Early \cup (Late \ {"caches"})
         /\ Stages[i] \notin Hooked \cup Shut \cup AliasLabels
         /\ Stages[i] \notin {"gary id", "gary bits", "gary mirror", "gary cycle",
                              "gary good", "mmu type", "remap close", "batt read"}
         /\ Stages[i] = "caches" <=> i = 14
<1>1. i \in {2, 3, 4, 5, 6, 7, 8, 9, 10, 11, 12, 13, 14}
  OBVIOUS
<1>2. CASE i \in {2, 3, 4, 5, 6, 7, 8, 9, 10, 11, 12, 13}
  <2>1. Stages[i] \in {"fpu", "mmu", "remap", "vbr", "chipset", "gary", "ramsey",
                       "dma", "slots", "alias", "clock", "batt"}
    BY <1>2 DEF Stages
  <2>2. Stages[i] \notin Early \cup Late
    BY <2>1 DEF Early, Trying, Late, Toggles
  <2>3. Stages[i] \notin Hooked \cup Shut \cup AliasLabels
    BY <2>1 DEF Hooked, Shut, Pass, OwnTableUsed, AliasLabels
  <2>4. Stages[i] \notin {"gary id", "gary bits", "gary mirror", "gary cycle",
                          "gary good", "mmu type", "remap close", "batt read", "caches"}
    BY <2>1
  <2>5. i # 14
    BY <1>2
  <2> QED
    BY <2>2, <2>3, <2>4, <2>5
<1>3. CASE i = 14
  <2>1. Stages[i] = "caches"
    BY <1>3 DEF Stages
  <2> QED
    BY <1>3, <2>1 DEF Early, Trying, Late, Toggles, Hooked, Shut, Pass, OwnTableUsed,
                      AliasLabels
<1> QED
  BY <1>1, <1>2, <1>3

LEMMA StageWork ==
  ASSUME WorkInv, HardwareInv, NextStage, UNCHANGED machine
  PROVE  WorkInv'
<1>1. /\ pc = "next" /\ stage \in 1 .. 14 /\ Len(Stages) = 14
      /\ UNCHANGED <<masks, trapVars, cpuVars, chipVars, machine>>
  BY DEF NextStage, Stages, WorkInv, OrderInv
<1>2. \/ stage \in 1 .. 13 /\ stage' = stage + 1 /\ pc' = Stages[stage + 1]
      \/ stage = 14 /\ stage' = 0 /\ pc' = "idle"
  BY <1>1 DEF NextStage
<1>3. /\ pc' \notin Early \cup Toggles \cup Hooked \cup Shut \cup AliasLabels \cup {"next"}
      /\ pc' \notin {"gary id", "gary bits", "gary mirror", "gary cycle",
                     "gary good", "mmu type", "remap close", "batt read"}
      /\ pc' = "caches" <=> stage = 13
      /\ pc' = "idle" <=> stage = 14
  <2>1. CASE stage \in 1 .. 13
    <3>1. stage + 1 \in 2 .. 14 /\ pc' = Stages[stage + 1]
      BY <1>2, <2>1
    <3>2. /\ pc' \notin Early \cup (Late \ {"caches"})
          /\ pc' \notin Hooked \cup Shut \cup AliasLabels
          /\ pc' \notin {"gary id", "gary bits", "gary mirror", "gary cycle",
                         "gary good", "mmu type", "remap close", "batt read"}
          /\ pc' = "caches" <=> stage + 1 = 14
      BY <3>1, StageBegins
    <3>3. pc' \notin Toggles \cup {"next", "idle"}
      BY <3>2 DEF Late, Toggles
    <3>4. (stage + 1 = 14 <=> stage = 13) /\ stage # 14
      BY <2>1
    <3> QED
      BY <3>2, <3>3, <3>4
  <2>2. CASE stage = 14
    <3>1. pc' = "idle" /\ stage # 13
      BY <1>2, <2>2
    <3> QED
      BY <2>2, <3>1 DEF Early, Trying, Toggles, Hooked, Shut, Pass, OwnTableUsed,
                        AliasLabels
  <2>3. stage \in 1 .. 13 \/ stage = 14
    BY <1>1
  <2> QED
    BY <2>1, <2>2, <2>3
<1> USE DEF WorkInv, cpuVars, chipVars, masks, trapVars
<1>4. MoreFields'
  BY <1>1 DEF MoreFields
<1>5. MaskInv' /\ PowerInv'
  BY <1>1, <1>3 DEF MaskInv, PowerInv, Hooked, Shut, Pass, OwnTableUsed, Fat
<1>6. HeldInv'
  BY <1>1, <1>3 DEF HeldInv, At, Hooked, AliasLabels
<1>7. BitInv' /\ FamilyInv'
  BY <1>1, <1>3 DEF BitInv, FamilyInv, Bits, Early, Trying
<1>8. OrderInv'
  <2>1. look.setting = "none"
    BY <1>1 DEF OrderInv, Toggles
  <2>2. look'.setting = "none" /\ pc' \notin Toggles \cup {"next"}
    BY <1>1, <1>3, <2>1
  <2>3. CASE stage = 14
    BY <1>2, <2>2, <2>3 DEF OrderInv, Late
  <2>4. CASE stage = 13
    <3>1. stage' = 14 /\ pc' = "caches"
      BY <1>2, <1>3, <2>4
    <3>2. stage' \in 0 .. 14 /\ stage' \in {0, 14} /\ stage' # 0 /\ "caches" \in Late
      BY <3>1 DEF Late
    <3>3. pc' \notin {"idle"} \cup Toggles \cup {"next"}
      BY <3>1 DEF Toggles
    <3> QED
      BY <2>2, <3>1, <3>2, <3>3 DEF OrderInv
  <2>5. CASE stage \in 1 .. 12
    <3>1. stage' \in 1 .. 13 /\ stage' \in 0 .. 14 /\ stage # 13 /\ stage # 14
      BY <1>2, <2>5
    <3>2. pc' \notin {"caches", "idle"}
      BY <1>3, <3>1
    <3> QED
      BY <2>2, <3>1, <3>2 DEF OrderInv, Toggles
  <2>6. stage = 14 \/ stage = 13 \/ stage \in 1 .. 12
    BY <1>1
  <2> QED
    BY <2>3, <2>4, <2>5, <2>6
<1>9. ShownInv'
  <2>1. pc' = "idle" => ShownCurrent
    BY <1>1, <1>3 DEF ShownInv
  <2>2. ShownCurrent' <=> ShownCurrent
    BY <1>1 DEF ShownCurrent, HasCaches, Group, Bits, SuperOn
  <2> QED
    BY <1>3, <2>1, <2>2 DEF ShownInv, Toggles
<1>10. RootInv'
  BY <1>1 DEF RootInv
<1>11. LostInv'
  <2>1. presses = 0 /\ presses' = presses
    BY <1>1 DEF LostInv, NextStage, OrderInv
  <2>2. pc' \notin Toggles
    BY <1>3
  <2> QED
    BY <1>1, <2>1, <2>2 DEF LostInv, UsesExec, Exec36, Toggles
<1> QED
  BY <1>4, <1>5, <1>6, <1>7, <1>8, <1>9, <1>10, <1>11

\* A button is counted when it is pressed.
Counted == presses' = presses + IF pc = "idle" /\ pc' # "idle" THEN 1 ELSE 0

LEMMA CountedOnce ==
  ASSUME presses \in Nat, Counted
  PROVE  /\ presses' \in Nat
         /\ presses # 0 => presses' # 0
         /\ pc # "idle" => presses' = presses
         /\ pc = "idle" /\ pc' # "idle" => presses' # 0
BY DEF Counted

\* What is lost is lost by the second half of a toggle that writes everything.
LEMMA LostKept ==
  ASSUME WorkInv, HardwareInv, CpuStep, UNCHANGED <<chipVars, machine, stage>>, Counted,
         OrderInv'
  PROVE  LostInv'
<1> USE DEF Go, Idle, OwnTable
<1>1. presses \in Nat
  BY DEF WorkInv, LostInv
<1>2. CASE stage # 0
  <2>1. presses = 0 /\ lost = {} /\ chip.pcr = wanted.pcr
    BY <1>2 DEF WorkInv, LostInv
  <2>2. pc \notin {"idle"} \cup Toggles /\ pc' \notin Toggles
    BY <1>2 DEF WorkInv, OrderInv, Toggles
  <2>3. presses' = 0
    BY <1>1, <2>1, <2>2, CountedOnce
  <2>4. lost' = {}
    <3>1. CASE Tamper
      BY <2>1, <2>2, <3>1 DEF Tamper, WritesBack, Toggles
    <3>2. CASE \/ DetectCpu \/ SetTestBit \/ ReadTestBit \/ ResetTestBit
               \/ GetCpu060 \/ LeaveCpu060 \/ DetectFpu \/ OpenMmu \/ MmuType \/ TestMmu
      BY <2>1, <3>2 DEF DetectCpu, SetTestBit, ReadTestBit, ResetTestBit, GetCpu060,
                        LeaveCpu060, DetectFpu, OpenMmu, MmuType, TestMmu
    <3>3. CASE \/ TryMmu \/ LeaveOwnTree \/ LeaveMmu \/ Translation \/ ReadTranslation
               \/ LoadRemap \/ CloseRemap \/ ReadVbr \/ RefreshCaches
               \/ \E s \in Settings : Press(s)
      BY <2>1, <3>3 DEF TryMmu, LeaveOwnTree, LeaveMmu, Translation, ReadTranslation,
                        LoadRemap, CloseRemap, ReadVbr, RefreshCaches, Press
    <3>4. CASE Toggle \/ ToggleSuper \/ WriteSuper
      BY <2>2, <3>4 DEF Toggle, ToggleSuper, WriteSuper, Toggles
    <3> QED
      BY <3>1, <3>2, <3>3, <3>4 DEF CpuStep
  <2>5. chip'.pcr = wanted'.pcr
    <3> USE <2>1 DEF HardwareInv, Fields
    <3>1. CASE Tamper
      BY <3>1 DEF Tamper
    <3>2. CASE \/ DetectCpu \/ SetTestBit \/ ReadTestBit \/ ResetTestBit
               \/ GetCpu060 \/ LeaveCpu060 \/ DetectFpu \/ OpenMmu \/ MmuType \/ TestMmu
      BY <3>2 DEF DetectCpu, SetTestBit, ReadTestBit, ResetTestBit, GetCpu060,
                  LeaveCpu060, DetectFpu, OpenMmu, MmuType, TestMmu, SetBits
    <3>3. CASE \/ TryMmu \/ LeaveOwnTree \/ LeaveMmu \/ Translation \/ ReadTranslation
               \/ LoadRemap \/ CloseRemap \/ ReadVbr \/ RefreshCaches
               \/ \E s \in Settings : Press(s)
      BY <3>3 DEF TryMmu, LeaveOwnTree, LeaveMmu, Translation, ReadTranslation,
                  LoadRemap, CloseRemap, ReadVbr, RefreshCaches, Press
    <3>4. CASE Toggle \/ ToggleSuper \/ WriteSuper
      BY <2>2, <3>4 DEF Toggle, ToggleSuper, WriteSuper, Toggles
    <3> QED
      BY <3>1, <3>2, <3>3, <3>4 DEF CpuStep
  <2>6. pc' \notin {"toggle super", "super write"}
    BY <2>2 DEF Toggles
  <2> QED
    BY <2>2, <2>3, <2>4, <2>5, <2>6 DEF LostInv
<1>3. CASE stage = 0
  <2>1. pc \in {"idle", "caches"} \cup Toggles
    <3>1. stage \notin 1..13
      BY <1>3
    <3> QED
      BY <1>3, <3>1 DEF WorkInv, OrderInv, Late
  <2>2. \/ RefreshCaches \/ (\E s \in Settings : Press(s)) \/ Toggle \/ ToggleSuper
        \/ WriteSuper \/ Tamper
    BY <2>1 DEF CpuStep, Toggles, DetectCpu, SetTestBit, ReadTestBit, ResetTestBit, GetCpu060,
            LeaveCpu060, DetectFpu, OpenMmu, MmuType, TestMmu, TryMmu, LeaveOwnTree,
            LeaveMmu, Translation, ReadTranslation, LoadRemap, CloseRemap, ReadVbr
  <2>3. info'.type = info.type
    BY <2>2 DEF RefreshCaches, Press, Toggle, ToggleSuper, WriteSuper, Tamper, WorkInv,
                MoreFields
  <2>4. UsesExec' = UsesExec
    BY <2>3 DEF UsesExec, Exec36
  <2>5. presses' \in Nat /\ stage' = 0
    BY <1>1, <1>3, CountedOnce
  <2>6. /\ presses = 0 => lost = {} /\ chip.pcr = wanted.pcr
        /\ UsesExec /\ info.type \notin Of060 => lost = {}
        /\ pc \in Toggles => presses # 0
        /\ pc \in {"toggle super", "super write"} => info.type \in Of060
    BY DEF WorkInv, LostInv
  <2>7. CASE RefreshCaches
    <3>1. /\ UNCHANGED <<chip, wanted, lost>> /\ pc' \notin Toggles /\ presses' = presses
      BY <1>1, <2>7, CountedOnce DEF RefreshCaches, Toggles
    <3> QED
      BY <2>3, <2>4, <2>5, <2>6, <3>1 DEF LostInv, Toggles
  <2>8. CASE \E s \in Settings : Press(s)
    <3>1. PICK s \in Settings :
            /\ pc = "idle" /\ s \in info.has /\ UNCHANGED lost
            /\ pc' = IF s = "super" THEN "toggle super" ELSE "toggle"
      BY <2>8 DEF Press
    <3>2. presses' # 0
      BY <1>1, <3>1, CountedOnce
    <3>3. s = "super" => info.type \in Of060
      BY <3>1 DEF WorkInv, ShownInv, ShownCurrent, HasCaches
    <3> QED
      BY <2>3, <2>4, <2>5, <2>6, <3>1, <3>2, <3>3 DEF LostInv
  <2>9. CASE Toggle \/ ToggleSuper \/ WriteSuper
    <3>1. lost' \subseteq lost /\ pc \in Toggles /\ pc' \in {"caches", "super write"}
          /\ (pc' = "super write" => pc = "toggle super")
      BY <2>9 DEF Toggle, ToggleSuper, WriteSuper, Toggles
    <3>2. presses' # 0
      BY <1>1, <2>6, <3>1, CountedOnce
    <3>3. lost = {} => lost' = {}
      BY <3>1
    <3> QED
      BY <2>3, <2>4, <2>5, <2>6, <3>1, <3>2, <3>3 DEF LostInv
  <2>10. CASE Tamper
    <3>1. pc' = pc /\ pc \in {"toggle", "super write"}
      BY <2>1, <2>10 DEF Tamper, Toggles
    <3>2. presses' # 0
      BY <1>1, <2>6, <3>1, CountedOnce DEF Toggles
    <3>3. UsesExec /\ info.type \notin Of060 => lost' = {}
      <4>1. SUFFICES ASSUME UsesExec, info.type \notin Of060
                     PROVE  lost' = {}
        OBVIOUS
      <4>2. pc = "toggle" /\ lost = {}
        BY <2>6, <3>1, <4>1
      <4>3. ~\E b : WritesBack(b)
        BY <4>1, <4>2 DEF WritesBack
      <4> QED
        BY <2>10, <4>2, <4>3 DEF Tamper
    <3> QED
      BY <2>3, <2>4, <2>5, <2>6, <3>1, <3>2, <3>3 DEF LostInv
  <2> QED
    BY <2>2, <2>7, <2>8, <2>9, <2>10
<1> QED
  BY <1>2, <1>3

\* The root pointer and the function code are written by the test alone.
LEMMA RootKept ==
  ASSUME WorkInv, HardwareInv, CpuStep, UNCHANGED <<chipVars, machine, stage>>
  PROVE  RootInv'
<1> USE DEF Go, Idle, OwnTable, HardwareInv, Fields
<1>1. CASE TryMmu
  <2>1. pc = "mmu try" /\ chip.tc = wanted.tc /\ wanted' = wanted
    BY <1>1 DEF TryMmu, MmuInv
  <2>2. CASE UNCHANGED <<chip.crp, chip.sfc>>
    BY <2>1, <2>2 DEF WorkInv, RootInv
  <2>3. CASE ~LeavesAlone /\ info.type \in Of030
    <3>1. wanted.tc = "off"
      BY <2>1, <2>3 DEF LeavesAlone, MmuInv
    <3>2. machine.cpu \in Of030
      <4>1. info.type # "EMU"
        BY <2>3 DEF Of030
      <4> QED
        BY <2>1, <2>3, <4>1 DEF WorkInv, FamilyInv, Early, Trying, SameFamily
    <3> QED
      BY <2>1, <3>1, <3>2 DEF RootInv
  <2> QED
    BY <1>1, <2>2, <2>3 DEF TryMmu
<1>2. CASE LeaveOwnTree
  <2>1. chip'.crp \in {"system", chip.crp} /\ chip'.sfc = chip.sfc /\ wanted' = wanted
    BY <1>2 DEF LeaveOwnTree
  <2> QED
    BY <2>1 DEF WorkInv, RootInv
<1>3. ASSUME UNCHANGED <<chip.crp, chip.sfc, wanted.tc>>
      PROVE  RootInv'
  BY <1>3 DEF WorkInv, RootInv
<1>4. CASE \/ DetectCpu \/ SetTestBit \/ ReadTestBit \/ ResetTestBit
           \/ GetCpu060 \/ LeaveCpu060 \/ DetectFpu \/ OpenMmu \/ MmuType \/ TestMmu
  BY <1>3, <1>4 DEF DetectCpu, SetTestBit, ReadTestBit, ResetTestBit, GetCpu060,
                    LeaveCpu060, DetectFpu, OpenMmu, MmuType, TestMmu, SetBits
<1>5. CASE \/ LeaveMmu \/ Translation \/ ReadTranslation \/ LoadRemap \/ CloseRemap
           \/ ReadVbr \/ RefreshCaches \/ \E s \in Settings : Press(s)
  BY <1>3, <1>5 DEF LeaveMmu, Translation, ReadTranslation, LoadRemap, CloseRemap,
                    ReadVbr, RefreshCaches, Press
<1>6. CASE Toggle \/ ToggleSuper \/ WriteSuper \/ Tamper
  BY <1>3, <1>6 DEF Toggle, ToggleSuper, WriteSuper, Tamper, SetBits
<1> QED
  BY <1>1, <1>2, <1>4, <1>5, <1>6 DEF CpuStep

LEMMA CpuWork ==
  ASSUME WorkInv, HardwareInv, CpuStep, UNCHANGED <<chipVars, machine, stage>>, Counted
  PROVE  WorkInv'
<1>1. BitInv' /\ FamilyInv' /\ ShownInv'
  <2>1. CASE \/ DetectCpu \/ SetTestBit \/ ReadTestBit \/ ResetTestBit
             \/ GetCpu060 \/ LeaveCpu060
    <3>1. pc \notin Toggles
      BY <2>1 DEF DetectCpu, SetTestBit, ReadTestBit, ResetTestBit, GetCpu060, LeaveCpu060,
                  Go, Toggles
    <3> QED
      BY <2>1, <3>1, KindBits
  <2>2. CASE \/ RefreshCaches \/ (\E s \in Settings : Press(s)) \/ Toggle \/ ToggleSuper
             \/ WriteSuper
    <3>1. pc \notin Trying
      BY <2>2 DEF RefreshCaches, Press, Toggle, ToggleSuper, WriteSuper, Go, Trying
    <3> QED
      BY <2>2, <3>1, CacheBits
  <2>3. CASE Tamper
    <3>1. pc \notin Toggles \/ pc \notin Trying
      BY DEF Toggles, Trying
    <3>2. CASE pc \notin Toggles
      BY <2>3, <3>2, KindBits
    <3>3. CASE pc \notin Trying
      BY <2>3, <3>3, CacheBits
    <3> QED
      BY <3>1, <3>2, <3>3
  <2>4. CASE \/ DetectFpu \/ OpenMmu \/ MmuType \/ TestMmu \/ TryMmu \/ LeaveOwnTree
             \/ LeaveMmu \/ Translation \/ ReadTranslation \/ LoadRemap \/ CloseRemap
             \/ ReadVbr
    BY <2>4, UnitBits
  <2> QED
    BY <2>1, <2>2, <2>3, <2>4 DEF CpuStep
<1>2. OrderInv'
  BY CpuOrder
<1> QED
  BY <1>1, <1>2, CpuMasks, CpuOrder, LostKept, RootKept DEF WorkInv

LEMMA NextWorks == HardwareInv /\ WorkInv /\ [Next]_vars => WorkInv'
<1> SUFFICES ASSUME HardwareInv, WorkInv, [Next]_vars
             PROVE  WorkInv'
  OBVIOUS
<1>1. CASE UNCHANGED vars \/ Done
  BY <1>1, WorkKept DEF Done, vars, trapVars, chipVars
<1>2. CASE NextStage /\ UNCHANGED machine
  BY <1>2, StageWork
<1>3. CASE Cpu /\ UNCHANGED machine
  BY <1>3, CpuWork DEF Cpu, Counted
<1>4. CASE Chips /\ UNCHANGED machine
  BY <1>4, ChipWork
<1> QED
  BY <1>1, <1>2, <1>3, <1>4 DEF Next

\* Whatever was found and however each test ended, the detection holds nothing
\* and leaves the CACR, the vector base, TC, the ranges that TT0 and TT1 enable and
\* the power register of Fat Gary as they were; CRP and SFC stay changed on no
\* processor but a 68030 that does not translate (cpu.S 168-205, 402-672;
\* hardware.c 1117-1200).
THEOREM EverythingPutBack == Spec => []LeftAsFound
<1>1. HardwareInv /\ WorkInv => LeftAsFound
  <2> SUFFICES ASSUME HardwareInv, WorkInv, pc = "idle", presses = 0
               PROVE  /\ Free /\ library = "closed" /\ held = {}
                      /\ chip.cacr = wanted.cacr /\ chip.pcr = wanted.pcr
                      /\ chip.vbr = "system" /\ chip.tc = wanted.tc /\ chip.tt = "system"
                      /\ "own" \in {chip.crp, chip.sfc} =>
                           machine.cpu \in Of030 /\ chip.tc = "off"
                      /\ Fat => gary.power = machine.power
    BY DEF LeftAsFound
  <2>1. Free /\ library = "closed" /\ held = {}
    BY DEF HardwareInv, TrapInv, WorkInv, MaskInv, HeldInv, Free, At, Hooked, Shut, Pass,
           OwnTableUsed, AliasLabels
  <2>2. lost = {} /\ chip.pcr = wanted.pcr
    BY DEF WorkInv, LostInv
  <2>3. chip.cacr = wanted.cacr
    BY <2>2 DEF WorkInv, BitInv
  <2>4. chip.vbr = "system" /\ chip.tc = wanted.tc /\ chip.tt = "system"
    BY DEF HardwareInv, TableInv, MmuInv, OwnTableUsed
  <2>5. "own" \in {chip.crp, chip.sfc} => machine.cpu \in Of030 /\ chip.tc = "off"
    BY <2>4 DEF WorkInv, RootInv
  <2>6. Fat => gary.power = machine.power
    BY DEF WorkInv, PowerInv
  <2> QED
    BY <2>1, <2>2, <2>3, <2>4, <2>5, <2>6
<1> QED
  BY <1>1, InitEstablishes, NextKeeps, WorkInit, NextWorks, PTL DEF Spec

\* The caches and the super scalar mode shown are those that are on, and a button
\* switches its own cache alone, whatever others change meanwhile; what they
\* change between the two halves of a toggle is all that may be lost, and nothing
\* is where Exec switches the cache
\* (cache.c 34-58, 84-133; hardware.c 465-502; gui.c 2279-2282).
THEOREM ShownStaysTrue == Spec => []ShownAsSet
<1>1. WorkInv => ShownAsSet
  BY DEF WorkInv, BitInv, LostInv, ShownInv, ShownCurrent, ShownAsSet
<1> QED
  BY <1>1, InitEstablishes, NextKeeps, WorkInit, NextWorks, PTL DEF Spec
-----------------------------------------------------------------------------
(* That the computer is identified needs what each stage has found, and of  *)
(* a stage under way what its tests have seen.                              *)

MmuPlaces == {"mmu", "mmu type", "mmu test", "mmu try", "mmu own tree", "mmu leave",
              "mmu translation", "mmu read"}
GaryPlaces == {"gary", "gary cycle", "gary good", "gary mirror", "gary id", "gary bits"}
NcrPlaces == {"ncr 770", "ncr 770 read", "ncr 710", "ncr 710 read", "ncr config",
              "ncr config read"}
StatusPlaces == {"sdmac istr", "sdmac istr read", "sdmac asr", "sdmac asr read"}
SdmacPlaces == {"sdmac", "sdmac signature"} \cup StatusPlaces
CountPlaces == {"sdmac pass"} \cup Pass
DmaPlaces == {"dma"} \cup NcrPlaces \cup SdmacPlaces \cup CountPlaces
AliasPlaces == {"alias"} \cup AliasLabels

\* Each stage has labels of its own, and is past when the next may begin.
PlaceInv ==
  /\ At \in Early => stage = 1
  /\ At = "fpu" => stage = 2
  /\ At \in MmuPlaces => stage = 3
  /\ At \in {"remap", "remap close"} => stage = 4
  /\ At = "vbr" => stage = 5
  /\ At = "chipset" => stage = 6
  /\ At \in GaryPlaces => stage = 7
  /\ At = "ramsey" => stage = 8
  /\ At \in DmaPlaces => stage = 9
  /\ At = "slots" => stage = 10
  /\ At \in AliasPlaces => stage = 11
  /\ At \in {"clock", "clock read"} => stage = 12
  /\ At \in {"batt", "batt read"} => stage = 13

Past(k) == stage = 0 \/ stage > k \/ (stage = k /\ pc = "next")

\* The type of the processor after the tests of the CACR and the processor
\* register, after the FPU, and in the end.
FirstType ==
  IF machine.emu THEN "EMU"
  ELSE CASE machine.cpu \in {"68040", "68LC040", "68EC040"} -> "68040"
         [] machine.cpu \in {"68LC060", "68EC060"} -> "68LC060"
         [] machine.cpu \in Of030 -> "68030"
         [] OTHER -> machine.cpu
SecondType == IF FirstType = "68040" /\ machine.fpu = "NONE" THEN "68LC040" ELSE FirstType
RealType == IF machine.emu THEN "EMU" ELSE machine.cpu
RealFpu == IF machine.fpu # "NONE" /\ ~Exec36 THEN "68881"
           ELSE IF machine.emu THEN "68882" ELSE machine.fpu

Tried == pc \in {"mmu translation", "mmu read"} \/ Past(3)

TypeInv ==
  /\ Past(1) /\ ~Past(2) => info.type = FirstType
  /\ Past(2) => info.fpu = RealFpu /\ (~Tried => info.type = SecondType)
  /\ wanted.tc = machine.tc
  /\ Tried => /\ info.type = RealType
              /\ RealType # "68080" => /\ info.mmu = machine.mmu
                                       /\ info.present = (machine.mmu # "NONE")
  /\ pc = "mmu read" => info.present
  /\ Past(3) /\ RealType # "68080" => info.translation = machine.tc

\* The board and the chips every board has.
BoardInv ==
  /\ Past(6) => chips.denise = machine.chipset
  /\ Past(6) /\ ~Past(7) => chips.agnus = Agnus
  /\ pc = "gary good" /\ ~Fat => machine.joy = "cycle"
  /\ pc \in {"gary id", "gary bits"} => machine.gary # "A1000"
  /\ Past(7) => chips.gary = machine.gary /\ chips.agnus = machine.agnus
  /\ Past(8) => chips.ramsey = (machine.gary = "FAT_GARY" /\ machine.ramsey)
  /\ Past(12) => chips.clock = machine.rtc
  /\ At = "clock read" => machine.gary = "A1000" /\ machine.cpu = "68000"

\* Gayle gives the same ID in each round, since nobody restarts it in between.
SerialInv ==
  machine.gary = "GAYLE" =>
    /\ pc \in {"gary cycle", "gary good", "gary mirror"} => test.round = 0
    /\ pc = "gary id" => /\ test.round \in 0..3
                         /\ test.round > 0 => test.first = "id"
    /\ pc = "gary bits" => /\ test.round \in 1..4 /\ forbid = 1 /\ gary.serial = TRUE
                           /\ test.round > 1 => test.first = "id"

\* The SCSI chips, from the first that is looked for to the version of the last.
Unseen == chips.sdmac = FALSE /\ chips.rev = "0"
DmaInv ==
  /\ ~Past(9) /\ At \notin DmaPlaces \ {"dma"} => chips.ncr = "NONE" /\ Unseen
  /\ At \in DmaPlaces \ {"dma"} => Fat
  /\ At \in {"ncr 770", "ncr 770 read"} => chips.ncr = "NONE" /\ Unseen
  /\ At \in {"ncr 710", "ncr 710 read"} =>
       chips.ncr = "NONE" /\ Unseen /\ machine.ncr # "770"
  /\ At \in {"ncr config", "ncr config read"} =>
       chips.ncr = machine.ncr /\ machine.ncr # "NONE" /\ Unseen
  /\ At \in SdmacPlaces \cup CountPlaces => chips.ncr = "NONE" /\ machine.ncr = "NONE"
  /\ At \in SdmacPlaces => Unseen
  /\ At \in StatusPlaces \cup CountPlaces => machine.dma # "Re"
  /\ At \in {"sdmac signature"} \cup StatusPlaces \cup CountPlaces => machine.ramsey
  /\ At \in CountPlaces => chips.sdmac = TRUE /\ chips.rev = "0"
  /\ Past(9) => /\ chips.ncr = machine.ncr
                /\ ~PassesForSdmac => /\ chips.sdmac = (machine.dma # "none")
                                      /\ chips.rev \in {"0", machine.dma}

\* What the tests of a 53C770 and of a ReSDMAC have seen so far, and what the
\* status of an SDMAC that is not there has not shown.
SignInv ==
  /\ machine.ncr = "770" =>
       /\ At = "ncr 770" => \/ test.count = 0 /\ test.prev = "none"
                            \/ test.count = 1 /\ test.prev \in {"770", "noise"}
                            \/ test.count = 2 /\ test.prev = "770"
       /\ At = "ncr 770 read" => \/ test.count = 1 /\ test.prev = "none"
                                 \/ test.count = 2 /\ test.prev \in {"770", "noise"}
                                 \/ test.count = 3 /\ test.prev = "770"
  /\ At = "sdmac" => test.prev = "none"
  /\ At \in {"sdmac asr", "sdmac asr read"} /\ machine.dma = "none" =>
       machine.bus \notin {Fault, "contradiction"}
  /\ At = "sdmac signature" /\ machine.dma = "Re" => test.prev \in {"none", "v1.2"}

\* The patterns tried, and what the counter has shown of them; a bus that keeps
\* what is written is found out by the third.
PatternInv ==
  /\ At = "sdmac pass" => test.count \in 0..5
  /\ At \in Pass => test.count \in 1..6
  /\ At \in CountPlaces =>
       /\ test.answers \in Seq({"02", "04"})
       /\ machine.dma = "none" => machine.bus \in {"busy", "idle"}
       /\ machine.dma = "none" /\ machine.count = "kept" =>
            test.count <= IF At = "sdmac pass" THEN 2 ELSE 3
       /\ machine.dma = "02" => \A i \in DOMAIN test.answers : test.answers[i] = "02"
       /\ machine.dma = "04" /\ test.count > (IF At = "sdmac pass" THEN 1 ELSE 2) =>
            \E i \in DOMAIN test.answers : test.answers[i] = "04"

\* Whether the second megabyte repeats the first.
AliasInv ==
  /\ At = "alias pass" => test.count \in {0, 1}
  /\ At \in AliasLabels =>
       /\ test.answers \in Seq({"match", "other", Fault})
       /\ Len(test.answers) = IF At = "alias pass" THEN test.count ELSE test.count - 1
       /\ machine.upper = "alias" =>
            \A i \in DOMAIN test.answers : test.answers[i] = "match"
       /\ machine.upper # "alias" =>
            \A i \in DOMAIN test.answers :
              test.answers[i] = "match" => i = 1 /\ machine.upper = "first"
  /\ At \in {"alias ask", "alias read"} => test.count \in {1, 2}
  /\ chips.alias = "mirrored" => machine.upper = "alias"
  /\ chips.alias = "none" => machine.upper # "alias"

\* The registers that are read, and what they may have answered.
RegisterInv ==
  pc \in Hooked =>
    /\ trap.back = "ncr 770 read" => trap.register = "770"
    /\ trap.back = "ncr 710 read" => trap.register = "CTEST8"
    /\ trap.back = "sdmac signature" => trap.register = "REVISION"
    /\ trap.back \in {"sdmac istr read", "pass istr read"} => trap.register = "ISTR"
    /\ trap.back \in {"sdmac asr read", "pass asr read"} => trap.register = "ASR"
    /\ trap.back \in {"pass write", "pass restore"} => trap.register = "WTC"
    /\ trap.back = "alias read" => trap.register = "UPPER"
    /\ trap.back = "clock read" => trap.register = "TIME"

AnswerInv ==
  /\ machine.dma # "none" => scsi.state \in {"idle", "transfer", "service"}
  /\ pc # "trap read" =>
       /\ At = "ncr 770 read" => trap.answer \in Id770
       /\ At = "ncr 710 read" => (trap.answer = "rev" <=> machine.ncr = "710")
       /\ At = "sdmac signature" =>
            trap.answer \in IF machine.dma = "Re" THEN {"v1.2"}
                            ELSE {Fault, "v0.0", "v9.9"} \ {test.prev}
       /\ At \in {"sdmac istr read", "pass istr read", "sdmac asr read", "pass asr read"} =>
            IF machine.dma = "none" THEN trap.answer = machine.bus
            ELSE trap.answer \in {"idle", "transfer", "service"}
       /\ At \in {"pass write", "pass restore", "pass judge"} =>
            trap.answer = IF machine.dma = "none" THEN machine.count ELSE "kept"
       /\ At = "alias read" =>
            /\ trap.answer = "match" =>
                 machine.upper \in {"alias", <<"first", "second">>[test.count]}
            /\ trap.answer \in {"match", "other", Fault}
            /\ machine.upper = "alias" => trap.answer \in {"match", Fault}
       /\ At = "clock read" => (trap.answer = "date" <=> machine.rtc = "MK48T02")

RecordInv ==
  /\ DOMAIN test = {"saved", "round", "first", "prev", "count", "answers", "value"}
  /\ DOMAIN chips = {"denise", "agnus", "gary", "ramsey", "ncr", "config", "sdmac", "rev",
                     "slots", "alias", "clock", "batt"}
  /\ DOMAIN info = {"type", "fpu", "mmu", "present", "translation", "remap", "vbr", "has",
                    "shown"}

FoundInv ==
  /\ PlaceInv /\ TypeInv /\ BoardInv /\ SerialInv /\ DmaInv /\ SignInv /\ PatternInv
  /\ AliasInv /\ RegisterInv /\ AnswerInv /\ RecordInv

-----------------------------------------------------------------------------
\* What the assumptions say of the computer the program runs on.
LEMMA OfMachine ==
  ASSUME WorkInv
  PROVE  /\ machine.cpu \in {"68000", "68010"} \cup Of020 \cup Of030 \cup Of040
         /\ machine.mmu \in MmusOf(machine.cpu) /\ machine.fpu \in FpusOf(machine.cpu)
         /\ machine.mmu = "NONE" => machine.tc = "off"
         /\ machine.emu \in BOOLEAN
         /\ machine.emu => machine.cpu = "68040" /\ machine.mmu = "NONE" /\ Exec36
         /\ machine.seen \/ (machine.cpu = "68060" /\ Exec36)
         /\ machine.cpu \in Of020 => (machine.cpu = "68EC020" <=> Ec020)
         /\ \A t \in machine.types : \/ t = machine.mmu \/ machine.cpu = "68080"
                                     \/ t = "68851" /\ machine.mmu = "68030"
BY MachineAssumption, ProcessorAssumption DEF WorkInv, MoreFields, Exec36, Ec020

\* The same of the board and its chips.
LEMMA OfBoard ==
  ASSUME WorkInv
  PROVE  /\ machine.gary \in {"A1000", "A500", "GAYLE", "FAT_GARY"}
         /\ machine.mirrors = "all" <=> machine.gary = "A1000"
         /\ machine.vpos \in {"OCS", "ECS", "ALICE"}
         /\ IF machine.paula = "SAGA"
            THEN machine.chipset = "ISABEL" /\ machine.agnus = "SAGA"
            ELSE DeniseIds(machine.denise, machine.chipset)
                 /\ machine.agnus = AgnusOf(machine)
         /\ machine.ncr \in {"NONE", "710", "770"}
         /\ machine.dma \in {"none", "02", "04", "Re"}
         /\ machine.ncr # "NONE" => Fat /\ machine.dma = "none"
         /\ machine.dma # "none" => Fat /\ machine.ramsey
         /\ machine.scsi \in {"idle", "transfer"}
         /\ machine.bus \in {Fault, "contradiction", "reserved", "busy", "idle"}
         /\ machine.count \in {Fault, "kept", "high", "low"}
         /\ Fat /\ machine.cpu \in Of060 => Exec36
         /\ machine.gary = "A1000" =>
              \/ machine.rtc = "NONE"
              \/ machine.rtc = "MK48T02" /\ machine.cpu = "68000"
         /\ machine.gary # "A1000" =>
              /\ machine.rtc \in {"NONE", "MSM6242", "RP5C01"}
              /\ machine.rtc = "NONE" => machine.rtcF # "4"
BY ChipsAssumption DEF WorkInv, MoreFields, Exec36, Fat
-----------------------------------------------------------------------------
(* The processor *)

\* Exec and the type found tell the FPU.
LEMMA FpuIsReal ==
  ASSUME WorkInv, info.type = FirstType
  PROVE  Fpu = RealFpu
<1> USE DEF FirstType, Fpu, RealFpu, Flag080, Flag881, Flag882, FlagFpu40
<1>1. CASE machine.emu
  BY <1>1, OfMachine DEF FpusOf
<1>2. CASE ~machine.emu /\ machine.cpu \notin Of040
  BY <1>2, OfMachine DEF FpusOf, Of020, Of030, Of040, Of060
<1>3. CASE ~machine.emu /\ machine.cpu \in Of040
  <2>1. machine.cpu \in {"68040", "68LC040", "68EC040", "68060", "68EC060", "68LC060",
                         "68080"} /\ machine.cpu \notin Of030
    BY <1>3 DEF Of040, Of060, Of030
  <2>2. machine.fpu = IF machine.cpu \in {"68040", "68060", "68080"}
                      THEN machine.cpu ELSE "NONE"
    BY <1>3, <2>1, OfMachine DEF FpusOf
  <2>3. CASE machine.cpu = "68060"
    BY <1>3, <2>1, <2>2, <2>3, OfMachine
  <2>4. CASE machine.cpu # "68060"
    BY <1>3, <2>1, <2>2, <2>4, OfMachine
  <2> QED
    BY <2>3, <2>4
<1> QED
  BY <1>1, <1>2, <1>3, OfMachine

\* A processor without MMU is told by that from one with it.
LEMMA EcIsReal ==
  ASSUME WorkInv, info.type = SecondType, info.fpu = RealFpu,
         machine.mmu = "NONE" \/ RealType = "68080"
  PROVE  EcOf(info.type) = RealType
<1> USE DEF SecondType, FirstType, RealFpu, RealType, EcOf, KeepsFpu, MmusOf, FpusOf,
            Of020, Of030, Of040, Of060
<1>1. CASE machine.emu
  BY <1>1
<1>2. CASE ~machine.emu /\ machine.cpu \in {"68000", "68010", "68020", "68EC020"}
  BY <1>2
<1>3. CASE ~machine.emu /\ machine.cpu \in {"68030", "68EC030"}
  BY <1>3, OfMachine
<1>4. CASE ~machine.emu /\ machine.cpu \in {"68040", "68LC040", "68EC040"}
  BY <1>4, OfMachine
<1>5. CASE ~machine.emu /\ machine.cpu \in {"68060", "68EC060", "68LC060", "68080"}
  BY <1>5, OfMachine
<1> QED
  BY <1>1, <1>2, <1>3, <1>4, <1>5, OfMachine

\* One with an MMU has been found already, and the MMU tried is its own.
LEMMA WithMmuIsReal ==
  ASSUME WorkInv, machine.mmu # "NONE"
  PROVE  /\ SecondType = RealType
         /\ RealType # "68080" => MmuOf(SecondType) = machine.mmu /\ RealType # "EMU"
         /\ machine.mmu = "68030" <=> SecondType = "68030"
<1> USE DEF SecondType, FirstType, RealType, MmuOf, MmusOf, FpusOf, Of020, Of030, Of040,
            Of060
<1>1. ~machine.emu
  BY OfMachine
<1>2. CASE machine.cpu \in {"68000", "68010", "68EC030", "68EC040", "68EC060", "68080"}
  BY <1>2, OfMachine
<1>3. CASE machine.cpu \in {"68020", "68EC020", "68030"}
  BY <1>1, <1>3, OfMachine
<1>4. CASE machine.cpu \in {"68040", "68LC040"}
  BY <1>1, <1>4, OfMachine
<1>5. CASE machine.cpu \in {"68060", "68LC060"}
  BY <1>1, <1>5, OfMachine
<1> QED
  BY <1>2, <1>3, <1>4, <1>5, OfMachine

\* What is known of the processor stays known while nothing of it changes.
LEMMA TypeFrame ==
  ASSUME TypeInv, UNCHANGED <<machine, wanted.tc, info.type, info.fpu, info.mmu,
                              info.present, info.translation>>,
         Past(1)' <=> Past(1), Past(2)' <=> Past(2), Past(3)' <=> Past(3),
         pc' \in {"mmu translation", "mmu read"} <=> pc \in {"mmu translation", "mmu read"},
         pc' = "mmu read" => pc = "mmu read"
  PROVE  TypeInv'
<1>0. UNCHANGED machine
  OBVIOUS
<1>1. FirstType' = FirstType
  BY <1>0 DEF FirstType, Of030
<1>2. SecondType' = SecondType
  BY <1>1 DEF SecondType
<1>3. RealType' = RealType /\ RealFpu' = RealFpu
  BY DEF RealType, RealFpu, Exec36
<1>4. Tried' <=> Tried
  BY DEF Tried
<1> QED
  BY <1>1, <1>2, <1>3, <1>4 DEF TypeInv

\* A step within a stage, or outside it.
LEMMA PastSame ==
  ASSUME UNCHANGED stage, pc # "next", NEW k \in Int, stage # k \/ pc' # "next"
  PROVE  Past(k)' <=> Past(k)
BY DEF Past

\* Which stages are past, after a step within a stage and after its last.
Within == UNCHANGED stage /\ pc # "next" /\ pc' # "next"
Ends(s) == UNCHANGED stage /\ stage = s /\ pc # "next" /\ pc' = "next"

\* No stage is past that was not.
LEMMA WithinPast ==
  ASSUME Within
  PROVE  /\ (Past(1)' <=> Past(1)) /\ (Past(2)' <=> Past(2)) /\ (Past(3)' <=> Past(3))
         /\ (Past(6)' <=> Past(6)) /\ (Past(7)' <=> Past(7)) /\ (Past(8)' <=> Past(8))
         /\ (Past(9)' <=> Past(9)) /\ (Past(12)' <=> Past(12))
BY PastSame DEF Within

\* The stage that ends is past, and no other that was not.
LEMMA EndsPast ==
  ASSUME NEW s \in 1..14, Ends(s)
  PROVE  /\ ~Past(s) /\ Past(s)'
         /\ s # 1 => (Past(1)' <=> Past(1))
         /\ s # 2 => (Past(2)' <=> Past(2))
         /\ s # 3 => (Past(3)' <=> Past(3))
         /\ s # 6 => (Past(6)' <=> Past(6))
         /\ s # 7 => (Past(7)' <=> Past(7))
         /\ s # 8 => (Past(8)' <=> Past(8))
         /\ s # 9 => (Past(9)' <=> Past(9))
         /\ s # 12 => (Past(12)' <=> Past(12))
BY DEF Ends, Past

\* The labels inside a stage.
GaryInner == GaryPlaces \ {"gary"}
DmaInner == DmaPlaces \ {"dma"}
Inner == GaryInner \cup DmaInner \cup AliasLabels \cup {"clock read"}
Groups == {Early, {"fpu"}, MmuPlaces, {"remap", "remap close"}, {"vbr"}, {"chipset"},
           GaryPlaces, {"ramsey"}, DmaPlaces, {"slots"}, {"alias"} \cup AliasLabels,
           {"clock", "clock read"}, {"batt", "batt read"}}

\* A step keeps its label in its stage, or leaves all stages.
LEMMA PlaceFrame ==
  ASSUME PlaceInv, UNCHANGED stage,
         \/ At' = At \/ At' \in Late
         \/ \E g \in Groups : At \in g /\ At' \in g
  PROVE  PlaceInv'
<1> USE DEF PlaceInv, Early, Trying, MmuPlaces, GaryPlaces, DmaPlaces, NcrPlaces,
            SdmacPlaces, StatusPlaces, CountPlaces, Pass, AliasPlaces, AliasLabels
<1>1. CASE At' = At
  <2>1. (At' \in Early => stage' = 1) /\ (At' = "fpu" => stage' = 2)
        /\ (At' \in MmuPlaces => stage' = 3) /\ (At' \in {"remap", "remap close"} => stage' = 4)
    BY <1>1
  <2>2. (At' = "vbr" => stage' = 5) /\ (At' = "chipset" => stage' = 6)
        /\ (At' \in GaryPlaces => stage' = 7) /\ (At' = "ramsey" => stage' = 8)
        /\ (At' = "slots" => stage' = 10)
    BY <1>1
  <2>3. At' \in DmaPlaces => stage' = 9
    BY <1>1
  <2>4. (At' \in AliasPlaces => stage' = 11) /\ (At' \in {"clock", "clock read"} => stage' = 12)
        /\ (At' \in {"batt", "batt read"} => stage' = 13)
    BY <1>1
  <2> QED
    BY Zenon, <2>1, <2>2, <2>3, <2>4
<1>2. CASE At' \in Late
  BY <1>2 DEF Late, Toggles
<1>3. ASSUME NEW g \in Groups, At \in g, At' \in g
      PROVE  PlaceInv'
  <2>1. CASE g = Early
    BY <1>3, <2>1
  <2>2. CASE g = {"fpu"}
    BY <1>3, <2>2
  <2>3. CASE g = MmuPlaces
    BY <1>3, <2>3
  <2>4. CASE g = {"remap", "remap close"}
    BY <1>3, <2>4
  <2>5. CASE g = {"vbr"}
    BY <1>3, <2>5
  <2>6. CASE g = {"chipset"}
    BY <1>3, <2>6
  <2>7. CASE g = GaryPlaces
    BY <1>3, <2>7
  <2>8. CASE g = {"ramsey"}
    BY <1>3, <2>8
  <2>9. CASE g = DmaPlaces
    BY <1>3, <2>9
  <2>10. CASE g = {"slots"}
    BY <1>3, <2>10
  <2>11. CASE g = {"alias"} \cup AliasLabels
    BY <1>3, <2>11
  <2>12. CASE g = {"clock", "clock read"}
    BY <1>3, <2>12
  <2>13. CASE g = {"batt", "batt read"}
    BY <1>3, <2>13
  <2> QED
    BY <2>1, <2>2, <2>3, <2>4, <2>5, <2>6, <2>7, <2>8, <2>9, <2>10, <2>11, <2>12, <2>13
       DEF Groups
<1> QED
  BY <1>1, <1>2, <1>3
-----------------------------------------------------------------------------
\* What a step leaves alone that is at none of the labels a part is about.
LEMMA BoardFrame ==
  ASSUME BoardInv, UNCHANGED <<machine, chips.denise, chips.agnus, chips.gary, chips.ramsey,
                               chips.clock>>,
         pc' \notin {"gary good", "gary id", "gary bits"},
         At' = "clock read" => At = "clock read",
         Past(6)' <=> Past(6), Past(7)' <=> Past(7), Past(8)' <=> Past(8),
         Past(12)' <=> Past(12)
  PROVE  BoardInv'
<1>1. Agnus' = Agnus
  BY DEF Agnus
<1> QED
  BY <1>1 DEF BoardInv

\* The test of Gary is only known about by its own labels.
LEMMA SerialFrame ==
  ASSUME pc' \notin GaryInner
  PROVE  SerialInv'
BY DEF SerialInv, GaryInner, GaryPlaces

\* So are the tests of the SCSI chips.
LEMMA DmaFrame ==
  ASSUME DmaInv, UNCHANGED <<machine, chips.ncr, chips.sdmac, chips.rev>>,
         At \notin DmaInner, At' \notin DmaInner, Past(9)' <=> Past(9)
  PROVE  DmaInv' /\ SignInv' /\ PatternInv'
<1>1. Unseen' <=> Unseen
  BY DEF Unseen
<1>2. /\ At' \notin NcrPlaces \cup SdmacPlaces \cup CountPlaces \cup StatusPlaces
      /\ At' \notin {"ncr 770", "ncr 770 read", "ncr 710", "ncr 710 read", "ncr config",
                     "ncr config read", "sdmac", "sdmac signature", "sdmac asr",
                     "sdmac asr read", "sdmac pass"} \cup Pass
  BY DEF DmaInner, DmaPlaces, NcrPlaces, SdmacPlaces, StatusPlaces, CountPlaces, Pass
<1>3. DmaInv'
  <2>1. PassesForSdmac' <=> PassesForSdmac
    BY DEF PassesForSdmac
  <2>2. At \notin DmaPlaces \ {"dma"}
    BY DEF DmaInner
  <2>3. /\ At' \notin DmaPlaces \ {"dma"}
        /\ At' \notin {"ncr 770", "ncr 770 read"} /\ At' \notin {"ncr 710", "ncr 710 read"}
        /\ At' \notin {"ncr config", "ncr config read"} /\ At' \notin SdmacPlaces
        /\ At' \notin CountPlaces /\ At' \notin SdmacPlaces \cup CountPlaces
        /\ At' \notin StatusPlaces \cup CountPlaces
        /\ At' \notin {"sdmac signature"} \cup StatusPlaces \cup CountPlaces
    BY <1>2 DEF DmaInner
  <2>4. ~Past(9)' => chips'.ncr = "NONE" /\ Unseen'
    BY <1>1, <2>2 DEF DmaInv
  <2>5. Past(9)' => /\ chips'.ncr = machine'.ncr
                    /\ ~PassesForSdmac' => /\ chips'.sdmac = (machine'.dma # "none")
                                           /\ chips'.rev \in {"0", machine'.dma}
    BY <2>1 DEF DmaInv
  <2> QED
    BY <2>3, <2>4, <2>5 DEF DmaInv
<1>4. SignInv'
  BY <1>2 DEF SignInv
<1>5. PatternInv'
  BY <1>2 DEF PatternInv
<1> QED
  BY <1>3, <1>4, <1>5

\* And the passes over the upper megabyte.
LEMMA AliasFrame ==
  ASSUME AliasInv, UNCHANGED <<machine, chips.alias>>, At' \notin AliasLabels
  PROVE  AliasInv'
BY DEF AliasInv, AliasLabels

\* Outside the protected reads nothing is asked.
LEMMA AnswerFrame ==
  ASSUME AnswerInv, UNCHANGED <<machine, scsi.state>>, pc' \notin Hooked, At' \notin Inner
  PROVE  AnswerInv' /\ RegisterInv'
BY DEF AnswerInv, RegisterInv, Inner, DmaInner, DmaPlaces, NcrPlaces, SdmacPlaces,
       StatusPlaces, CountPlaces, Pass, AliasLabels

\* The chips are as they were found after a step of another part of the detection.
LEMMA ChipsFound ==
  ASSUME FoundInv, UNCHANGED <<chipVars, trapVars, machine>>,
         pc \notin Hooked \cup Inner, pc' \notin Hooked \cup Inner,
         Past(6)' <=> Past(6), Past(7)' <=> Past(7), Past(8)' <=> Past(8),
         Past(9)' <=> Past(9), Past(12)' <=> Past(12)
  PROVE  BoardInv' /\ SerialInv' /\ DmaInv' /\ SignInv' /\ PatternInv' /\ AliasInv'
         /\ RegisterInv' /\ AnswerInv'
<1>1. At = pc /\ At' = pc'
  BY DEF At
<1>2. UNCHANGED <<chips, scsi, machine>>
  BY DEF chipVars
<1>3. BoardInv'
  BY <1>1, <1>2, BoardFrame DEF FoundInv, Inner, GaryInner, GaryPlaces
<1>4. SerialInv' /\ AliasInv'
  BY <1>1, <1>2, SerialFrame, AliasFrame DEF FoundInv, Inner
<1>5. DmaInv' /\ SignInv' /\ PatternInv'
  BY <1>1, <1>2, DmaFrame DEF FoundInv, Inner
<1>6. RegisterInv' /\ AnswerInv'
  BY <1>1, <1>2, AnswerFrame DEF FoundInv
<1> QED
  BY <1>3, <1>4, <1>5, <1>6
-----------------------------------------------------------------------------
(* The steps of the processor *)

CpuInner == {"fpu", "remap", "remap close", "vbr"} \cup Early \cup MmuPlaces

\* They stay in their stage or end it, and none is in a stage of the chips.
LEMMA CpuPlaces ==
  ASSUME CpuStep
  PROVE  /\ pc \in CpuInner \cup {"idle", "caches"} \cup Toggles
         /\ pc' \in CpuInner \cup Late
         /\ pc' \in Late \/ \E g \in Groups : pc \in g /\ pc' \in g
         /\ pc' = "next" => pc \in CpuInner \cup {"caches"}
<1> USE DEF Go, Idle, OwnTable, CpuInner, Early, Trying, MmuPlaces, Late, Toggles, Groups
<1>1. CASE DetectCpu \/ SetTestBit \/ ReadTestBit \/ ResetTestBit
  BY <1>1 DEF DetectCpu, SetTestBit, ReadTestBit, ResetTestBit
<1>2. CASE GetCpu060 \/ LeaveCpu060 \/ DetectFpu
  BY <1>2 DEF GetCpu060, LeaveCpu060, DetectFpu
<1>3. CASE OpenMmu \/ MmuType \/ TestMmu
  BY <1>3 DEF OpenMmu, MmuType, TestMmu
<1>4. CASE TryMmu \/ LeaveMmu \/ Translation
  BY <1>4 DEF TryMmu, LeaveMmu, Translation
<1>7. CASE LeaveOwnTree \/ ReadTranslation \/ WriteSuper
  BY <1>7 DEF LeaveOwnTree, ReadTranslation, WriteSuper
<1>5. CASE LoadRemap \/ CloseRemap \/ ReadVbr \/ RefreshCaches
  BY <1>5 DEF LoadRemap, CloseRemap, ReadVbr, RefreshCaches
<1>6. CASE (\E s \in Settings : Press(s)) \/ Toggle \/ ToggleSuper \/ Tamper
  BY <1>6 DEF Press, Toggle, ToggleSuper, Tamper
<1> QED
  BY <1>1, <1>2, <1>3, <1>4, <1>5, <1>6, <1>7 DEF CpuStep

\* What the tests of the processor know nothing of stays as it was found.
LEMMA CpuApart ==
  ASSUME WorkInv, FoundInv, CpuStep, UNCHANGED <<chipVars, machine, stage>>
  PROVE  /\ PlaceInv' /\ BoardInv' /\ SerialInv' /\ DmaInv' /\ SignInv' /\ PatternInv'
         /\ AliasInv' /\ RegisterInv' /\ AnswerInv'
         /\ pc # "next"
<1>1. /\ pc \notin Hooked \cup Inner /\ pc # "next"
      /\ pc' \notin Hooked \cup Inner /\ UNCHANGED trapVars
  <2>1. ASSUME NEW l \in CpuInner \cup Late
        PROVE  l \notin GaryInner /\ l \notin DmaInner /\ l \notin AliasLabels
               /\ l # "clock read"
    BY DEF CpuInner, Early, Trying, MmuPlaces, Late, Toggles, GaryInner,
           GaryPlaces, DmaInner, DmaPlaces, NcrPlaces, SdmacPlaces, StatusPlaces,
           CountPlaces, Pass, AliasLabels
  <2>2. pc \in CpuInner \cup Late /\ pc' \in CpuInner \cup Late
    BY CpuPlaces DEF Late
  <2>3. pc # "next"
    BY CpuPlaces DEF CpuInner, Early, Trying, MmuPlaces, Toggles
  <2>4. pc \notin Hooked /\ pc' \notin Hooked /\ UNCHANGED trapVars
    BY CpuStepApart
  <2> QED
    BY <2>1, <2>2, <2>3, <2>4 DEF Inner
<1>2. At = pc /\ At' = pc'
  BY <1>1 DEF At
<1>3. PlaceInv'
  BY <1>2, CpuPlaces, PlaceFrame DEF FoundInv
<1>4. pc' = "next" => stage \notin {6, 7, 8, 9, 12}
  <2>1. pc \in CpuInner => stage \in {1, 2, 3, 4, 5}
    BY <1>2 DEF FoundInv, PlaceInv, CpuInner
  <2>2. pc = "caches" => stage \in {0, 14}
    BY DEF WorkInv, OrderInv
  <2> QED
    BY <2>1, <2>2, CpuPlaces
<1>5. /\ (Past(6)' <=> Past(6)) /\ (Past(7)' <=> Past(7)) /\ (Past(8)' <=> Past(8))
      /\ (Past(9)' <=> Past(9)) /\ (Past(12)' <=> Past(12))
  BY <1>1, <1>4, PastSame
<1> QED
  BY <1>1, <1>3, <1>5, ChipsFound

\* The fields are those of the start.
LEMMA CpuRecords ==
  ASSUME RecordInv, CpuStep, UNCHANGED chipVars
  PROVE  RecordInv'
<1> USE DEF RecordInv, chipVars, NoMmu, WithMmu
<1>1. CASE DetectCpu \/ SetTestBit \/ ReadTestBit \/ ResetTestBit
  BY <1>1 DEF DetectCpu, SetTestBit, ReadTestBit, ResetTestBit
<1>2. CASE GetCpu060 \/ LeaveCpu060 \/ DetectFpu
  BY <1>2 DEF GetCpu060, LeaveCpu060, DetectFpu
<1>3. CASE OpenMmu \/ MmuType \/ TestMmu
  BY <1>3 DEF OpenMmu, MmuType, TestMmu
<1>4. CASE TryMmu \/ LeaveMmu \/ Translation
  BY <1>4 DEF TryMmu, LeaveMmu, Translation
<1>7. CASE LeaveOwnTree \/ ReadTranslation \/ WriteSuper
  BY <1>7 DEF LeaveOwnTree, ReadTranslation, WriteSuper
<1>5. CASE LoadRemap \/ CloseRemap \/ ReadVbr \/ RefreshCaches
  BY <1>5 DEF LoadRemap, CloseRemap, ReadVbr, RefreshCaches
<1>6. CASE (\E s \in Settings : Press(s)) \/ Toggle \/ ToggleSuper \/ Tamper
  BY <1>6 DEF Press, Toggle, ToggleSuper, Tamper
<1> QED
  BY <1>1, <1>2, <1>3, <1>4, <1>5, <1>6, <1>7 DEF CpuStep

\* Most steps of the processor's part leave alone what has been found of it.
QuietCpu ==
  \/ SetTestBit \/ ReadTestBit \/ (ResetTestBit /\ look.bit = "FreezeI") \/ GetCpu060
  \/ OpenMmu \/ (TestMmu /\ pc' = "mmu try") \/ TryMmu \/ LeaveOwnTree \/ LoadRemap
  \/ CloseRemap \/ ReadVbr \/ RefreshCaches \/ (\E s \in Settings : Press(s)) \/ Toggle
  \/ ToggleSuper \/ WriteSuper \/ Tamper

\* Steps that find out nothing.
LEMMA QuietKeeps ==
  ASSUME HardwareInv, WorkInv, FoundInv, QuietCpu, CpuStep,
         UNCHANGED <<chipVars, machine, stage>>
  PROVE  TypeInv'
<1>1. UNCHANGED <<info.type, info.fpu, info.mmu, info.present, info.translation>>
  BY DEF QuietCpu, SetTestBit, ReadTestBit, ResetTestBit, GetCpu060, OpenMmu, TestMmu,
         TryMmu, LeaveOwnTree, LoadRemap, CloseRemap, ReadVbr, RefreshCaches, Press, Toggle,
         ToggleSuper, WriteSuper, Tamper, FoundInv, RecordInv
<1>2. UNCHANGED wanted.tc
  <2>1. DOMAIN wanted = {"cacr", "pcr", "tc"}
    BY DEF HardwareInv, Fields
  <2>2. CASE Toggle \/ ToggleSuper \/ WriteSuper \/ Tamper
    BY <2>1, <2>2 DEF Toggle, ToggleSuper, WriteSuper, Tamper
  <2>3. CASE ~(Toggle \/ ToggleSuper \/ WriteSuper \/ Tamper)
    BY <2>3 DEF QuietCpu, SetTestBit, ReadTestBit, ResetTestBit, GetCpu060, OpenMmu,
            TestMmu, TryMmu, LeaveOwnTree, LoadRemap, CloseRemap, ReadVbr, RefreshCaches,
            Press
  <2> QED
    BY <2>2, <2>3
<1>3. /\ pc \notin {"mmu translation", "mmu read"} /\ pc' \notin {"mmu translation", "mmu read"}
      /\ pc' = "next" => pc \in {"remap", "remap close", "vbr", "caches"}
  BY DEF QuietCpu, SetTestBit, ReadTestBit, ResetTestBit, GetCpu060, OpenMmu, TestMmu,
         TryMmu, LeaveOwnTree, LoadRemap, CloseRemap, ReadVbr, RefreshCaches, Press, Toggle,
         ToggleSuper, WriteSuper, Tamper, Go, OwnTable
<1>4. pc' = "next" => stage \in {0, 4, 5, 14}
  <2>1. pc \in {"remap", "remap close", "vbr"} => At = pc
    BY DEF At, Hooked
  <2>2. pc \in {"remap", "remap close", "vbr"} => stage \in {4, 5}
    BY <2>1 DEF FoundInv, PlaceInv
  <2>3. pc = "caches" => stage \in {0, 14}
    BY DEF WorkInv, OrderInv
  <2> QED
    BY <1>3, <2>2, <2>3
<1>5. pc # "next"
  BY CpuApart
<1>6. (Past(1)' <=> Past(1)) /\ (Past(2)' <=> Past(2)) /\ (Past(3)' <=> Past(3))
  BY <1>4, <1>5, PastSame
<1> QED
  BY <1>1, <1>2, <1>3, <1>6, TypeFrame DEF FoundInv

\* What is past in the first three stages.
LEMMA PastEarly ==
  ASSUME pc # "next"
  PROVE  /\ stage = 1 => ~Past(1) /\ ~Past(2) /\ ~Past(3)
         /\ stage = 2 => Past(1) /\ ~Past(2) /\ ~Past(3)
         /\ stage = 3 => Past(1) /\ Past(2) /\ ~Past(3)
BY DEF Past

\* The end of the first stage has the type as the tests tell it.
LEMMA FirstFound ==
  ASSUME WorkInv, FoundInv, DetectCpu \/ LeaveCpu060 \/ ResetTestBit, pc' = "next"
  PROVE  info'.type = FirstType
<1>1. CASE DetectCpu
  <2>1. info'.type = IF machine.emu THEN "EMU" ELSE machine.cpu
    BY <1>1 DEF DetectCpu, FoundInv, RecordInv
  <2>2. machine.emu = TRUE \/ machine.cpu \notin Of020 \cup Of030 \cup Of040
    BY <1>1 DEF DetectCpu
  <2> QED
    BY <2>1, <2>2 DEF FirstType, Of040, Of060
<1>2. CASE LeaveCpu060
  <2>1. info'.type = Cpu060
    BY <1>2 DEF LeaveCpu060, FoundInv, RecordInv
  <2>2. machine.cpu \in Of040 /\ ~machine.emu
    BY <1>2 DEF LeaveCpu060, Go, WorkInv, FamilyInv, Early
  <2> QED
    BY <2>1, <2>2 DEF FirstType, Cpu060, Of040, Of060, Of030
<1>3. CASE ResetTestBit
  <2>1. pc = "cpu reset" /\ look.bit # "FreezeI"
    BY <1>3 DEF ResetTestBit
  <2>2. look.bit = "IBE" /\ (look.new <=> "IBE" \in Bits)
    BY <2>1 DEF WorkInv, BitInv, Trying
  <2>3. machine.cpu \in Of020 \cup Of030 /\ ~machine.emu
    BY <2>1, <2>2 DEF WorkInv, FamilyInv, Trying, Early
  <2>4. look.new <=> machine.cpu \in Of030
    BY <2>2, <2>3, TriedBits
  <2>5. info'.type = IF look.new THEN "68030" ELSE IF Ec020 THEN "68EC020" ELSE "68020"
    BY <1>3, <2>1 DEF ResetTestBit, FoundInv, RecordInv
  <2>6. machine.cpu \in Of020 => (machine.cpu = "68EC020" <=> Ec020)
    BY OfMachine
  <2> QED
    BY <2>3, <2>4, <2>5, <2>6 DEF FirstType, Of020, Of030
<1> QED
  BY <1>1, <1>2, <1>3

\* The first stage ends with the type that Exec and the CACR tell.
LEMMA FirstKeeps ==
  ASSUME WorkInv, FoundInv, DetectCpu \/ LeaveCpu060 \/ ResetTestBit, CpuStep,
         UNCHANGED <<chipVars, machine, stage>>
  PROVE  TypeInv'
<1>1. pc \in Early /\ pc' \in Early \cup {"next"} /\ UNCHANGED wanted
  BY DEF DetectCpu, LeaveCpu060, ResetTestBit, Early, Trying, Go
<1>2. At = pc /\ pc # "next" /\ pc' \notin {"mmu translation", "mmu read"}
  BY <1>1 DEF At, Early, Trying, Hooked
<1>3. stage = 1
  BY <1>1, <1>2 DEF FoundInv, PlaceInv
<1>4. ~Past(1) /\ ~Past(2) /\ ~Past(3) /\ ~Past(2)' /\ ~Past(3)'
      /\ (Past(1)' => pc' = "next")
  <2>1. stage = 1 /\ stage' = 1 /\ pc # "next"
    BY <1>2, <1>3
  <2> HIDE <1>1, <1>2
  <2> QED
    BY <2>1 DEF Past
<1>5. Past(1)' => info'.type = FirstType
  BY <1>4, FirstFound
<1>6. FirstType' = FirstType
  BY DEF FirstType, Of030
<1>7. ~Tried'
  BY <1>2, <1>4 DEF Tried
<1> QED
  BY <1>1, <1>2, <1>4, <1>5, <1>6, <1>7 DEF TypeInv, FoundInv

\* The end of the second knows the FPU.
LEMMA SecondKeeps ==
  ASSUME WorkInv, FoundInv, DetectFpu, CpuStep, UNCHANGED <<chipVars, machine, stage>>
  PROVE  TypeInv'
<1>1. pc = "fpu" /\ pc' = "next" /\ UNCHANGED wanted
  BY DEF DetectFpu, Go
<1>2. At = pc
  BY <1>1 DEF At, Hooked
<1>3. stage = 2
  BY <1>1, <1>2 DEF FoundInv, PlaceInv
<1>4. Past(1) /\ ~Past(2) /\ ~Past(3) /\ Past(1)' /\ Past(2)' /\ (~Past(3))'
  BY <1>1, <1>3, PastEarly, EndsPast DEF Ends
<1>5. info.type = FirstType
  BY <1>4 DEF FoundInv, TypeInv
<1>6. Fpu = RealFpu
  BY <1>5, FpuIsReal
<1>7. info'.fpu = RealFpu
      /\ info'.type = IF info.type = "68040" /\ RealFpu = "NONE" THEN "68LC040" ELSE info.type
  BY <1>6 DEF DetectFpu, FoundInv, RecordInv
<1>8. info.type = "68040" => (RealFpu = "NONE" <=> machine.fpu = "NONE")
  <2>1. info.type = "68040" => ~machine.emu
    BY <1>5 DEF FirstType
  <2> QED
    BY <2>1 DEF RealFpu
<1>9. info'.type = SecondType
  BY <1>5, <1>7, <1>8 DEF SecondType
<1>10. RealFpu' = RealFpu
  BY DEF RealFpu, Exec36
<1>11. FirstType' = FirstType
  BY DEF FirstType, Of030
<1>12. SecondType' = SecondType
  BY <1>11 DEF SecondType
<1>13. ~Tried'
  BY <1>1, <1>4 DEF Tried
<1>14. info'.fpu = RealFpu' /\ info'.type = SecondType' /\ wanted'.tc = machine'.tc
  BY <1>1, <1>7, <1>9, <1>10, <1>12 DEF FoundInv, TypeInv
<1> QED
  BY <1>1, <1>4, <1>13, <1>14 DEF TypeInv

\* Before, in and after the third stage.
LEMMA StageThree ==
  ASSUME stage = 3, UNCHANGED stage, pc # "next"
  PROVE  /\ Past(1) /\ Past(2) /\ ~Past(3)
         /\ Past(1)' /\ Past(2)' /\ (Past(3)' <=> pc' = "next")
BY DEF Past

\* What is known in the third stage, and where it has to get.
LEMMA ThirdPast ==
  ASSUME FoundInv, pc \in MmuPlaces, UNCHANGED stage,
         pc' \in {"mmu translation", "mmu read", "next"}
  PROVE  /\ Past(1) /\ Past(2) /\ Past(1)' /\ Past(2)' /\ (Past(3)' <=> pc' = "next")
         /\ Tried' /\ (Tried <=> pc \in {"mmu translation", "mmu read"})
<1>1. pc # "next" /\ pc \notin Hooked
  BY DEF MmuPlaces, Hooked
<1>2. stage = 3
  BY <1>1 DEF FoundInv, PlaceInv, At
<1>3. /\ Past(1) /\ Past(2) /\ ~Past(3)
      /\ Past(1)' /\ Past(2)' /\ (Past(3)' <=> pc' = "next")
  BY <1>1, <1>2, StageThree
<1> QED
  BY <1>3 DEF Tried

\* The MMU and what it maps are known the same way.
LEMMA SameUnits ==
  ASSUME UNCHANGED machine
  PROVE  RealType' = RealType /\ RealFpu' = RealFpu
BY DEF RealType, RealFpu, Exec36

\* The tests of the MMU tell the rest of the type.
LEMMA MmuFound ==
  ASSUME WorkInv, FoundInv, info.type = SecondType, info.fpu = RealFpu,
         \/ MmuType \/ LeaveMmu
         \/ TestMmu /\ pc' = "mmu translation"
  PROVE  /\ info'.type = RealType /\ info'.fpu = info.fpu
         /\ RealType # "68080" => /\ info'.mmu = machine.mmu
                                  /\ info'.present = (machine.mmu # "NONE")
<1> DEFINE None == [info EXCEPT !.type = EcOf(@), !.mmu = "NONE", !.present = FALSE]
           One(kind) == [info EXCEPT !.mmu = kind, !.present = TRUE]
<1>1. /\ None.type = EcOf(info.type) /\ None.fpu = info.fpu
      /\ None.mmu = "NONE" /\ None.present = FALSE
  BY DEF FoundInv, RecordInv
<1>2. ASSUME NEW kind
      PROVE  /\ One(kind).type = info.type /\ One(kind).fpu = info.fpu
             /\ One(kind).mmu = kind /\ One(kind).present = TRUE
             /\ [info EXCEPT !.mmu = kind].type = info.type
             /\ [info EXCEPT !.mmu = kind].fpu = info.fpu
  BY DEF FoundInv, RecordInv
<1>3. /\ NoMmu = None
      /\ \A kind : WithMmu(kind) = One(kind)
  BY DEF NoMmu, WithMmu
<1> HIDE DEF None, One
<1>4. machine.mmu = "NONE" \/ RealType = "68080" => EcOf(info.type) = RealType
  BY EcIsReal
<1>5. machine.mmu # "NONE" =>
        /\ info.type = RealType
        /\ RealType # "68080" => MmuOf(info.type) = machine.mmu
        /\ machine.mmu = "68030" <=> info.type = "68030"
  BY WithMmuIsReal
<1>6. info.type = "68080" <=> RealType = "68080"
  BY OfMachine DEF SecondType, FirstType, RealType, Of030
<1>7. CASE LeaveMmu
  <2>1. info' = IF machine.mmu = "NONE" THEN None ELSE One(MmuOf(info.type))
    BY <1>3, <1>7 DEF LeaveMmu
  <2>2. CASE machine.mmu = "NONE"
    BY <1>1, <1>4, <2>1, <2>2
  <2>3. CASE machine.mmu # "NONE"
    BY <1>2, <1>5, <2>1, <2>3
  <2> QED
    BY <2>2, <2>3
<1>8. CASE TestMmu /\ pc' = "mmu translation"
  <2>1. /\ MmuOf(info.type) = "NONE"
        /\ info' = IF info.type = "68080" THEN One("68080") ELSE None
    BY <1>3, <1>8 DEF TestMmu, OwnTable
  <2>2. CASE info.type = "68080"
    BY <1>2, <1>6, <2>1, <2>2
  <2>3. CASE info.type # "68080"
    <3>1. machine.mmu = "NONE"
      BY <1>5, <1>6, <2>1, <2>3
    <3> QED
      BY <1>1, <1>4, <2>1, <2>3, <3>1
  <2> QED
    BY <2>2, <2>3
<1>9. CASE MmuType
  <2>1. PICK t \in machine.types :
          info' = CASE t = "NONE" /\ info.type = "68080" -> [info EXCEPT !.mmu = "68080"]
                    [] t = "NONE" /\ info.type # "68080" -> None
                    [] t = "68851" /\ info.type = "68030" -> One("68030")
                    [] t = "68060" /\ info.type = "68080" -> One("68080")
                    [] OTHER -> One(t)
    BY <1>3, <1>9 DEF MmuType
  <2>2. t = machine.mmu \/ machine.cpu = "68080" \/ (t = "68851" /\ machine.mmu = "68030")
    BY OfMachine
  <2>3. machine.cpu = "68080" => info.type = "68080"
    <3>1. machine.cpu = "68080" => ~machine.emu
      BY OfMachine
    <3> QED
      BY <1>6, <3>1 DEF RealType
  <2>4. CASE info.type = "68080"
    <3>1. info' = [info EXCEPT !.mmu = "68080"] \/ \E kind : info' = One(kind)
      BY <2>1, <2>4
    <3>2. CASE info' = [info EXCEPT !.mmu = "68080"]
      BY <1>2, <1>6, <2>4, <3>2
    <3>3. ASSUME NEW kind, info' = One(kind)
          PROVE  info'.type = info.type /\ info'.fpu = info.fpu
      BY <1>2, <3>3
    <3> QED
      BY <1>6, <2>4, <3>1, <3>2, <3>3
  <2>5. CASE info.type # "68080" /\ t = "NONE"
    <3>1. machine.mmu = "NONE" /\ info' = None
      BY <2>1, <2>2, <2>3, <2>5
    <3> QED
      BY <1>1, <1>4, <3>1
  <2>6. CASE info.type # "68080" /\ t # "NONE"
    <3>1. machine.mmu # "NONE"
      BY <2>2, <2>3, <2>6
    <3>2. info' = IF t = "68851" /\ info.type = "68030" THEN One("68030") ELSE One(t)
      BY <2>1, <2>6
    <3>3. info' = One(machine.mmu)
      BY <1>5, <2>2, <2>3, <2>6, <3>1, <3>2
    <3> QED
      BY <1>2, <1>5, <3>1, <3>3
  <2> QED
    BY <2>4, <2>5, <2>6
<1> QED
  BY <1>7, <1>8, <1>9

\* The third stage ends with the MMU, the type it tells and what it maps.
LEMMA ThirdKeeps ==
  ASSUME HardwareInv, WorkInv, FoundInv, CpuStep, UNCHANGED <<chipVars, machine, stage>>,
         \/ MmuType \/ LeaveMmu \/ Translation \/ ReadTranslation
         \/ TestMmu /\ pc' = "mmu translation"
  PROVE  TypeInv'
<1>1. /\ UNCHANGED wanted /\ pc \in MmuPlaces
      /\ pc' \in {"mmu translation", "mmu read", "next"}
      /\ pc \in {"mmu translation", "mmu read"} <=> Translation \/ ReadTranslation
      /\ pc' = "mmu translation" <=> ~(Translation \/ ReadTranslation)
  BY DEF MmuType, LeaveMmu, Translation, ReadTranslation, TestMmu, Go, OwnTable, MmuPlaces
<1>2. /\ Past(1) /\ Past(2) /\ Past(1)' /\ Past(2)' /\ (Past(3)' <=> pc' = "next")
      /\ Tried' /\ (Tried <=> Translation \/ ReadTranslation)
  BY <1>1, ThirdPast
<1>3. UNCHANGED machine /\ RealType' = RealType /\ RealFpu' = RealFpu
  BY SameUnits
<1>4. info.fpu = RealFpu /\ wanted.tc = machine.tc
  BY <1>2 DEF FoundInv, TypeInv
<1>5. CASE ~(Translation \/ ReadTranslation)
  <2>1. info.type = SecondType
    BY <1>2, <1>5 DEF FoundInv, TypeInv
  <2>2. /\ info'.type = RealType /\ info'.fpu = info.fpu
        /\ RealType # "68080" => /\ info'.mmu = machine.mmu
                                 /\ info'.present = (machine.mmu # "NONE")
    BY <1>4, <1>5, <2>1, MmuFound
  <2> QED
    BY <1>1, <1>2, <1>3, <1>4, <1>5, <2>2 DEF TypeInv
<1>6. CASE Translation \/ ReadTranslation
  <2>1. /\ info.type = RealType
        /\ RealType # "68080" => /\ info.mmu = machine.mmu
                                 /\ info.present = (machine.mmu # "NONE")
    BY <1>2, <1>6 DEF FoundInv, TypeInv
  <2>2. UNCHANGED <<info.type, info.fpu, info.mmu, info.present>>
    BY <1>6 DEF Translation, ReadTranslation, FoundInv, RecordInv
  <2>3. CASE pc' = "mmu read"
    <3>1. info' = info /\ info.present
      <4>1. Translation
        BY <1>6, <2>3 DEF ReadTranslation, Go
      <4> QED
        BY <2>3, <4>1 DEF Translation, HasTc
    <3>2. ~Past(3)'
      BY <1>2, <2>3
    <3> QED
      BY <1>1, <1>2, <1>3, <1>4, <2>1, <2>2, <3>1, <3>2 DEF TypeInv
  <2>4. CASE pc' = "next"
    <3>1. RealType # "68080" => info'.translation = machine.tc
      <4>1. CASE Translation
        <5>1. /\ ~HasTc
              /\ info'.translation = IF ~info.present /\ info.mmu = "NONE" THEN "off"
                                     ELSE "unknown"
          BY <2>4, <4>1 DEF Translation, OwnTable, FoundInv, RecordInv
        <5>2. ASSUME RealType # "68080", machine.mmu # "NONE"
              PROVE  HasTc
          <6>1. machine.mmu \in {"68851", "68030", "68040", "68060"}
            BY <5>2, OfMachine DEF MmusOf
          <6>2. RealType # "EMU"
            BY <5>2, WithMmuIsReal
          <6> QED
            BY <2>1, <5>2, <6>1, <6>2 DEF HasTc
        <5>3. CASE RealType # "68080" /\ machine.mmu = "NONE"
          BY <2>1, <5>1, <5>3, OfMachine
        <5> QED
          BY <5>1, <5>2, <5>3
      <4>2. CASE ReadTranslation
        <5>1. pc = "mmu read" /\ info.present
          BY <4>2 DEF ReadTranslation, Go, FoundInv, TypeInv
        <5>2. info'.translation = IF machine.mmu = "NONE" THEN "unknown" ELSE chip.tc
          BY <4>2 DEF ReadTranslation, FoundInv, RecordInv
        <5>3. chip.tc = machine.tc
          BY <1>4, <5>1 DEF HardwareInv, MmuInv
        <5> QED
          BY <2>1, <5>1, <5>2, <5>3
      <4> QED
        BY <1>6, <4>1, <4>2
    <3> QED
      BY <1>1, <1>2, <1>3, <1>4, <2>1, <2>2, <2>4, <3>1 DEF TypeInv
  <2> QED
    BY <1>1, <1>6, <2>3, <2>4
<1> QED
  BY <1>5, <1>6
\* Every step of the processor leaves what is known true.
LEMMA CpuFinds ==
  ASSUME HardwareInv, WorkInv, FoundInv, CpuStep, UNCHANGED <<chipVars, machine, stage>>
  PROVE  FoundInv'
<1>1. TypeInv'
  <2>1. CASE QuietCpu
    BY <2>1, QuietKeeps
  <2>2. CASE DetectCpu \/ LeaveCpu060 \/ ResetTestBit
    BY <2>2, FirstKeeps
  <2>3. CASE DetectFpu
    BY <2>3, SecondKeeps
  <2>4. TestMmu => pc' \in {"mmu try", "mmu translation"}
    BY DEF TestMmu, OwnTable
  <2>5. CASE \/ MmuType \/ LeaveMmu \/ Translation \/ ReadTranslation
             \/ TestMmu /\ pc' = "mmu translation"
    BY <2>5, ThirdKeeps
  <2> QED
    BY <2>1, <2>2, <2>3, <2>4, <2>5 DEF CpuStep, QuietCpu
<1> QED
  BY <1>1, CpuApart, CpuRecords DEF FoundInv
-----------------------------------------------------------------------------
(* The steps of the chips *)

\* What is past within a stage of the chips, and after a step of it.
LEMMA InStage ==
  ASSUME NEW s \in 6..13, stage = s, UNCHANGED stage, pc # "next"
  PROVE  /\ Past(1) /\ Past(2) /\ Past(3) /\ Past(1)' /\ Past(2)' /\ Past(3)'
         /\ \A k \in 6..13 : /\ Past(k) <=> s > k
                             /\ Past(k)' <=> s > k \/ (s = k /\ pc' = "next")
BY DEF Past

\* They know all of the processor.
LEMMA ChipTypes ==
  ASSUME FoundInv, NEW s \in 6..13, stage = s, UNCHANGED <<cpuVars, machine, stage>>,
         pc \notin {"next", "mmu translation", "mmu read"},
         pc' \notin {"mmu translation", "mmu read"}
  PROVE  TypeInv'
<1>1. UNCHANGED <<machine, wanted.tc, info.type, info.fpu, info.mmu, info.present,
                  info.translation>>
  BY DEF cpuVars
<1>2. /\ (Past(1)' <=> Past(1)) /\ (Past(2)' <=> Past(2)) /\ (Past(3)' <=> Past(3))
  BY InStage
<1> QED
  BY <1>1, <1>2, TypeFrame DEF FoundInv

\* The IDs read tell Denise.
LEMMA DeniseIsReal ==
  ASSUME WorkInv
  PROVE  Denise = machine.chipset
<1>1. CASE machine.paula = "SAGA"
  BY <1>1, OfBoard DEF Denise
<1>2. CASE machine.paula # "SAGA" /\ Cardinality(machine.denise) > 1
  <2>1. machine.denise \notin {{"FF"}, {"00"}, {"FC"}, {"F8"}}
    <3>1. ASSUME NEW x, machine.denise = {x}
          PROVE  FALSE
      <4>1. Cardinality(machine.denise) = 1
        BY <3>1, FS_Singleton
      <4> QED
        BY <1>2, <4>1
    <3> QED
      BY <3>1
  <2> QED
    BY <1>2, <2>1, OfBoard DEF Denise, DeniseIds
<1>3. CASE machine.paula # "SAGA" /\ ~(Cardinality(machine.denise) > 1)
  <2>1. PICK id : machine.denise = {id}
                  /\ \/ id \in {"FF", "00"} /\ machine.chipset = "OCS"
                     \/ id = "FC" /\ machine.chipset = "ECS"
                     \/ id = "F8" /\ machine.chipset = "LISA"
    BY <1>3, OfBoard DEF DeniseIds
  <2>2. (CHOOSE d \in machine.denise : TRUE) = id
    BY <2>1
  <2> QED
    BY <1>3, <2>1, <2>2 DEF Denise
<1> QED
  BY <1>1, <1>2, <1>3

\* Agnus is known when the board is.
LEMMA AgnusIsReal ==
  ASSUME WorkInv
  PROVE  machine.agnus = CASE Fat -> IF Agnus = "ECS" THEN "ECS_B" ELSE Agnus
                           [] machine.gary = "A1000" -> IF Agnus = "OCS_FAT" THEN "OCS"
                                                        ELSE Agnus
                           [] OTHER -> Agnus
<1>1. CASE machine.paula = "SAGA"
  BY <1>1, OfBoard DEF Agnus, Fat
<1>2. CASE machine.paula # "SAGA"
  <2>1. machine.vpos \in {"OCS", "ECS", "ALICE"} /\ machine.agnus = AgnusOf(machine)
    BY <1>2, OfBoard
  <2> QED
    BY <1>2, <2>1 DEF Agnus, AgnusOf, Fat
<1> QED
  BY <1>1, <1>2

\* The chips of the display are found in one step.
LEMMA ChipsetFinds ==
  ASSUME WorkInv, FoundInv, DetectChipset, UNCHANGED <<cpuVars, machine, stage>>
  PROVE  FoundInv'
<1>1. /\ pc = "chipset" /\ pc' = "next" /\ At = pc /\ At' = pc'
      /\ UNCHANGED <<trapVars, scsi, test>>
  BY DEF DetectChipset, Step, Go, At, Hooked
<1>2. /\ chips'.denise = Denise /\ chips'.agnus = Agnus
      /\ UNCHANGED <<chips.ncr, chips.sdmac, chips.rev, chips.alias, DOMAIN chips>>
  BY DEF DetectChipset, FoundInv, RecordInv
<1>3. stage = 6
  BY <1>1 DEF FoundInv, PlaceInv
<1>4. /\ Past(6)' /\ ~Past(7)' /\ ~Past(8)' /\ ~Past(12)' /\ (Past(9)' <=> Past(9))
  BY <1>1, <1>3, InStage
<1>5. PlaceInv'
  BY <1>1, PlaceFrame DEF FoundInv, Late
<1>6. TypeInv'
  BY <1>1, <1>3, ChipTypes
<1>7. BoardInv'
  <2>1. Agnus' = Agnus
    BY DEF Agnus
  <2> QED
    BY <1>1, <1>2, <1>4, <2>1, DeniseIsReal DEF BoardInv
<1>8. SerialInv' /\ AliasInv'
  BY <1>1, <1>2, SerialFrame, AliasFrame DEF FoundInv, GaryInner, GaryPlaces, AliasLabels
<1>9. DmaInv' /\ SignInv' /\ PatternInv'
  BY <1>1, <1>2, <1>4, DmaFrame
     DEF FoundInv, DmaInner, DmaPlaces, NcrPlaces, SdmacPlaces, StatusPlaces, CountPlaces, Pass
<1>10. RegisterInv' /\ AnswerInv'
  BY <1>1, AnswerFrame
     DEF FoundInv, Hooked, Inner, GaryInner, GaryPlaces, DmaInner, DmaPlaces, NcrPlaces,
         SdmacPlaces, StatusPlaces, CountPlaces, Pass, AliasLabels
<1>11. RecordInv'
  BY <1>1, <1>2 DEF FoundInv, RecordInv, cpuVars
<1> QED
  BY <1>5, <1>6, <1>7, <1>8, <1>9, <1>10, <1>11 DEF FoundInv

\* The power register, the mirrors and the serial ID tell the board.
GaryStep == \/ SavePower \/ TestCycle \/ TestGood \/ TestMirror
            \/ StartId \/ DisturbId \/ ReadId

\* Where the test of Gary is.
LEMMA GaryPlace ==
  ASSUME GaryStep
  PROVE  /\ pc \in GaryPlaces /\ pc' \in GaryPlaces \cup {"next"}
         /\ UNCHANGED <<trapVars, scsi>>
BY DEF GaryStep, SavePower, TestCycle, TestGood, TestMirror, StartId, DisturbId, ReadId,
       Step, Go, GaryPlaces

\* What the test of Gary leaves alone.
LEMMA GaryRecords ==
  ASSUME RecordInv, GaryStep, UNCHANGED info
  PROVE  /\ RecordInv'
         /\ UNCHANGED <<chips.denise, chips.ramsey, chips.ncr, chips.sdmac, chips.rev,
                        chips.alias, chips.clock>>
<1> USE DEF RecordInv, NoTest
<1>1. CASE SavePower \/ TestCycle \/ StartId \/ DisturbId
  BY <1>1 DEF SavePower, TestCycle, StartId, DisturbId
<1>2. CASE TestGood \/ TestMirror
  BY <1>2 DEF TestGood, TestMirror
<1>3. CASE ReadId
  <2>1. (test' = NoTest \/ \E id : test' = [test EXCEPT !.first = id])
        /\ (chips' = chips \/ \E g : chips' = [chips EXCEPT !.gary = g])
    BY <1>3 DEF ReadId
  <2> QED
    BY <2>1
<1> QED
  BY <1>1, <1>2, <1>3 DEF GaryStep

\* What is found with the last step of the stage, and what is not before.
GaryFound ==
  IF pc' = "next" THEN chips'.gary = machine.gary /\ chips'.agnus = machine.agnus
                  ELSE chips'.agnus = Agnus

\* It ends with the Gary of the board and the Agnus that goes with it.
LEMMA GaryFinds ==
  ASSUME HardwareInv, WorkInv, FoundInv, GaryStep, chips.agnus = Agnus
  PROVE  /\ GaryFound
         /\ pc' = "gary good" /\ ~Fat => machine.joy = "cycle"
         /\ pc' \in {"gary id", "gary bits"} => machine.gary # "A1000"
<1> USE DEF GaryFound, GaryStep, Step, Go
<1>1. CASE SavePower \/ StartId \/ DisturbId
  BY <1>1 DEF SavePower, StartId, DisturbId, FoundInv, BoardInv
<1>2. CASE TestCycle
  BY <1>2 DEF TestCycle, Settled
<1>3. CASE TestGood
  <2>1. CASE Fat
    <3>1. gary.power = "good"
      BY <1>3, <2>1 DEF TestGood, WorkInv, PowerInv
    <3>2. pc' = "next" /\ chips' = [chips EXCEPT !.gary = "FAT_GARY",
                                       !.agnus = IF @ = "ECS" THEN "ECS_B" ELSE @]
      BY <1>3, <2>1, <3>1 DEF TestGood
    <3>3. chips'.gary = "FAT_GARY" /\ chips'.agnus = IF Agnus = "ECS" THEN "ECS_B" ELSE Agnus
      BY <3>2 DEF FoundInv, RecordInv
    <3> QED
      BY <2>1, <3>2, <3>3, AgnusIsReal DEF Fat
  <2>2. CASE ~Fat
    <3>1. machine.joy = "cycle"
      BY <1>3, <2>2 DEF TestGood, FoundInv, BoardInv
    <3>2. pc' = "gary mirror" /\ UNCHANGED chips
      BY <1>3, <2>2, <3>1 DEF TestGood, Settled
    <3> QED
      BY <3>2
  <2> QED
    BY <2>1, <2>2
<1>4. ~Fat \/ pc \notin {"gary mirror", "gary bits"}
  BY DEF WorkInv, PowerInv
<1>5. CASE TestMirror
  <2>1. Mirrored <=> machine.gary = "A1000"
    BY OfBoard DEF Mirrored
  <2>2. CASE Mirrored
    <3>1. pc' = "next" /\ chips' = [chips EXCEPT !.gary = "A1000",
                                       !.agnus = IF @ = "OCS_FAT" THEN "OCS" ELSE @]
      BY <1>5, <2>2 DEF TestMirror
    <3>2. chips'.gary = "A1000" /\ chips'.agnus = IF Agnus = "OCS_FAT" THEN "OCS" ELSE Agnus
      BY <3>1 DEF FoundInv, RecordInv
    <3> QED
      BY <2>1, <2>2, <3>1, <3>2, AgnusIsReal DEF Fat
  <2>3. CASE ~Mirrored
    BY <1>5, <2>1, <2>3 DEF TestMirror
  <2> QED
    BY <2>2, <2>3
<1>6. CASE ReadId
  <2>1. pc = "gary bits" /\ pc' \in {"next", "gary id"}
    BY <1>6 DEF ReadId
  <2>2. machine.gary # "A1000" /\ ~Fat
    BY <1>4, <2>1 DEF FoundInv, BoardInv
  <2>3. machine.gary \in {"A500", "GAYLE"} /\ machine.agnus = Agnus
    BY <2>2, OfBoard, AgnusIsReal DEF Fat
  <2>4. CASE pc' = "gary id"
    <3>1. UNCHANGED chips
      BY <1>6, <2>4 DEF ReadId
    <3> QED
      BY <2>2, <2>4, <3>1
  <2>5. CASE pc' = "next"
    <3>1. PICK id \in (IF machine.gary = "GAYLE"
                       THEN {IF gary.serial THEN "id" ELSE "shifted"}
                       ELSE {"bus", "FF", "junk"} \ ({test.first} \cap {"junk"})) :
            /\ id = "bus" \/ (test.round > 1 /\ id # test.first) \/ test.round = 4
            /\ chips' = [chips EXCEPT !.gary =
                           IF id # "bus" /\ test.first = id /\ id \notin {"FF", "00"}
                           THEN "GAYLE" ELSE "A500"]
      BY <1>6, <2>5 DEF ReadId
    <3>2. /\ chips'.gary = IF id # "bus" /\ test.first = id /\ id \notin {"FF", "00"}
                           THEN "GAYLE" ELSE "A500"
          /\ chips'.agnus = Agnus
      BY <3>1 DEF FoundInv, RecordInv
    <3>3. CASE machine.gary = "GAYLE"
      <4>1. id = "id"
        BY <2>1, <3>1, <3>3 DEF FoundInv, SerialInv
      <4>2. test.round > 1
        <5>1. test.round > 1 \/ test.round = 4
          BY <3>1, <4>1
        <5> QED
          BY <5>1
      <4>3. test.first = "id"
        BY <2>1, <3>3, <4>2 DEF FoundInv, SerialInv
      <4> QED
        BY <2>3, <2>5, <3>2, <3>3, <4>1, <4>3
    <3>4. CASE machine.gary # "GAYLE"
      <4>1. chips'.gary = "A500"
        BY <3>1, <3>2, <3>4
      <4> QED
        BY <2>3, <2>5, <3>2, <3>4, <4>1
    <3> QED
      BY <3>3, <3>4
  <2> QED
    BY <2>1, <2>4, <2>5
<1> QED
  BY <1>1, <1>2, <1>3, <1>5, <1>6

\* The rounds of the serial ID.
LEMMA Rounds ==
  \A r : /\ r = 0 => r \in 0..3 /\ ~(r > 0)
         /\ r \in 0..3 => r + 1 \in 1..4 /\ (r + 1 > 1 => r > 0)
         /\ r \in 1..4 /\ r # 4 => r \in 0..3
OBVIOUS

\* Gayle answers each round alike, as no other task runs meanwhile.
LEMMA GarySerial ==
  ASSUME WorkInv, FoundInv, GaryStep, UNCHANGED machine
  PROVE  SerialInv'
<1> SUFFICES ASSUME machine.gary = "GAYLE"
             PROVE  SerialInv'
  BY DEF SerialInv
<1>0. /\ DOMAIN test = {"saved", "round", "first", "prev", "count", "answers", "value"}
      /\ DOMAIN gary = {"power", "bus", "serial"}
  BY DEF FoundInv, RecordInv, WorkInv, MoreFields
<1>a. ASSUME pc' \in {"gary cycle", "gary good", "gary mirror", "gary id", "next"},
             test'.round = 0
      PROVE  SerialInv'
  BY <1>a, Rounds DEF SerialInv
<1>1. CASE SavePower
  <2>1. pc' = "gary cycle" /\ test'.round = 0
    BY <1>1 DEF SavePower, NoTest, Step, Go
  <2> QED
    BY <2>1, <1>a
<1>2. CASE TestCycle \/ TestGood \/ TestMirror
  <2>1. pc \in {"gary cycle", "gary good", "gary mirror"} /\ UNCHANGED test
        /\ pc' \in {"gary good", "gary mirror", "gary id", "next"}
    BY <1>2 DEF TestCycle, TestGood, TestMirror, Step, Go
  <2>2. test.round = 0
    BY <2>1 DEF FoundInv, SerialInv
  <2> QED
    BY <1>a, <2>1, <2>2
<1>3. CASE StartId
  <2>1. /\ pc = "gary id" /\ pc' = "gary bits" /\ forbid' = 1 /\ gary'.serial = TRUE
        /\ test'.round = test.round + 1 /\ test'.first = test.first
    BY <1>0, <1>3 DEF StartId, Alone, Go
  <2>2. test.round \in 0..3 /\ (test.round > 0 => test.first = "id")
    BY <2>1 DEF FoundInv, SerialInv
  <2>3. test'.round \in 1..4 /\ (test'.round > 1 => test'.first = "id")
    BY <2>1, <2>2, Rounds
  <2> QED
    BY <2>1, <2>3 DEF SerialInv
<1>4. CASE DisturbId
  <2>1. pc = "gary bits" /\ forbid = 0
    BY <1>4 DEF DisturbId, TasksRun
  <2>2. forbid = 1
    BY <2>1 DEF FoundInv, SerialInv
  <2>3. 0 # 1
    OBVIOUS
  <2> QED
    BY Zenon, <2>1, <2>2, <2>3
<1>5. CASE ReadId
  <2>1. pc = "gary bits" /\ pc' \in {"next", "gary id"}
    BY <1>5 DEF ReadId, Go
  <2>2. gary.serial = TRUE /\ test.round \in 1..4
    BY <2>1 DEF FoundInv, SerialInv
  <2>3. CASE pc' = "gary id"
    <3>1. test' = [test EXCEPT !.first = "id"] /\ test.round # 4
      BY <1>5, <2>2, <2>3 DEF ReadId, Go
    <3>2. test'.first = "id" /\ test'.round = test.round
      BY <1>0, <3>1
    <3>3. test'.round \in 0..3
      BY <2>2, <3>1, <3>2, Rounds
    <3> QED
      BY <2>3, <3>2, <3>3 DEF SerialInv
  <2>4. CASE pc' = "next"
    BY <2>4 DEF SerialInv
  <2> QED
    BY <2>1, <2>3, <2>4
<1> QED
  BY <1>1, <1>2, <1>3, <1>4, <1>5 DEF GaryStep

\* Every step of the test of Gary leaves what is known true.
LEMMA GaryKeeps ==
  ASSUME HardwareInv, WorkInv, FoundInv, GaryStep, UNCHANGED <<cpuVars, machine, stage>>
  PROVE  FoundInv'
<1>1. /\ pc \in GaryPlaces /\ pc' \in GaryPlaces \cup {"next"} /\ pc # "next"
      /\ UNCHANGED <<trapVars, scsi>> /\ pc' \notin Hooked
      /\ At = pc /\ At' = pc'
  BY GaryPlace DEF GaryPlaces, At, Hooked
<1>2. stage = 7
  BY <1>1 DEF FoundInv, PlaceInv
<1>3. /\ Past(6) /\ ~Past(7) /\ Past(6)' /\ (Past(7)' <=> pc' = "next") /\ ~Past(8)'
      /\ ~Past(12)' /\ (Past(9)' <=> Past(9))
  BY <1>1, <1>2, InStage
<1>4. /\ RecordInv'
      /\ UNCHANGED <<chips.denise, chips.ramsey, chips.ncr, chips.sdmac, chips.rev,
                     chips.alias, chips.clock>>
  BY GaryRecords DEF FoundInv, cpuVars
<1>5. At' \notin DmaInner /\ At \notin DmaInner /\ At' \notin AliasLabels
      /\ At' # "clock read" /\ pc \notin {"mmu translation", "mmu read"}
      /\ pc' \notin {"mmu translation", "mmu read"}
  BY <1>1 DEF GaryPlaces, DmaInner, DmaPlaces, NcrPlaces, SdmacPlaces, StatusPlaces,
              CountPlaces, Pass, AliasLabels
<1>6. PlaceInv'
  BY <1>1, PlaceFrame DEF FoundInv, Late, Groups
<1>7. TypeInv'
  <2>1. /\ pc \notin {"next", "mmu translation", "mmu read"}
        /\ pc' \notin {"mmu translation", "mmu read"}
    BY <1>1, <1>5
  <2>2. stage \in 6..13
    BY <1>2
  <2> QED
    BY <2>1, <2>2, ChipTypes
<1>8. BoardInv'
  <2>1. Agnus' = Agnus /\ UNCHANGED machine
    BY DEF Agnus
  <2>2. chips.agnus = Agnus /\ chips.denise = machine.chipset
    BY <1>3 DEF FoundInv, BoardInv
  <2>3. /\ GaryFound
        /\ pc' = "gary good" /\ ~Fat => machine.joy = "cycle"
        /\ pc' \in {"gary id", "gary bits"} => machine.gary # "A1000"
    BY <2>2, GaryFinds
  <2> QED
    BY <1>3, <1>4, <1>5, <2>1, <2>2, <2>3 DEF BoardInv, GaryFound, Fat
<1>9. SerialInv'
  BY GarySerial
<1>10. AliasInv' /\ DmaInv' /\ SignInv' /\ PatternInv'
  BY <1>3, <1>4, <1>5, AliasFrame, DmaFrame DEF FoundInv
<1>11. RegisterInv' /\ AnswerInv'
  <2>1. RegisterInv'
    BY <1>1 DEF RegisterInv
  <2>2. AnswerInv'
    BY <1>1 DEF AnswerInv, FoundInv, GaryPlaces
  <2> QED
    BY <2>1, <2>2
<1> QED
  BY <1>4, <1>6, <1>7, <1>8, <1>9, <1>10, <1>11 DEF FoundInv

\* Where the stages of one or two steps are.
LEMMA ShortPast ==
  ASSUME NEW s \in {8, 10, 13}, stage = s, UNCHANGED stage, pc # "next"
  PROVE  /\ s \in 6..13
         /\ (Past(6)' <=> Past(6)) /\ (Past(7)' <=> Past(7))
         /\ (Past(9)' <=> Past(9)) /\ (Past(12)' <=> Past(12))
         /\ (s # 8 => (Past(8)' <=> Past(8)))
         /\ (s = 8 => Past(6) /\ Past(7) /\ ~Past(12) /\ (Past(8)' => pc' = "next"))
BY DEF Past

\* Stages that find none of it but one field: the RAMSEY, the slots and the
\* battery memory.
LEMMA ShortStage ==
  ASSUME FoundInv, NEW s \in {8, 10, 13}, stage = s, UNCHANGED <<cpuVars, machine, stage>>,
         UNCHANGED <<scsi, test, trapVars>>, RecordInv',
         UNCHANGED <<chips.denise, chips.agnus, chips.gary, chips.ncr, chips.sdmac,
                     chips.rev, chips.alias, chips.clock>>,
         s = 8 /\ pc' = "next" => chips'.ramsey = (machine.gary = "FAT_GARY" /\ machine.ramsey),
         s # 8 => UNCHANGED chips.ramsey,
         pc \notin Hooked \cup Inner \cup {"next", "mmu translation", "mmu read"},
         pc' \notin Hooked \cup Inner \cup {"mmu translation", "mmu read"}, PlaceInv'
  PROVE  FoundInv'
<1>1. pc \notin {"next"}
  OBVIOUS
<1>2. /\ s \in 6..13
      /\ (Past(6)' <=> Past(6)) /\ (Past(7)' <=> Past(7))
      /\ (Past(9)' <=> Past(9)) /\ (Past(12)' <=> Past(12))
      /\ (s # 8 => (Past(8)' <=> Past(8)))
      /\ (s = 8 => Past(6) /\ Past(7) /\ ~Past(12) /\ (Past(8)' => pc' = "next"))
  BY <1>1, ShortPast
<1>3. At = pc /\ At' = pc' /\ UNCHANGED machine
  BY DEF At
<1>4. pc' \notin {"gary good", "gary id", "gary bits"} /\ At' # "clock read"
  BY <1>3 DEF Inner, GaryInner, GaryPlaces
<1>5. BoardInv'
  <2>1. CASE s = 8
    <3>1. Agnus' = Agnus
      BY DEF Agnus
    <3> QED
      BY <1>2, <1>3, <1>4, <2>1, <3>1 DEF FoundInv, BoardInv
  <2>2. CASE s # 8
    BY <1>2, <1>3, <1>4, <2>2, BoardFrame DEF FoundInv
  <2> QED
    BY <2>1, <2>2
<1>6. SerialInv' /\ AliasInv'
  BY <1>3, SerialFrame, AliasFrame DEF FoundInv, Inner
<1>7. DmaInv' /\ SignInv' /\ PatternInv'
  BY <1>2, <1>3, DmaFrame DEF FoundInv, Inner
<1>8. RegisterInv' /\ AnswerInv'
  BY <1>3, AnswerFrame DEF FoundInv
<1>9. TypeInv'
  BY <1>2, ChipTypes
<1> QED
  BY <1>5, <1>6, <1>7, <1>8, <1>9 DEF FoundInv

\* So does each of these stages.
LEMMA ShortFinds ==
  ASSUME FoundInv, DetectRamsey \/ DetectSlots \/ OpenBatt \/ ReadBatt,
         UNCHANGED <<cpuVars, machine, stage>>
  PROVE  FoundInv'
<1>1. /\ pc \in {"ramsey", "slots", "batt", "batt read"} /\ pc' \in {"next", "batt read"}
      /\ (pc' = "batt read" => pc = "batt") /\ UNCHANGED <<scsi, test, trapVars>>
      /\ (pc = "ramsey" <=> DetectRamsey) /\ (pc = "slots" <=> DetectSlots)
  BY DEF DetectRamsey, DetectSlots, OpenBatt, ReadBatt, Step, Go
<1>2. At = pc /\ At' = pc'
  BY <1>1 DEF At, Hooked
<1>3. stage = IF pc = "ramsey" THEN 8 ELSE IF pc = "slots" THEN 10 ELSE 13
  BY <1>1, <1>2 DEF FoundInv, PlaceInv
<1>4. /\ pc \notin Hooked \cup Inner \cup {"next", "mmu translation", "mmu read"}
      /\ pc' \notin Hooked \cup Inner \cup {"mmu translation", "mmu read"}
  BY <1>1 DEF Hooked, Inner, GaryInner, GaryPlaces, DmaInner, DmaPlaces, NcrPlaces,
              SdmacPlaces, StatusPlaces, CountPlaces, Pass, AliasLabels
<1>5. PlaceInv'
  BY <1>1, <1>2, PlaceFrame DEF FoundInv, Late, Groups
<1>6. /\ UNCHANGED <<chips.denise, chips.agnus, chips.gary, chips.ncr, chips.sdmac,
                     chips.rev, chips.alias, chips.clock>>
      /\ RecordInv'
      /\ ~DetectRamsey => UNCHANGED chips.ramsey
      /\ DetectRamsey => chips'.ramsey = (chips.gary = "FAT_GARY" /\ machine.ramsey)
  <2> USE DEF FoundInv, RecordInv, cpuVars
  <2>1. CASE DetectRamsey
    BY <2>1 DEF DetectRamsey
  <2>2. CASE DetectSlots
    BY <1>1, <2>2 DEF DetectSlots
  <2>3. CASE OpenBatt
    BY <1>1, <2>3 DEF OpenBatt, Step, Go
  <2>4. CASE ReadBatt
    BY <1>1, <2>4 DEF ReadBatt, Step, Go
  <2> QED
    BY <2>1, <2>2, <2>3, <2>4
<1>7. pc = "ramsey" => chips.gary = machine.gary
  <2>1. pc = "ramsey" => stage = 8 /\ pc # "next"
    BY <1>3
  <2>2. stage = 8 /\ pc # "next" => Past(7)
    BY InStage
  <2> QED
    BY <2>1, <2>2 DEF FoundInv, BoardInv
<1>8. CASE DetectRamsey
  BY <1>1, <1>3, <1>4, <1>5, <1>6, <1>7, <1>8, ShortStage
<1>9. CASE ~DetectRamsey
  <2>1. /\ UNCHANGED <<scsi, test, trapVars>> /\ RecordInv'
        /\ UNCHANGED <<chips.denise, chips.agnus, chips.gary, chips.ncr, chips.sdmac,
                       chips.rev, chips.alias, chips.clock>>
        /\ UNCHANGED chips.ramsey
    BY <1>1, <1>6, <1>9
  <2>2. ASSUME NEW s \in {8, 10, 13}, s # 8, stage = s
        PROVE  FoundInv'
    BY <1>4, <1>5, <2>1, <2>2, ShortStage
  <2>3. stage = 10 \/ stage = 13
    BY <1>1, <1>3, <1>9
  <2> QED
    BY <2>2, <2>3
<1> QED
  BY <1>8, <1>9
-----------------------------------------------------------------------------
(* A protected read, the SCSI driver and the ends of the stages *)

\* What is known by the label reached and by what was found and tested.
LEMMA SamePlace ==
  ASSUME FoundInv, UNCHANGED <<chips, test, machine, stage, cpuVars>>, At' = At,
         Past(1)' <=> Past(1), Past(2)' <=> Past(2), Past(3)' <=> Past(3),
         Past(6)' <=> Past(6), Past(7)' <=> Past(7), Past(8)' <=> Past(8),
         Past(9)' <=> Past(9), Past(12)' <=> Past(12),
         pc' \in {"mmu translation", "mmu read"} <=> pc \in {"mmu translation", "mmu read"},
         pc' = "mmu read" => pc = "mmu read"
  PROVE  /\ PlaceInv' /\ TypeInv' /\ DmaInv' /\ SignInv' /\ PatternInv' /\ AliasInv'
         /\ RecordInv'
<1>1. PlaceInv'
  BY PlaceFrame DEF FoundInv
<1>2. TypeInv'
  <2>1. UNCHANGED <<machine, wanted.tc, info.type, info.fpu, info.mmu, info.present,
                    info.translation>>
    BY DEF cpuVars
  <2> QED
    BY <2>1, TypeFrame DEF FoundInv
<1>3. DmaInv'
  BY DEF FoundInv, DmaInv, Unseen, Fat, PassesForSdmac, DmaPlaces, NcrPlaces, SdmacPlaces,
         StatusPlaces, CountPlaces, Pass
<1>4. SignInv'
  BY DEF FoundInv, SignInv
<1>5. PatternInv'
  BY DEF FoundInv, PatternInv, CountPlaces, Pass
<1>6. AliasInv'
  BY DEF FoundInv, AliasInv, AliasLabels
<1>7. RecordInv'
  BY DEF FoundInv, RecordInv, cpuVars
<1> QED
  BY <1>1, <1>2, <1>3, <1>4, <1>5, <1>6, <1>7

\* The SCSI driver changes nothing but the state of its controller.
LEMMA ScsiFinds ==
  ASSUME HardwareInv, FoundInv, ScsiStep, UNCHANGED <<cpuVars, machine, stage>>
  PROVE  FoundInv'
<1>1. /\ UNCHANGED <<pc, masks, trapVars, gary, rtc, chips, test, held>>
      /\ machine.dma # "none" => scsi'.state \in {"idle", "transfer", "service", scsi.state}
  BY DEF ScsiStep, ScsiStart, ScsiAsks, ScsiService, Scsi, HardwareInv, Fields
<1>2. UNCHANGED <<pc, forbid, trap, gary, chips, test, machine, stage>>
  BY <1>1 DEF masks, trapVars
<1>3. At' = At
  BY <1>2 DEF At
<1>4. /\ (Past(1)' <=> Past(1)) /\ (Past(2)' <=> Past(2)) /\ (Past(3)' <=> Past(3))
      /\ (Past(6)' <=> Past(6)) /\ (Past(7)' <=> Past(7)) /\ (Past(8)' <=> Past(8))
      /\ (Past(9)' <=> Past(9)) /\ (Past(12)' <=> Past(12))
  BY <1>2 DEF Past
<1>5. PlaceInv' /\ TypeInv' /\ DmaInv' /\ SignInv' /\ PatternInv' /\ AliasInv' /\ RecordInv'
  BY <1>2, <1>3, <1>4, SamePlace
<1>6. BoardInv'
  <2>1. Agnus' = Agnus
    BY DEF Agnus
  <2> QED
    BY <1>2, <1>3, <1>4, <2>1 DEF FoundInv, BoardInv, Fat
<1>7. SerialInv'
  BY <1>2 DEF FoundInv, SerialInv
<1>8. RegisterInv'
  BY <1>2 DEF FoundInv, RegisterInv, Hooked
<1>9. AnswerInv'
  <2>1. machine.dma # "none" => scsi'.state \in {"idle", "transfer", "service"}
    BY <1>1 DEF FoundInv, AnswerInv
  <2>2. Id770' = Id770
    BY <1>2 DEF Id770
  <2> QED
    BY <1>2, <1>3, <2>1, <2>2 DEF FoundInv, AnswerInv
<1> QED
  BY <1>5, <1>6, <1>7, <1>8, <1>9 DEF FoundInv

\* Which register answers what.
LEMMA AnswersTo ==
  /\ trap.register = "770" => Answers = Id770
  /\ trap.register = "CTEST8" =>
       Answers = IF machine.ncr = "710" THEN {"rev"} ELSE {Fault, "0"}
  /\ trap.register = "REVISION" =>
       Answers = IF machine.dma = "Re" THEN {"v1.2"} ELSE {Fault, "v0.0", "v9.9"} \ {test.prev}
  /\ trap.register \in {"ISTR", "ASR"} =>
       Answers = {IF machine.dma # "none" THEN scsi.state ELSE machine.bus}
  /\ trap.register = "WTC" =>
       Answers = {IF machine.dma # "none" THEN "kept" ELSE machine.count}
  /\ trap.register = "UPPER" =>
       Answers = CASE machine.upper = "alias" -> {"match"}
                   [] machine.upper = "none" -> {Fault, "other"}
                   [] OTHER -> {IF machine.upper = <<"first", "second">>[test.count]
                                THEN "match" ELSE "other"}
  /\ trap.register = "TIME" =>
       Answers = IF machine.rtc = "MK48T02" THEN {"date"} ELSE {Fault, "FF"}
BY DEF Answers

\* An answer is one that the register asked can give.
LEMMA AnswerFits ==
  ASSUME FoundInv, WorkInv, NEW a \in Answers, pc = "trap read", pc' = "trap leave", At' = At,
         trap'.answer = a, UNCHANGED <<chipVars, machine>>
  PROVE  AnswerInv'
<1>1. At = trap.back /\ pc \in Hooked /\ At \in Backs
  BY DEF At, Hooked, WorkInv, MaskInv
<1>2. UNCHANGED <<scsi, test, machine>> /\ Id770' = Id770
  BY DEF chipVars, Id770
<1>3. At = "ncr 770 read" => a \in Id770
  BY <1>1, AnswersTo DEF FoundInv, RegisterInv
<1>4. At = "ncr 710 read" => (a = "rev" <=> machine.ncr = "710")
  BY <1>1, AnswersTo DEF FoundInv, RegisterInv, Fault
<1>5. At = "sdmac signature" =>
        a \in IF machine.dma = "Re" THEN {"v1.2"} ELSE {Fault, "v0.0", "v9.9"} \ {test.prev}
  BY <1>1, AnswersTo DEF FoundInv, RegisterInv
<1>6. At \in {"sdmac istr read", "pass istr read", "sdmac asr read", "pass asr read"} =>
        IF machine.dma = "none" THEN a = machine.bus ELSE a \in {"idle", "transfer", "service"}
  <2> SUFFICES ASSUME At \in {"sdmac istr read", "pass istr read", "sdmac asr read",
                              "pass asr read"}
               PROVE  IF machine.dma = "none" THEN a = machine.bus
                      ELSE a \in {"idle", "transfer", "service"}
    OBVIOUS
  <2>1. trap.register \in {"ISTR", "ASR"}
    BY <1>1 DEF FoundInv, RegisterInv
  <2>2. a = IF machine.dma # "none" THEN scsi.state ELSE machine.bus
    BY <2>1, AnswersTo
  <2> QED
    BY <2>2 DEF FoundInv, AnswerInv
<1>7. At \in {"pass write", "pass restore"} =>
        a = IF machine.dma = "none" THEN machine.count ELSE "kept"
  BY <1>1, AnswersTo DEF FoundInv, RegisterInv
<1>8. At # "pass judge"
  BY <1>1 DEF Backs
<1>9. At = "alias read" =>
        /\ a = "match" => machine.upper \in {"alias", <<"first", "second">>[test.count]}
        /\ a \in {"match", "other", Fault}
        /\ machine.upper = "alias" => a \in {"match", Fault}
  <2> SUFFICES ASSUME At = "alias read"
               PROVE  /\ a = "match" =>
                           machine.upper \in {"alias", <<"first", "second">>[test.count]}
                      /\ a \in {"match", "other", Fault}
                      /\ machine.upper = "alias" => a \in {"match", Fault}
    OBVIOUS
  <2>1. trap.register = "UPPER"
    BY <1>1 DEF FoundInv, RegisterInv
  <2>2. Answers = CASE machine.upper = "alias" -> {"match"}
                    [] machine.upper = "none" -> {Fault, "other"}
                    [] OTHER -> {IF machine.upper = <<"first", "second">>[test.count]
                                 THEN "match" ELSE "other"}
    BY <2>1, AnswersTo
  <2> QED
    BY <2>2 DEF Fault
<1>10. At = "clock read" => (a = "date" <=> machine.rtc = "MK48T02")
  BY <1>1, AnswersTo DEF FoundInv, RegisterInv, Fault
<1>11. machine.dma # "none" => scsi.state \in {"idle", "transfer", "service"}
  BY DEF FoundInv, AnswerInv
<1> QED
  BY <1>2, <1>3, <1>4, <1>5, <1>6, <1>7, <1>8, <1>9, <1>10, <1>11 DEF AnswerInv

\* The read itself, its return, and the branch prediction error before it.
LEMMA TrapFinds ==
  ASSUME HardwareInv, WorkInv, FoundInv, Read \/ TrapLeave \/ BranchError,
         UNCHANGED <<chipVars, cpuVars, machine, stage>>
  PROVE  FoundInv'
<1>1. /\ pc \in Hooked /\ trap.back \in Backs /\ UNCHANGED <<trap.back, trap.register>>
      /\ pc' \in Hooked \cup {trap.back}
  BY DEF Read, TrapRead, TrapLeave, BranchError, Go, Hooked, WorkInv, MaskInv, HardwareInv,
         Fields
<1>2. Backs \cap (Hooked \cup GaryInner \cup {"next", "mmu translation", "mmu read"}) = {}
  BY DEF Backs, Hooked, GaryInner, GaryPlaces
<1>3. At' = At /\ At = trap.back
  BY <1>1, <1>2 DEF At
<1>4. /\ pc \notin {"next", "mmu translation", "mmu read"}
      /\ pc' \notin {"next", "mmu translation", "mmu read"} \cup GaryInner
  BY <1>1, <1>2 DEF Hooked, GaryInner, GaryPlaces
<1>5. /\ (Past(1)' <=> Past(1)) /\ (Past(2)' <=> Past(2)) /\ (Past(3)' <=> Past(3))
      /\ (Past(6)' <=> Past(6)) /\ (Past(7)' <=> Past(7)) /\ (Past(8)' <=> Past(8))
      /\ (Past(9)' <=> Past(9)) /\ (Past(12)' <=> Past(12))
  BY <1>4, WithinPast DEF Within
<1>6. UNCHANGED <<chips, test, scsi, machine>>
  BY DEF chipVars
<1>7. PlaceInv' /\ TypeInv' /\ DmaInv' /\ SignInv' /\ PatternInv' /\ AliasInv' /\ RecordInv'
  BY <1>3, <1>4, <1>5, <1>6, SamePlace
<1>8. BoardInv'
  BY <1>3, <1>4, <1>5, <1>6, BoardFrame DEF FoundInv, GaryInner, GaryPlaces
<1>9. SerialInv'
  BY <1>4, SerialFrame
<1>10. RegisterInv'
  BY <1>1 DEF FoundInv, RegisterInv
<1>11. AnswerInv'
  <2>1. Id770' = Id770
    BY <1>6 DEF Id770
  <2>2. CASE Read
    <3>1. PICK a \in Answers : TrapRead(a)
      BY <2>2 DEF Read
    <3>2. pc = "trap read" /\ pc' = "trap leave" /\ trap'.answer = a
      BY <3>1 DEF TrapRead, Go, HardwareInv, Fields
    <3> QED
      BY <1>3, <3>2, AnswerFits
  <2>3. CASE TrapLeave
    <3>1. pc = "trap leave" /\ UNCHANGED trap
      BY <2>3 DEF TrapLeave, Go
    <3>2. pc # "trap read"
      BY <3>1
    <3> QED
      BY <1>3, <1>6, <2>1, <3>1, <3>2 DEF FoundInv, AnswerInv
  <2>4. CASE BranchError /\ pc' = "trap read"
    BY <1>6, <2>4 DEF FoundInv, AnswerInv
  <2>5. CASE BranchError /\ pc' # "trap read"
    <3>1. trap'.answer = Fault /\ ~Exec36 /\ machine.cpu \in {"68060", "68LC060", "68EC060"}
      BY <2>5 DEF BranchError, Retries, HardwareInv, Fields
    <3>2. ~Fat
      BY <3>1, OfBoard DEF Of060
    <3>3. At \notin DmaInner
      BY <3>2 DEF FoundInv, DmaInv, DmaInner
    <3>4. At # "clock read"
      BY <3>1 DEF FoundInv, BoardInv
    <3>5. At = "alias read" \/ At \notin {"ncr 770 read", "ncr 710 read", "sdmac signature",
            "sdmac istr read", "pass istr read", "sdmac asr read", "pass asr read",
            "pass write", "pass restore", "pass judge", "clock read"}
      BY <3>3, <3>4 DEF DmaInner, DmaPlaces, NcrPlaces, SdmacPlaces, StatusPlaces,
                        CountPlaces, Pass
    <3>6. machine.dma # "none" => scsi.state \in {"idle", "transfer", "service"}
      BY DEF FoundInv, AnswerInv
    <3> QED
      BY <1>3, <1>6, <3>1, <3>3, <3>4, <3>5, <3>6
         DEF AnswerInv, Fault, DmaInner, DmaPlaces, NcrPlaces, SdmacPlaces, StatusPlaces,
             CountPlaces, Pass
  <2> QED
    BY <2>2, <2>3, <2>4, <2>5
<1> QED
  BY <1>7, <1>8, <1>9, <1>10, <1>11 DEF FoundInv

\* The next stage begins at a label outside the tests.
LEMMA Heads ==
  ASSUME NEW i \in 2 .. 14
  PROVE  /\ Stages[i] \notin Hooked \cup Inner \cup {"next", "mmu translation", "mmu read"}
         /\ Stages[i] = "fpu" => i = 2
         /\ Stages[i] = "mmu" => i = 3
         /\ Stages[i] = "remap" => i = 4
         /\ Stages[i] = "vbr" => i = 5
         /\ Stages[i] = "chipset" => i = 6
         /\ Stages[i] = "gary" => i = 7
         /\ Stages[i] = "ramsey" => i = 8
         /\ Stages[i] = "dma" => i = 9
         /\ Stages[i] = "slots" => i = 10
         /\ Stages[i] = "alias" => i = 11
         /\ Stages[i] = "clock" => i = 12
         /\ Stages[i] = "batt" => i = 13
         /\ Stages[i] \in {"fpu", "mmu", "remap", "vbr", "chipset", "gary", "ramsey", "dma",
                           "slots", "alias", "clock", "batt", "caches"}
<1>1. i \in {2, 3, 4, 5, 6, 7, 8, 9, 10, 11, 12, 13, 14}
  OBVIOUS
<1>2. Stages[i] \in {"fpu", "mmu", "remap", "vbr", "chipset", "gary", "ramsey", "dma",
                     "slots", "alias", "clock", "batt", "caches"}
  BY <1>1 DEF Stages
<1>3. /\ Stages[i] = "fpu" => i = 2
      /\ Stages[i] = "mmu" => i = 3
      /\ Stages[i] = "remap" => i = 4
      /\ Stages[i] = "vbr" => i = 5
      /\ Stages[i] = "chipset" => i = 6
      /\ Stages[i] = "gary" => i = 7
      /\ Stages[i] = "ramsey" => i = 8
      /\ Stages[i] = "dma" => i = 9
      /\ Stages[i] = "slots" => i = 10
      /\ Stages[i] = "alias" => i = 11
      /\ Stages[i] = "clock" => i = 12
      /\ Stages[i] = "batt" => i = 13
  BY <1>1 DEF Stages
<1>4. Stages[i] \notin Hooked \cup Inner \cup {"next", "mmu translation", "mmu read"}
  BY <1>2 DEF Hooked, Inner, GaryInner, GaryPlaces, DmaInner, DmaPlaces, NcrPlaces,
              SdmacPlaces, StatusPlaces, CountPlaces, Pass, AliasLabels
<1> QED
  BY <1>2, <1>3, <1>4

\* A stage begins at its own label.
LEMMA AtHead ==
  ASSUME NEW i \in 2 .. 14, At' = Stages[i], stage' = i
  PROVE  PlaceInv'
<1>1. At' \in {"fpu", "mmu", "remap", "vbr", "chipset", "gary", "ramsey", "dma",
               "slots", "alias", "clock", "batt", "caches"}
  BY Heads
<1>2. /\ At' \notin Early /\ At' \in MmuPlaces => At' = "mmu"
      /\ At' \in {"remap", "remap close"} => At' = "remap"
      /\ At' \in GaryPlaces => At' = "gary"
  BY <1>1 DEF Early, Trying, MmuPlaces, GaryPlaces
<1>3. At' \in DmaPlaces => At' = "dma"
  BY <1>1 DEF DmaPlaces, NcrPlaces, SdmacPlaces, StatusPlaces, CountPlaces, Pass
<1>4. /\ At' \in AliasPlaces => At' = "alias"
      /\ At' \in {"clock", "clock read"} => At' = "clock"
      /\ At' \in {"batt", "batt read"} => At' = "batt"
  BY <1>1 DEF AliasPlaces, AliasLabels
<1> QED
  BY <1>2, <1>3, <1>4, Heads
     DEF PlaceInv, Early, Trying, MmuPlaces, GaryPlaces, DmaPlaces, NcrPlaces, SdmacPlaces,
         StatusPlaces, CountPlaces, Pass, AliasPlaces, AliasLabels

\* What is past stays so.
LEMMA PastNext ==
  ASSUME stage \in 1 .. 13, stage' = stage + 1, pc = "next", pc' # "next", NEW k \in 1 .. 13
  PROVE  Past(k)' <=> Past(k)
BY DEF Past

\* After the last stage all are past, as they were.
LEMMA PastAll ==
  ASSUME stage = 14, stage' = 0, NEW k \in 1 .. 13
  PROVE  Past(k)' <=> Past(k)
BY DEF Past

\* Going to the next stage changes nothing that is known.
LEMMA StageFinds ==
  ASSUME WorkInv, FoundInv, NextStage, UNCHANGED machine
  PROVE  FoundInv'
<1>1. /\ pc = "next" /\ stage \in 1 .. 14 /\ Len(Stages) = 14
      /\ UNCHANGED <<masks, trapVars, cpuVars, chipVars, machine>>
  BY DEF NextStage, Stages, WorkInv, OrderInv
<1>2. \/ stage \in 1 .. 13 /\ stage' = stage + 1 /\ pc' = Stages[stage + 1]
      \/ stage = 14 /\ stage' = 0 /\ pc' = "idle"
  BY <1>1 DEF NextStage
<1>3. pc' \notin Hooked \cup Inner \cup {"next", "mmu translation", "mmu read"}
  <2>1. CASE stage \in 1 .. 13 /\ pc' = Stages[stage + 1]
    <3>1. stage + 1 \in 2 .. 14
      BY <2>1
    <3> QED
      BY <2>1, <3>1, Heads
  <2>2. CASE pc' = "idle"
    BY <2>2 DEF Hooked, Inner, GaryInner, GaryPlaces, DmaInner, DmaPlaces, NcrPlaces,
                SdmacPlaces, StatusPlaces, CountPlaces, Pass, AliasLabels
  <2> QED
    BY <1>2, <2>1, <2>2
<1>4. ASSUME NEW k \in 1 .. 13
      PROVE  Past(k)' <=> Past(k)
  <2>1. pc = "next" /\ pc' # "next"
    BY <1>1, <1>3
  <2>2. CASE stage \in 1 .. 13 /\ stage' = stage + 1
    BY <2>1, <2>2, PastNext
  <2>3. CASE stage = 14 /\ stage' = 0
    BY <2>3, PastAll
  <2> QED
    BY <1>2, <2>2, <2>3
<1>5. At = pc /\ At' = pc' /\ pc \notin Hooked \cup Inner
  BY <1>1, <1>3 DEF At, Hooked, Inner, GaryInner, GaryPlaces, DmaInner, DmaPlaces, NcrPlaces,
                    SdmacPlaces, StatusPlaces, CountPlaces, Pass, AliasLabels
<1>6. /\ (Past(1)' <=> Past(1)) /\ (Past(2)' <=> Past(2)) /\ (Past(3)' <=> Past(3))
      /\ (Past(6)' <=> Past(6)) /\ (Past(7)' <=> Past(7)) /\ (Past(8)' <=> Past(8))
      /\ (Past(9)' <=> Past(9)) /\ (Past(12)' <=> Past(12))
  BY <1>4
<1>7. PlaceInv'
  <2>1. CASE stage \in 1 .. 13 /\ stage' = stage + 1 /\ pc' = Stages[stage + 1]
    <3>1. stage + 1 \in 2 .. 14
      BY <2>1
    <3> QED
      BY <1>5, <2>1, <3>1, AtHead
  <2>2. CASE pc' = "idle"
    <3>1. At' = "idle"
      BY <1>5, <2>2
    <3> QED
      BY <3>1 DEF PlaceInv, Early, Trying, MmuPlaces, GaryPlaces, DmaPlaces, NcrPlaces,
                  SdmacPlaces, StatusPlaces, CountPlaces, Pass, AliasPlaces, AliasLabels
  <2> QED
    BY <1>2, <2>1, <2>2
<1>8. TypeInv'
  <2>1. UNCHANGED <<machine, wanted.tc, info.type, info.fpu, info.mmu, info.present,
                    info.translation>>
    BY <1>1 DEF cpuVars
  <2>2. pc \notin {"mmu translation", "mmu read"} /\ pc' \notin {"mmu translation", "mmu read"}
    BY <1>1, <1>3
  <2> QED
    BY <1>6, <2>1, <2>2, TypeFrame DEF FoundInv
<1>9. RecordInv'
  BY <1>1 DEF FoundInv, RecordInv, cpuVars, chipVars
<1> QED
  BY <1>1, <1>3, <1>5, <1>6, <1>7, <1>8, <1>9, ChipsFound DEF FoundInv
-----------------------------------------------------------------------------
(* The alias of the upper megabyte *)

AliasStep == StartAlias(Plain) \/ AliasPass \/ AskUpper \/ AliasRead

Compared == {"match", "other", Fault}

\* Where the test of the upper megabyte is and what it leaves alone.
LEMMA AliasPlace ==
  ASSUME AliasStep, FoundInv
  PROVE  /\ pc \in {"alias", "alias pass", "alias ask", "alias read"}
         /\ UNCHANGED scsi
         /\ UNCHANGED <<chips.denise, chips.agnus, chips.gary, chips.ramsey, chips.ncr,
                        chips.sdmac, chips.rev, chips.clock>>
         /\ DOMAIN test' = DOMAIN test /\ DOMAIN chips' = DOMAIN chips
         /\ \/ pc' \in {"next", "alias pass", "alias ask"} /\ UNCHANGED trap
            \/ pc' = "trap read" /\ trap'.back = "alias read" /\ trap'.register = "UPPER"
<1> USE DEF AliasStep, FoundInv, RecordInv, Step, Go, chipVars, trapVars
<1>1. CASE StartAlias(Plain)
  BY <1>1 DEF StartAlias, NoTest
<1>2. CASE AliasPass
  BY <1>2 DEF AliasPass
<1>3. CASE AskUpper
  BY <1>3 DEF AskUpper, Ask, AskAt, Probe, NoTrap
<1>4. CASE AliasRead
  BY <1>4 DEF AliasRead, LeavePass
<1> QED
  BY <1>1, <1>2, <1>3, <1>4

\* One more answer.
LEMMA OneMore ==
  ASSUME NEW S, NEW q \in Seq(S), NEW a \in S
  PROVE  /\ Append(q, a) \in Seq(S) /\ Len(Append(q, a)) = Len(q) + 1 /\ Len(q) \in Nat
         /\ \A i \in DOMAIN Append(q, a) :
              \/ i \in DOMAIN q /\ Append(q, a)[i] = q[i]
              \/ i = Len(q) + 1 /\ Append(q, a)[i] = a
         /\ Len(q) + 1 \in DOMAIN Append(q, a) /\ Append(q, a)[Len(q) + 1] = a
         /\ \A i \in DOMAIN q : i \in DOMAIN Append(q, a) /\ Append(q, a)[i] = q[i]
OBVIOUS

\* One answer for each pass.
LEMMA AliasCount ==
  ASSUME NEW n, NEW l
  PROVE  /\ n \in {0, 1} /\ l = n => n + 1 \in {1, 2} /\ l = (n + 1) - 1
         /\ n \in {1, 2} /\ l = n - 1 => l + 1 = n
OBVIOUS

\* Two answers that match tell a mirror, two others that there is none.
LEMMA AliasFinds ==
  ASSUME FoundInv, AliasStep, UNCHANGED machine
  PROVE  AliasInv'
<1>0. DOMAIN test = {"saved", "round", "first", "prev", "count", "answers", "value"}
      /\ DOMAIN chips = {"denise", "agnus", "gary", "ramsey", "ncr", "config", "sdmac", "rev",
                         "slots", "alias", "clock", "batt"}
  BY DEF FoundInv, RecordInv
<1>1. CASE StartAlias(Plain)
  <2>1. /\ pc' \in {"alias pass", "next"} /\ test'.count = 0 /\ test'.answers = <<>>
        /\ chips' = chips
    BY <1>1 DEF StartAlias, Step, Go, NoTest
  <2>2. At' = pc'
    BY <2>1 DEF At, Hooked
  <2>3. /\ Len(<<>>) = 0 /\ <<>> \in Seq({"match", "other", Fault}) /\ 0 \in {0, 1}
        /\ \A i \in DOMAIN <<>> : FALSE
    OBVIOUS
  <2> QED
    BY <2>1, <2>2, <2>3 DEF FoundInv, AliasInv, AliasLabels
<1>2. CASE AliasPass
  <2>1. /\ pc = "alias pass" /\ pc' = "alias ask" /\ At = pc /\ At' = pc'
        /\ test'.count = test.count + 1 /\ test'.answers = test.answers
        /\ chips' = chips
    BY <1>0, <1>2 DEF AliasPass, Go, At, Hooked
  <2>2. test.count \in {0, 1} /\ Len(test.answers) = test.count
    BY <2>1 DEF FoundInv, AliasInv, AliasLabels
  <2>3. test'.count \in {1, 2} /\ Len(test'.answers) = test'.count - 1
    <3>1. test.count + 1 \in {1, 2} /\ Len(test.answers) = (test.count + 1) - 1
      BY <2>2, AliasCount
    <3> QED
      BY Zenon, <2>1, <3>1
  <2> QED
    BY <2>1, <2>3 DEF FoundInv, AliasInv, AliasLabels
<1>3. CASE AskUpper
  <2>1. pc = "alias ask" /\ At = pc /\ At' = "alias read" /\ UNCHANGED <<test, chips>>
    BY <1>3, AliasPlace DEF AskUpper, Ask, AskAt, Probe, At, Hooked
  <2> QED
    BY <2>1 DEF FoundInv, AliasInv, AliasLabels
<1>4. CASE AliasRead
  <2> DEFINE a == trap.answer
             answers == Append(test.answers, a)
             last == a = Fault \/ test.count = 2
  <2>1. /\ pc = "alias read" /\ At = pc /\ pc' = IF last THEN "next" ELSE "alias pass"
        /\ test'.answers = answers /\ test'.count = test.count
        /\ chips'.alias = IF ~last THEN chips.alias
                          ELSE IF a = Fault THEN "inconclusive"
                          ELSE IF Mirror(answers) THEN "mirrored"
                          ELSE IF \A i \in DOMAIN answers : answers[i] = "other"
                               THEN "none" ELSE "inconclusive"
    BY <1>0, <1>4 DEF AliasRead, LeavePass, At, Hooked
  <2>2. At' = pc'
    BY <2>1 DEF At, Hooked
  <2>3. /\ test.count \in {1, 2} /\ Len(test.answers) = test.count - 1
        /\ test.answers \in Seq(Compared)
    BY <2>1 DEF FoundInv, AliasInv, AliasLabels, Compared
  <2>4. /\ machine.upper = "alias" => \A i \in DOMAIN test.answers : test.answers[i] = "match"
        /\ machine.upper # "alias" =>
             \A i \in DOMAIN test.answers :
               test.answers[i] = "match" => i = 1 /\ machine.upper = "first"
    BY <2>1 DEF FoundInv, AliasInv, AliasLabels
  <2>5. /\ a = "match" => machine.upper \in {"alias", <<"first", "second">>[test.count]}
        /\ a \in Compared
        /\ machine.upper = "alias" => a \in {"match", Fault}
    BY <2>1 DEF FoundInv, AnswerInv, Compared
  <2>6. /\ answers \in Seq(Compared) /\ Len(answers) = test.count
        /\ \A i \in DOMAIN answers :
             \/ i \in DOMAIN test.answers /\ answers[i] = test.answers[i]
             \/ i = test.count /\ answers[i] = a
        /\ test.count \in DOMAIN answers /\ answers[test.count] = a
        /\ \A i \in DOMAIN test.answers : i \in DOMAIN answers /\ answers[i] = test.answers[i]
    <3>1. Len(test.answers) + 1 = test.count
      BY <2>3, AliasCount
    <3>2. /\ answers \in Seq(Compared) /\ Len(answers) = Len(test.answers) + 1
          /\ \A i \in DOMAIN answers :
               \/ i \in DOMAIN test.answers /\ answers[i] = test.answers[i]
               \/ i = Len(test.answers) + 1 /\ answers[i] = a
          /\ Len(test.answers) + 1 \in DOMAIN answers
          /\ answers[Len(test.answers) + 1] = a
          /\ \A i \in DOMAIN test.answers : i \in DOMAIN answers /\ answers[i] = test.answers[i]
      <4>1. test.answers \in Seq(Compared) /\ a \in Compared
        BY <2>3, <2>5
      <4> QED
        BY <4>1, OneMore
    <3> QED
      BY Zenon, <3>1, <3>2
  <2>7. test.count = 2 => 1 \in DOMAIN test.answers
    BY <2>3
  <2> HIDE DEF answers, a
  <2>8. CASE last /\ a # Fault
    <3>1. test.count = 2 /\ 1 \in DOMAIN test.answers
      BY <2>7, <2>8
    <3>2. Mirror(answers) => machine.upper = "alias"
      <4> SUFFICES ASSUME Mirror(answers), machine.upper # "alias"
                   PROVE  FALSE
        OBVIOUS
      <4>1. a = "match" /\ test.answers[1] = "match"
        BY <2>6, <3>1 DEF Mirror
      <4>2. machine.upper = "first"
        BY <2>4, <3>1, <4>1
      <4>3. <<"first", "second">>[test.count] = "second"
        BY <3>1
      <4> QED
        BY <2>5, <4>1, <4>2, <4>3
    <3>3. (\A i \in DOMAIN answers : answers[i] = "other") => machine.upper # "alias"
      <4>1. (\A i \in DOMAIN answers : answers[i] = "other") => a = "other"
        BY <2>6
      <4> QED
        BY <2>5, <2>8, <4>1 DEF Fault
    <3>4. At' = "next"
      BY <2>1, <2>2, <2>8
    <3>5. /\ chips'.alias = "mirrored" => machine.upper = "alias"
          /\ chips'.alias = "none" => machine.upper # "alias"
      BY <2>1, <2>8, <3>2, <3>3
    <3> QED
      BY <3>4, <3>5 DEF AliasInv, AliasLabels
  <2>9. CASE a = Fault
    <3>1. At' = "next" /\ chips'.alias = "inconclusive"
      BY <2>1, <2>2, <2>9
    <3> QED
      BY <3>1 DEF AliasInv, AliasLabels
  <2>10. CASE ~last
    <3>1. test.count = 1 /\ At' = "alias pass" /\ chips'.alias = chips.alias
      BY <2>1, <2>2, <2>3, <2>10
    <3>2. <<"first", "second">>[test.count] = "first"
      <4>1. <<"first", "second">>[1] = "first"
        OBVIOUS
      <4> QED
        BY Zenon, <3>1, <4>1
    <3>3. machine.upper = "alias" => \A i \in DOMAIN answers : answers[i] = "match"
      BY <2>4, <2>5, <2>6, <2>10
    <3>4. machine.upper # "alias" =>
            \A i \in DOMAIN answers : answers[i] = "match" => i = 1 /\ machine.upper = "first"
      BY <2>4, <2>5, <2>6, <3>1, <3>2
    <3>5. /\ test'.count \in {0, 1} /\ Len(test'.answers) = test'.count
          /\ test'.answers \in Seq({"match", "other", Fault}) /\ test'.answers = answers
      BY <2>1, <2>6, <3>1 DEF Compared
    <3>6. /\ chips'.alias = "mirrored" => machine.upper = "alias"
          /\ chips'.alias = "none" => machine.upper # "alias"
      BY <3>1 DEF FoundInv, AliasInv
    <3> QED
      BY <3>1, <3>3, <3>4, <3>5, <3>6 DEF AliasInv, AliasLabels
  <2> QED
    BY <2>8, <2>9, <2>10
<1> QED
  BY <1>1, <1>2, <1>3, <1>4 DEF AliasStep

\* Where the stage is while the megabytes are compared.
LEMMA AliasPast ==
  ASSUME stage = 11, UNCHANGED stage, pc # "next"
  PROVE  /\ (Past(6)' <=> Past(6)) /\ (Past(7)' <=> Past(7)) /\ (Past(8)' <=> Past(8))
         /\ (Past(9)' <=> Past(9)) /\ (Past(12)' <=> Past(12))
BY DEF Past

\* Every step of it leaves what is known true.
LEMMA AliasKeeps ==
  ASSUME WorkInv, FoundInv, AliasStep, UNCHANGED <<cpuVars, machine, stage>>
  PROVE  FoundInv'
<1>1. /\ pc \in {"alias", "alias pass", "alias ask", "alias read"} /\ UNCHANGED scsi
      /\ UNCHANGED <<chips.denise, chips.agnus, chips.gary, chips.ramsey, chips.ncr,
                     chips.sdmac, chips.rev, chips.clock>>
      /\ DOMAIN test' = DOMAIN test /\ DOMAIN chips' = DOMAIN chips
      /\ \/ pc' \in {"next", "alias pass", "alias ask"} /\ UNCHANGED trap
         \/ pc' = "trap read" /\ trap'.back = "alias read" /\ trap'.register = "UPPER"
  BY AliasPlace
<1>2. /\ At = pc /\ At' \in {"next", "alias pass", "alias ask", "alias read"}
      /\ pc \notin {"next", "mmu translation", "mmu read"}
      /\ pc' \notin {"mmu translation", "mmu read"}
      /\ pc' \notin GaryInner /\ At' \notin DmaInner /\ At \notin DmaInner
      /\ At' # "clock read"
  BY <1>1 DEF At, Hooked, GaryInner, GaryPlaces, DmaInner, DmaPlaces, NcrPlaces,
              SdmacPlaces, StatusPlaces, CountPlaces, Pass
<1>3. stage = 11
  BY <1>1, <1>2 DEF FoundInv, PlaceInv, AliasPlaces, AliasLabels
<1>4. /\ (Past(6)' <=> Past(6)) /\ (Past(7)' <=> Past(7)) /\ (Past(8)' <=> Past(8))
      /\ (Past(9)' <=> Past(9)) /\ (Past(12)' <=> Past(12))
  <2>1. pc # "next" /\ UNCHANGED stage
    BY <1>2
  <2> QED
    BY <1>3, <2>1, AliasPast
<1>5. PlaceInv'
  <2>1. \/ At' \in Late
        \/ At \in {"alias"} \cup AliasLabels /\ At' \in {"alias"} \cup AliasLabels
    BY <1>1, <1>2 DEF Late, AliasLabels
  <2> QED
    BY <2>1, PlaceFrame DEF FoundInv, Groups
<1>6. TypeInv'
  <2>1. stage \in 6..13
    BY <1>3
  <2> QED
    BY <1>2, <2>1, ChipTypes
<1>7. BoardInv'
  BY <1>1, <1>2, <1>4, BoardFrame DEF FoundInv, GaryInner, GaryPlaces
<1>8. SerialInv' /\ AliasInv'
  BY <1>2, SerialFrame, AliasFinds
<1>9. DmaInv' /\ SignInv' /\ PatternInv'
  BY <1>1, <1>2, <1>4, DmaFrame DEF FoundInv
<1>10. RegisterInv'
  BY <1>1 DEF RegisterInv, Hooked
<1>11. AnswerInv'
  <2>1. pc' = "trap read" \/ At' \notin {"alias read", "ncr 770 read", "ncr 710 read",
          "sdmac signature", "sdmac istr read", "pass istr read", "sdmac asr read",
          "pass asr read", "pass write", "pass restore", "pass judge", "clock read"}
    BY <1>1 DEF At, Hooked
  <2>2. machine'.dma # "none" => scsi'.state \in {"idle", "transfer", "service"}
    BY <1>1 DEF FoundInv, AnswerInv
  <2> QED
    BY <2>1, <2>2 DEF AnswerInv
<1>12. RecordInv'
  BY <1>1 DEF FoundInv, RecordInv, cpuVars
<1> QED
  BY <1>5, <1>6, <1>7, <1>8, <1>9, <1>10, <1>11, <1>12 DEF FoundInv
-----------------------------------------------------------------------------
(* The clock *)

ClockStep == DetectClock \/ AskClock(Plain) \/ ReadClock

\* Where the test of the clock is and what it leaves alone.
LEMMA ClockPlace ==
  ASSUME ClockStep, FoundInv
  PROVE  /\ pc \in {"clock", "clock read"}
         /\ UNCHANGED <<scsi, test>>
         /\ UNCHANGED <<chips.denise, chips.agnus, chips.gary, chips.ramsey, chips.ncr,
                        chips.sdmac, chips.rev, chips.alias>>
         /\ DOMAIN chips' = DOMAIN chips
         /\ \/ pc' = "next" /\ UNCHANGED trap
            \/ /\ pc = "clock" /\ pc' = "trap read" /\ trap'.back = "clock read"
               /\ trap'.register = "TIME" /\ Plain /\ chips.gary = "A1000"
               /\ UNCHANGED chips
<1> USE DEF ClockStep, FoundInv, RecordInv, Step, Go, chipVars, trapVars
<1>1. CASE DetectClock
  BY <1>1 DEF DetectClock
<1>2. CASE AskClock(Plain)
  BY <1>2 DEF AskClock, Ask, AskAt, Probe, NoTrap
<1>3. CASE ReadClock
  BY <1>3 DEF ReadClock
<1> QED
  BY <1>1, <1>2, <1>3

\* Where the stage is while the clock is looked for.
LEMMA ClockPast ==
  ASSUME stage = 12, UNCHANGED stage, pc # "next"
  PROVE  /\ (Past(6)' <=> Past(6)) /\ (Past(7)' <=> Past(7)) /\ (Past(8)' <=> Past(8))
         /\ (Past(9)' <=> Past(9)) /\ (Past(12)' <=> pc' = "next")
         /\ Past(6) /\ Past(7) /\ Past(8) /\ Past(3) /\ ~Past(12) /\ stage \in 6..13
BY DEF Past

\* Register F tells the clocks of the other boards, the date that of an A1000.
LEMMA ClockIsReal ==
  ASSUME WorkInv, FoundInv, ClockStep, chips.gary = machine.gary, pc' = "next",
         Past(3), pc = "clock read" => machine.gary = "A1000"
  PROVE  chips'.clock = machine.rtc
<1>0. DOMAIN chips = {"denise", "agnus", "gary", "ramsey", "ncr", "config", "sdmac", "rev",
                      "slots", "alias", "clock", "batt"}
  BY DEF FoundInv, RecordInv
<1>1. CASE DetectClock
  <2>1. machine.gary # "A1000"
    BY <1>1 DEF DetectClock
  <2>2. machine.rtc \in {"NONE", "MSM6242", "RP5C01"}
        /\ (machine.rtc = "NONE" => machine.rtcF # "4")
    BY <2>1, OfBoard
  <2>3. chips'.clock = CASE RegisterF = "4" -> "MSM6242"
                         [] RegisterF = "0" /\ Is5C01 -> "RP5C01"
                         [] OTHER -> "NONE"
    BY <1>0, <1>1 DEF DetectClock
  <2> QED
    BY <2>2, <2>3 DEF RegisterF, Is5C01
<1>2. CASE AskClock(Plain)
  <2>1. ~Plain /\ machine.gary = "A1000" /\ chips'.clock = "NONE" /\ pc = "clock"
    BY <1>0, <1>2 DEF AskClock, Ask, AskAt, Probe, Step, Go
  <2>2. machine.cpu # "68000"
    <3>1. info.type = RealType
      BY DEF FoundInv, TypeInv, Tried
    <3>2. machine.cpu = "68000" => RealType = "68000"
      BY OfMachine DEF RealType
    <3> QED
      BY <2>1, <3>1, <3>2 DEF Plain
  <2> QED
    BY <2>1, <2>2, OfBoard
<1>3. CASE ReadClock
  <2>1. pc = "clock read" /\ At = pc /\ chips'.clock = IF trap.answer = "date" THEN "MK48T02"
                                                      ELSE "NONE"
    BY <1>0, <1>3 DEF ReadClock, Step, Go, At, Hooked
  <2>2. trap.answer = "date" <=> machine.rtc = "MK48T02"
    BY <2>1 DEF FoundInv, AnswerInv
  <2> QED
    BY <2>1, <2>2, OfBoard
<1> QED
  BY <1>1, <1>2, <1>3 DEF ClockStep

\* Every step of it leaves what is known true.
LEMMA ClockKeeps ==
  ASSUME WorkInv, FoundInv, ClockStep, UNCHANGED <<cpuVars, machine, stage>>
  PROVE  FoundInv'
<1>1. /\ pc \in {"clock", "clock read"}
      /\ UNCHANGED <<scsi, test>>
      /\ UNCHANGED <<chips.denise, chips.agnus, chips.gary, chips.ramsey, chips.ncr,
                     chips.sdmac, chips.rev, chips.alias>>
      /\ DOMAIN chips' = DOMAIN chips
      /\ \/ pc' = "next" /\ UNCHANGED trap
         \/ /\ pc = "clock" /\ pc' = "trap read" /\ trap'.back = "clock read"
            /\ trap'.register = "TIME" /\ Plain /\ chips.gary = "A1000"
            /\ UNCHANGED chips
  BY ClockPlace
<1>2. /\ At = pc /\ At' = (IF pc' = "next" THEN "next" ELSE "clock read")
      /\ pc \notin {"next", "mmu translation", "mmu read"}
      /\ pc' \notin {"mmu translation", "mmu read"}
      /\ pc' \notin GaryInner /\ At' \notin DmaInner /\ At \notin DmaInner
      /\ At' \notin AliasLabels
  BY <1>1 DEF At, Hooked, GaryInner, GaryPlaces, DmaInner, DmaPlaces, NcrPlaces,
              SdmacPlaces, StatusPlaces, CountPlaces, Pass, AliasLabels
<1>3. stage = 12
  BY <1>1, <1>2 DEF FoundInv, PlaceInv
<1>4. /\ (Past(6)' <=> Past(6)) /\ (Past(7)' <=> Past(7)) /\ (Past(8)' <=> Past(8))
      /\ (Past(9)' <=> Past(9)) /\ (Past(12)' <=> pc' = "next")
      /\ Past(6) /\ Past(7) /\ Past(8) /\ Past(3) /\ ~Past(12) /\ stage \in 6..13
  <2>1. pc # "next" /\ UNCHANGED stage
    BY <1>2
  <2> QED
    BY <1>3, <2>1, ClockPast
<1>5. PlaceInv'
  <2>1. At' \in Late \/ (At \in {"clock", "clock read"} /\ At' \in {"clock", "clock read"})
    BY <1>1, <1>2 DEF Late
  <2> QED
    BY <2>1, PlaceFrame DEF FoundInv, Groups
<1>6. TypeInv'
  BY <1>2, <1>4, ChipTypes
<1>7. BoardInv'
  <2>1. Agnus' = Agnus
    BY DEF Agnus
  <2>2. chips.gary = machine.gary
    BY <1>4 DEF FoundInv, BoardInv
  <2>3. pc = "clock read" => machine.gary = "A1000"
    BY <1>2 DEF FoundInv, BoardInv
  <2>4. pc' = "next" => chips'.clock = machine.rtc
    BY <1>4, <2>2, <2>3, ClockIsReal
  <2>5. pc' # "next" => machine.gary = "A1000" /\ machine.cpu = "68000"
    <3>1. info.type = RealType
      BY <1>4 DEF FoundInv, TypeInv, Tried
    <3> QED
      BY <1>1, <2>2, <3>1 DEF Plain, RealType
  <2>6. pc' \notin {"gary good", "gary id", "gary bits"}
    BY <1>1
  <2> QED
    BY <1>1, <1>2, <1>4, <2>1, <2>4, <2>5, <2>6 DEF FoundInv, BoardInv
<1>8. SerialInv' /\ AliasInv'
  BY <1>1, <1>2, SerialFrame, AliasFrame DEF FoundInv
<1>9. DmaInv' /\ SignInv' /\ PatternInv'
  BY <1>1, <1>2, <1>4, DmaFrame DEF FoundInv
<1>10. RegisterInv'
  BY <1>1 DEF RegisterInv, Hooked
<1>11. AnswerInv'
  <2>1. pc' = "trap read" \/ At' \notin {"alias read", "ncr 770 read", "ncr 710 read",
          "sdmac signature", "sdmac istr read", "pass istr read", "sdmac asr read",
          "pass asr read", "pass write", "pass restore", "pass judge", "clock read"}
    BY <1>1, <1>2
  <2>2. machine'.dma # "none" => scsi'.state \in {"idle", "transfer", "service"}
    BY <1>1 DEF FoundInv, AnswerInv
  <2> QED
    BY <2>1, <2>2 DEF AnswerInv
<1>12. RecordInv'
  BY <1>1 DEF FoundInv, RecordInv, cpuVars
<1> QED
  BY <1>5, <1>6, <1>7, <1>8, <1>9, <1>10, <1>11, <1>12 DEF FoundInv
-----------------------------------------------------------------------------
(* The SCSI chips *)

NcrStep == StartDma \/ Ask770 \/ Read770 \/ Ask710 \/ Read710 \/ AskConfig \/ ReadConfig
SdmacStep == AskSignature \/ ReadSignature \/ AskIstr \/ ReadIstr \/ AskAsr \/ ReadAsr
PassStep == StartPass \/ PassAsr \/ PassStatus("pass asr read", "pass istr") \/ PassIstr
            \/ PassStatus("pass istr read", "pass wtc") \/ PassWtc \/ PassWrite \/ PassBack
            \/ PassRestore \/ PassJudge
DmaStep == NcrStep \/ SdmacStep \/ PassStep

\* Whose answers are used where.
Asked ==
  /\ trap.back \in Backs \ {"alias read", "clock read"}
  /\ trap.back = "ncr 770 read" => trap.register = "770"
  /\ trap.back = "ncr 710 read" => trap.register = "CTEST8"
  /\ trap.back = "sdmac signature" => trap.register = "REVISION"
  /\ trap.back \in {"sdmac istr read", "pass istr read"} => trap.register = "ISTR"
  /\ trap.back \in {"sdmac asr read", "pass asr read"} => trap.register = "ASR"
  /\ trap.back \in {"pass write", "pass restore"} => trap.register = "WTC"

\* Where a step of this stage comes from and where it leads; what it asks; what
\* it leaves alone.
DmaMoves ==
  /\ pc \in DmaPlaces
  /\ \/ /\ pc' \in (DmaPlaces \cup {"next"}) \ (Backs \cup Hooked)
        /\ UNCHANGED trap
        /\ pc' = "pass judge" => pc = "pass restore"
     \/ pc' = "trap read" /\ Asked'
  /\ UNCHANGED <<chips.denise, chips.agnus, chips.gary, chips.ramsey, chips.alias, chips.clock>>
  /\ DOMAIN chips' = DOMAIN chips /\ DOMAIN test' = DOMAIN test
  /\ UNCHANGED scsi.state

\* Every step of the stage of the SCSI chips is such a move.
LEMMA DmaPlace ==
  ASSUME HardwareInv, FoundInv, DmaStep
  PROVE  DmaMoves
<1> USE DEF DmaMoves, DmaPlaces, NcrPlaces, SdmacPlaces, StatusPlaces, CountPlaces, Pass,
            Backs, Hooked, Asked
<1>0. /\ DOMAIN test = {"saved", "round", "first", "prev", "count", "answers", "value"}
      /\ DOMAIN chips = {"denise", "agnus", "gary", "ramsey", "ncr", "config", "sdmac", "rev",
                         "slots", "alias", "clock", "batt"}
      /\ "state" \in DOMAIN scsi /\ "wtc" \in DOMAIN scsi
  BY DEF FoundInv, RecordInv, HardwareInv, Fields
<1>1. CASE StartDma \/ Read770 \/ Read710 \/ ReadConfig
  BY <1>0, <1>1 DEF StartDma, Read770, Read710, ReadConfig, Step, Go, NoTest, chipVars, trapVars
<1>2. CASE Ask770 \/ Ask710 \/ AskConfig
  BY <1>0, <1>2 DEF Ask770, Ask710, AskConfig, Ask, AskAt, Probe, NoTrap
<1>3. CASE AskSignature
  <2>1. CASE chips.ramsey
    <3>1. Ask("sdmac", "REVISION", "sdmac signature")
      BY <1>3, <2>1 DEF AskSignature
    <3> QED
      BY <1>0, <3>1 DEF Ask, AskAt, Probe, NoTrap
  <2>2. CASE ~chips.ramsey
    BY <1>0, <1>3, <2>2 DEF AskSignature, Step, Go, chipVars, trapVars
  <2> QED
    BY <2>1, <2>2
<1>4. CASE ReadSignature
  BY <1>0, <1>4 DEF ReadSignature, Probe, NoTrap, NoTest, Step, Go, trapVars
<1>5. CASE AskIstr \/ AskAsr
  BY <1>0, <1>5 DEF AskIstr, AskAsr, Ask, AskAt, Probe, NoTrap
<1>6. CASE ReadIstr \/ ReadAsr
  BY <1>0, <1>6 DEF ReadIstr, ReadAsr, Step, Go, NoTest, chipVars, trapVars
<1>7. CASE StartPass
  BY <1>0, <1>7 DEF StartPass, Go, trapVars
<1>8. CASE PassAsr \/ PassIstr \/ PassWtc \/ PassBack
  BY <1>0, <1>8 DEF PassAsr, PassIstr, PassWtc, PassBack, Ask, AskAt, Probe, NoTrap
<1>9. CASE PassStatus("pass asr read", "pass istr") \/ PassStatus("pass istr read", "pass wtc")
  BY <1>0, <1>9 DEF PassStatus, LeavePass, chipVars, trapVars
<1>10. CASE PassWrite
  BY <1>0, <1>10 DEF PassWrite, LeavePass, Go, trapVars
<1>11. CASE PassRestore
  BY <1>0, <1>11 DEF PassRestore, Go, trapVars
<1>12. CASE PassJudge
  BY <1>0, <1>12 DEF PassJudge, LeavePass, trapVars
<1> QED
  BY <1>1, <1>2, <1>3, <1>4, <1>5, <1>6, <1>7, <1>8, <1>9, <1>10, <1>11, <1>12
     DEF DmaStep, NcrStep, SdmacStep, PassStep

\* Where the stage is while its chips are looked for.
LEMMA DmaPast ==
  ASSUME stage = 9, UNCHANGED stage, pc # "next"
  PROVE  /\ (Past(6)' <=> Past(6)) /\ (Past(7)' <=> Past(7)) /\ (Past(8)' <=> Past(8))
         /\ (Past(9)' <=> pc' = "next") /\ (Past(12)' <=> Past(12))
         /\ Past(7) /\ Past(8) /\ ~Past(9) /\ stage \in 6..13
BY DEF Past

\* The count of the answers.
LEMMA OneTwoThree ==
  ASSUME NEW n, NEW m, m = n + 1
  PROVE  (n = 0 => m = 1) /\ (n = 1 => m = 2) /\ (n = 2 => m = 3)
OBVIOUS

\* A 53C770 gives itself away by two answers that agree, a 53C710 by its revision.
LEMMA NcrFinds ==
  ASSUME WorkInv, FoundInv, NcrStep, UNCHANGED machine, chips.gary = machine.gary,
         ~Past(9), Past(9)' <=> pc' = "next"
  PROVE  DmaInv' /\ SignInv' /\ PatternInv'
<1> USE DEF Fat, Unseen
<1>0. /\ DOMAIN test = {"saved", "round", "first", "prev", "count", "answers", "value"}
      /\ DOMAIN chips = {"denise", "agnus", "gary", "ramsey", "ncr", "config", "sdmac", "rev",
                         "slots", "alias", "clock", "batt"}
      /\ machine.ncr \in {"NONE", "710", "770"}
      /\ machine.ncr # "NONE" => Fat /\ machine.dma = "none"
      /\ machine.dma # "none" => Fat
  BY OfBoard DEF FoundInv, RecordInv
<1>1. CASE StartDma
  <2>1. /\ At = "dma" /\ At' = (IF Fat THEN "ncr 770" ELSE "next") /\ pc' = At'
        /\ test' = NoTest /\ chips' = chips
    BY <1>1 DEF StartDma, Step, Go, At, Hooked
  <2>2. chips.ncr = "NONE" /\ Unseen
    BY <2>1 DEF FoundInv, DmaInv, DmaPlaces
  <2> QED
    BY <1>0, <2>1, <2>2 DEF DmaInv, SignInv, PatternInv, DmaPlaces, NcrPlaces, SdmacPlaces,
                            StatusPlaces, CountPlaces, Pass, NoTest
<1>2. CASE Ask770
  <2>1. /\ At = "ncr 770" /\ At' = "ncr 770 read" /\ pc' = "trap read" /\ chips' = chips
        /\ test'.count = test.count + 1 /\ test'.prev = test.prev
    BY <1>0, <1>2 DEF Ask770, AskAt, Probe, NoTrap, At, Hooked
  <2>2. /\ chips.ncr = "NONE" /\ Unseen /\ Fat
        /\ machine.ncr = "770" => \/ test.count = 0 /\ test.prev = "none"
                                  \/ test.count = 1 /\ test.prev \in {"770", "noise"}
                                  \/ test.count = 2 /\ test.prev = "770"
    BY <2>1 DEF FoundInv, DmaInv, SignInv, DmaPlaces, NcrPlaces
  <2>3. DmaInv' /\ PatternInv'
    BY <2>1, <2>2 DEF DmaInv, PatternInv, DmaPlaces, NcrPlaces, SdmacPlaces,
                      StatusPlaces, CountPlaces, Pass
  <2>4. machine.ncr = "770" => \/ test'.count = 1 /\ test'.prev = "none"
                               \/ test'.count = 2 /\ test'.prev \in {"770", "noise"}
                               \/ test'.count = 3 /\ test'.prev = "770"
    <3>1. /\ test.count = 0 => test'.count = 1
          /\ test.count = 1 => test'.count = 2
          /\ test.count = 2 => test'.count = 3
      BY ONLY <2>1, OneTwoThree
    <3>2. test'.prev = test.prev
      BY <2>1
    <3> QED
      BY <2>2, <3>1, <3>2
  <2>5. SignInv'
    BY <2>1, <2>4 DEF SignInv
  <2> QED
    BY <2>3, <2>5
<1>3. CASE Read770
  <2> DEFINE a == trap.answer
  <2>1. /\ At = "ncr 770 read" /\ pc = At /\ At' = pc'
        /\ pc' = (IF a = Fault \/ (~Steady(a) /\ test.count = 4) THEN "ncr 710"
                  ELSE IF Steady(a) THEN "ncr config" ELSE "ncr 770")
        /\ test'.count = test.count /\ test'.prev = a
        /\ chips'.ncr = (IF a # Fault /\ Steady(a) THEN "770" ELSE chips.ncr)
        /\ chips'.sdmac = chips.sdmac /\ chips'.rev = chips.rev
    BY <1>0, <1>3 DEF Read770, Step, Go, At, Hooked
  <2>2. /\ chips.ncr = "NONE" /\ Unseen /\ Fat
        /\ machine.ncr = "770" => \/ test.count = 1 /\ test.prev = "none"
                                  \/ test.count = 2 /\ test.prev \in {"770", "noise"}
                                  \/ test.count = 3 /\ test.prev = "770"
        /\ a \in Id770
    BY <2>1 DEF FoundInv, DmaInv, SignInv, AnswerInv, DmaPlaces, NcrPlaces
  <2>3. CASE machine.ncr = "770"
    <3>1. \/ pc' = "ncr 770" /\ test.count = 1 /\ a \in {"770", "noise"} /\ ~Steady(a)
          \/ pc' = "ncr 770" /\ test.count = 2 /\ a = "770" /\ ~Steady(a)
          \/ pc' = "ncr config" /\ Steady(a) /\ a # Fault
      <4>1. CASE test.count = 1 /\ test.prev = "none"
        <5>1. a \in {"770", "noise"}
          BY <2>2, <2>3, <4>1 DEF Id770
        <5>2. ~Steady(a) /\ a # Fault /\ test.count # 4
          BY <4>1, <5>1 DEF Steady, Fault
        <5> QED
          BY <2>1, <4>1, <5>1, <5>2
      <4>2. CASE test.count \in {2, 3}
        <5>1. a = "770" /\ a # Fault /\ test.count # 4
          BY <2>2, <2>3, <4>2 DEF Id770, Fault
        <5>2. test.count = 3 => Steady(a)
          BY <2>2, <2>3, <5>1 DEF Steady, Valid770
        <5> QED
          BY <2>1, <4>2, <5>1, <5>2
      <4> QED
        BY <2>2, <2>3, <4>1, <4>2
    <3> HIDE DEF a
    <3>2. DmaInv' /\ PatternInv'
      BY <1>0, <2>1, <2>2, <2>3, <3>1
         DEF DmaInv, PatternInv, DmaPlaces, NcrPlaces, SdmacPlaces, StatusPlaces,
             CountPlaces, Pass
    <3>3. SignInv'
      BY <2>1, <2>3, <3>1 DEF SignInv
    <3> QED
      BY <3>2, <3>3
  <2>4. CASE machine.ncr # "770"
    <3>1. ~Steady(a)
      BY <2>2, <2>4 DEF Id770, Steady, Valid770
    <3> HIDE DEF a
    <3>2. pc' \in {"ncr 770", "ncr 710"} /\ chips'.ncr = "NONE"
      BY <2>1, <2>2, <3>1
    <3> QED
      BY <1>0, <2>1, <2>2, <2>4, <3>2
         DEF DmaInv, SignInv, PatternInv, DmaPlaces, NcrPlaces, SdmacPlaces, StatusPlaces,
             CountPlaces, Pass
  <2> QED
    BY <2>3, <2>4
<1>4. CASE Ask710
  <2>1. At = "ncr 710" /\ At' = "ncr 710 read" /\ pc' = "trap read" /\ UNCHANGED <<chips, test>>
    BY <1>4 DEF Ask710, Ask, AskAt, Probe, NoTrap, At, Hooked
  <2> QED
    BY <2>1 DEF FoundInv, DmaInv, SignInv, PatternInv, DmaPlaces, NcrPlaces, SdmacPlaces,
                StatusPlaces, CountPlaces, Pass
<1>5. CASE Read710
  <2>1. /\ At = "ncr 710 read" /\ pc = At /\ At' = pc' /\ test' = NoTest
        /\ pc' = (IF trap.answer = "rev" THEN "ncr config" ELSE "sdmac")
        /\ chips'.ncr = (IF trap.answer = "rev" THEN "710" ELSE chips.ncr)
        /\ chips'.sdmac = chips.sdmac /\ chips'.rev = chips.rev
    BY <1>0, <1>5 DEF Read710, Step, Go, At, Hooked
  <2>2. /\ chips.ncr = "NONE" /\ Unseen /\ Fat /\ machine.ncr # "770"
        /\ trap.answer = "rev" <=> machine.ncr = "710"
    BY <2>1 DEF FoundInv, DmaInv, AnswerInv, DmaPlaces, NcrPlaces
  <2>3. NoTest.prev = "none"
    BY DEF NoTest
  <2> QED
    BY <1>0, <2>1, <2>2, <2>3
       DEF DmaInv, SignInv, PatternInv, DmaPlaces, NcrPlaces, SdmacPlaces, StatusPlaces,
           CountPlaces, Pass
<1>6. CASE AskConfig
  <2>1. /\ At = "ncr config" /\ At' = "ncr config read" /\ pc' = "trap read"
        /\ UNCHANGED <<chips, test>>
    BY <1>6 DEF AskConfig, Ask, AskAt, Probe, NoTrap, At, Hooked
  <2> QED
    BY <2>1 DEF FoundInv, DmaInv, SignInv, PatternInv, DmaPlaces, NcrPlaces, SdmacPlaces,
                StatusPlaces, CountPlaces, Pass
<1>7. CASE ReadConfig
  <2>1. /\ At = "ncr config read" /\ At' = "next" /\ pc' = "next"
        /\ chips'.ncr = chips.ncr /\ chips'.sdmac = chips.sdmac /\ chips'.rev = chips.rev
    BY <1>0, <1>7 DEF ReadConfig, Step, Go, At, Hooked
  <2>2. chips.ncr = machine.ncr /\ machine.ncr # "NONE" /\ Unseen
    BY <2>1 DEF FoundInv, DmaInv, DmaPlaces, NcrPlaces
  <2> QED
    BY <1>0, <2>1, <2>2
       DEF DmaInv, SignInv, PatternInv, DmaPlaces, NcrPlaces, SdmacPlaces, StatusPlaces,
           CountPlaces, Pass
<1> QED
  BY <1>1, <1>2, <1>3, <1>4, <1>5, <1>6, <1>7 DEF NcrStep

\* A ReSDMAC shows its version twice; another chip is there if it has a status.
LEMMA SdmacFinds ==
  ASSUME WorkInv, FoundInv, SdmacStep, UNCHANGED machine,
         chips.ramsey = (Fat /\ machine.ramsey), ~Past(9), Past(9)' <=> pc' = "next"
  PROVE  DmaInv' /\ SignInv' /\ PatternInv'
<1> USE DEF Fat, Unseen
<1>0. /\ DOMAIN test = {"saved", "round", "first", "prev", "count", "answers", "value"}
      /\ DOMAIN chips = {"denise", "agnus", "gary", "ramsey", "ncr", "config", "sdmac", "rev",
                         "slots", "alias", "clock", "batt"}
      /\ machine.dma \in {"none", "02", "04", "Re"}
      /\ machine.dma # "none" => Fat /\ machine.ramsey
      /\ machine.bus \in {Fault, "contradiction", "reserved", "busy", "idle"}
  BY OfBoard DEF FoundInv, RecordInv
<1>a. ASSUME At \in SdmacPlaces
      PROVE  chips.ncr = "NONE" /\ machine.ncr = "NONE" /\ Unseen /\ Fat
             /\ (At \in StatusPlaces => machine.dma # "Re")
             /\ (At \in {"sdmac signature"} \cup StatusPlaces => machine.ramsey)
  BY <1>a DEF FoundInv, DmaInv, DmaPlaces, SdmacPlaces, StatusPlaces
<1>b. ASSUME pc' = "next", At' = "next", chips'.ncr = machine.ncr,
             chips'.sdmac = (machine.dma # "none"), chips'.rev \in {"0", machine.dma}
      PROVE  DmaInv' /\ SignInv' /\ PatternInv'
  BY <1>b DEF DmaInv, SignInv, PatternInv, DmaPlaces, NcrPlaces, SdmacPlaces, StatusPlaces,
              CountPlaces, Pass
<1>1. CASE AskSignature
  <2>1. At = "sdmac" /\ At \in SdmacPlaces
    BY <1>1 DEF AskSignature, Ask, AskAt, Step, Go, At, Hooked, SdmacPlaces
  <2>2. CASE chips.ramsey
    <3>1. At' = "sdmac signature" /\ pc' = "trap read" /\ UNCHANGED <<chips, test>>
      BY <1>1, <2>2 DEF AskSignature, Ask, AskAt, Probe, NoTrap, At, Hooked
    <3>2. test.prev = "none" /\ machine.ramsey
      BY <2>1, <2>2 DEF FoundInv, SignInv
    <3> QED
      BY <1>a, <2>1, <3>1, <3>2
         DEF DmaInv, SignInv, PatternInv, DmaPlaces, NcrPlaces, SdmacPlaces, StatusPlaces,
             CountPlaces, Pass
  <2>3. CASE ~chips.ramsey
    <3>1. At' = "next" /\ pc' = "next" /\ UNCHANGED chips
      BY <1>1, <2>3 DEF AskSignature, Step, Go, At, Hooked, chipVars
    <3>2. machine.dma = "none"
      BY <1>0, <2>3
    <3> QED
      BY <1>a, <1>b, <2>1, <3>1, <3>2
  <2> QED
    BY <2>2, <2>3
<1>2. CASE ReadSignature
  <2>1. At = "sdmac signature" /\ pc = At /\ At \in SdmacPlaces
    BY <1>2 DEF ReadSignature, At, Hooked, SdmacPlaces
  <2>2. /\ trap.answer \in IF machine.dma = "Re" THEN {"v1.2"}
                           ELSE {Fault, "v0.0", "v9.9"} \ {test.prev}
        /\ machine.dma = "Re" => test.prev \in {"none", "v1.2"}
    BY <2>1 DEF FoundInv, AnswerInv, SignInv
  <2>3. CASE machine.dma = "Re"
    <3>1. trap.answer = "v1.2" /\ trap.answer # Fault /\ trap.answer # "none"
      BY <2>2, <2>3 DEF Fault
    <3>2. CASE test.prev = "none"
      <4>1. At' = "sdmac signature" /\ pc' = "trap read" /\ UNCHANGED chips
            /\ test'.prev = "v1.2"
        BY <1>0, <1>2, <3>1, <3>2 DEF ReadSignature, Probe, NoTrap, At, Hooked
      <4> QED
        BY <1>a, <2>1, <2>3, <4>1
           DEF DmaInv, SignInv, PatternInv, DmaPlaces, NcrPlaces, SdmacPlaces, StatusPlaces,
               CountPlaces, Pass
    <3>3. CASE test.prev = "v1.2"
      <4>1. At' = "next" /\ pc' = "next" /\ chips'.ncr = chips.ncr /\ chips'.sdmac = TRUE
            /\ chips'.rev = "Re"
        BY <1>0, <1>2, <3>1, <3>3 DEF ReadSignature, Step, Go, At, Hooked
      <4> QED
        BY <1>a, <1>b, <2>1, <2>3, <4>1
    <3> QED
      BY <2>2, <2>3, <3>2, <3>3
  <2>4. CASE machine.dma # "Re"
    <3>1. trap.answer # test.prev
      BY <2>2, <2>4
    <3>2. /\ UNCHANGED chips
          /\ At' = "sdmac istr" \/ At' = "sdmac signature"
          /\ pc' # "next"
      BY <1>2, <3>1 DEF ReadSignature, Probe, NoTrap, Step, Go, At, Hooked
    <3> QED
      BY <1>a, <2>1, <2>4, <3>2
         DEF DmaInv, SignInv, PatternInv, DmaPlaces, NcrPlaces, SdmacPlaces, StatusPlaces,
             CountPlaces, Pass
  <2> QED
    BY <2>3, <2>4
<1>3. CASE AskIstr
  <2>1. At = "sdmac istr" /\ At \in SdmacPlaces \cap StatusPlaces
        /\ At' = "sdmac istr read" /\ pc' = "trap read" /\ UNCHANGED chips
    BY <1>3 DEF AskIstr, Ask, AskAt, Probe, NoTrap, At, Hooked, SdmacPlaces, StatusPlaces
  <2> QED
    BY <1>a, <2>1
       DEF DmaInv, SignInv, PatternInv, DmaPlaces, NcrPlaces, SdmacPlaces, StatusPlaces,
           CountPlaces, Pass
<1>4. CASE ReadIstr
  <2>1. /\ At = "sdmac istr read" /\ pc = At /\ At \in SdmacPlaces \cap StatusPlaces
        /\ At' = pc' /\ UNCHANGED chips
        /\ pc' = IF trap.answer \in {Fault, "contradiction"} THEN "next" ELSE "sdmac asr"
    BY <1>4 DEF ReadIstr, Step, Go, At, Hooked, chipVars, SdmacPlaces, StatusPlaces
  <2>2. IF machine.dma = "none" THEN trap.answer = machine.bus
        ELSE trap.answer \in {"idle", "transfer", "service"}
    BY <2>1 DEF FoundInv, AnswerInv
  <2>3. CASE pc' = "next"
    <3>1. machine.dma = "none"
      BY <2>1, <2>2, <2>3 DEF Fault
    <3> QED
      BY <1>a, <1>b, <2>1, <2>3, <3>1
  <2>4. CASE pc' = "sdmac asr"
    <3>1. machine.dma = "none" => machine.bus \notin {Fault, "contradiction"}
      BY <2>1, <2>2, <2>4
    <3> QED
      BY <1>a, <2>1, <2>4, <3>1
         DEF DmaInv, SignInv, PatternInv, DmaPlaces, NcrPlaces, SdmacPlaces, StatusPlaces,
             CountPlaces, Pass
  <2> QED
    BY <2>1, <2>3, <2>4
<1>5. CASE AskAsr
  <2>1. At = "sdmac asr" /\ At \in SdmacPlaces \cap StatusPlaces
        /\ At' = "sdmac asr read" /\ pc' = "trap read" /\ UNCHANGED chips
    BY <1>5 DEF AskAsr, Ask, AskAt, Probe, NoTrap, At, Hooked, SdmacPlaces, StatusPlaces
  <2>2. machine.dma = "none" => machine.bus \notin {Fault, "contradiction"}
    BY <2>1 DEF FoundInv, SignInv
  <2> QED
    BY <1>a, <2>1, <2>2
       DEF DmaInv, SignInv, PatternInv, DmaPlaces, NcrPlaces, SdmacPlaces, StatusPlaces,
           CountPlaces, Pass
<1>6. CASE ReadAsr
  <2>1. /\ At = "sdmac asr read" /\ pc = At /\ At \in SdmacPlaces \cap StatusPlaces
        /\ At' = pc' /\ test' = NoTest
        /\ pc' = (IF trap.answer \notin {Fault, "reserved"} THEN "sdmac pass" ELSE "next")
        /\ chips'.sdmac = (trap.answer \notin {Fault, "reserved"})
        /\ chips'.ncr = chips.ncr /\ chips'.rev = chips.rev
    BY <1>0, <1>6 DEF ReadAsr, Step, Go, At, Hooked, SdmacPlaces, StatusPlaces
  <2>2. /\ IF machine.dma = "none" THEN trap.answer = machine.bus
           ELSE trap.answer \in {"idle", "transfer", "service"}
        /\ machine.dma = "none" => machine.bus \notin {Fault, "contradiction"}
    BY <2>1 DEF FoundInv, AnswerInv, SignInv
  <2>3. CASE pc' = "next"
    <3>1. machine.dma = "none" /\ trap.answer \in {Fault, "reserved"}
      BY <2>1, <2>2, <2>3 DEF Fault
    <3>2. chips'.sdmac = FALSE
      BY <2>1, <3>1
    <3> QED
      BY <1>a, <1>b, <2>1, <2>3, <3>1, <3>2
  <2>4. CASE pc' = "sdmac pass"
    <3>1. /\ trap.answer \notin {Fault, "reserved"} /\ chips'.sdmac = TRUE
          /\ machine.dma = "none" => machine.bus \in {"busy", "idle"}
      BY <1>0, <2>1, <2>2, <2>4
    <3>2. test'.count = 0 /\ test'.answers = <<>>
      BY <2>1 DEF NoTest
    <3>3. /\ 0 \in 0..5 /\ 0 <= 2 /\ ~(0 > 1) /\ <<>> \in Seq({"02", "04"})
          /\ \A i \in DOMAIN <<>> : FALSE
      OBVIOUS
    <3>4. At' = "sdmac pass" /\ At' \in CountPlaces /\ At' \notin Pass
      BY <2>1, <2>4 DEF CountPlaces, Pass
    <3>5. DmaInv'
      BY <1>a, <2>1, <3>1, <3>4
         DEF DmaInv, DmaPlaces, NcrPlaces, SdmacPlaces, StatusPlaces, CountPlaces, Pass
    <3>6. SignInv'
      BY <3>4 DEF SignInv
    <3>7. PatternInv'
      BY <3>1, <3>2, <3>3, <3>4 DEF PatternInv, CountPlaces, Pass
    <3> QED
      BY <3>5, <3>6, <3>7
  <2> QED
    BY <2>1, <2>3, <2>4
<1> QED
  BY <1>1, <1>2, <1>3, <1>4, <1>5, <1>6 DEF SdmacStep

\* The counter keeps a pattern that is not all bits equal.
Kept == Wtc(machine.dma, Pattern) = Pattern /\ ~Pattern.plain

\* What is kept of a pattern that has all bits equal or the upper byte set.
LEMMA EchoOf ==
  ASSUME NEW plain \in BOOLEAN, NEW upper \in BOOLEAN, NEW bit2 \in BOOLEAN,
         Pattern = [plain |-> plain, upper |-> upper, bit2 |-> bit2],
         plain = TRUE \/ upper = TRUE, machine.dma \in {"none", "02", "04"}
  PROVE  /\ Kept <=> (machine.dma = "none" /\ plain = FALSE)
         /\ (~Wtc(machine.dma, Pattern).bit2 /\ Pattern.bit2)
              <=> (machine.dma = "04" /\ bit2 = TRUE)
<1>1. CASE machine.dma = "none"
  BY <1>1 DEF Kept, Wtc
<1>2. CASE machine.dma = "02"
  <2>1. Wtc(machine.dma, Pattern) = [plain |-> plain, upper |-> FALSE, bit2 |-> bit2]
    BY <1>2 DEF Wtc
  <2> QED
    BY <1>2, <2>1 DEF Kept
<1>3. CASE machine.dma = "04"
  <2>1. Wtc(machine.dma, Pattern) = [plain |-> plain, upper |-> FALSE, bit2 |-> FALSE]
    BY <1>3 DEF Wtc
  <2> QED
    BY <1>3, <2>1 DEF Kept
<1> QED
  BY <1>1, <1>2, <1>3

\* The six patterns.
LEMMA PatternsAre ==
  /\ Len(Patterns) = 6
  /\ Patterns[1] = [plain |-> TRUE, upper |-> FALSE, bit2 |-> FALSE]
  /\ Patterns[2] = [plain |-> TRUE, upper |-> TRUE, bit2 |-> TRUE]
  /\ Patterns[3] = [plain |-> FALSE, upper |-> TRUE, bit2 |-> TRUE]
  /\ Patterns[4] = [plain |-> FALSE, upper |-> TRUE, bit2 |-> FALSE]
  /\ Patterns[5] = [plain |-> FALSE, upper |-> TRUE, bit2 |-> FALSE]
  /\ Patterns[6] = [plain |-> FALSE, upper |-> TRUE, bit2 |-> TRUE]
BY DEF Patterns

\* What the patterns show: a bus without the chip keeps the third of them, an
\* SDMAC none of those with the upper byte; bit 2 tells an SDMAC-04.
LEMMA Judged ==
  ASSUME test.count \in 1 .. 6, machine.dma \in {"none", "02", "04"}
  PROVE  /\ Len(Patterns) = 6
         /\ Kept <=> (machine.dma = "none" /\ test.count > 2)
         /\ (~Wtc(machine.dma, Pattern).bit2 /\ Pattern.bit2)
              <=> (machine.dma = "04" /\ test.count \in {2, 3, 6})
<1>0. \/ test.count = 1 \/ test.count = 2 \/ test.count = 3 \/ test.count = 4
      \/ test.count = 5 \/ test.count = 6
  OBVIOUS
<1>1. CASE test.count = 1
  <2>1. Pattern = [plain |-> TRUE, upper |-> FALSE, bit2 |-> FALSE]
    BY Zenon, <1>1, PatternsAre DEF Pattern
  <2>2. /\ Kept <=> (machine.dma = "none" /\ TRUE = FALSE)
        /\ (~Wtc(machine.dma, Pattern).bit2 /\ Pattern.bit2)
             <=> (machine.dma = "04" /\ FALSE = TRUE)
    BY <2>1, EchoOf
  <2> QED
    BY <1>1, <2>2, PatternsAre
<1>2. CASE test.count = 2
  <2>1. Pattern = [plain |-> TRUE, upper |-> TRUE, bit2 |-> TRUE]
    BY Zenon, <1>2, PatternsAre DEF Pattern
  <2>2. /\ Kept <=> (machine.dma = "none" /\ TRUE = FALSE)
        /\ (~Wtc(machine.dma, Pattern).bit2 /\ Pattern.bit2)
             <=> (machine.dma = "04" /\ TRUE = TRUE)
    BY <2>1, EchoOf
  <2> QED
    BY <1>2, <2>2, PatternsAre
<1>3. CASE test.count = 3
  <2>1. Pattern = [plain |-> FALSE, upper |-> TRUE, bit2 |-> TRUE]
    BY Zenon, <1>3, PatternsAre DEF Pattern
  <2>2. /\ Kept <=> (machine.dma = "none" /\ FALSE = FALSE)
        /\ (~Wtc(machine.dma, Pattern).bit2 /\ Pattern.bit2)
             <=> (machine.dma = "04" /\ TRUE = TRUE)
    BY <2>1, EchoOf
  <2> QED
    BY <1>3, <2>2, PatternsAre
<1>4. CASE test.count = 4
  <2>1. Pattern = [plain |-> FALSE, upper |-> TRUE, bit2 |-> FALSE]
    BY Zenon, <1>4, PatternsAre DEF Pattern
  <2>2. /\ Kept <=> (machine.dma = "none" /\ FALSE = FALSE)
        /\ (~Wtc(machine.dma, Pattern).bit2 /\ Pattern.bit2)
             <=> (machine.dma = "04" /\ FALSE = TRUE)
    BY <2>1, EchoOf
  <2> QED
    BY <1>4, <2>2, PatternsAre
<1>5. CASE test.count = 5
  <2>1. Pattern = [plain |-> FALSE, upper |-> TRUE, bit2 |-> FALSE]
    BY Zenon, <1>5, PatternsAre DEF Pattern
  <2>2. /\ Kept <=> (machine.dma = "none" /\ FALSE = FALSE)
        /\ (~Wtc(machine.dma, Pattern).bit2 /\ Pattern.bit2)
             <=> (machine.dma = "04" /\ FALSE = TRUE)
    BY <2>1, EchoOf
  <2> QED
    BY <1>5, <2>2, PatternsAre
<1>6. CASE test.count = 6
  <2>1. Pattern = [plain |-> FALSE, upper |-> TRUE, bit2 |-> TRUE]
    BY Zenon, <1>6, PatternsAre DEF Pattern
  <2>2. /\ Kept <=> (machine.dma = "none" /\ FALSE = FALSE)
        /\ (~Wtc(machine.dma, Pattern).bit2 /\ Pattern.bit2)
             <=> (machine.dma = "04" /\ TRUE = TRUE)
    BY <2>1, EchoOf
  <2> QED
    BY <1>6, <2>2, PatternsAre
<1> QED
  BY <1>0, <1>1, <1>2, <1>3, <1>4, <1>5, <1>6

\* What the value read back shows: a bus whose value has bit 2 set is found out at
\* once.
LEMMA Verdict ==
  ASSUME test.count \in 1 .. 6, machine.dma \in {"none", "02", "04"},
         trap.answer = IF machine.dma = "none" THEN machine.count ELSE "kept"
  PROVE  /\ Len(Patterns) = 6
         /\ Echo <=> /\ machine.dma = "none"
                     /\ machine.count = "high" \/ (machine.count = "kept" /\ test.count > 2)
         /\ machine.dma # "none" =>
              ((~Bit2 /\ Pattern.bit2) <=> (machine.dma = "04" /\ test.count \in {2, 3, 6}))
<1> DEFINE late == test.count > 2
           told == test.count \in {2, 3, 6}
<1>1. /\ Len(Patterns) = 6
      /\ Kept <=> (machine.dma = "none" /\ late)
      /\ (~Wtc(machine.dma, Pattern).bit2 /\ Pattern.bit2) <=> (machine.dma = "04" /\ told)
  BY Judged
<1> HIDE DEF late, told
<1>2. Echo <=> /\ machine.dma = "none"
               /\ machine.count = "high" \/ (machine.count = "kept" /\ late)
  BY <1>1 DEF Echo, Kept
<1>3. machine.dma # "none" => ((~Bit2 /\ Pattern.bit2) <=> (machine.dma = "04" /\ told))
  BY <1>1 DEF Bit2
<1> QED
  BY <1>1, <1>2, <1>3 DEF late, told

\* The count of the patterns.
LEMMA PassCount ==
  ASSUME NEW n
  PROVE  /\ n \in 0 .. 5 => /\ n + 1 \in 1 .. 6
                            /\ n <= 2 => n + 1 <= 3
                            /\ n + 1 > 2 => n > 1
         /\ n \in 1 .. 6 => /\ n # 6 => n \in 0 .. 5
                            /\ n <= 3 /\ ~(n > 2) => n <= 2
                            /\ n > 1 => n = 2 \/ n > 2
                            /\ n < 6 <=> n # 6
                            /\ n = 6 => n > 2
OBVIOUS

\* The passes end with the version of the chip, or with none found.
LEMMA JudgeFinds ==
  ASSUME WorkInv, FoundInv, PassJudge, UNCHANGED machine, ~Past(9), Past(9)' <=> pc' = "next"
  PROVE  DmaInv' /\ SignInv' /\ PatternInv'
<1> USE DEF Fat
<1>0. /\ DOMAIN test = {"saved", "round", "first", "prev", "count", "answers", "value"}
      /\ DOMAIN chips = {"denise", "agnus", "gary", "ramsey", "ncr", "config", "sdmac", "rev",
                         "slots", "alias", "clock", "batt"}
      /\ machine.dma \in {"none", "02", "04", "Re"}
      /\ machine.count \in {Fault, "kept", "high", "low"}
  BY OfBoard DEF FoundInv, RecordInv
<1>1. pc = "pass judge" /\ At = pc /\ At \in Pass /\ At \in CountPlaces
      /\ At \in DmaPlaces \ {"dma"} /\ At # "sdmac pass"
  BY DEF PassJudge, At, Hooked, Pass, CountPlaces, DmaPlaces
<1>2. /\ chips.ncr = "NONE" /\ machine.ncr = "NONE" /\ Fat /\ machine.dma # "Re"
      /\ chips.sdmac = TRUE /\ chips.rev = "0" /\ machine.ramsey
      /\ trap.answer = IF machine.dma = "none" THEN machine.count ELSE "kept"
  BY <1>1 DEF FoundInv, DmaInv, AnswerInv
<1>3. /\ test.count \in 1..6
      /\ test.answers \in Seq({"02", "04"})
      /\ machine.dma = "none" => machine.bus \in {"busy", "idle"}
      /\ machine.dma = "none" /\ machine.count = "kept" => test.count <= 3
      /\ machine.dma = "02" => \A i \in DOMAIN test.answers : test.answers[i] = "02"
      /\ machine.dma = "04" /\ test.count > 2 =>
           \E i \in DOMAIN test.answers : test.answers[i] = "04"
  BY <1>1 DEF FoundInv, PatternInv
<1> DEFINE v == IF ~Bit2 /\ Pattern.bit2 THEN "04" ELSE "02"
           answers == Append(test.answers, v)
           faulted == trap.answer = Fault
<1>v. /\ Len(Patterns) = 6
      /\ Echo <=> /\ machine.dma = "none"
                  /\ machine.count = "high" \/ (machine.count = "kept" /\ test.count > 2)
      /\ machine.dma # "none" =>
           ((~Bit2 /\ Pattern.bit2) <=> (machine.dma = "04" /\ test.count \in {2, 3, 6}))
  BY <1>0, <1>2, <1>3, Verdict
<1>4. /\ machine.dma # "none" =>
           v = (IF machine.dma = "04" /\ test.count \in {2, 3, 6} THEN "04" ELSE "02")
      /\ v \in {"02", "04"}
  BY <1>v
<1>l. faulted => machine.dma = "none" /\ machine.count = Fault
  BY <1>2 DEF Fault
<1>5. /\ pc' = (IF faulted \/ Echo \/ test.count = 6 THEN "next" ELSE "sdmac pass")
      /\ test'.answers = answers /\ test'.count = test.count
      /\ chips'.ncr = chips.ncr
      /\ chips'.sdmac = (IF Echo /\ ~faulted THEN FALSE ELSE chips.sdmac)
      /\ chips'.rev = IF faulted \/ Echo \/ test.count < 6 THEN chips.rev
                      ELSE IF \E i \in DOMAIN answers : answers[i] = "04" THEN "04" ELSE "02"
  BY <1>0, <1>v DEF PassJudge, LeavePass
<1>6. At' = pc'
  BY <1>5 DEF At, Hooked
<1> HIDE DEF v, faulted
<1>7. /\ answers \in Seq({"02", "04"})
      /\ \A i \in DOMAIN answers : \/ i \in DOMAIN test.answers /\ answers[i] = test.answers[i]
                                   \/ answers[i] = v
      /\ \E i \in DOMAIN answers : answers[i] = v
      /\ \A i \in DOMAIN test.answers : i \in DOMAIN answers /\ answers[i] = test.answers[i]
  <2> DEFINE Versions == {"02", "04"}
  <2>1. v \in Versions /\ test.answers \in Seq(Versions)
    BY <1>3, <1>4
  <2> HIDE DEF Versions
  <2>2. /\ answers \in Seq(Versions)
        /\ \A i \in DOMAIN answers :
             \/ i \in DOMAIN test.answers /\ answers[i] = test.answers[i]
             \/ answers[i] = v
        /\ \E i \in DOMAIN answers : answers[i] = v
        /\ \A i \in DOMAIN test.answers : i \in DOMAIN answers /\ answers[i] = test.answers[i]
    BY <2>1, OneMore
  <2> QED
    BY <2>2 DEF Versions
<1> HIDE DEF answers
<1>8. machine.dma = "02" => \A i \in DOMAIN answers : answers[i] = "02"
  <2>1. machine.dma = "02" => v = "02"
    BY <1>4
  <2> QED
    BY <1>3, <1>7, <2>1
<1>9. machine.dma = "04" /\ test.count > 1 => \E i \in DOMAIN answers : answers[i] = "04"
  <2>1. machine.dma = "04" /\ test.count = 2 => v = "04"
    BY <1>4
  <2>2. test.count > 1 => test.count = 2 \/ test.count > 2
    BY <1>3, PassCount
  <2> QED
    BY <1>3, <1>7, <2>1, <2>2
<1>10. CASE pc' = "next"
  <2>1. ~PassesForSdmac =>
          chips'.sdmac = (machine.dma # "none") /\ chips'.rev \in {"0", machine.dma}
    <3> SUFFICES ASSUME ~PassesForSdmac
                 PROVE  chips'.sdmac = (machine.dma # "none") /\ chips'.rev \in {"0", machine.dma}
      OBVIOUS
    <3>0. ~(machine.dma = "none" /\ machine.count \in {Fault, "low"})
      BY <1>2, <1>3 DEF PassesForSdmac
    <3>n. ~faulted
      BY <1>l, <3>0
    <3>1. CASE Echo
      BY <1>2, <1>v, <1>5, <3>n, <3>1
    <3>2. CASE ~Echo /\ test.count = 6
      <4>1. test.count > 2 /\ test.count > 1 /\ ~(test.count < 6)
        BY <3>2
      <4>e. machine.dma # "none"
        BY <1>0, <1>v, <3>0, <3>2, <4>1
      <4>2. machine.dma \in {"02", "04"} /\ chips'.sdmac = TRUE
        BY <1>0, <1>2, <1>5, <3>2, <4>e
      <4>3. chips'.rev = IF \E i \in DOMAIN answers : answers[i] = "04" THEN "04" ELSE "02"
        BY <1>5, <3>n, <3>2, <4>1
      <4>4. CASE machine.dma = "02"
        BY <1>8, <4>2, <4>3, <4>4
      <4>5. CASE machine.dma = "04"
        BY <1>9, <4>1, <4>2, <4>3, <4>5
      <4> QED
        BY <4>2, <4>4, <4>5
    <3> QED
      BY <1>5, <1>10, <3>n, <3>1, <3>2
  <2>2. PassesForSdmac' <=> PassesForSdmac
    BY DEF PassesForSdmac
  <2> QED
    BY <1>2, <1>5, <1>6, <1>10, <2>1, <2>2
       DEF DmaInv, SignInv, PatternInv, DmaPlaces, NcrPlaces, SdmacPlaces, StatusPlaces,
           CountPlaces, Pass
<1>11. CASE pc' = "sdmac pass"
  <2>1. ~faulted /\ ~Echo /\ test.count # 6
    BY <1>5, <1>11
  <2>2. /\ test.count < 6 /\ test.count \in 0..5
        /\ test.count <= 3 /\ ~(test.count > 2) => test.count <= 2
    BY <1>3, <2>1, PassCount
  <2>8. machine.dma = "none" /\ machine.count = "kept" => test.count <= 2
    BY <1>3, <1>v, <2>1, <2>2
  <2>3. UNCHANGED <<chips.ncr, chips.sdmac, chips.rev>>
    BY <1>5, <2>1, <2>2
  <2>4. At' = "sdmac pass" /\ At' \in CountPlaces /\ At' \notin Pass
    BY <1>6, <1>11 DEF CountPlaces, Pass
  <2>5. DmaInv'
    BY <1>2, <1>11, <2>3, <2>4
       DEF DmaInv, DmaPlaces, NcrPlaces, SdmacPlaces, StatusPlaces, CountPlaces, Pass
  <2>6. SignInv'
    BY <2>4 DEF SignInv
  <2>7. PatternInv'
    BY <1>3, <1>5, <1>7, <1>8, <1>9, <2>2, <2>4, <2>8 DEF PatternInv, CountPlaces, Pass
  <2> QED
    BY <2>5, <2>6, <2>7
<1> QED
  BY <1>5, <1>10, <1>11

\* No pass takes a bus for an SDMAC, or forgets what the counter has shown.
LEMMA PassFinds ==
  ASSUME WorkInv, FoundInv, PassStep, UNCHANGED machine, ~Past(9), Past(9)' <=> pc' = "next"
  PROVE  DmaInv' /\ SignInv' /\ PatternInv'
<1> USE DEF Fat
<1>0. /\ DOMAIN test = {"saved", "round", "first", "prev", "count", "answers", "value"}
      /\ machine.dma \in {"none", "02", "04", "Re"}
  BY OfBoard DEF FoundInv, RecordInv
<1>a. ASSUME At \in CountPlaces
      PROVE  chips.ncr = "NONE" /\ machine.ncr = "NONE" /\ chips.sdmac = TRUE
             /\ chips.rev = "0" /\ Fat /\ machine.dma # "Re" /\ machine.ramsey
  <2>1. At \in DmaPlaces \ {"dma"}
    BY <1>a DEF DmaPlaces, CountPlaces, Pass
  <2> QED
    BY <1>a, <2>1 DEF FoundInv, DmaInv
<1>b. ASSUME pc' = "next", At' = "next", UNCHANGED chips, At \in CountPlaces,
             machine.dma # "none" \/ PassesForSdmac
      PROVE  DmaInv' /\ SignInv' /\ PatternInv'
  <2>1. PassesForSdmac' <=> PassesForSdmac
    BY DEF PassesForSdmac
  <2> QED
    BY <1>a, <1>b, <2>1 DEF DmaInv, SignInv, PatternInv, DmaPlaces, NcrPlaces, SdmacPlaces,
                    StatusPlaces, CountPlaces, Pass
<1>c. ASSUME At \in Pass, At' \in Pass, pc' # "next", UNCHANGED chips,
             test'.count = test.count, test'.answers = test.answers
      PROVE  DmaInv' /\ SignInv' /\ PatternInv'
  <2>1. At \in CountPlaces /\ At' \in CountPlaces /\ At # "sdmac pass" /\ At' # "sdmac pass"
    BY <1>c DEF CountPlaces, Pass
  <2>2. DmaInv'
    BY <1>a, <1>c, <2>1
       DEF DmaInv, DmaPlaces, NcrPlaces, SdmacPlaces, StatusPlaces, CountPlaces, Pass
  <2>3. SignInv'
    BY <1>c DEF SignInv, Pass
  <2>4. PatternInv'
    BY <1>c, <2>1 DEF FoundInv, PatternInv, Pass, CountPlaces
  <2> QED
    BY <2>2, <2>3, <2>4
<1>1. CASE StartPass
  <2>1. /\ pc = "sdmac pass" /\ At = pc /\ pc' = "pass asr" /\ At' = pc' /\ UNCHANGED chips
        /\ test'.count = test.count + 1 /\ test'.answers = test.answers
        /\ At \in CountPlaces /\ At' \in CountPlaces /\ At' \in Pass
    BY <1>0, <1>1 DEF StartPass, Go, At, Hooked, CountPlaces, Pass
  <2>2. /\ test.count \in 0..5 /\ test.answers \in Seq({"02", "04"})
        /\ machine.dma = "none" => machine.bus \in {"busy", "idle"}
        /\ machine.dma = "none" /\ machine.count = "kept" => test.count <= 2
        /\ machine.dma = "02" => \A i \in DOMAIN test.answers : test.answers[i] = "02"
        /\ machine.dma = "04" /\ test.count > 1 =>
             \E i \in DOMAIN test.answers : test.answers[i] = "04"
    BY <2>1 DEF FoundInv, PatternInv
  <2>3. /\ test.count + 1 \in 1 .. 6
        /\ test.count <= 2 => test.count + 1 <= 3
        /\ test.count + 1 > 2 => test.count > 1
    BY <2>2, PassCount
  <2>4. DmaInv'
    BY <1>a, <2>1
       DEF DmaInv, DmaPlaces, NcrPlaces, SdmacPlaces, StatusPlaces, CountPlaces, Pass
  <2>5. SignInv'
    BY <2>1 DEF SignInv
  <2>6. PatternInv'
    BY <2>1, <2>2, <2>3 DEF PatternInv, CountPlaces
  <2> QED
    BY <2>4, <2>5, <2>6
<1>2. CASE PassAsr \/ PassIstr \/ PassWtc \/ PassBack
  <2>1. At \in Pass /\ At' \in Pass /\ pc' # "next" /\ UNCHANGED <<chips, test>>
    BY <1>2 DEF PassAsr, PassIstr, PassWtc, PassBack, Ask, AskAt, Probe, NoTrap, At, Hooked,
                Pass
  <2> QED
    BY <1>c, <2>1
<1>3. CASE PassStatus("pass asr read", "pass istr") \/ PassStatus("pass istr read", "pass wtc")
  <2>1. /\ pc \in {"pass asr read", "pass istr read"} /\ At = pc /\ UNCHANGED <<chips, test>>
        /\ IF Quiet THEN pc' \in {"pass istr", "pass wtc"} ELSE pc' = "next"
        /\ At' = pc'
    BY <1>3 DEF PassStatus, LeavePass, chipVars, At, Hooked
  <2>2. At \in Pass /\ At \in CountPlaces
    BY <2>1 DEF Pass, CountPlaces
  <2>3. CASE Quiet
    <3>1. At' \in Pass /\ pc' # "next"
      BY <2>1, <2>3 DEF Pass
    <3> QED
      BY <1>c, <2>1, <2>2, <3>1
  <2>4. CASE ~Quiet
    <3>1. trap.answer # "idle"
      BY <2>4 DEF Quiet
    <3>2. IF machine.dma = "none" THEN trap.answer = machine.bus
          ELSE trap.answer \in {"idle", "transfer", "service"}
      BY <2>1 DEF FoundInv, AnswerInv
    <3>3. machine.dma = "none" => machine.bus \in {"busy", "idle"}
      BY <2>2 DEF FoundInv, PatternInv
    <3>4. machine.dma # "none" \/ PassesForSdmac
      BY <1>a, <2>2, <3>1, <3>2, <3>3 DEF PassesForSdmac
    <3> QED
      BY <1>b, <2>1, <2>2, <2>4, <3>4
  <2> QED
    BY <2>3, <2>4
<1>4. CASE PassWrite
  <2>1. pc = "pass write" /\ At = pc
    BY <1>4 DEF PassWrite, At, Hooked
  <2>2. At \in Pass /\ At \in CountPlaces
    BY <2>1 DEF Pass, CountPlaces
  <2>3. CASE trap.answer = Fault
    <3>1. pc' = "next" /\ At' = pc' /\ UNCHANGED chips
      BY <1>4, <2>3 DEF PassWrite, LeavePass, At, Hooked
    <3>2. /\ trap.answer = IF machine.dma = "none" THEN machine.count ELSE "kept"
          /\ machine.dma = "none" => machine.bus \in {"busy", "idle"}
      BY <2>1, <2>2 DEF FoundInv, AnswerInv, PatternInv
    <3>3. PassesForSdmac
      BY <1>a, <2>2, <2>3, <3>2 DEF PassesForSdmac, Fault
    <3> QED
      BY <1>b, <2>2, <3>1, <3>3
  <2>4. CASE trap.answer # Fault
    <3>1. /\ pc' = "pass back" /\ At' = pc' /\ UNCHANGED chips
          /\ test'.count = test.count /\ test'.answers = test.answers
      BY <1>0, <1>4, <2>4 DEF PassWrite, Go, At, Hooked
    <3>2. At' \in Pass
      BY <3>1 DEF Pass
    <3> QED
      BY <1>c, <2>2, <3>1, <3>2
  <2> QED
    BY <2>3, <2>4
<1>5. CASE PassRestore
  <2>1. At \in Pass /\ At' \in Pass /\ pc' # "next" /\ UNCHANGED <<chips, test>>
    BY <1>5 DEF PassRestore, Go, At, Hooked, Pass
  <2> QED
    BY <1>c, <2>1
<1>6. CASE PassJudge
  BY <1>6, JudgeFinds
<1> QED
  BY <1>1, <1>2, <1>3, <1>4, <1>5, <1>6 DEF PassStep

\* Every step of the stage of the SCSI chips leaves what is known true.
LEMMA DmaKeeps ==
  ASSUME HardwareInv, WorkInv, FoundInv, DmaStep, UNCHANGED <<cpuVars, machine, stage>>
  PROVE  FoundInv'
<1> USE DEF DmaMoves
<1>1. DmaMoves
  BY DmaPlace
<1>2. /\ At = pc /\ At' \in DmaPlaces \cup {"next"} /\ (At' = "next" <=> pc' = "next")
      /\ pc \notin {"next", "mmu translation", "mmu read"}
      /\ pc' \notin {"mmu translation", "mmu read"}
      /\ pc' \notin GaryInner /\ At' \notin AliasLabels /\ At' # "clock read"
      /\ At' # "alias read"
      /\ pc' = "trap read" \/ (pc' \notin Hooked /\ At' = pc')
  <2>1. pc \notin Hooked
    BY <1>1 DEF Hooked, DmaPlaces, NcrPlaces, SdmacPlaces, StatusPlaces, CountPlaces, Pass
  <2>2. CASE pc' = "trap read"
    <3>1. At' = trap'.back /\ trap'.back \in DmaPlaces
      BY <1>1, <2>2 DEF At, Hooked, Asked, DmaPlaces, NcrPlaces, SdmacPlaces, StatusPlaces,
                        CountPlaces, Pass, Backs
    <3> QED
      BY <1>1, <2>1, <2>2, <3>1
         DEF At, Hooked, GaryInner, GaryPlaces, DmaPlaces, NcrPlaces, SdmacPlaces,
             StatusPlaces, CountPlaces, Pass, AliasLabels
  <2>3. CASE pc' # "trap read"
    <3>1. pc' \in DmaPlaces \cup {"next"}
      BY <1>1, <2>3
    <3> QED
      BY <1>1, <2>1, <3>1
         DEF At, Hooked, GaryInner, GaryPlaces, DmaPlaces, NcrPlaces, SdmacPlaces,
             StatusPlaces, CountPlaces, Pass, AliasLabels
  <2> QED
    BY <2>2, <2>3
<1>3. stage = 9
  BY <1>1, <1>2 DEF FoundInv, PlaceInv
<1>4. /\ (Past(6)' <=> Past(6)) /\ (Past(7)' <=> Past(7)) /\ (Past(8)' <=> Past(8))
      /\ (Past(9)' <=> pc' = "next") /\ (Past(12)' <=> Past(12))
      /\ Past(7) /\ Past(8) /\ ~Past(9) /\ stage \in 6..13
  <2>1. pc # "next" /\ UNCHANGED stage
    BY <1>2
  <2> QED
    BY <1>3, <2>1, DmaPast
<1>5. PlaceInv'
  <2>1. At' \in Late \/ (At \in DmaPlaces /\ At' \in DmaPlaces)
    BY <1>1, <1>2 DEF Late
  <2> QED
    BY <2>1, PlaceFrame DEF FoundInv, Groups
<1>6. TypeInv'
  BY <1>2, <1>4, ChipTypes
<1>7. BoardInv'
  <2>1. pc' \notin {"gary good", "gary id", "gary bits"}
    BY <1>2 DEF GaryInner, GaryPlaces
  <2> QED
    BY <1>1, <1>2, <1>4, <2>1, BoardFrame DEF FoundInv
<1>8. SerialInv' /\ AliasInv'
  BY <1>1, <1>2, SerialFrame, AliasFrame DEF FoundInv
<1>9. DmaInv' /\ SignInv' /\ PatternInv'
  <2>1. chips.gary = machine.gary /\ chips.ramsey = (Fat /\ machine.ramsey)
    BY <1>4 DEF FoundInv, BoardInv, Fat
  <2>2. CASE NcrStep
    BY <1>4, <2>1, <2>2, NcrFinds
  <2>3. CASE SdmacStep
    BY <1>4, <2>1, <2>3, SdmacFinds
  <2>4. CASE PassStep
    BY <1>4, <2>4, PassFinds
  <2> QED
    BY <2>2, <2>3, <2>4 DEF DmaStep
<1>10. RegisterInv'
  <2>1. CASE pc' = "trap read"
    <3>1. Asked'
      BY <1>1, <2>1 DEF Hooked
    <3> QED
      BY <3>1 DEF RegisterInv, Asked
  <2>2. CASE pc' \notin Hooked
    BY <2>2 DEF RegisterInv
  <2> QED
    BY <1>2, <2>1, <2>2
<1>11. AnswerInv'
  <2>1. machine'.dma # "none" => scsi'.state \in {"idle", "transfer", "service"}
    BY <1>1 DEF FoundInv, AnswerInv
  <2>2. CASE pc' = "trap read"
    BY <2>1, <2>2 DEF AnswerInv
  <2>3. CASE pc' # "trap read"
    <3>1. /\ At' \notin {"alias read", "ncr 770 read", "ncr 710 read", "sdmac signature",
            "sdmac istr read", "pass istr read", "sdmac asr read", "pass asr read",
            "pass write", "pass restore", "clock read"}
          /\ UNCHANGED trap
      BY <1>1, <1>2, <2>3 DEF Backs
    <3>2. At' = "pass judge" =>
            trap'.answer = IF machine'.dma = "none" THEN machine'.count ELSE "kept"
      <4>1. At' = "pass judge" => At = "pass restore" /\ pc # "trap read"
        BY <1>1, <1>2, <2>3
      <4>2. At = "pass restore" /\ pc # "trap read" =>
              trap.answer = IF machine.dma = "none" THEN machine.count ELSE "kept"
        BY DEF FoundInv, AnswerInv
      <4> QED
        BY <3>1, <4>1, <4>2
    <3> QED
      BY <2>1, <3>1, <3>2 DEF AnswerInv
  <2> QED
    BY <2>2, <2>3
<1>12. RecordInv'
  BY <1>1 DEF FoundInv, RecordInv, cpuVars
<1> QED
  BY <1>5, <1>6, <1>7, <1>8, <1>9, <1>10, <1>11, <1>12 DEF FoundInv
-----------------------------------------------------------------------------
(* The whole detection *)

\* So does every step of the chips,
LEMMA ChipFinds ==
  ASSUME HardwareInv, WorkInv, FoundInv, Chips, UNCHANGED machine
  PROVE  FoundInv'
<1>0. UNCHANGED <<cpuVars, machine, stage>>
  BY DEF Chips
<1>1. CASE DetectChipset
  BY <1>0, <1>1, ChipsetFinds
<1>2. CASE GaryStep
  BY <1>0, <1>2, GaryKeeps
<1>3. CASE DetectRamsey \/ DetectSlots \/ OpenBatt \/ ReadBatt
  BY <1>0, <1>3, ShortFinds
<1>4. CASE DmaStep
  BY <1>0, <1>4, DmaKeeps
<1>5. CASE AliasStep
  BY <1>0, <1>5, AliasKeeps
<1>6. CASE ClockStep
  BY <1>0, <1>6, ClockKeeps
<1>7. CASE Read \/ ((BranchError \/ TrapLeave) /\ UNCHANGED chipVars)
  BY <1>0, <1>7, TrapFinds DEF Read
<1>8. CASE ScsiStep
  BY <1>0, <1>8, ScsiFinds
<1> QED
  BY <1>1, <1>2, <1>3, <1>4, <1>5, <1>6, <1>7, <1>8
     DEF Chips, ChipStep, GaryStep, DmaStep, NcrStep, SdmacStep, PassStep, AliasStep, ClockStep

\* and one that changes nothing.
LEMMA FoundKept ==
  ASSUME FoundInv, UNCHANGED vars
  PROVE  FoundInv'
<1>1. UNCHANGED <<pc, forbid, machine, trapVars, trap, cpuVars, chipVars, stage>>
      /\ UNCHANGED <<chips, test, scsi, gary, wanted, info>>
  BY DEF vars, masks, trapVars, cpuVars, chipVars
<1>2. At' = At
  BY <1>1 DEF At
<1>3. /\ (Past(1)' <=> Past(1)) /\ (Past(2)' <=> Past(2)) /\ (Past(3)' <=> Past(3))
      /\ (Past(6)' <=> Past(6)) /\ (Past(7)' <=> Past(7)) /\ (Past(8)' <=> Past(8))
      /\ (Past(9)' <=> Past(9)) /\ (Past(12)' <=> Past(12))
  BY <1>1 DEF Past
<1>4. PlaceInv' /\ TypeInv' /\ DmaInv' /\ SignInv' /\ PatternInv' /\ AliasInv' /\ RecordInv'
  BY <1>1, <1>2, <1>3, SamePlace
<1>5. BoardInv'
  <2>1. Agnus' = Agnus
    BY <1>1 DEF Agnus
  <2> QED
    BY <1>1, <1>2, <1>3, <2>1 DEF FoundInv, BoardInv, Fat
<1>6. SerialInv'
  BY <1>1 DEF FoundInv, SerialInv
<1>7. RegisterInv'
  BY <1>1 DEF FoundInv, RegisterInv, Hooked
<1>8. AnswerInv'
  <2>1. Id770' = Id770
    BY <1>1 DEF Id770
  <2> QED
    BY <1>1, <1>2, <2>1 DEF FoundInv, AnswerInv
<1> QED
  BY <1>4, <1>5, <1>6, <1>7, <1>8 DEF FoundInv

\* At first nothing is known,
LEMMA FoundInit == Init => FoundInv
<1> SUFFICES ASSUME Init PROVE FoundInv
  OBVIOUS
<1>1. /\ pc = "cpu" /\ stage = 1 /\ At = "cpu" /\ chips = NoChips /\ test = NoTest
      /\ wanted.tc = machine.tc /\ info = Nothing /\ scsi.state = machine.scsi
  BY DEF Init, Stages, At, Hooked, CpuInit, ChipsInit
<1>2. ~Past(1) /\ ~Past(2) /\ ~Past(3) /\ ~Past(6) /\ ~Past(7) /\ ~Past(8) /\ ~Past(9)
      /\ ~Past(12)
  BY <1>1 DEF Past
<1>3. At \notin Inner /\ pc \notin Hooked
  BY <1>1 DEF Hooked, Inner, GaryInner, GaryPlaces, DmaInner, DmaPlaces, NcrPlaces,
              SdmacPlaces, StatusPlaces, CountPlaces, Pass, AliasLabels
<1>4. PlaceInv
  BY <1>1 DEF PlaceInv, Early, Trying, MmuPlaces, GaryPlaces, DmaPlaces, NcrPlaces,
              SdmacPlaces, StatusPlaces, CountPlaces, Pass, AliasPlaces, AliasLabels
<1>5. TypeInv
  BY <1>1, <1>2 DEF TypeInv, Tried
<1>6. BoardInv /\ SerialInv
  BY <1>1, <1>2 DEF BoardInv, SerialInv
<1>7. DmaInv /\ SignInv /\ PatternInv
  <2>1. chips.ncr = "NONE" /\ Unseen
    BY <1>1 DEF Unseen, NoChips
  <2> QED
    BY <1>1, <1>2, <1>3, <2>1
       DEF DmaInv, SignInv, PatternInv, DmaPlaces, NcrPlaces, SdmacPlaces, StatusPlaces,
           CountPlaces, Pass
<1>8. AliasInv
  <2>1. chips.alias = "unknown"
    BY <1>1 DEF NoChips
  <2> QED
    BY <1>1, <2>1 DEF AliasInv, AliasLabels
<1>9. RegisterInv /\ AnswerInv
  <2>1. scsi.state \in {"idle", "transfer"}
    BY <1>1, WorkInit, OfBoard
  <2> QED
    BY <1>1, <1>3, <2>1 DEF RegisterInv, AnswerInv
<1>10. RecordInv
  BY <1>1 DEF RecordInv, NoChips, NoTest, Nothing
<1> QED
  BY <1>4, <1>5, <1>6, <1>7, <1>8, <1>9, <1>10 DEF FoundInv

\* and from then on what is known is true.
LEMMA NextFinds == HardwareInv /\ WorkInv /\ FoundInv /\ [Next]_vars => FoundInv'
<1> SUFFICES ASSUME HardwareInv, WorkInv, FoundInv, [Next]_vars
             PROVE  FoundInv'
  OBVIOUS
<1>1. CASE NextStage /\ UNCHANGED machine
  BY <1>1, StageFinds
<1>2. CASE Cpu /\ UNCHANGED machine
  BY <1>2, CpuFinds DEF Cpu
<1>3. CASE Chips /\ UNCHANGED machine
  BY <1>3, ChipFinds
<1>4. CASE Done \/ UNCHANGED vars
  BY <1>4, FoundKept DEF Done
<1> QED
  BY <1>1, <1>2, <1>3, <1>4 DEF Next

\* What the program reports is the computer it runs on, for every computer whose
\* parts the assumptions allow: however Exec, mmu.library and the SCSI controller
\* answered, and whatever other tasks did meanwhile.  The SDMAC is excepted where
\* an open bus passes for one (PassesForSdmac; detect_hardware and what it calls,
\* hardware.c 80-1984).
THEOREM ComputerIdentified == Spec => []Identified
<1>1. HardwareInv /\ WorkInv /\ FoundInv => Identified
  <2> SUFFICES ASSUME WorkInv, FoundInv, pc = "idle"
               PROVE  /\ info.type = RealType /\ info.fpu = RealFpu
                      /\ RealType # "68080" => info.mmu = machine.mmu
                                            /\ info.present = (machine.mmu # "NONE")
                                            /\ info.translation = machine.tc
                      /\ chips.gary = machine.gary /\ chips.agnus = machine.agnus
                      /\ chips.denise = machine.chipset
                      /\ chips.ncr = machine.ncr
                      /\ ~PassesForSdmac => /\ chips.sdmac = (machine.dma # "none")
                                            /\ chips.rev \in {"0", machine.dma}
                      /\ chips.alias = "mirrored" => machine.upper = "alias"
                      /\ chips.alias = "none" => machine.upper # "alias"
                      /\ chips.clock = machine.rtc
    BY DEF Identified, RealType, RealFpu
  <2>1. stage = 0
    BY DEF WorkInv, OrderInv
  <2>2. Past(1) /\ Past(2) /\ Past(3) /\ Past(6) /\ Past(7) /\ Past(9) /\ Past(12) /\ Tried
    BY <2>1 DEF Past, Tried
  <2> QED
    BY <2>2 DEF FoundInv, TypeInv, BoardInv, DmaInv, AliasInv
<1> QED
  BY <1>1, InitEstablishes, NextKeeps, WorkInit, NextWorks, FoundInit, NextFinds, PTL DEF Spec
=============================================================================
