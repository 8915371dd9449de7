----------------------------- MODULE Processor -----------------------------
(***************************************************************************)
(* What hardware.c finds out about the processor and what cache.c does to  *)
(* it.  Exec of Kickstart 1.3 knows nothing above a 68020, so the kind is  *)
(* found by setting cache bits that only some processors have, by an       *)
(* identification register that traps on others, and by trying the MMU.    *)
(* Each test changes a register of the running system for a few            *)
(* instructions and puts it back.                                          *)
(***************************************************************************)
EXTENDS BusTrap

CONSTANT Tampers   \* how often another program changes a bit of the CACR

ASSUME TampersAssumption == Tampers \in Nat

VARIABLES
  chip,     \* the registers: CACR and PCR as the sets of their bits, VBR, TC,
            \* TT0 and TT1, CRP and SFC
  wanted,   \* CACR, PCR and TC as the rest of the system and the user set them
  lost,     \* bits of CACR that others changed between the halves of a toggle
  tampers,  \* how often another program has done so
  library,  \* mmu.library: "closed", "open" or "mapped" (a list is borrowed)
  info,     \* hw_info: the processor, its units, the caches there are and shown
  look      \* the locals of the routine that runs

cpuVars == <<chip, wanted, lost, tampers, library, info, look>>

Settings == {"icache", "dcache", "iburst", "dburst", "super"}
NoLook == [bit |-> "none", old |-> FALSE, new |-> FALSE, setting |-> "none",
           on |-> FALSE, current |-> {}]
Nothing == [type |-> "UNKNOWN", fpu |-> "UNKNOWN", mmu |-> "NONE",
            present |-> FALSE, translation |-> "unknown", remap |-> "none",
            vbr |-> "none", has |-> {}, shown |-> {}]

CpuInit ==
  /\ chip = [cacr |-> machine.cacr, pcr |-> machine.pcr, vbr |-> "system",
             tc |-> machine.tc, tt |-> "system", crp |-> "system", sfc |-> "system"]
  /\ wanted = [cacr |-> machine.cacr, pcr |-> machine.pcr, tc |-> machine.tc]
  /\ lost = {}
  /\ tampers = 0
  /\ library = "closed"
  /\ info = Nothing
  /\ look = NoLook

\* CPU_68040 to CPU_68080 and CPU_68060 to CPU_68080.
Of060 == {"68060", "68EC060", "68LC060", "68080"}
Of040 == {"68040", "68LC040", "68EC040"} \cup Of060
Of030 == {"68030", "68EC030"}
Of020 == {"68020", "68EC020"}

\* The bits a processor has; writes to others are lost.  Bit 31 is the data
\* cache of a 68040, which cache.h calls CopyBack.
BitsOf(c) ==
  (IF c \in Of020 \cup Of030 THEN {"EnableI", "FreezeI"} ELSE {})
  \cup (IF c \in Of030 THEN {"IBE", "EnableD", "DBE"} ELSE {})
  \cup (IF c \in Of040 THEN {"ICache040", "CopyBack"} ELSE {})
  \cup (IF c \in Of060 \ {"68080"} THEN {"EBC", "ESB"} ELSE {})
Bits == BitsOf(machine.cpu)

\* SetCacheBits: flags within the mask, masked interrupts, all in one.
SetBits(flags, mask) ==
  chip' = [chip EXCEPT !.cacr = (@ \ mask) \cup (flags \cap Bits)]

Idle == UNCHANGED <<masks, trapVars>>
-----------------------------------------------------------------------------
(* detect_emu68_systems and detect_cpu *)

DetectCpu ==
  /\ pc = "cpu"
  /\ IF machine.cpu \in Of020 \cup Of030 \cup Of040 /\ ~machine.emu
     THEN pc' = "cpu set" /\ look' = [NoLook EXCEPT !.bit = "FreezeI"]
          /\ UNCHANGED info
     ELSE pc' = "next" /\ look' = NoLook
          /\ info' = [info EXCEPT !.type =
                        IF machine.emu THEN "EMU" ELSE machine.cpu]
  /\ Idle /\ UNCHANGED <<chip, wanted, lost, tampers, library>>

SetTestBit ==
  /\ Go("cpu set", "cpu test")
  /\ look' = [look EXCEPT !.old = look.bit \in chip.cacr]
  /\ SetBits({look.bit}, {look.bit})
  /\ Idle /\ UNCHANGED <<wanted, lost, tampers, library, info>>

ReadTestBit ==
  /\ Go("cpu test", "cpu reset")
  /\ look' = [look EXCEPT !.new = look.bit \in chip.cacr]
  /\ Idle /\ UNCHANGED <<chip, wanted, lost, tampers, library, info>>

\* Mutant: a 68020 is told by the mirror of its ROM alone.
BugEc020 == machine.mirror

\* RAM beyond 24 bits tells a full 68020 before the mirror of its ROM.
Ec020 == ~machine.ram32 /\ machine.mirror

\* Mutant: the bit that was tried stays set.
BugOldBit == {look.bit}

OldBit == IF look.old THEN {look.bit} ELSE {}

\* FreezeI is kept by a 68020 and 68030, the burst of instructions by a 68030.
ResetTestBit ==
  /\ pc = "cpu reset"
  /\ SetBits(OldBit, {look.bit})
  /\ IF look.bit = "FreezeI"
     THEN /\ pc' = IF look.new THEN "cpu set" ELSE "cpu 060"
          /\ look' = [NoLook EXCEPT !.bit = "IBE"]
          /\ UNCHANGED info
     ELSE /\ pc' = "next"
          /\ look' = NoLook
          /\ info' = [info EXCEPT !.type =
                        IF look.new THEN "68030"
                        ELSE IF Ec020 THEN "68EC020" ELSE "68020"]
  /\ Idle /\ UNCHANGED <<wanted, lost, tampers, library>>

\* GetCPU060, GetMMU and GetMMUTranslation run on a vector table of their own.
OwnTable(label) ==
  /\ pc' = label
  /\ disabled' = TRUE
  /\ chip' = [chip EXCEPT !.vbr = "stack"]
  /\ UNCHANGED <<forbid, trapVars>>

GetCpu060 ==
  /\ pc = "cpu 060" /\ OwnTable("cpu id")
  /\ UNCHANGED <<wanted, lost, tampers, library, info, look>>

\* The processor register traps on a 68040; that of a 68060 tells the one with
\* an FPU from the other two.
Cpu060 ==
  CASE machine.cpu \in {"68040", "68LC040", "68EC040"} -> "68040"
    [] machine.cpu \in {"68EC060", "68LC060"} -> "68LC060"
    [] OTHER -> machine.cpu

\* Mutant: the way out of the trap leaves the table behind.
BugOwnTableLeft == IF Cpu060 = "68040" THEN "stack" ELSE "system"

OwnTableLeft == "system"

LeaveCpu060 ==
  /\ Go("cpu id", "next")
  /\ chip' = [chip EXCEPT !.vbr = OwnTableLeft]
  /\ disabled' = FALSE
  /\ info' = [info EXCEPT !.type = Cpu060]
  /\ UNCHANGED <<forbid, trapVars, wanted, lost, tampers, library, look>>
-----------------------------------------------------------------------------
(* detect_fpu *)

\* AttnFlags: Kickstart 1.3 knows no FPU but a 68881; Exec may have seen none.
Flag080 == machine.fpu = "68080" /\ Exec36
Flag881 == machine.fpu # "NONE" /\ machine.seen
Flag882 == Flag881 /\ Exec36 /\ machine.fpu # "68881"
FlagFpu40 == Flag881 /\ Exec36 /\ machine.fpu \in {"68040", "68060"}

Fpu ==
  CASE Flag080 -> "68080"
    [] ~Flag080 /\ ~Flag881 -> IF info.type = "68060" THEN "68060" ELSE "NONE"
    [] FlagFpu40 /\ info.type \in {"68040", "68060"} -> info.type
    [] OTHER -> IF Flag882 THEN "68882" ELSE "68881"

DetectFpu ==
  /\ Go("fpu", "next")
  /\ info' = [info EXCEPT !.fpu = Fpu,
                !.type = IF @ = "68040" /\ Fpu = "NONE" THEN "68LC040" ELSE @]
  /\ Idle /\ UNCHANGED <<chip, wanted, lost, tampers, library, look>>
-----------------------------------------------------------------------------
(* detect_mmu *)

\* Mutant: a 68040 without MMU is an EC even with its FPU.
BugKeepsFpu == FALSE

\* Emulators can provide a 68040 FPU without an MMU.
KeepsFpu == info.type = "68040" /\ info.fpu \notin {"NONE", "UNKNOWN"}

\* The processor without an MMU.
EcOf(t) ==
  CASE t = "68030" -> "68EC030"
    [] t \in {"68040", "68LC040"} -> IF KeepsFpu THEN t ELSE "68EC040"
    [] t \in {"68060", "68LC060"} -> "68EC060"
    [] OTHER -> t

NoMmu == [info EXCEPT !.type = EcOf(@), !.mmu = "NONE", !.present = FALSE]
WithMmu(kind) == [info EXCEPT !.mmu = kind, !.present = TRUE]

\* open_mmu_library: a 68020, and the marker SetPatch leaves.
MayOpen == machine.cpu \notin {"68000", "68010"} /\ machine.library

\* The library may still not open.
OpenMmu ==
  /\ pc = "mmu"
  /\ \/ MayOpen /\ library' = "open" /\ pc' = "mmu type"
     \/ library' = "closed" /\ pc' = "mmu test"
  /\ Idle /\ UNCHANGED <<chip, wanted, lost, tampers, info, look>>

\* What the library says, then it is closed.
MmuType ==
  /\ Go("mmu type", "mmu translation")
  /\ library' = "closed"
  /\ \E t \in machine.types :
       info' = CASE t = "NONE" /\ info.type = "68080" ->
                      [info EXCEPT !.mmu = "68080"]
                 [] t = "NONE" /\ info.type # "68080" -> NoMmu
                 [] t = "68851" /\ info.type = "68030" -> WithMmu("68030")
                 [] t = "68060" /\ info.type = "68080" -> WithMmu("68080")
                 [] OTHER -> WithMmu(t)
  /\ Idle /\ UNCHANGED <<chip, wanted, lost, tampers, look>>

\* The MMU instructions GetMMU may try, and the MMU they find.
MmuOf(t) ==
  CASE t \in Of020 -> "68851"
    [] t \in Of030 -> "68030"
    [] t \in {"68040", "68LC040"} -> "68040"
    [] t \in {"68060", "68LC060"} -> "68060"
    [] OTHER -> "NONE"

\* Without the library; the 68080 has some kind of MMU, others none to try.
TestMmu ==
  /\ pc = "mmu test"
  /\ \/ /\ MmuOf(info.type) # "NONE"
        /\ OwnTable("mmu try") /\ UNCHANGED info
     \/ /\ MmuOf(info.type) = "NONE"
        /\ pc' = "mmu translation"
        /\ info' = IF info.type = "68080" THEN WithMmu("68080") ELSE NoMmu
        /\ Idle /\ UNCHANGED chip
  /\ UNCHANGED <<wanted, lost, tampers, library, look>>

\* Mutant: a live mapping is switched off as well.
BugLeavesAlone == FALSE

\* An enabled 68851 or 68030 is proof enough: its mappings may hold the ROM,
\* the code and the stack.
LeavesAlone == chip.tc = "on" /\ info.type \in Of020 \cup Of030

\* Without an MMU an instruction traps, but a 68EC030 may know them all.  TC of
\* the others is cleared.  For a 68030 that is not yet enough: TT0 and TT1 are
\* switched off and a tree of the program's own is loaded and enabled, to read
\* user data through it.
TryMmu ==
  LET mmu == machine.mmu # "NONE"
  IN  /\ pc = "mmu try"
      /\ look' = [look EXCEPT !.old = chip.tc = "on"]
      /\ \/ /\ ~mmu \/ LeavesAlone
            /\ pc' = "mmu leave" /\ UNCHANGED chip
         \/ /\ mmu /\ ~LeavesAlone /\ info.type \notin Of030
            /\ pc' = "mmu leave" /\ chip' = [chip EXCEPT !.tc = "off"]
         \/ /\ ~LeavesAlone /\ info.type \in Of030
            /\ pc' = "mmu own tree"
            /\ chip' = [chip EXCEPT !.tt = "off", !.sfc = "own",
                          !.crp = IF mmu THEN "own" ELSE @,
                          !.tc = IF mmu THEN "on" ELSE @]
      /\ Idle /\ UNCHANGED <<wanted, lost, tampers, library, info>>

\* Mutant: TT0 and TT1 are put back with the tree alone.
BugTtBack == IF look.old THEN "system" ELSE chip.tt

TtBack == "system"

\* Off again; the tree would be put back if TC had been on, SFC never is.
LeaveOwnTree ==
  /\ Go("mmu own tree", "mmu leave")
  /\ chip' = [chip EXCEPT !.tt = TtBack,
                !.tc = IF machine.mmu = "NONE" THEN @ ELSE "off",
                !.crp = IF look.old THEN "system" ELSE @]
  /\ Idle /\ UNCHANGED <<wanted, lost, tampers, library, info, look>>

\* Mutant: the register is not written back.
BugTcBack == chip.tc

TcBack == IF look.old THEN "on" ELSE chip.tc

LeaveMmu ==
  /\ Go("mmu leave", "mmu translation")
  /\ chip' = [chip EXCEPT !.tc = TcBack, !.vbr = "system"]
  /\ disabled' = FALSE
  /\ look' = NoLook
  /\ info' = IF machine.mmu = "NONE" THEN NoMmu ELSE WithMmu(MmuOf(info.type))
  /\ UNCHANGED <<forbid, trapVars, wanted, lost, tampers, library>>

\* Not asked of a 68080 or Emu68, which know no such register.
HasTc == info.present /\ info.type \notin {"68080", "EMU"}
         /\ info.mmu \in {"68851", "68030", "68040", "68060"}

\* TC is read and never written, on a copy of the vectors in which the
\* instruction may trap.
Translation ==
  /\ pc = "mmu translation"
  /\ \/ HasTc /\ OwnTable("mmu read") /\ UNCHANGED info
     \/ /\ ~HasTc
        /\ pc' = "next"
        /\ info' = [info EXCEPT !.translation =
                      IF ~info.present /\ info.mmu = "NONE" THEN "off" ELSE "unknown"]
        /\ Idle /\ UNCHANGED chip
  /\ UNCHANGED <<wanted, lost, tampers, library, look>>

ReadTranslation ==
  /\ Go("mmu read", "next")
  /\ chip' = [chip EXCEPT !.vbr = "system"]
  /\ disabled' = FALSE
  /\ info' = [info EXCEPT !.translation =
                IF machine.mmu = "NONE" THEN "unknown" ELSE chip.tc]
  /\ UNCHANGED <<forbid, trapVars, wanted, lost, tampers, library, look>>
-----------------------------------------------------------------------------
(* load_mmu_remap_table and read_vbr *)

\* The library is opened again, its mapping borrowed.
LoadRemap ==
  /\ pc = "remap"
  /\ \/ /\ info.present /\ MayOpen
        /\ \E l \in {"open", "mapped"} : library' = l
        /\ pc' = "remap close"
     \/ library' = "closed" /\ pc' = "next"
  /\ Idle /\ UNCHANGED <<chip, wanted, lost, tampers, info, look>>

\* Mutant: the library stays open when it has no mapping.
BugClosed == IF library = "open" THEN "open" ELSE "closed"

Closed == "closed"

CloseRemap ==
  /\ Go("remap close", "next")
  /\ library' = Closed
  /\ info' = [info EXCEPT !.remap = IF library = "mapped" THEN "table" ELSE "none"]
  /\ Idle /\ UNCHANGED <<chip, wanted, lost, tampers, look>>

ReadVbr ==
  /\ Go("vbr", "next")
  /\ info' = [info EXCEPT !.vbr =
                IF info.type \in {"68000", "UNKNOWN"} THEN "none" ELSE chip.vbr]
  /\ Idle /\ UNCHANGED <<chip, wanted, lost, tampers, library, look>>
-----------------------------------------------------------------------------
(* refresh_cache_status and cache.c *)

Control == {"CopyBack", "EnableD", "DBE", "EnableI", "IBE", "ICache040"}
DataFlags == {"CopyBack", "EnableD", "DBE"}
CodeFlags == {"EnableI", "IBE"}

\* convert68040to68030
To030(bits) ==
  IF info.type \notin Of040 THEN bits
  ELSE (IF "CopyBack" \in bits THEN DataFlags ELSE {})
       \cup (IF "ICache040" \in bits THEN CodeFlags ELSE {})
       \cup (bits \ Control)

\* convert68030to68040
To040(bits) ==
  IF info.type \notin Of040 THEN bits
  ELSE (IF bits \cap DataFlags # {} THEN {"CopyBack"} ELSE {})
       \cup (IF bits \cap CodeFlags # {} THEN {"ICache040"} ELSE {})
       \cup (bits \ Control)

\* Mutant: one flag alone.
BugExpand(flag) == {flag}

\* convertFlagsFor68040: the flags that stand for one cache.
Expand(flag) ==
  IF info.type \notin Of040 THEN {flag}
  ELSE IF flag \in DataFlags THEN DataFlags ELSE CodeFlags

FlagOf(s) == CASE s = "icache" -> "EnableI" [] s = "dcache" -> "EnableD"
               [] s = "iburst" -> "IBE" [] OTHER -> "DBE"

\* use_exec_cachecontrol, and the view of the caches CacheControl() gives.
UsesExec == Exec36 /\ info.type # "68080"
ExecView(bits) ==
  IF machine.cpu \notin Of040 THEN bits
  ELSE (IF "ICache040" \in bits THEN {"EnableI"} ELSE {})
       \cup (IF "CopyBack" \in bits THEN {"EnableD"} ELSE {})

SuperOn == /\ info.type \in Of060 /\ "ESS" \in chip.pcr
           /\ info.type # "68080" => {"EBC", "ESB"} \subseteq chip.cacr

HasCaches ==
  (IF info.type \in Of020 \cup Of030 \cup Of040 \cup {"EMU", "UNKNOWN"}
   THEN {"icache"} ELSE {})
  \cup (IF info.type \in Of030 \cup Of040 THEN {"dcache"} ELSE {})
  \cup (IF info.type \in Of030 THEN {"iburst", "dburst"} ELSE {})
  \cup (IF info.type \in Of060 THEN {"super"} ELSE {})

RefreshCaches ==
  /\ pc = "caches"
  /\ LET bits == IF UsesExec THEN ExecView(chip.cacr) ELSE To030(chip.cacr)
     IN  info' = [info EXCEPT !.has = HasCaches,
                    !.shown = {s \in HasCaches :
                                 IF s = "super" THEN SuperOn
                                 ELSE FlagOf(s) \in bits}]
  /\ pc' = IF look.setting = "none" THEN "next" ELSE "idle"
  /\ look' = NoLook
  /\ Idle /\ UNCHANGED <<chip, wanted, lost, tampers, library>>

\* A button of a cache the processor has: the first half of a toggle reads the
\* whole register.
Press(s) ==
  /\ pc = "idle" /\ s \in info.has
  /\ pc' = IF s = "super" THEN "toggle super" ELSE "toggle"
  /\ LET current == IF UsesExec THEN ExecView(chip.cacr) ELSE To030(chip.cacr)
     IN  look' = [NoLook EXCEPT !.setting = s, !.current = chip.cacr,
                    !.on = IF s = "super" THEN s \notin info.shown
                           ELSE FlagOf(s) \notin current]
  /\ Idle /\ UNCHANGED <<chip, wanted, lost, tampers, library, info>>

\* The bits of a cache in this processor.
Group(s) ==
  CASE s = "super" -> {"EBC", "ESB"} \cap Bits
    [] s = "icache" /\ machine.cpu \in Of040 -> {"ICache040"}
    [] s = "dcache" /\ machine.cpu \in Of040 -> {"CopyBack"}
    [] OTHER -> {FlagOf(s)}

Switched(bits, s, on) == IF on THEN bits \cup Group(s) ELSE bits \ Group(s)

\* toggle_cache_flag, the second half: Exec changes the one cache; Kickstart
\* 1.3 and the 68080 get the whole register back as it was read, with the flags
\* of the cache changed.
Toggle ==
  /\ Go("toggle", "caches")
  /\ LET flags == Expand(FlagOf(look.setting))
         current == To030(look.current)
         new == IF look.on THEN current \cup flags ELSE current \ flags
     IN  IF UsesExec
         THEN chip' = [chip EXCEPT !.cacr = Switched(@, look.setting, look.on)]
         ELSE SetBits(To040(new), Bits)
  /\ wanted' = [wanted EXCEPT !.cacr = Switched(@, look.setting, look.on)]
  /\ lost' = lost \ Group(look.setting)
  /\ Idle /\ UNCHANGED <<tampers, library, info, look>>

\* set_super_scalar_mode: SetCPUReg() leaves no other bit of the processor
\* register, then the CACR is read.
ToggleSuper ==
  /\ Go("toggle super", "super write")
  /\ chip' = [chip EXCEPT !.pcr = IF look.on THEN {"ESS"} ELSE {}]
  /\ wanted' = [wanted EXCEPT !.pcr = IF look.on THEN @ \cup {"ESS"} ELSE @ \ {"ESS"}]
  /\ look' = [look EXCEPT !.current = chip.cacr]
  /\ Idle /\ UNCHANGED <<lost, tampers, library, info>>

\* Mutant: the branch cache and the store buffer are only ever added.
BugSuperBits == IF look.on THEN {"EBC", "ESB"} ELSE look.current

\* Branch cache and store buffer go with it.
SuperBits == IF look.on THEN look.current \cup {"EBC", "ESB"}
             ELSE look.current \ {"EBC", "ESB"}

\* The bits that were set are written back.
WriteSuper ==
  /\ Go("super write", "caches")
  /\ SetBits(SuperBits, SuperBits \cup {"EBC", "ESB"})
  /\ wanted' = [wanted EXCEPT !.cacr = Switched(@, "super", look.on)]
  /\ lost' = lost \ Group("super")
  /\ Idle /\ UNCHANGED <<tampers, library, info, look>>

\* What the second half of a toggle writes without another look.
WritesBack(b) ==
  \/ pc = "toggle" /\ ~UsesExec
  \/ pc = "super write" /\ b \in look.current

\* Another program switches a cache, or anything else in the CACR, while a bit
\* of it is tried, but not that bit, or between the halves of a toggle.
Tamper ==
  /\ TasksRun /\ pc \in {"cpu test", "cpu reset", "toggle", "super write"}
  /\ tampers < Tampers /\ tampers' = tampers + 1
  /\ \E b \in Bits \ {look.bit} :
       LET Turned(bits) == IF b \in chip.cacr THEN bits \ {b} ELSE bits \cup {b}
       IN  /\ chip' = [chip EXCEPT !.cacr = Turned(@)]
           /\ wanted' = [wanted EXCEPT !.cacr = Turned(@)]
           /\ lost' = IF WritesBack(b) THEN lost \cup {b} ELSE lost \ {b}
  /\ Idle /\ UNCHANGED <<pc, library, info, look>>

CpuStep ==
  \/ DetectCpu \/ SetTestBit \/ ReadTestBit \/ ResetTestBit
  \/ GetCpu060 \/ LeaveCpu060 \/ DetectFpu
  \/ OpenMmu \/ MmuType \/ TestMmu \/ TryMmu \/ LeaveOwnTree \/ LeaveMmu
  \/ Translation \/ ReadTranslation
  \/ LoadRemap \/ CloseRemap \/ ReadVbr \/ RefreshCaches
  \/ (\E s \in Settings : Press(s)) \/ Toggle \/ ToggleSuper \/ WriteSuper
  \/ Tamper
=============================================================================
