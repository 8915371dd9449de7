----------------------------- MODULE MCHardware -----------------------------
(* Instances of Hardware for TLC.                                          *)
EXTENDS Hardware, TLC

\* An A500 with a plain 68000; the others differ from it.
Plain500 ==
  [cpu |-> "68000", fpu |-> "NONE", mmu |-> "NONE", tc |-> "off",
   exec |-> "2.0", emu |-> FALSE, seen |-> TRUE, library |-> FALSE,
   types |-> {}, ram32 |-> FALSE, mirror |-> FALSE, cacr |-> {}, pcr |-> {},
   gary |-> "A500", agnus |-> "OCS_FAT", chipset |-> "OCS", paula |-> "ORIG",
   denise |-> {"FF"}, vpos |-> "OCS", vposMirror |-> FALSE, mirrors |-> "none",
   portsIdle |-> TRUE, joy |-> "good", power |-> "good", ramsey |-> FALSE,
   ncr |-> "NONE", dma |-> "none", scsi |-> "idle", bus |-> "fault",
   count |-> "kept", rtc |-> "NONE",
   rtcF |-> "other", rtcD |-> 0, card |-> FALSE, upper |-> "none",
   debug |-> FALSE]
With(m, changes) == changes @@ m

A1000 == With(Plain500,
  [gary |-> "A1000", agnus |-> "OCS", vposMirror |-> TRUE, mirrors |-> "all",
   denise |-> {"junk", "FF"}])
A2000 == With(Plain500,
  [agnus |-> "ECS", vpos |-> "ECS", denise |-> {"FC"}, chipset |-> "ECS",
   rtc |-> "MSM6242", debug |-> TRUE])
A1200 == With(Plain500,
  [cpu |-> "68EC020", mirror |-> TRUE, gary |-> "GAYLE", agnus |-> "ALICE",
   vpos |-> "ALICE", denise |-> {"F8"}, chipset |-> "LISA", mirrors |-> "zero",
   card |-> TRUE, rtcF |-> "0", cacr |-> {"EnableI"}])
A3000 == With(Plain500,
  [cpu |-> "68030", fpu |-> "68882", mmu |-> "68030", tc |-> "on",
   cacr |-> {"EnableI", "EnableD", "IBE"}, gary |-> "FAT_GARY", agnus |-> "ECS_B",
   vpos |-> "ECS", denise |-> {"FC"}, chipset |-> "ECS", ramsey |-> TRUE,
   dma |-> "02", rtc |-> "RP5C01"])
A4000 == With(A3000,
  [cpu |-> "68040", fpu |-> "68040", mmu |-> "68040", library |-> TRUE,
   types |-> {"68040"}, cacr |-> {"ICache040", "CopyBack"}, agnus |-> "ALICE",
   vpos |-> "ALICE", denise |-> {"F8"}, chipset |-> "LISA", dma |-> "none"])

\* The boards, with what is plugged into them and how their bus answers.
Boards ==
  {Plain500, With(Plain500, [joy |-> "cycle", card |-> TRUE]),
   A1000, With(A1000, [rtc |-> "MK48T02"]),
   With(A1000, [vposMirror |-> FALSE, exec |-> "1.3"]),
   With(A1000, [cpu |-> "68010"])}
  \cup {With(A2000, [upper |-> u, joy |-> j]) :
          u \in {"alias", "none", "first", "second", "other"}, j \in {"good", "cycle"}}
  \cup {A1200, With(A1200, [portsIdle |-> FALSE, card |-> FALSE, ram32 |-> TRUE,
                            cpu |-> "68020"])}
  \cup {With(A3000, [dma |-> d, scsi |-> s, power |-> p]) :
          d \in {"02", "04", "Re"}, s \in {"idle", "transfer"}, p \in {"good", "cycle"}}
  \cup {With(A4000, [ncr |-> n]) : n \in {"710", "770"}}
  \cup {With(A4000, [bus |-> b]) : b \in {"fault", "contradiction", "reserved", "busy"}}
  \cup {With(A4000, [bus |-> "idle", count |-> c]) : c \in {"fault", "kept", "high", "low"}}
  \cup {With(A4000, [cpu |-> "68060", fpu |-> "68060", mmu |-> "68060", ncr |-> "770",
                     types |-> {"68060"}, cacr |-> {"ICache040"}])}
  \cup {With(A4000, [paula |-> "SAGA", denise |-> {"F0"}, agnus |-> "SAGA",
                     chipset |-> "ISABEL", rtc |-> "MSM6242"])}

\* The processors, in an A1200 whose boards answer alike.
Card(cpu, fpu, mmu, cacr) ==
  With(A1200, [cpu |-> cpu, fpu |-> fpu, mmu |-> mmu, cacr |-> cacr,
               ram32 |-> TRUE, types |-> {mmu}])
Caches040 == {"ICache040", "CopyBack"}
Cards ==
  {Card("68010", "68881", "NONE", {}), Card("68020", "68881", "NONE", {"EnableI"}),
   With(Card("68020", "68882", "68851", {}), [mirror |-> FALSE]),
   Card("68030", "NONE", "68030", {"EnableI"}),
   With(Card("68030", "68882", "68030", {"EnableI", "FreezeI", "DBE"}),
        [types |-> {"68851", "68030"}]),
   Card("68EC030", "68882", "NONE", {"EnableI", "IBE"}),
   Card("68040", "68040", "68040", Caches040), Card("68040", "68040", "NONE", {"ICache040"}),
   Card("68LC040", "NONE", "68040", Caches040), Card("68EC040", "NONE", "NONE", Caches040),
   With(Card("68060", "68060", "68060", Caches040 \cup {"EBC"}), [seen |-> FALSE, pcr |-> {"DFP"}]),
   With(Card("68060", "68060", "68060", Caches040 \cup {"EBC", "ESB"}), [pcr |-> {"ESS"}]),
   Card("68LC060", "NONE", "68060", Caches040 \cup {"ESB"}),
   With(Card("68EC060", "NONE", "NONE", Caches040), [pcr |-> {"ESS"}]),
   With(Card("68080", "68080", "NONE", Caches040), [pcr |-> {"ESS"}, types |-> {"68060", "NONE"}]),
   With(Card("68040", "68040", "NONE", Caches040), [emu |-> TRUE])}

MCMachines ==
  Boards
  \cup {With(c, [library |-> l, tc |-> IF c.mmu = "NONE" THEN "off" ELSE tc]) :
          c \in Cards, l \in BOOLEAN, tc \in {"on", "off"}}
  \cup {With(c, [exec |-> "1.3", library |-> FALSE]) :
          c \in {d \in Cards : ~d.emu
                               /\ d.cpu \in {"68020", "68030", "68040", "68LC040"}}}
=============================================================================
