--------------------------- MODULE RealTimeClock ----------------------------
(***************************************************************************)
(* read_hardware_time of clock.c: the date of the clock chip, read digit   *)
(* by digit while the chip runs.  An MSM6242 has to be held, which works   *)
(* only while it is not busy; an RP5C01 is stopped and its bank switched;  *)
(* an MK48T02 is frozen by a read bit that must not be set while another   *)
(* program writes the clock.  Each way ends with the control bits back.    *)
(*                                                                         *)
(* The chip steps through Dates, of which only the digits that differ      *)
(* matter; the digits are read in two parts.                               *)
(***************************************************************************)
EXTENDS Task

CONSTANTS
  Dates,      \* the dates the chip steps through: <<year byte, month, day>>
  Attempts    \* 64: how often an MSM6242 is asked to hold

ASSUME RtcAssumption ==
  /\ Dates \in Seq((0..255) \X (0..19) \X (0..39))
  /\ Attempts \in Nat \ {0}

VARIABLES
  rtc,     \* the chip: its kind, its date, its control bits
  look     \* the locals of read_hardware_time, and the date it returned

rtcVars == <<rtc, look>>

Kinds == {"MSM6242", "RP5C01", "MK48T02", "NONE"}
NoLook == [attempt |-> 0, control |-> "none", early |-> <<>>, late |-> <<>>,
           from |-> 0, date |-> <<>>]

\* hold: HOLD, the stopped timer or the read bit; bank: the register bank of an
\* RP5C01, found: as other programs left it; busy: the chip carries into its
\* digits (MSM6242), or is being written (MK48T02).
RtcInit(kind, bank) ==
  /\ rtc = [kind |-> kind, at |-> 1, hold |-> FALSE, bank |-> bank,
            found |-> bank, busy |-> FALSE]
  /\ look = NoLook

ControlBits == <<rtc.hold, rtc.bank>>
-----------------------------------------------------------------------------
\* The chip goes on to the next date unless it is held; a chip that was busy
\* when it was asked to hold still finishes its carry.
RtcTick ==
  /\ rtc.at < Len(Dates)
  /\ IF rtc.kind = "MSM6242" THEN rtc.busy ELSE ~rtc.hold /\ ~rtc.busy
  /\ rtc' = [rtc EXCEPT !.at = @ + 1, !.busy = FALSE]
  /\ UNCHANGED <<pc, masks, look>>

RtcBusy ==
  /\ ~rtc.hold /\ ~rtc.busy /\ rtc.at < Len(Dates)
  /\ \/ rtc.kind = "MSM6242"
     \/ rtc.kind = "MK48T02" /\ TasksRun
  /\ rtc' = [rtc EXCEPT !.busy = TRUE]
  /\ UNCHANGED <<pc, masks, look>>

\* Another program finishes writing an MK48T02.
RtcWritten ==
  /\ rtc.kind = "MK48T02" /\ rtc.busy /\ TasksRun
  /\ rtc' = [rtc EXCEPT !.busy = FALSE, !.at = @ + 1]
  /\ UNCHANGED <<pc, masks, look>>
-----------------------------------------------------------------------------
ReadTime ==
  /\ pc = "rtc"
  /\ pc' = IF rtc.kind = "NONE" THEN "rtc done" ELSE "rtc hold"
  /\ look' = NoLook
  /\ UNCHANGED <<masks, rtc>>

\* Mutant: the digits are read whether or not the chip was busy.
BugHeld == TRUE

Held == rtc.kind = "MSM6242" => ~rtc.busy

\* Disable, note the control bits and hold the chip; one that is written is
\* left alone.
Hold ==
  /\ pc = "rtc hold"
  /\ disabled' = TRUE
  /\ IF rtc.kind = "MK48T02" /\ rtc.busy
     THEN pc' = "rtc give up" /\ UNCHANGED rtc
     ELSE /\ rtc' = [rtc EXCEPT !.hold = TRUE,
                       !.bank = IF rtc.kind = "RP5C01" THEN 0 ELSE @]
          /\ pc' = "rtc ready"
  /\ look' = [look EXCEPT !.attempt = @ + 1, !.control = ControlBits]
  /\ UNCHANGED forbid

Ready ==
  /\ pc = "rtc ready"
  /\ pc' = IF Held THEN "rtc early" ELSE "rtc let go"
  /\ UNCHANGED <<masks, rtcVars>>

Early ==
  /\ Go("rtc early", "rtc late")
  /\ look' = [look EXCEPT !.early = <<Dates[rtc.at][1]>>, !.from = rtc.at]
  /\ UNCHANGED <<masks, rtc>>

Late ==
  /\ Go("rtc late", "rtc let go")
  /\ look' = [look EXCEPT !.late = <<Dates[rtc.at][2], Dates[rtc.at][3]>>]
  /\ UNCHANGED <<masks, rtc>>

\* Mutant: an RP5C01 stays in the bank of the time.
BugOwnBank(c) == [rtc EXCEPT !.hold = c[1]]

Unheld(c) == [rtc EXCEPT !.hold = c[1], !.bank = c[2]]

\* The control bits are written back and interrupts enabled; a chip that was
\* busy is asked again.
LetGo ==
  /\ pc = "rtc let go"
  /\ rtc' = Unheld(look.control)
  /\ disabled' = FALSE
  /\ pc' = IF look.late # <<>> THEN "rtc check"
           ELSE IF look.attempt < Attempts THEN "rtc hold" ELSE "rtc done"
  /\ UNCHANGED <<forbid, look>>

GiveUp ==
  /\ Go("rtc give up", "rtc done")
  /\ disabled' = FALSE
  /\ UNCHANGED <<forbid, rtcVars>>

Leap(y) == y % 4 = 0 /\ (y % 100 # 0 \/ y % 400 = 0)
MonthDays(y, m) ==
  IF m = 2 THEN IF Leap(y) THEN 29 ELSE 28
  ELSE IF m \in {4, 6, 9, 11} THEN 30 ELSE 31
ValidDate(d) ==
  /\ d[1] \in 1978..9999 /\ d[2] \in 1..12
  /\ d[3] \in 1..MonthDays(d[1], d[2])

\* battclock.resource counts years from 1900; below 78 they are of this century.
FullYear(y) == y + IF y < 78 THEN 2000 ELSE 1900

\* The digits become a date, or none.
CheckDate ==
  /\ Go("rtc check", "rtc done")
  /\ LET y == look.early[1]
         d == <<FullYear(y), look.late[1], look.late[2]>>
     IN  look' = [look EXCEPT !.date =
                    IF y <= 159 /\ ValidDate(d) THEN d ELSE <<>>]
  /\ UNCHANGED <<masks, rtc>>

RtcStep ==
  \/ ReadTime \/ Hold \/ Ready \/ Early \/ Late \/ LetGo \/ GiveUp \/ CheckDate

\* A date that is shown is one the chip had: no digits of two dates are mixed
\* (clock.c 58-65 and 80-106).
TimeNotTorn ==
  look.date # <<>> =>
    \E i \in look.from .. rtc.at :
      look.date = <<FullYear(Dates[i][1]), Dates[i][2], Dates[i][3]>>
=============================================================================
