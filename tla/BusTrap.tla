------------------------------ MODULE BusTrap ------------------------------
(***************************************************************************)
(* berr_trap.S: one read of an address that may not answer.  The bus and   *)
(* address error vectors are hooked for that read with the interrupts      *)
(* masked; a fault discards its frame and is reported as a failure.  What  *)
(* answers at an address is up to the modules that ask.                    *)
(***************************************************************************)
EXTENDS Task

VARIABLES
  machine,   \* the computer the program has been started on; never changes
  vectors,   \* "system", or "probe" while both vectors are hooked
  trap       \* the call: its register, the label to return to, the mask found,
             \* whether a branch prediction error occurred, the answer

trapVars == <<vectors, trap>>

Fault == "fault"
NoTrap == [register |-> "none", back |-> "none", was |-> FALSE,
           branch |-> FALSE, answer |-> "none"]

TrapInit == vectors = "system" /\ trap = NoTrap

Exec36 == machine.exec # "1.3"

\* Mutant: interrupts stay as they were.
BugMasked == disabled

Masked == TRUE

\* Into supervisor mode: the interrupts masked, the vectors saved and hooked.
Probe(register, back) ==
  /\ pc' = "trap read"
  /\ disabled' = Masked
  /\ vectors' = "probe"
  /\ trap' = [NoTrap EXCEPT !.register = register, !.back = back,
                            !.was = disabled]
  /\ UNCHANGED forbid

\* The register answers, or nobody does.
TrapRead(answer) ==
  /\ Go("trap read", "trap leave")
  /\ trap' = [trap EXCEPT !.answer = answer]
  /\ UNCHANGED <<masks, vectors>>

\* Mutant: every bus error of a 68060 means absent hardware.
BugRetries == FALSE

\* Exec has to know the 68060.
Retries == Exec36

\* A 68060 takes a branch prediction error before the read; its branch cache
\* is flushed, so that there is no second one.
BranchError ==
  /\ pc = "trap read" /\ ~trap.branch
  /\ machine.cpu \in {"68060", "68LC060", "68EC060"}
  /\ pc' = IF Retries THEN "trap read" ELSE "trap leave"
  /\ trap' = [trap EXCEPT !.branch = TRUE,
                          !.answer = IF Retries THEN @ ELSE Fault]
  /\ UNCHANGED <<masks, vectors>>

\* Mutant: a fault leaves by its frame, past the end that restores.
BugUnhooked == IF trap.answer = Fault THEN "probe" ELSE "system"

Unhooked == "system"

\* The vectors and the mask as they were; only then is an answer published.
TrapLeave ==
  /\ Go("trap leave", trap.back)
  /\ vectors' = Unhooked
  /\ disabled' = trap.was
  /\ UNCHANGED <<forbid, trap>>
=============================================================================
