------------------------------ MODULE FileCopy ------------------------------
(***************************************************************************)
(* What fetching a job promises: bytes come to their place one after       *)
(* another and stay there, and it is reported done only when none is       *)
(* missing.  It may be refused or fail at any time, and start again.  Once *)
(* spoilt, by a write that was cut short, it promises nothing.             *)
(***************************************************************************)
EXTENDS Naturals

VARIABLES
  missing,  (* bytes not yet in their place                                *)
  outcome,  (* what has been reported                                      *)
  run,      (* how often it has been started again                         *)
  spoilt

vars == <<missing, outcome, run, spoilt>>

Init == outcome = "none" /\ run = 0 /\ spoilt = FALSE

Place ==
  /\ outcome = "none" /\ missing' \subseteq missing
  /\ UNCHANGED <<outcome, run, spoilt>>

Report ==
  /\ outcome = "none" /\ missing = {} /\ outcome' = "done"
  /\ UNCHANGED <<missing, run, spoilt>>

Fail ==
  /\ outcome = "none" /\ outcome' = "failed"
  /\ UNCHANGED <<run, spoilt>>

Restart ==
  /\ outcome = "none" /\ run' = run + 1
  /\ UNCHANGED <<outcome, spoilt>>

Spoil == spoilt' = TRUE

Next == Place \/ Report \/ Fail \/ Restart \/ Spoil

Spec == Init /\ [][Next]_vars
=============================================================================
