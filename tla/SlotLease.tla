----------------------------- MODULE SlotLease -----------------------------
(***************************************************************************)
(* What the pool promises about its slots, without a thread, a pipe or a   *)
(* state machine in sight: a free slot is leased to one connection, which  *)
(* is queued for one worker and served by that worker until the slot is    *)
(* given back.                                                             *)
(***************************************************************************)
CONSTANTS
  Slots,
  Workers,
  None   (* where a slot is that no worker has: not a worker *)

VARIABLES lease, at

leaseVars == <<lease, at>>

LeaseTypeOK ==
  /\ lease \in [Slots -> {"free", "taken", "queued", "served"}]
  /\ at \in [Slots -> Workers \cup {None}]

LeaseInit ==
  /\ lease = [c \in Slots |-> "free"]
  /\ at = [c \in Slots |-> None]

Move(c, from, to, w) ==
  /\ lease[c] = from
  /\ lease' = [lease EXCEPT ![c] = to]
  /\ at' = [at EXCEPT ![c] = w]

Take(c)     == Move(c, "free", "taken", None)
GiveBack(c) == Move(c, "taken", "free", None)
Enqueue(c, w) == w \in Workers /\ Move(c, "taken", "queued", w)
Serve(c)    == Move(c, "queued", "served", at[c])
Release(c)  == Move(c, "served", "free", None)

LeaseNext ==
  \E c \in Slots :
    \/ Take(c) \/ GiveBack(c) \/ Serve(c) \/ Release(c)
    \/ \E w \in Workers : Enqueue(c, w)

LeaseSpec == LeaseInit /\ [][LeaseNext]_leaseVars
=============================================================================
