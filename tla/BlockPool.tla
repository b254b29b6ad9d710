----------------------------- MODULE BlockPool -----------------------------
(***************************************************************************)
(* What an allocator of fixed blocks promises its clients: a block has at  *)
(* most one holder, and a request fails only when every block is held or   *)
(* memory had to be asked of the system, which has none.  When memory is   *)
(* fetched and returned is the allocator's own affair.                     *)
(***************************************************************************)
CONSTANTS Blocks, Clients, NoOwner, NoBlock, INVILID_BLOCK, MemoryShort

VARIABLES
  owner,   (* the holder of each block, or NoOwner                         *)
  answer,  (* what each client's last request returned, until it is taken  *)
  missing  (* some of the blocks have no memory at the moment              *)

poolVars == <<owner, answer>>

PoolInit ==
  /\ owner = [b \in Blocks |-> NoOwner]
  /\ answer = [c \in Clients |-> NoBlock]

Get(c, b) ==
  /\ answer[c] = NoBlock /\ owner[b] = NoOwner
  /\ owner' = [owner EXCEPT ![b] = c]
  /\ answer' = [answer EXCEPT ![c] = b]

GetFails(c) ==
  /\ answer[c] = NoBlock
  /\ (MemoryShort /\ missing) \/ \A b \in Blocks : owner[b] # NoOwner
  /\ answer' = [answer EXCEPT ![c] = INVILID_BLOCK]
  /\ UNCHANGED owner

Take(c) ==
  /\ answer[c] # NoBlock
  /\ answer' = [answer EXCEPT ![c] = NoBlock]
  /\ UNCHANGED owner

Put(c, b) ==
  /\ owner[b] = c
  /\ owner' = [owner EXCEPT ![b] = NoOwner]
  /\ UNCHANGED answer

PoolNext ==
  \E c \in Clients :
    \/ GetFails(c) \/ Take(c)
    \/ \E b \in Blocks : Get(c, b) \/ Put(c, b)

PoolSpec == PoolInit /\ [][PoolNext]_poolVars
=============================================================================
