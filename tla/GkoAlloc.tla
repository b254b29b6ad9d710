------------------------------ MODULE GkoAlloc ------------------------------
(***************************************************************************)
(* gkoAlloc, the block allocator of a worker: a bitmap of the blocks that  *)
(* are handed out, and buckets of BUCKET_CAPACITY blocks whose memory is   *)
(* fetched from the system when the first block of a bucket is wanted and  *)
(* returned when its last block comes back.  get_block and free_block are  *)
(* critical sections of alloc_lock, hence actions; id2addr takes no lock,  *)
(* so it is a step of its own.                                             *)
(*                                                                         *)
(* Clients are the threads that use the arena: its worker, and any thread  *)
(* in make_active_connect, which initialises buffers before it dispatches. *)
(***************************************************************************)
EXTENDS Integers, FiniteSets

CONSTANTS
  BUCKET_COUNT,    (* 256 in the code                                      *)
  BUCKET_CAPACITY, (* 4096 in the code                                     *)
  Clients,         (* threads                                              *)
  Regions,         (* pieces of BUCKET_SIZE bytes the system has           *)
  NULL,
  MemoryShort      (* posix_memalign may fail                              *)

ASSUME AllocAssumption ==
  /\ BUCKET_COUNT \in Nat \ {0} /\ BUCKET_CAPACITY \in Nat \ {0}
  /\ NULL \notin Regions /\ NULL \notin Clients
  /\ MemoryShort \in BOOLEAN

INVILID_BLOCK == -1
NoBlock == -2       \* no get_block is being answered

Buckets == 0 .. BUCKET_COUNT - 1
Blocks  == 0 .. BUCKET_COUNT * BUCKET_CAPACITY - 1

(* block_id / BUCKET_CAPACITY, and the blocks of a bucket                  *)
BucketOf(b) == b \div BUCKET_CAPACITY
InBucket(k) == {b \in Blocks : BucketOf(b) = k}

VARIABLES
  m_map,         (* the blocks whose bit is set                            *)
  bucket_s,      (* the memory of each bucket, or NULL                     *)
  bucket_used,   (* how many blocks of each bucket are handed out          *)
  latest_bucket, (* where get_block looks first                            *)
  answer,        (* what get_block returned, until id2addr is applied      *)
  held,          (* the blocks each client uses                            *)
  address        (* the memory id2addr found for each block                *)

vars == <<m_map, bucket_s, bucket_used, latest_bucket, answer, held, address>>

Init ==
  /\ m_map = {}
  /\ bucket_s = [k \in Buckets |-> NULL]
  /\ bucket_used = [k \in Buckets |-> 0]
  /\ latest_bucket = 0
  /\ answer = [c \in Clients |-> NoBlock]
  /\ held = [c \in Clients |-> {}]
  /\ address = [b \in Blocks |-> NULL]

-----------------------------------------------------------------------------
(* Wrong on purpose: definitions below with a bug that could be made in    *)
(* their code, each of which must break a property.                        *)

(* get_block that takes a bucket for full one block too early              *)
RoomyTooStrict(k) == bucket_used[k] < BUCKET_CAPACITY - 1

(* A search that starts at the bucket and does not look at the bits        *)
IsFirstOfBucket(b, k) ==
  b \in InBucket(k) /\ \A x \in InBucket(k) : b <= x

(* get_block that does not count the first block of a fetched bucket       *)
UsedUncounted(k) == IF bucket_s[k] = NULL THEN 0 ELSE bucket_used[k] + 1

(* free_block that tests the counter before it decrements it               *)
EmptiedTestedFirst(k) == bucket_used[k] = 0 /\ k # 0

(* free_block that is one block early                                      *)
EmptiedTooEarly(k) == bucket_used[k] <= 2 /\ k # 0

-----------------------------------------------------------------------------
(* The first bucket with room, going round from latest_bucket              *)
Roomy(k) == bucket_used[k] < BUCKET_CAPACITY

IsTheBucket(k) ==
  \E i \in Buckets :
    /\ k = (latest_bucket + i) % BUCKET_COUNT
    /\ Roomy(k)
    /\ \A n \in 0 .. i - 1 : ~Roomy((latest_bucket + n) % BUCKET_COUNT)

(* The search through the words of the bucket, and get_bit in the byte it  *)
(* ends at: the first clear bit                                            *)
IsFirstClear(b, k) ==
  /\ b \in InBucket(k) \ m_map
  /\ \A x \in InBucket(k) \ m_map : b <= x

(* The counter starts from 0 when the memory of the bucket is fetched      *)
UsedAfterGet(k) == IF bucket_s[k] = NULL THEN 1 ELSE bucket_used[k] + 1

Return(c, b) == answer' = [answer EXCEPT ![c] = b]

GetBlock(c) ==
  /\ answer[c] = NoBlock
  /\ \E k \in Buckets, b \in Blocks :
       /\ IsTheBucket(k) /\ IsFirstClear(b, k)
       /\ m_map' = m_map \cup {b}
       /\ bucket_used' = [bucket_used EXCEPT ![k] = UsedAfterGet(k)]
       /\ \/ bucket_s[k] # NULL /\ UNCHANGED bucket_s
          \/ /\ bucket_s[k] = NULL
             /\ \E r \in Regions \ {bucket_s[n] : n \in Buckets} :
                  bucket_s' = [bucket_s EXCEPT ![k] = r]
       /\ Return(c, b)
  /\ UNCHANGED <<latest_bucket, held, address>>

(* "out of memory in pool": every bucket is full                           *)
GetBlockFull(c) ==
  /\ answer[c] = NoBlock
  /\ \A k \in Buckets : ~Roomy(k)
  /\ Return(c, INVILID_BLOCK)
  /\ UNCHANGED <<m_map, bucket_s, bucket_used, latest_bucket, held, address>>

(* posix_memalign fails for the bucket chosen, even if another has room    *)
GetBlockNoMemory(c) ==
  /\ answer[c] = NoBlock /\ MemoryShort
  /\ \E k \in Buckets : IsTheBucket(k) /\ bucket_s[k] = NULL
  /\ Return(c, INVILID_BLOCK)
  /\ UNCHANGED <<m_map, bucket_s, bucket_used, latest_bucket, held, address>>

(* id2addr: bucket_s read without the lock.  INVILID_BLOCK has no address. *)
Id2Addr(c) ==
  LET b == answer[c]
  IN  /\ b # NoBlock
      /\ IF b = INVILID_BLOCK THEN UNCHANGED <<held, address>>
         ELSE /\ held' = [held EXCEPT ![c] = @ \cup {b}]
              /\ address' = [address EXCEPT ![b] = bucket_s[BucketOf(b)]]
      /\ Return(c, NoBlock)
      /\ UNCHANGED <<m_map, bucket_s, bucket_used, latest_bucket>>

(* free_bit flips the bit with an exclusive or                             *)
FreeBit(b) == IF b \in m_map THEN m_map \ {b} ELSE m_map \cup {b}

(* The block being freed is the last of its bucket, and not of bucket 0    *)
Emptied(k) == bucket_used[k] = 1 /\ k # 0

(* free_block: the memory of an emptied bucket goes back, but never that   *)
(* of bucket 0.  The caller drops its pointer with the block.              *)
FreeBlock(c, b) ==
  LET k == BucketOf(b)
  IN  /\ b \in held[c]
      /\ held' = [held EXCEPT ![c] = @ \ {b}]
      /\ address' = [address EXCEPT ![b] = NULL]
      /\ m_map' = FreeBit(b)
      /\ bucket_used' = [bucket_used EXCEPT ![k] = @ - 1]
      /\ IF Emptied(k)
         THEN /\ bucket_s' = [bucket_s EXCEPT ![k] = NULL]
              /\ UNCHANGED latest_bucket
         ELSE /\ latest_bucket' = k
              /\ UNCHANGED bucket_s
      /\ UNCHANGED answer

Next ==
  \E c \in Clients :
    \/ GetBlock(c) \/ GetBlockFull(c) \/ GetBlockNoMemory(c)
    \/ Id2Addr(c)
    \/ \E b \in Blocks : FreeBlock(c, b)

Spec == Init /\ [][Next]_vars

-----------------------------------------------------------------------------
TypeOK ==
  /\ m_map \in SUBSET Blocks
  /\ bucket_s \in [Buckets -> Regions \cup {NULL}]
  /\ bucket_used \in [Buckets -> 0 .. BUCKET_CAPACITY]
  /\ latest_bucket \in Buckets
  /\ answer \in [Clients -> Blocks \cup {INVILID_BLOCK, NoBlock}]
  /\ held \in [Clients -> SUBSET Blocks]
  /\ address \in [Blocks -> Regions \cup {NULL}]

(* What get_block gave to a client and the client has not freed            *)
Owned(c) == held[c] \cup ({answer[c]} \ {INVILID_BLOCK, NoBlock})

(* A set bit is a block some client has, and no block has two holders: the *)
(* xor of free_bit never sets a bit, and get_block never gives out a block *)
(* in use.                                                                 *)
OneHolder ==
  /\ m_map = UNION {Owned(c) : c \in Clients}
  /\ \A c, d \in Clients : c # d => Owned(c) \cap Owned(d) = {}
  /\ \A c \in Clients : answer[c] \notin held[c]

(* The two records of the same fact agree: a bucket's counter is the       *)
(* number of its set bits.  So a bucket with room has a clear bit, the     *)
(* search of get_block ends at one, and bucket_used cannot wrap.           *)
UsedCountsBits ==
  \A k \in Buckets : bucket_used[k] = Cardinality(InBucket(k) \cap m_map)

(* No client writes to memory its bucket has lost: the address it computed *)
(* outside the lock is the memory of the block for as long as it holds it, *)
(* although other clients' frees return buckets to the system.             *)
AddressStaysValid ==
  \A c \in Clients : \A b \in held[c] :
    address[b] # NULL /\ address[b] = bucket_s[BucketOf(b)]

(* No memory serves two buckets, and a bucket with a block out has some.   *)
BucketMemory ==
  /\ \A k, n \in Buckets :
       bucket_s[k] = bucket_s[n] /\ bucket_s[k] # NULL => k = n
  /\ \A b \in m_map : bucket_s[BucketOf(b)] # NULL

(* Memory of a bucket other than the first is kept only while a block of   *)
(* it is out.                                                              *)
IdleBucketReturned ==
  \A k \in Buckets \ {0} : bucket_used[k] = 0 => bucket_s[k] = NULL

OwnerOf(b) ==
  IF \E c \in Clients : b \in Owned(c)
  THEN CHOOSE c \in Clients : b \in Owned(c) ELSE NULL

Pool == INSTANCE BlockPool WITH
          NoOwner <- NULL,
          missing <- (\E k \in Buckets : bucket_s[k] = NULL),
          owner <- [b \in Blocks |-> OwnerOf(b)]

(* gkoAlloc is an allocator: each block has one holder at most, and a      *)
(* request fails only when all are held or posix_memalign had to be called *)
(* and failed.                                                             *)
ImplementsPool == Pool!PoolSpec
=============================================================================
