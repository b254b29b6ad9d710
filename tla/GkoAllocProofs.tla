--------------------------- MODULE GkoAllocProofs ---------------------------
(***************************************************************************)
(* gkoAlloc is correct for every number and size of buckets and every set  *)
(* of threads: its records agree, no block has two holders, and the memory *)
(* behind a held block is not returned.                                    *)
(***************************************************************************)
EXTENDS GkoAlloc, FiniteSetTheorems, TLAPS

(* The invariant is inductive only as a whole: that free_block's counter   *)
(* stays above zero needs the count of bits, that the first block of a     *)
(* fetched bucket is its only one needs BucketMemory, and that a free does *)
(* not take the memory of another holder's block needs both.               *)
IInv ==
  /\ TypeOK
  /\ OneHolder
  /\ UsedCountsBits
  /\ AddressStaysValid
  /\ BucketMemory
  /\ IdleBucketReturned

(* A block lies in one of the buckets.                                     *)
LEMMA BucketOfBlock == \A b \in Blocks : BucketOf(b) \in Buckets
<1>1. SUFFICES ASSUME NEW b \in Blocks PROVE BucketOf(b) \in Buckets
  OBVIOUS
<1> DEFINE q == b \div BUCKET_CAPACITY
<1>2. BUCKET_CAPACITY \in Nat \ {0} /\ BUCKET_COUNT \in Nat \ {0} /\ b \in Nat
  BY AllocAssumption DEF Blocks
<1>3. q \in Int /\ BUCKET_CAPACITY * q <= b /\ 0 <= q
  BY <1>2
<1>4. b < BUCKET_COUNT * BUCKET_CAPACITY
  BY <1>2 DEF Blocks
<1>5. q < BUCKET_COUNT
  BY <1>2, <1>3, <1>4
<1> QED
  BY <1>3, <1>5, <1>2 DEF BucketOf, Buckets

(* The set bits of a bucket can be counted.                                *)
LEMMA BucketFinite ==
  ASSUME NEW k, NEW S
  PROVE  /\ IsFiniteSet(InBucket(k) \cap S)
         /\ Cardinality(InBucket(k) \cap S) \in Nat
<1>1. IsFiniteSet(Blocks)
  <2>1. BUCKET_COUNT * BUCKET_CAPACITY - 1 \in Int
    BY AllocAssumption
  <2> QED
    BY <2>1, FS_Interval DEF Blocks
<1>2. IsFiniteSet(InBucket(k) \cap S)
  BY <1>1, FS_Subset DEF InBucket
<1> QED
  BY <1>2, FS_CardinalityType

LEMMA BitsOfBucketEmpty ==
  ASSUME NEW k, NEW S, InBucket(k) \cap S = {}
  PROVE  Cardinality(InBucket(k) \cap S) = 0
BY FS_EmptySet

LEMMA InitIInv == Init => IInv
<1> SUFFICES ASSUME Init PROVE IInv
  OBVIOUS
<1> USE DEF Init
<1>1. TypeOK
  BY AllocAssumption DEF TypeOK, Buckets
<1>2. OneHolder
  BY DEF OneHolder, Owned
<1>3. UsedCountsBits
  BY BitsOfBucketEmpty DEF UsedCountsBits
<1>4. AddressStaysValid /\ BucketMemory /\ IdleBucketReturned
  BY DEF AddressStaysValid, BucketMemory, IdleBucketReturned
<1> QED
  BY <1>1, <1>2, <1>3, <1>4 DEF IInv

(* get_block gives out a block whose bit was clear, hence nobody's.        *)
LEMMA GetBlockIInv ==
  ASSUME IInv, NEW c \in Clients, GetBlock(c)
  PROVE  IInv'
<1> USE DEF IInv
<1>1. PICK k \in Buckets, b \in Blocks :
        /\ IsTheBucket(k) /\ IsFirstClear(b, k)
        /\ m_map' = m_map \cup {b}
        /\ bucket_used' = [bucket_used EXCEPT ![k] = UsedAfterGet(k)]
        /\ \/ bucket_s[k] # NULL /\ UNCHANGED bucket_s
           \/ /\ bucket_s[k] = NULL
              /\ \E r \in Regions \ {bucket_s[n] : n \in Buckets} :
                   bucket_s' = [bucket_s EXCEPT ![k] = r]
        /\ answer' = [answer EXCEPT ![c] = b]
  BY DEF GetBlock, Return
<1>2. /\ answer[c] = NoBlock
      /\ UNCHANGED <<latest_bucket, held, address>>
  BY DEF GetBlock
<1>3. b \notin m_map /\ BucketOf(b) = k /\ Roomy(k)
  BY <1>1 DEF IsFirstClear, InBucket, IsTheBucket
<1>4. bucket_s[k] = NULL => bucket_used[k] = 0
  <2>1. SUFFICES ASSUME bucket_s[k] = NULL PROVE InBucket(k) \cap m_map = {}
    BY <1>1, BitsOfBucketEmpty DEF UsedCountsBits
  <2> QED
    BY <2>1 DEF BucketMemory, InBucket
<1>5. bucket_used' = [bucket_used EXCEPT ![k] = @ + 1]
  <2>1. UsedAfterGet(k) = bucket_used[k] + 1
    BY <1>4 DEF UsedAfterGet
  <2> QED
    BY <1>1, <2>1
<1>6. TypeOK'
  <2>1. bucket_used' \in [Buckets -> 0 .. BUCKET_CAPACITY]
    BY <1>1, <1>3, <1>5, AllocAssumption DEF TypeOK, Roomy
  <2>2. bucket_s' \in [Buckets -> Regions \cup {NULL}]
    BY <1>1 DEF TypeOK
  <2> QED
    BY <1>1, <1>2, <2>1, <2>2 DEF TypeOK
<1>7. /\ Owned(c)' = Owned(c) \cup {b}
      /\ \A d \in Clients \ {c} : Owned(d)' = Owned(d)
      /\ b # INVILID_BLOCK /\ b # NoBlock
  BY <1>1, <1>2, AllocAssumption
     DEF Owned, TypeOK, Blocks, INVILID_BLOCK, NoBlock
<1>8. OneHolder'
  <2>1. \A d \in Clients : b \notin Owned(d)
    BY <1>3 DEF OneHolder
  <2>2. m_map' = UNION {Owned(d)' : d \in Clients}
    BY <1>1, <1>7 DEF OneHolder
  <2>3. \A d, e \in Clients : d # e => Owned(d)' \cap Owned(e)' = {}
    BY <1>7, <2>1 DEF OneHolder
  <2>4. \A d \in Clients : answer'[d] \notin held'[d]
    BY <1>1, <1>2, <2>1 DEF OneHolder, Owned, TypeOK
  <2> QED
    BY <2>2, <2>3, <2>4 DEF OneHolder
<1>9. UsedCountsBits'
  <2>1. SUFFICES ASSUME NEW n \in Buckets
                 PROVE  bucket_used'[n] = Cardinality(InBucket(n) \cap m_map')
    BY DEF UsedCountsBits, InBucket
  <2>2. CASE n = k
    <3>1. InBucket(k) \cap m_map' = (InBucket(k) \cap m_map) \cup {b}
      BY <1>1, <1>3 DEF InBucket
    <3>2. b \notin InBucket(k) \cap m_map
      BY <1>3
    <3>3. Cardinality(InBucket(k) \cap m_map')
            = Cardinality(InBucket(k) \cap m_map) + 1
      BY <3>1, <3>2, BucketFinite, FS_AddElement
    <3> QED
      BY <1>1, <1>5, <2>2, <3>3 DEF UsedCountsBits, TypeOK
  <2>3. CASE n # k
    <3>1. InBucket(n) \cap m_map' = InBucket(n) \cap m_map
      BY <1>1, <1>3, <2>3 DEF InBucket
    <3> QED
      BY <1>5, <2>1, <2>3, <3>1 DEF UsedCountsBits, TypeOK
  <2> QED
    BY <2>2, <2>3
<1>10. AddressStaysValid'
  <2>1. \A d \in Clients : \A x \in held[d] : bucket_s'[BucketOf(x)]
                                               = bucket_s[BucketOf(x)]
    BY <1>1, BucketOfBlock DEF AddressStaysValid, TypeOK
  <2> QED
    BY <1>2, <2>1 DEF AddressStaysValid
<1>11. BucketMemory'
  <2>1. bucket_s'[k] # NULL
    BY <1>1, AllocAssumption DEF TypeOK
  <2>2. \A n \in Buckets : bucket_s'[n] # NULL /\ n # k
                             => bucket_s'[n] = bucket_s[n]
    BY <1>1 DEF TypeOK
  <2>3. \A x \in m_map' : bucket_s'[BucketOf(x)] # NULL
    BY <1>1, <1>3, <2>1, BucketOfBlock DEF BucketMemory, TypeOK
  <2>4. \A m, n \in Buckets :
          bucket_s'[m] = bucket_s'[n] /\ bucket_s'[m] # NULL => m = n
    BY <1>1 DEF BucketMemory, TypeOK
  <2> QED
    BY <2>3, <2>4 DEF BucketMemory
<1>12. IdleBucketReturned'
  BY <1>1, <1>5 DEF IdleBucketReturned, TypeOK
<1> QED
  BY <1>6, <1>8, <1>9, <1>10, <1>11, <1>12

LEMMA GetBlockFailsIInv ==
  ASSUME IInv, NEW c \in Clients, GetBlockFull(c) \/ GetBlockNoMemory(c)
  PROVE  IInv'
<1> USE DEF IInv
<1>1. /\ answer[c] = NoBlock /\ answer' = [answer EXCEPT ![c] = INVILID_BLOCK]
      /\ UNCHANGED <<m_map, bucket_s, bucket_used, latest_bucket, held, address>>
  BY DEF GetBlockFull, GetBlockNoMemory, Return
<1>2. TypeOK'
  BY <1>1 DEF TypeOK
<1>3. \A d \in Clients : Owned(d)' = Owned(d)
  BY <1>1 DEF Owned, TypeOK
<1>4. \A d \in Clients : answer'[d] \notin held'[d]
  BY <1>1 DEF OneHolder, TypeOK, Blocks, INVILID_BLOCK
<1>5. OneHolder'
  BY <1>1, <1>3, <1>4 DEF OneHolder
<1>6. /\ UsedCountsBits' /\ AddressStaysValid' /\ BucketMemory'
      /\ IdleBucketReturned'
  BY <1>1 DEF UsedCountsBits, InBucket, AddressStaysValid, BucketMemory,
              IdleBucketReturned
<1> QED
  BY <1>2, <1>5, <1>6

LEMMA Id2AddrIInv ==
  ASSUME IInv, NEW c \in Clients, Id2Addr(c)
  PROVE  IInv'
<1> USE DEF IInv
<1> DEFINE b == answer[c]
<1>1. /\ b # NoBlock /\ answer' = [answer EXCEPT ![c] = NoBlock]
      /\ UNCHANGED <<m_map, bucket_s, bucket_used, latest_bucket>>
  BY DEF Id2Addr, Return
<1>2. CASE b = INVILID_BLOCK
  <2>1. UNCHANGED <<held, address>>
    BY <1>2 DEF Id2Addr
  <2>2. TypeOK'
    BY <1>1, <2>1 DEF TypeOK
  <2>3. \A d \in Clients : Owned(d)' = Owned(d)
    BY <1>1, <1>2, <2>1 DEF Owned, TypeOK
  <2>4. \A d \in Clients : answer'[d] \notin held'[d]
    BY <1>1, <2>1 DEF OneHolder, TypeOK, Blocks, NoBlock
  <2>5. OneHolder'
    BY <1>1, <2>3, <2>4 DEF OneHolder
  <2> QED
    BY <1>1, <2>1, <2>2, <2>5
       DEF UsedCountsBits, InBucket, AddressStaysValid, BucketMemory,
           IdleBucketReturned
<1>3. CASE b # INVILID_BLOCK
  <2>1. /\ b \in Blocks
        /\ held' = [held EXCEPT ![c] = @ \cup {b}]
        /\ address' = [address EXCEPT ![b] = bucket_s[BucketOf(b)]]
    BY <1>1, <1>3 DEF Id2Addr, TypeOK
  <2>2. TypeOK'
    BY <1>1, <2>1, BucketOfBlock DEF TypeOK
  <2>3. \A d \in Clients : Owned(d)' = Owned(d)
    BY <1>1, <1>3, <2>1 DEF Owned, TypeOK
  <2>4. \A d \in Clients : answer'[d] \notin held'[d]
    BY <1>1, <2>1, <2>2 DEF OneHolder, TypeOK, Blocks, NoBlock
  <2>5. OneHolder'
    BY <1>1, <2>3, <2>4 DEF OneHolder
  <2>6. AddressStaysValid'
    <3>1. b \in m_map /\ bucket_s[BucketOf(b)] # NULL
      BY <1>1, <1>3 DEF OneHolder, Owned, BucketMemory
    <3>2. address'[b] = bucket_s[BucketOf(b)]
      BY <2>1 DEF TypeOK
    <3>3. \A x \in Blocks \ {b} : address'[x] = address[x]
      BY <2>1 DEF TypeOK
    <3>4. \A d \in Clients : held'[d] \subseteq held[d] \cup {b}
      BY <2>1 DEF TypeOK
    <3>5. \A d \in Clients : held'[d] \subseteq Blocks
      BY <2>2 DEF TypeOK
    <3> QED
      BY <1>1, <3>1, <3>2, <3>3, <3>4, <3>5 DEF AddressStaysValid
  <2> QED
    BY <1>1, <2>2, <2>5, <2>6
       DEF UsedCountsBits, InBucket, BucketMemory, IdleBucketReturned
<1> QED
  BY <1>2, <1>3

(* free_block returns a bucket's memory only with the last of its blocks.  *)
LEMMA FreeBlockIInv ==
  ASSUME IInv, NEW c \in Clients, NEW b \in Blocks, FreeBlock(c, b)
  PROVE  IInv'
<1> USE DEF IInv
<1> DEFINE k == BucketOf(b)
<1>1. /\ b \in held[c]
      /\ held' = [held EXCEPT ![c] = @ \ {b}]
      /\ address' = [address EXCEPT ![b] = NULL]
      /\ bucket_used' = [bucket_used EXCEPT ![k] = @ - 1]
      /\ answer' = answer
      /\ \/ /\ bucket_used[k] = 1 /\ k # 0
            /\ bucket_s' = [bucket_s EXCEPT ![k] = NULL]
            /\ latest_bucket' = latest_bucket
         \/ /\ ~(bucket_used[k] = 1 /\ k # 0)
            /\ latest_bucket' = k /\ bucket_s' = bucket_s
  BY DEF FreeBlock, Emptied
<1>2. k \in Buckets
  BY BucketOfBlock
<1>3. b \in m_map /\ m_map' = m_map \ {b}
  BY <1>1 DEF FreeBlock, FreeBit, OneHolder, Owned
<1>4. /\ Cardinality(InBucket(k) \cap m_map')
           = Cardinality(InBucket(k) \cap m_map) - 1
      /\ Cardinality(InBucket(k) \cap m_map') \in Nat
  <2>1. b \in InBucket(k) \cap m_map
    BY <1>3 DEF InBucket
  <2>2. InBucket(k) \cap m_map' = (InBucket(k) \cap m_map) \ {b}
    BY <1>3
  <2>3. Cardinality(InBucket(k) \cap m_map')
          = Cardinality(InBucket(k) \cap m_map) - 1
    BY <2>1, <2>2, BucketFinite, FS_RemoveElement
  <2> QED
    BY <2>3, BucketFinite
<1>5. bucket_used'[k] = Cardinality(InBucket(k) \cap m_map')
  BY <1>1, <1>2, <1>4 DEF UsedCountsBits, TypeOK
<1>6. TypeOK'
  <2>1. bucket_used' \in [Buckets -> 0 .. BUCKET_CAPACITY]
    BY <1>1, <1>2, <1>4, <1>5, AllocAssumption DEF TypeOK
  <2>2. /\ bucket_s' \in [Buckets -> Regions \cup {NULL}]
        /\ address' \in [Blocks -> Regions \cup {NULL}]
        /\ held' \in [Clients -> SUBSET Blocks]
    BY <1>1 DEF TypeOK
  <2> QED
    BY <1>1, <1>2, <1>3, <2>1, <2>2 DEF TypeOK
<1>7. /\ Owned(c)' = Owned(c) \ {b}
      /\ \A d \in Clients \ {c} : Owned(d)' = Owned(d)
  BY <1>1 DEF Owned, TypeOK, OneHolder
<1>8. OneHolder'
  <2>1. b \in Owned(c) /\ \A d \in Clients \ {c} : b \notin Owned(d)
    BY <1>1 DEF OneHolder, Owned
  <2>2. m_map' = UNION {Owned(d)' : d \in Clients}
    BY <1>3, <1>7, <2>1 DEF OneHolder
  <2>3. \A d, e \in Clients : d # e => Owned(d)' \cap Owned(e)' = {}
    BY <1>7 DEF OneHolder
  <2>4. \A d \in Clients : answer'[d] \notin held'[d]
    BY <1>1 DEF OneHolder, TypeOK
  <2> QED
    BY <2>2, <2>3, <2>4 DEF OneHolder
<1>9. UsedCountsBits'
  <2>1. SUFFICES ASSUME NEW n \in Buckets
                 PROVE  bucket_used'[n] = Cardinality(InBucket(n) \cap m_map')
    BY DEF UsedCountsBits, InBucket
  <2>2. CASE n = k
    BY <1>5, <2>2
  <2>3. CASE n # k
    <3>1. InBucket(n) \cap m_map' = InBucket(n) \cap m_map
      BY <1>3, <2>3 DEF InBucket
    <3> QED
      BY <1>1, <2>1, <2>3, <3>1 DEF UsedCountsBits, TypeOK
  <2> QED
    BY <2>2, <2>3
<1>10. \A x \in m_map' : bucket_s'[BucketOf(x)] = bucket_s[BucketOf(x)]
  <2>1. SUFFICES ASSUME NEW x \in m_map', BucketOf(x) = k, bucket_used[k] = 1
                 PROVE  FALSE
    BY <1>1, <1>2, <1>3, BucketOfBlock DEF TypeOK
  <2>2. x \in InBucket(k) \cap m_map'
    BY <1>3, <2>1 DEF InBucket, TypeOK
  <2>3. Cardinality(InBucket(k) \cap m_map') = 0
    BY <1>1, <1>2, <1>5, <2>1 DEF TypeOK
  <2> QED
    BY <2>2, <2>3, BucketFinite, FS_EmptySet
<1>11. AddressStaysValid'
  <2>1. SUFFICES ASSUME NEW d \in Clients, NEW x \in held'[d]
                 PROVE  address'[x] # NULL /\ address'[x] = bucket_s'[BucketOf(x)]
    BY DEF AddressStaysValid
  <2>2. x \in held[d] /\ x # b
    BY <1>1, <2>1 DEF OneHolder, Owned, TypeOK
  <2>3. x \in m_map'
    BY <1>3, <2>2 DEF OneHolder, Owned
  <2>4. address'[x] = address[x]
    BY <1>1, <2>2 DEF TypeOK
  <2> QED
    BY <1>10, <2>2, <2>3, <2>4 DEF AddressStaysValid
<1>12. BucketMemory'
  <2>1. \A n \in Buckets : bucket_s'[n] # NULL => bucket_s'[n] = bucket_s[n]
    BY <1>1 DEF TypeOK
  <2>2. \A x \in m_map' : bucket_s'[BucketOf(x)] # NULL
    BY <1>3, <1>10 DEF BucketMemory
  <2> QED
    BY <2>1, <2>2 DEF BucketMemory
<1>13. IdleBucketReturned'
  BY <1>1, <1>2 DEF IdleBucketReturned, TypeOK
<1> QED
  BY <1>6, <1>8, <1>9, <1>11, <1>12, <1>13

LEMMA NextIInv == IInv /\ [Next]_vars => IInv'
<1>1. ASSUME IInv, Next PROVE IInv'
  <2>1. PICK c \in Clients :
          \/ GetBlock(c) \/ GetBlockFull(c) \/ GetBlockNoMemory(c)
          \/ Id2Addr(c) \/ \E b \in Blocks : FreeBlock(c, b)
    BY <1>1 DEF Next
  <2> QED
    BY <1>1, <2>1, GetBlockIInv, GetBlockFailsIInv, Id2AddrIInv, FreeBlockIInv
<1>2. ASSUME IInv, UNCHANGED vars PROVE IInv'
  BY <1>2 DEF vars, IInv, TypeOK, OneHolder, Owned, UsedCountsBits, InBucket,
              AddressStaysValid, BucketMemory, IdleBucketReturned
<1> QED
  BY <1>1, <1>2

(* Every reachable state of the allocator satisfies the whole invariant.   *)
THEOREM AllocInvariant == Spec => []IInv
BY InitIInv, NextIInv, PTL DEF Spec

(* No block has two holders, and a set bit is a block somebody holds, for  *)
(* any number of buckets, of blocks and of threads.                        *)
THEOREM AllocOneHolder == Spec => []OneHolder
BY AllocInvariant, PTL DEF IInv

(* The address a thread computed outside the lock stays good while it      *)
(* holds the block, whatever other threads free.                           *)
THEOREM AllocAddressStaysValid == Spec => []AddressStaysValid
BY AllocInvariant, PTL DEF IInv

(* bucket_used is the number of set bits of its bucket.                    *)
THEOREM AllocUsedCountsBits == Spec => []UsedCountsBits
BY AllocInvariant, PTL DEF IInv

(* The bitmap, the counts and the buckets keep their types: bucket_used is *)
(* never counted below zero nor above the blocks of a bucket.              *)
THEOREM AllocTypeOK == Spec => []TypeOK
BY AllocInvariant, PTL DEF IInv

(* A bucket whose last block was freed has been given back, but for the    *)
(* first one.                                                              *)
THEOREM AllocIdleBucketReturned == Spec => []IdleBucketReturned
BY AllocInvariant, PTL DEF IInv

-----------------------------------------------------------------------------
(* gkoAlloc implements BlockPool.                                          *)

(* The owner of a block is the client that has it.                         *)
OwnerFacts ==
  \A b \in Blocks :
    /\ OwnerOf(b) = NULL <=> \A c \in Clients : b \notin Owned(c)
    /\ \A c \in Clients : OwnerOf(b) = c <=> b \in Owned(c)

LEMMA OwnerIsHolder == OneHolder => OwnerFacts
<1>1. SUFFICES ASSUME OneHolder, NEW b \in Blocks
               PROVE  /\ OwnerOf(b) = NULL <=> \A c \in Clients : b \notin Owned(c)
                      /\ \A c \in Clients : OwnerOf(b) = c <=> b \in Owned(c)
  BY DEF OwnerFacts
<1>2. CASE \E c \in Clients : b \in Owned(c)
  <2>1. OwnerOf(b) \in Clients /\ b \in Owned(OwnerOf(b))
    BY <1>2 DEF OwnerOf
  <2> QED
    BY <1>1, <2>1, AllocAssumption DEF OneHolder
<1>3. CASE ~\E c \in Clients : b \in Owned(c)
  BY <1>3, AllocAssumption DEF OwnerOf
<1> QED
  BY <1>2, <1>3

LEMMA OwnerIsHolderNext == OneHolder' => OwnerFacts'
BY OwnerIsHolder, PTL

(* A bucket without room has every block out.                              *)
LEMMA FullBucket ==
  ASSUME IInv, NEW k \in Buckets, ~Roomy(k)
  PROVE  InBucket(k) \subseteq m_map
<1> DEFINE lo == BUCKET_CAPACITY * k
           hi == BUCKET_CAPACITY * k + BUCKET_CAPACITY - 1
<1>1. lo \in Int /\ hi \in Int /\ hi - lo + 1 = BUCKET_CAPACITY /\ lo <= hi
  BY AllocAssumption DEF Buckets
<1>2. InBucket(k) \subseteq lo .. hi
  <2>1. SUFFICES ASSUME NEW b \in InBucket(k) PROVE b \in lo .. hi
    OBVIOUS
  <2>2. b \in Int /\ b \div BUCKET_CAPACITY = k
    BY AllocAssumption DEF InBucket, BucketOf, Blocks
  <2> QED
    BY <1>1, <2>2, AllocAssumption DEF Buckets
<1>3. IsFiniteSet(InBucket(k)) /\ Cardinality(InBucket(k)) <= BUCKET_CAPACITY
  <2> HIDE DEF lo, hi
  <2>1. IsFiniteSet(lo .. hi) /\ Cardinality(lo .. hi) = BUCKET_CAPACITY
    BY <1>1, FS_Interval
  <2> QED
    BY <1>2, <2>1, FS_Subset
<1>4. Cardinality(InBucket(k) \cap m_map) >= BUCKET_CAPACITY
  BY AllocAssumption DEF IInv, TypeOK, UsedCountsBits, Roomy
<1>5. /\ Cardinality(InBucket(k) \cap m_map) <= Cardinality(InBucket(k))
      /\ Cardinality(InBucket(k) \cap m_map) = Cardinality(InBucket(k))
           => InBucket(k) = InBucket(k) \cap m_map
  BY <1>3, FS_Subset
<1>6. Cardinality(InBucket(k)) \in Nat /\ Cardinality(InBucket(k) \cap m_map) \in Nat
  BY <1>3, BucketFinite, FS_CardinalityType
<1> QED
  BY <1>3, <1>4, <1>5, <1>6, AllocAssumption

LEMMA InitPool == Init => Pool!PoolInit
<1>1. ASSUME Init, NEW b \in Blocks PROVE OwnerOf(b) = NULL
  BY <1>1 DEF Init, OwnerOf, Owned
<1> QED
  BY <1>1 DEF Init, Pool!PoolInit

(* A step that leaves what every client has leaves every owner.            *)
LEMMA OwnersStay ==
  ASSUME IInv, IInv', \A d \in Clients : Owned(d)' = Owned(d)
  PROVE  [b \in Blocks |-> OwnerOf(b)]' = [b \in Blocks |-> OwnerOf(b)]
<1>1. OwnerFacts /\ OwnerFacts'
  BY OwnerIsHolder, OwnerIsHolderNext DEF IInv
<1>2. ASSUME NEW b \in Blocks PROVE OwnerOf(b)' = OwnerOf(b)
  <2>1. OwnerOf(b) \in Clients \cup {NULL}
    BY DEF OwnerOf
  <2> QED
    BY <1>1, <2>1 DEF OwnerFacts
<1> QED
  BY <1>2

LEMMA GetRefines ==
  ASSUME IInv, IInv', NEW c \in Clients, GetBlock(c)
  PROVE  \E b \in Blocks : Pool!Get(c, b)
<1>1. PICK k \in Buckets, b \in Blocks :
        /\ IsFirstClear(b, k)
        /\ answer' = [answer EXCEPT ![c] = b]
  BY DEF GetBlock, Return
<1>2. answer[c] = NoBlock /\ held' = held
  BY DEF GetBlock
<1>3. /\ b \in Owned(c)'
      /\ \A d \in Clients, x \in Blocks \ {b} : x \in Owned(d)' <=> x \in Owned(d)
      /\ \A d \in Clients : b \notin Owned(d)
  BY <1>1, <1>2
     DEF IInv, TypeOK, OneHolder, Owned, IsFirstClear, NoBlock, INVILID_BLOCK, Blocks
<1>4. OwnerFacts /\ OwnerFacts'
  BY OwnerIsHolder, OwnerIsHolderNext DEF IInv
<1>5. OwnerOf(b) = NULL /\ OwnerOf(b)' = c
  BY <1>3, <1>4 DEF OwnerFacts
<1>6. ASSUME NEW x \in Blocks \ {b} PROVE OwnerOf(x)' = OwnerOf(x)
  <2>1. OwnerOf(x) \in Clients \cup {NULL}
    BY DEF OwnerOf
  <2> QED
    BY <1>3, <1>4, <2>1 DEF OwnerFacts
<1> QED
  BY <1>1, <1>2, <1>5, <1>6 DEF Pool!Get

LEMMA FailRefines ==
  ASSUME IInv, IInv', NEW c \in Clients, GetBlockFull(c) \/ GetBlockNoMemory(c)
  PROVE  Pool!GetFails(c)
<1>1. /\ answer[c] = NoBlock /\ held' = held
      /\ answer' = [answer EXCEPT ![c] = INVILID_BLOCK]
  BY DEF GetBlockFull, GetBlockNoMemory, Return
<1>2. \A d \in Clients : Owned(d)' = Owned(d)
  BY <1>1 DEF IInv, TypeOK, Owned
<1>3. \/ MemoryShort /\ \E k \in Buckets : bucket_s[k] = NULL
      \/ \A b \in Blocks : OwnerOf(b) # NULL
  <2>1. SUFFICES ASSUME GetBlockFull(c), NEW b \in Blocks PROVE OwnerOf(b) # NULL
    BY DEF GetBlockNoMemory
  <2>2. b \in m_map
    BY <2>1, BucketOfBlock, FullBucket DEF GetBlockFull, InBucket
  <2> QED
    BY <2>2, OwnerIsHolder DEF OwnerFacts, IInv, OneHolder
<1> QED
  BY <1>1, <1>2, <1>3, OwnersStay DEF Pool!GetFails

LEMMA Id2AddrRefines ==
  ASSUME IInv, IInv', NEW c \in Clients, Id2Addr(c)
  PROVE  Pool!Take(c)
<1>1. /\ answer[c] # NoBlock
      /\ answer' = [answer EXCEPT ![c] = NoBlock]
      /\ held' = IF answer[c] = INVILID_BLOCK THEN held
                 ELSE [held EXCEPT ![c] = @ \cup {answer[c]}]
  BY DEF Id2Addr, Return
<1>2. \A d \in Clients : Owned(d)' = Owned(d)
  BY <1>1 DEF IInv, TypeOK, Owned
<1> QED
  BY <1>1, <1>2, OwnersStay DEF Pool!Take

LEMMA FreeRefines ==
  ASSUME IInv, IInv', NEW c \in Clients, NEW b \in Blocks, FreeBlock(c, b)
  PROVE  Pool!Put(c, b)
<1>1. /\ b \in held[c] /\ answer' = answer
      /\ held' = [held EXCEPT ![c] = @ \ {b}]
  BY DEF FreeBlock
<1>2. /\ b \in Owned(c)
      /\ \A d \in Clients : b \notin Owned(d)'
      /\ \A d \in Clients, x \in Blocks \ {b} : x \in Owned(d)' <=> x \in Owned(d)
  BY <1>1 DEF IInv, TypeOK, OneHolder, Owned
<1>3. OwnerFacts /\ OwnerFacts'
  BY OwnerIsHolder, OwnerIsHolderNext DEF IInv
<1>4. OwnerOf(b) = c /\ OwnerOf(b)' = NULL
  BY <1>2, <1>3 DEF OwnerFacts
<1>5. ASSUME NEW x \in Blocks \ {b} PROVE OwnerOf(x)' = OwnerOf(x)
  <2>1. OwnerOf(x) \in Clients \cup {NULL}
    BY DEF OwnerOf
  <2> QED
    BY <1>2, <1>3, <2>1 DEF OwnerFacts
<1> QED
  BY <1>1, <1>4, <1>5 DEF Pool!Put

LEMMA StepRefines ==
  IInv /\ IInv' /\ [Next]_vars => [Pool!PoolNext]_Pool!poolVars
<1>1. ASSUME IInv, IInv', Next PROVE Pool!PoolNext
  <2>1. PICK c \in Clients :
          \/ GetBlock(c) \/ GetBlockFull(c) \/ GetBlockNoMemory(c)
          \/ Id2Addr(c) \/ \E b \in Blocks : FreeBlock(c, b)
    BY <1>1 DEF Next
  <2> QED
    BY <1>1, <2>1, GetRefines, FailRefines, Id2AddrRefines, FreeRefines
       DEF Pool!PoolNext
<1>2. ASSUME IInv, IInv', UNCHANGED vars PROVE UNCHANGED Pool!poolVars
  <2>1. \A d \in Clients : Owned(d)' = Owned(d)
    BY <1>2 DEF vars, Owned
  <2> QED
    BY <1>2, <2>1, OwnersStay DEF vars, Pool!poolVars
<1> QED
  BY <1>1, <1>2

(* The bitmap, the buckets and their memory together are an allocator of   *)
(* blocks: get_block gives each block to one holder at a time, and returns *)
(* INVILID_BLOCK only when all are held or memory is asked for in vain.     *)
THEOREM AllocImplementsPool == Spec => ImplementsPool
<1>1. Spec => []IInv
  BY AllocInvariant
<1> QED
  BY <1>1, InitPool, StepRefines, PTL DEF Spec, ImplementsPool, Pool!PoolSpec
=============================================================================
