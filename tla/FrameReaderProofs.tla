-------------------------- MODULE FrameReaderProofs -------------------------
(***************************************************************************)
(* A connection never loses step with its peer's stream and never reads    *)
(* past its buffer, and gives a command up only for a cause, for buffers,  *)
(* heads and commands of every length and every way the bytes are cut.     *)
(***************************************************************************)
EXTENDS FrameReader, TLAPS

(* What must be known between two steps for the properties to be kept: the *)
(* bytes in the buffer have been sent, need_read is the head or the whole  *)
(* of the command the buffer begins with, the states that follow a read    *)
(* are entered with have_read = need_read, and aread returns what its last *)
(* read() made of them.                                                    *)
IInv ==
  /\ TypeOK
  /\ ReadInBounds
  /\ BlockIsNotGrown /\ rbuf_size >= RBUF_SZ
  /\ sent <= Total /\ start + have_read <= sent
  /\ state # "closing" => start = stream[done]
  /\ \/ need_read = CMD_PREFIX_BYTE
     \/ /\ need_read > CMD_PREFIX_BYTE
        /\ state # "closing" =>
             done < NCmds /\ start + need_read = stream[done + 1]
  /\ state = "parse_header" =>
       need_read = CMD_PREFIX_BYTE /\ have_read = CMD_PREFIX_BYTE
  /\ state = "parse_cmd" =>
       need_read > CMD_PREFIX_BYTE /\ have_read = need_read
  /\ state = "read" =>
       gotdata = "READ_NO_DATA_RECEIVED" \/ gotdata = Got(have_read)

LEMMA StreamIsNat ==
  ASSUME NEW s \in Streams
  PROVE  /\ \A n \in 0 .. NCmds : s[n] \in Nat
         /\ s[0] = 0
         /\ \A n \in 0 .. NCmds - 1 : s[n + 1] >= s[n] + CMD_PREFIX_BYTE
<1>1. s \in [0 .. NCmds -> Nat] /\ s[0] = 0
  BY StreamAssumption
<1>2. \A n \in 1 .. NCmds : s[n] >= s[n - 1] + CMD_PREFIX_BYTE
  BY StreamAssumption
<1>3. ASSUME NEW n \in 0 .. NCmds - 1
      PROVE  s[n + 1] >= s[n] + CMD_PREFIX_BYTE
  <2>1. n + 1 \in 1 .. NCmds /\ (n + 1) - 1 = n
    BY ReaderAssumption
  <2> QED
    BY <1>2, <2>1
<1> QED
  BY <1>1, <1>3

(* A head in the buffer is the head of a command still to be served.       *)
LEMMA HeadHasCommand ==
  ASSUME IInv, state # "closing", have_read >= CMD_PREFIX_BYTE
  PROVE  done < NCmds
<1>1. /\ start \in Nat /\ have_read \in Nat /\ sent \in Nat
      /\ done \in 0 .. NCmds /\ start = stream[done]
      /\ start + have_read <= sent /\ sent <= stream[NCmds]
  BY DEF IInv, TypeOK, Total
<1>2. stream[NCmds] \in Nat
  BY StreamIsNat, ReaderAssumption DEF IInv, TypeOK
<1> QED
  BY <1>1, <1>2, ReaderAssumption

LEMMA InitIInv == Init => IInv
<1> SUFFICES ASSUME Init PROVE IInv
  OBVIOUS
<1>1. stream[0] = 0 /\ stream[NCmds] \in Nat
  BY StreamIsNat, ReaderAssumption DEF Init
<1>2. TypeOK
  <2>1. closed \in BOOLEAN /\ broken \in BOOLEAN /\ failed \in BOOLEAN
    BY DEF Init
  <2> QED
    BY <2>1, ReaderAssumption DEF Init, TypeOK, Results
<1>3. ReadInBounds /\ BlockIsNotGrown /\ rbuf_size >= RBUF_SZ
  BY ReaderAssumption DEF Init, ReadInBounds, BlockIsNotGrown
<1> QED
  BY <1>1, <1>2, <1>3, ReaderAssumption DEF Init, IInv, Total

LEMMA PeerIInv ==
  ASSUME IInv, PeerSend \/ PeerClose \/ PeerReset
  PROVE  IInv'
<1>1. /\ UNCHANGED <<stream, garbled, start, done, state, gotdata, num_allocs, buffer,
                     result, failed>>
      /\ sent' \in Nat /\ sent' >= sent /\ sent' <= Total
      /\ closed' \in BOOLEAN /\ broken' \in BOOLEAN
  <2>1. Total \in Nat
    BY StreamIsNat, ReaderAssumption DEF IInv, TypeOK, Total
  <2>2. CASE PeerSend
    BY <2>1, <2>2 DEF PeerSend, connection, IInv, TypeOK
  <2>3. CASE PeerClose
    <3>1. closed' \in BOOLEAN
      BY <2>3 DEF PeerClose
    <3> QED
      BY <2>3, <3>1 DEF PeerClose, connection, IInv, TypeOK
  <2>4. CASE PeerReset
    <3>1. broken' \in BOOLEAN
      BY <2>4 DEF PeerReset
    <3> QED
      BY <2>4, <3>1 DEF PeerReset, connection, IInv, TypeOK
  <2> QED
    BY <2>2, <2>3, <2>4
<1> QED
  BY <1>1
     DEF IInv, TypeOK, ReadInBounds, BlockIsNotGrown, Total, buffer, Got

LEMMA ReadableIInv ==
  ASSUME IInv, Readable
  PROVE  IInv'
BY ReaderAssumption DEF Readable, Call, peer, buffer, IInv, TypeOK, Results, ReadInBounds,
       BlockIsNotGrown, Total, Got

(* The parts of IInv that a step of aread that reads nothing can disturb.  *)
LEMMA ReturnIInv ==
  ASSUME IInv, state = "read",
         NEW got \in Results \cup {"READ_MEMORY_ERROR"}, Return(got),
         got = "READ_HEADER_RECEIVED" =>
           need_read' = CMD_PREFIX_BYTE /\ have_read' = CMD_PREFIX_BYTE,
         got = "READ_DATA_RECEIVED" =>
           need_read' > CMD_PREFIX_BYTE /\ have_read' = need_read'
  PROVE  /\ state' \in {"resting", "read", "parse_header", "parse_cmd", "closing"}
         /\ gotdata' \in Results /\ num_allocs' \in 0 .. MAX_ALLOCS
         /\ result' \in {"none", "READ_ERROR", "READ_MEMORY_ERROR", "RECV_ERROR"}
         /\ state' = "parse_header" =>
              need_read' = CMD_PREFIX_BYTE /\ have_read' = CMD_PREFIX_BYTE
         /\ state' = "parse_cmd" =>
              need_read' > CMD_PREFIX_BYTE /\ have_read' = need_read'
         /\ state' = "read" => gotdata' = "READ_NO_DATA_RECEIVED"
BY ReaderAssumption DEF Return, Call, IInv, TypeOK, Results

LEMMA GrowingFacts ==
  ASSUME IInv, Growing
  PROVE  /\ rbuf_size' = Grown /\ Grown \in Nat /\ Grown >= rbuf_size
         /\ have_read < Grown
         /\ read_buffer' \in {"block", "heap", "NULL"}
         /\ read_buffer' = "heap" <=> rbuf_size' > RBUF_SZ
         /\ read_buffer' = "NULL" => read_buffer = "NULL" /\ rbuf_size' = RBUF_SZ
         /\ rbuf_size' >= RBUF_SZ
<1>1. /\ rbuf_size' = Grown /\ Grown \in Nat /\ Grown >= rbuf_size
      /\ have_read < Grown /\ rbuf_size' >= RBUF_SZ
      /\ Full => rbuf_size' > RBUF_SZ
      /\ ~Full => rbuf_size' = rbuf_size
  BY ReaderAssumption DEF Growing, Grown, Full, IInv, TypeOK, ReadInBounds
<1>2. read_buffer' = IF Full THEN "heap" ELSE read_buffer
  BY DEF Growing, GrownBuffer
<1>3. read_buffer' \in {"block", "heap", "NULL"}
  BY <1>2 DEF IInv, TypeOK
<1>4. /\ read_buffer' = "heap" <=> rbuf_size' > RBUF_SZ
      /\ read_buffer' = "NULL" => read_buffer = "NULL" /\ rbuf_size' = RBUF_SZ
  BY <1>1, <1>2 DEF IInv, BlockIsNotGrown
<1> QED
  BY <1>1, <1>3, <1>4

LEMMA AllocLimitIInv ==
  ASSUME IInv, AllocLimit \/ AllocFails
  PROVE  IInv'
<1>1. CASE AllocLimit
  <2>1. state' = "closing" /\ result' = "READ_MEMORY_ERROR"
        /\ UNCHANGED <<gotdata, num_allocs>>
    BY <1>1 DEF AllocLimit, Return
  <2> QED
    BY <1>1, <2>1
       DEF AllocLimit, peer, buffer, IInv, TypeOK, ReadInBounds,
           BlockIsNotGrown, Total, Got
<1>2. CASE AllocFails
  <2>1. state' = "closing" /\ result' = "READ_MEMORY_ERROR"
        /\ UNCHANGED <<gotdata, num_allocs>>
    BY <1>2 DEF AllocFails, Return
  <2> QED
    BY <1>2, <2>1
       DEF AllocFails, peer, buffer, IInv, TypeOK, ReadInBounds,
           BlockIsNotGrown, Total, Got
<1> QED
  BY <1>1, <1>2

(* read() returned no bytes: the buffer may have grown, nothing else.      *)
LEMMA ReadNothingIInv ==
  ASSUME IInv, ReadAgain \/ ReadFails \/ ReadZero
  PROVE  IInv'
<1>1. PICK got \in Results :
        /\ Return(got)
        /\ got \in {"READ_NO_DATA_RECEIVED", "READ_NEED_MORE", "READ_ERROR"}
  <2>1. CASE ReadZero \/ ReadFails
    BY <2>1 DEF ReadZero, ReadFails, Results
  <2>2. CASE ReadAgain
    <3>1. have_read < need_read
      BY <2>2, GrowingFacts DEF ReadAgain, Wanted, Lesser, IInv, TypeOK
    <3>2. gotdata \in {"READ_NO_DATA_RECEIVED", "READ_NEED_MORE"}
      BY <2>2, <3>1 DEF ReadAgain, IInv, TypeOK, Got
    <3> QED
      BY <2>2, <3>2 DEF ReadAgain, Results
  <2> QED
    BY <2>1, <2>2
<1>2. /\ state = "read" /\ Growing
      /\ UNCHANGED <<peer, start, done, have_read, need_read, failed>>
  BY DEF ReadAgain, ReadFails, ReadZero
<1>3. /\ state' \in {"resting", "read", "closing"}
      /\ gotdata' \in Results /\ num_allocs' \in 0 .. MAX_ALLOCS
      /\ result' \in {"none", "READ_ERROR", "READ_MEMORY_ERROR", "RECV_ERROR"}
      /\ state' = "read" => gotdata' = "READ_NO_DATA_RECEIVED"
  BY <1>1, <1>2, ReaderAssumption DEF Return, Call, IInv, TypeOK, Results
<1>4. BlockIsNotGrown'
  BY <1>2, <1>3, GrowingFacts DEF IInv, BlockIsNotGrown
<1> QED
  BY <1>2, <1>3, <1>4, GrowingFacts DEF peer, IInv, TypeOK, ReadInBounds, Total

LEMMA ReadSomeIInv ==
  ASSUME IInv, ReadSome
  PROVE  IInv'
<1> DEFINE n == Lesser(Wanted(Grown), Arrived)
           have == have_read + n
<1>1. /\ state = "read" /\ Growing /\ n > 0 /\ have_read' = have
      /\ UNCHANGED <<peer, start, done, need_read, failed>>
  BY DEF ReadSome
<1>2. /\ n \in Nat /\ have \in Nat
      /\ have <= need_read /\ have <= Grown /\ start + have <= sent
  BY <1>1, GrowingFacts DEF Lesser, Wanted, Arrived, IInv, TypeOK
<1>3. Got(have) \in Results
  BY DEF Got, Results
<1>4. /\ Got(have) = "READ_HEADER_RECEIVED" =>
           need_read = CMD_PREFIX_BYTE /\ have = CMD_PREFIX_BYTE
      /\ Got(have) = "READ_DATA_RECEIVED" =>
           need_read > CMD_PREFIX_BYTE /\ have = need_read
  BY <1>2, ReaderAssumption DEF Got, IInv, TypeOK
<1>5. /\ state' \in {"resting", "read", "parse_header", "parse_cmd", "closing"}
      /\ gotdata' \in Results /\ num_allocs' \in 0 .. MAX_ALLOCS
      /\ result' \in {"none", "READ_ERROR", "READ_MEMORY_ERROR", "RECV_ERROR"}
      /\ state' = "parse_header" =>
           need_read' = CMD_PREFIX_BYTE /\ have_read' = CMD_PREFIX_BYTE
      /\ state' = "parse_cmd" =>
           need_read' > CMD_PREFIX_BYTE /\ have_read' = need_read'
      /\ state' = "read" =>
           gotdata' = "READ_NO_DATA_RECEIVED" \/ gotdata' = Got(have)
  <2>1. CASE n = Grown - have_read
    <3>1. /\ gotdata' = Got(have) /\ state' = state /\ result' = result
          /\ num_allocs' = IF Full THEN num_allocs + 1 ELSE num_allocs
      BY <2>1 DEF ReadSome
    <3>2. num_allocs' \in 0 .. MAX_ALLOCS
      BY <1>1, <3>1, ReaderAssumption DEF Growing, AllocsLeft, IInv, TypeOK
    <3> QED
      BY <1>1, <1>3, <3>1, <3>2 DEF IInv, TypeOK
  <2>2. CASE n # Grown - have_read
    <3>1. Return(Got(have))
      BY <2>2 DEF ReadSome
    <3> HIDE DEF have
    <3> QED
      BY <1>1, <1>3, <1>4, <3>1, ReturnIInv
  <2> QED
    BY <2>1, <2>2
<1>6. Got(have_read)' = Got(have)
  BY <1>1 DEF Got
<1>7. BlockIsNotGrown'
  <2>1. read_buffer' # "NULL"
    BY <1>1, GrowingFacts DEF ReadSome
  <2> QED
    BY <1>1, <2>1, GrowingFacts DEF BlockIsNotGrown
<1> HIDE DEF n, have
<1> QED
  BY <1>1, <1>2, <1>5, <1>6, <1>7, GrowingFacts
     DEF peer, IInv, TypeOK, ReadInBounds, Total

LEMMA ParseIInv ==
  ASSUME IInv, ParseHeader \/ BadHeader
  PROVE  IInv'
<1>1. CASE ParseHeader
  <2>1. done < NCmds /\ done \in Nat
    BY <1>1, HeadHasCommand, ReaderAssumption DEF ParseHeader, IInv, TypeOK
  <2>2. /\ stream[done] \in Nat /\ stream[done + 1] \in Nat
        /\ stream[done] = start
    BY <1>1, <2>1, StreamIsNat, ReaderAssumption DEF ParseHeader, IInv, TypeOK
  <2>3. /\ need_read' = stream[done + 1] - stream[done]
        /\ need_read' > CMD_PREFIX_BYTE
    <3>1. (done + 1) - 1 = done
      BY <2>1
    <3>2. Body(done + 1) = stream[done + 1] - stream[done] - CMD_PREFIX_BYTE
      BY <3>1 DEF Body
    <3> QED
      BY <1>1, <2>2, <3>2, ReaderAssumption DEF ParseHeader, NeedRead, HeadParses
  <2>4. /\ state' = "read" /\ gotdata' = "READ_NO_DATA_RECEIVED" /\ num_allocs' = 0
    BY <1>1, <2>3, ReaderAssumption DEF ParseHeader, Call, IInv, TypeOK
  <2>5. /\ UNCHANGED <<peer, start, done, rbuf_size, have_read, read_buffer,
                       result, failed>>
        /\ have_read = CMD_PREFIX_BYTE /\ state = "parse_header"
    BY <1>1 DEF ParseHeader, IInv
  <2> QED
    BY <2>1, <2>2, <2>3, <2>4, <2>5, ReaderAssumption
       DEF peer, IInv, TypeOK, Results, ReadInBounds, BlockIsNotGrown, Total
<1>2. CASE BadHeader
  BY <1>2 DEF BadHeader, peer, buffer, IInv, TypeOK, ReadInBounds,
              BlockIsNotGrown, Total, Got
<1> QED
  BY <1>1, <1>2

LEMMA ServeIInv ==
  ASSUME IInv, Serve
  PROVE  IInv'
<1>1. /\ done < NCmds /\ done \in Nat
      /\ start + have_read = stream[done + 1]
  BY ReaderAssumption DEF Serve, IInv, TypeOK
<1>2. /\ done' = done + 1 /\ state' = "resting"
      /\ rbuf_size' = RBUF_SZ /\ have_read' = 0
      /\ read_buffer' \in {"block", "NULL"}
      /\ read_buffer' = "NULL" => MemoryShort
  BY DEF Serve, RenewedBuffers
<1>3. BlockIsNotGrown'
  BY <1>1, <1>2, ReaderAssumption DEF BlockIsNotGrown
<1> QED
  BY <1>1, <1>2, <1>3, ReaderAssumption
     DEF Serve, NeedAfterRenew, peer, IInv, TypeOK, ReadInBounds, Total

LEMMA NextIInv == IInv /\ [Next]_vars => IInv'
<1>1. ASSUME IInv, Next PROVE IInv'
  BY <1>1, PeerIInv, ReadableIInv, AllocLimitIInv, ReadNothingIInv, ReadSomeIInv,
     ParseIInv, ServeIInv DEF Next, Reader, Read
<1>2. ASSUME IInv, UNCHANGED vars PROVE IInv'
  BY <1>2 DEF vars, peer, buffer, IInv, TypeOK, ReadInBounds, BlockIsNotGrown,
              Total, Got
<1> QED
  BY <1>1, <1>2

(* Every reachable state satisfies the whole invariant.                    *)
THEOREM ReaderInvariant == Spec => []IInv
BY InitIInv, NextIInv, PTL DEF Spec

(* The lengths of the reader keep their types: none is ever negative.      *)
THEOREM ReaderTypeOK == Spec => []TypeOK
BY ReaderInvariant, PTL DEF IInv

(* aread never runs past its buffer or into the next command.              *)
THEOREM ReaderInBounds == Spec => []ReadInBounds
BY ReaderInvariant, PTL DEF IInv

(* What the callback is given is one whole command of the peer, whatever   *)
(* the lengths and however the bytes arrive.                               *)
THEOREM ReaderInStep == Spec => []InStep
<1>1. IInv => InStep
  <2> SUFFICES ASSUME IInv PROVE InStep
    OBVIOUS
  <2>1. state = "parse_header" => done < NCmds
    BY HeadHasCommand, ReaderAssumption DEF IInv
  <2> QED
    BY <2>1, ReaderAssumption DEF IInv, InStep
<1> QED
  BY <1>1, ReaderInvariant, PTL

(* A buffer that has grown is never taken for a block of the arena, and    *)
(* nothing is read into, grown or parsed where a renewal got no buffer.    *)
THEOREM ReaderBlock == Spec => []BlockIsNotGrown
BY ReaderInvariant, PTL DEF IInv

-----------------------------------------------------------------------------
(* A command given up.  What a call of aread has doubled is told by        *)
(* num_allocs; between calls something of the command is missing, and      *)
(* within one nothing is missing only when the buffer has just been filled *)
(* by its last byte; a result is final.                                    *)
GInv ==
  /\ state = "read" => rbuf_size >= RBUF_SZ * (2 ^ num_allocs)
  /\ state = "resting" => have_read < need_read
  /\ state = "read" /\ gotdata = "READ_NO_DATA_RECEIVED" => have_read < need_read
  /\ state = "read" /\ have_read = need_read => have_read = rbuf_size
  /\ result # "none" => state = "closing"
  /\ GivenUpForCause

LEMMA PowerIsNat == \A n \in 0 .. MAX_ALLOCS : 2 ^ n \in Nat
BY PowerAssumption

LEMMA Doubling ==
  ASSUME NEW r \in Nat, NEW p \in Nat, r >= RBUF_SZ * p
  PROVE  2 * r >= RBUF_SZ * (2 * p)
<1>1. RBUF_SZ * p \in Nat /\ RBUF_SZ * (2 * p) = 2 * (RBUF_SZ * p)
  BY ReaderAssumption
<1> QED
  BY <1>1

(* Every aread begins with no doubling made.                               *)
LEMMA CallGInv ==
  ASSUME IInv', Call, have_read' < need_read', UNCHANGED result, GInv,
         state # "closing"
  PROVE  GInv'
<1>1. rbuf_size' >= RBUF_SZ * (2 ^ num_allocs')
  BY ReaderAssumption, PowerAssumption DEF Call, IInv
<1>2. result' = "none"
  BY DEF GInv
<1>3. GivenUpForCause'
  BY <1>2 DEF GivenUpForCause
<1>4. /\ state' = "read" /\ have_read' # need_read'
  BY DEF Call, IInv, TypeOK
<1> QED
  BY <1>1, <1>2, <1>3, <1>4 DEF GInv

LEMMA ReturnGInv ==
  ASSUME IInv, IInv', GInv, state = "read", NEW got \in Results, Return(got),
         UNCHANGED <<peer, done, failed>>,
         got \in {"READ_NO_DATA_RECEIVED", "READ_NEED_MORE"} =>
           have_read' < need_read',
         got = "READ_ERROR" =>
           \/ closed \/ broken \/ read_buffer' = "NULL"
           \/ have_read' = need_read' /\ 2 * have_read' = rbuf_size'
  PROVE  GInv'
<1>1. result = "none"
  BY DEF GInv
<1>2. CASE got = "READ_NEED_MORE"
  BY <1>2, CallGInv DEF Return
<1>3. CASE got = "READ_NO_DATA_RECEIVED"
  BY <1>1, <1>3 DEF Return, GInv, GivenUpForCause
<1>4. CASE got \in {"READ_HEADER_RECEIVED", "READ_DATA_RECEIVED"}
  BY <1>1, <1>4 DEF Return, GInv, GivenUpForCause
<1>5. CASE got = "READ_ERROR"
  BY <1>1, <1>5 DEF Return, GInv, GivenUpForCause, peer
<1> QED
  BY <1>2, <1>3, <1>4, <1>5 DEF Results

LEMMA ReadNothingGInv ==
  ASSUME IInv, IInv', GInv, ReadAgain \/ ReadFails \/ ReadZero
  PROVE  GInv'
<1>1. CASE ReadZero
  <2>1. /\ Return("READ_ERROR") /\ Growing /\ state = "read"
        /\ UNCHANGED <<peer, start, done, have_read, need_read, failed>>
        /\ Wanted(Grown) = 0 \/ closed
    BY <1>1 DEF ReadZero
  <2>2. ASSUME Wanted(Grown) = 0
        PROVE  have_read' = need_read' /\ 2 * have_read' = rbuf_size'
    <3>1. have_read = need_read
      BY <2>1, <2>2, GrowingFacts
         DEF Wanted, Lesser, IInv, TypeOK, ReadInBounds
    <3>2. have_read = rbuf_size
      BY <2>1, <3>1 DEF GInv
    <3>3. rbuf_size' = 2 * rbuf_size
      BY <2>1, <3>2 DEF Growing, Grown, Full, IInv, TypeOK
    <3> QED
      BY <2>1, <3>1, <3>2, <3>3
  <2> QED
    BY <2>1, <2>2, ReturnGInv DEF Results
<1>2. CASE ReadAgain
  <2>1. /\ Return(gotdata) /\ Growing /\ state = "read"
        /\ UNCHANGED <<peer, start, done, have_read, need_read, failed>>
    BY <1>2 DEF ReadAgain
  <2>2. have_read < need_read
    BY <1>2, GrowingFacts DEF ReadAgain, Wanted, Lesser, IInv, TypeOK
  <2>3. gotdata \in {"READ_NO_DATA_RECEIVED", "READ_NEED_MORE"}
    BY <2>1, <2>2 DEF IInv, TypeOK, Got
  <2> QED
    BY <2>1, <2>2, <2>3, ReturnGInv DEF Results
<1>3. CASE ReadFails
  <2>1. /\ Return("READ_ERROR") /\ Growing /\ state = "read"
        /\ UNCHANGED <<peer, start, done, have_read, need_read, failed>>
        /\ broken \/ (read_buffer = "NULL" /\ Arrived > 0)
    BY <1>3 DEF ReadFails
  <2>2. ASSUME read_buffer = "NULL"
        PROVE  read_buffer' = "NULL"
    <3>1. ~Full
      BY <2>2, ReaderAssumption DEF Full, IInv, BlockIsNotGrown
    <3> QED
      BY <2>1, <2>2, <3>1 DEF Growing, GrownBuffer
  <2> QED
    BY <2>1, <2>2, ReturnGInv DEF Results
<1> QED
  BY <1>1, <1>2, <1>3

(* A turn that fills the buffer has doubled it if it was full before.      *)
LEMMA ReadSomeGInv ==
  ASSUME IInv, IInv', GInv, ReadSome
  PROVE  GInv'
<1> DEFINE n == Lesser(Wanted(Grown), Arrived)
           have == have_read + n
<1>1. /\ state = "read" /\ Growing /\ n > 0 /\ have_read' = have
      /\ UNCHANGED <<peer, start, done, need_read, failed>>
  BY DEF ReadSome
<1>2. /\ n \in Nat /\ have \in Nat /\ have <= need_read
      /\ Grown \in Nat /\ rbuf_size' = Grown /\ need_read \in Nat
      /\ need_read >= CMD_PREFIX_BYTE
  BY <1>1, GrowingFacts, ReaderAssumption
     DEF Lesser, Wanted, Arrived, IInv, TypeOK
<1>3. Got(have) \in Results \ {"READ_NO_DATA_RECEIVED", "READ_ERROR"}
  BY <1>2, ReaderAssumption DEF Got, Results
<1>4. Got(have) = "READ_NEED_MORE" => have < need_read
  BY <1>2, ReaderAssumption DEF Got
<1>5. CASE n # Grown - have_read
  <2>1. Return(Got(have))
    BY <1>5 DEF ReadSome
  <2> HIDE DEF have
  <2> QED
    BY <1>1, <1>3, <1>4, <2>1, ReturnGInv
<1>6. CASE n = Grown - have_read
  <2>1. /\ gotdata' = Got(have) /\ state' = "read" /\ result' = "none"
        /\ num_allocs' = IF Full THEN num_allocs + 1 ELSE num_allocs
    BY <1>1, <1>6 DEF ReadSome, GInv
  <2>2. have = Grown
    BY <1>2, <1>6 DEF IInv, TypeOK
  <2>3. rbuf_size' >= RBUF_SZ * (2 ^ num_allocs')
    <3>1. rbuf_size >= RBUF_SZ * (2 ^ num_allocs)
      BY <1>1 DEF GInv
    <3>2. CASE Full
      <4>1. num_allocs \in 0 .. MAX_ALLOCS /\ num_allocs' = num_allocs + 1
        BY <2>1, <3>2 DEF IInv, TypeOK
      <4>2. 2 ^ num_allocs \in Nat /\ 2 ^ num_allocs' = 2 * (2 ^ num_allocs)
        BY <4>1, PowerAssumption
      <4>3. rbuf_size \in Nat /\ rbuf_size' = 2 * rbuf_size
        BY <1>2, <3>2 DEF Grown, IInv, TypeOK
      <4> QED
        BY <3>1, <4>2, <4>3, Doubling
    <3>3. CASE ~Full
      BY <1>2, <2>1, <3>1, <3>3 DEF Grown
    <3> QED
      BY <3>2, <3>3
  <2> HIDE DEF n, have
  <2> QED
    BY <1>1, <1>2, <1>3, <2>1, <2>2, <2>3 DEF GInv, GivenUpForCause
<1> QED
  BY <1>5, <1>6

LEMMA MemoryGInv ==
  ASSUME IInv, IInv', GInv, AllocLimit \/ AllocFails
  PROVE  GInv'
<1>1. CASE AllocLimit
  <2>1. /\ state = "read" /\ state' = "closing" /\ result' = "READ_MEMORY_ERROR"
        /\ UNCHANGED <<peer, start, done, buffer, failed>>
    BY <1>1 DEF AllocLimit, Return
  <2>2. num_allocs = MAX_ALLOCS /\ have_read >= rbuf_size
    BY <1>1, ReaderAssumption DEF AllocLimit, AllocsLeft, Full, IInv, TypeOK
  <2>3. need_read >= RBUF_SZ * (2 ^ MAX_ALLOCS)
    <3>1. /\ rbuf_size >= RBUF_SZ * (2 ^ MAX_ALLOCS)
          /\ RBUF_SZ * (2 ^ MAX_ALLOCS) \in Nat
      BY <2>1, <2>2, PowerIsNat, ReaderAssumption DEF GInv
    <3> QED
      BY <2>2, <3>1 DEF IInv, TypeOK, ReadInBounds
  <2> QED
    BY <2>1, <2>3 DEF GInv, GivenUpForCause, buffer
<1>2. CASE AllocFails
  BY <1>2 DEF AllocFails, Return, GInv, GivenUpForCause
<1> QED
  BY <1>1, <1>2

LEMMA ParseGInv ==
  ASSUME IInv, IInv', GInv, ParseHeader \/ BadHeader
  PROVE  GInv'
<1>1. result = "none" /\ state = "parse_header"
  BY DEF GInv, ParseHeader, BadHeader
<1>2. CASE ParseHeader
  <2>1. CASE have_read < need_read'
    BY <1>1, <1>2, <2>1, CallGInv DEF ParseHeader
  <2>2. CASE ~(have_read < need_read')
    BY <1>1, <1>2, <2>2 DEF ParseHeader, GInv, GivenUpForCause
  <2> QED
    BY <2>1, <2>2
<1>3. CASE BadHeader
  <2>1. Body(done + 1) \in Int /\ Body(done + 1) >= 0
    <3>1. done < NCmds /\ done \in Nat
      BY <1>1, HeadHasCommand, ReaderAssumption DEF IInv, TypeOK
    <3>2. /\ stream[done] \in Nat /\ stream[done + 1] \in Nat
          /\ stream[done + 1] >= stream[done] + CMD_PREFIX_BYTE
          /\ (done + 1) - 1 = done
      BY <3>1, StreamIsNat, ReaderAssumption DEF IInv, TypeOK
    <3> QED
      BY <3>2, ReaderAssumption DEF Body
  <2>2. /\ state' = "closing" /\ result' = "RECV_ERROR" /\ garbled' = garbled
        /\ done' = done /\ stream' = stream
    BY <1>3 DEF BadHeader, peer
  <2>3. done + 1 \in garbled \/ Body(done + 1) = 0
    BY <1>3, <2>1 DEF BadHeader, HeadParses
  <2>4. Body(done + 1)' = Body(done + 1)
    BY <2>2 DEF Body
  <2> QED
    BY <2>2, <2>3, <2>4 DEF GInv, GivenUpForCause
<1> QED
  BY <1>2, <1>3

LEMMA NextGInv == IInv /\ IInv' /\ GInv /\ [Next]_vars => GInv'
<1> SUFFICES ASSUME IInv, IInv', GInv, [Next]_vars
             PROVE  GInv'
  OBVIOUS
<1>1. CASE PeerSend \/ PeerClose \/ PeerReset
  BY <1>1 DEF PeerSend, PeerClose, PeerReset, connection, buffer, GInv,
              GivenUpForCause, Body
<1>2. CASE Readable
  BY <1>2, CallGInv DEF Readable, buffer, GInv
<1>3. CASE Read
  BY <1>3, MemoryGInv, ReadSomeGInv, ReadNothingGInv DEF Read
<1>4. CASE ParseHeader \/ BadHeader
  BY <1>4, ParseGInv
<1>5. CASE Serve
  BY <1>5, ReaderAssumption DEF Serve, NeedAfterRenew, GInv, GivenUpForCause
<1>6. CASE UNCHANGED vars
  BY <1>6 DEF vars, peer, buffer, GInv, GivenUpForCause, Body
<1> QED
  BY <1>1, <1>2, <1>3, <1>4, <1>5, <1>6 DEF Next, Reader

(* A command is given up for a cause: the peer closed, the connection      *)
(* broke, a renewal found no buffer, the head is no positive number,       *)
(* memory ran out, the buffer was doubled as often as one call may, or the *)
(* command ends exactly where a buffer does.                               *)
THEOREM ReaderGivenUpForCause == Spec => []GivenUpForCause
<1>1. Init => GInv
  <2> SUFFICES ASSUME Init PROVE GInv
    OBVIOUS
  <2> QED
    BY ReaderAssumption DEF Init, GInv, GivenUpForCause
<1>2. GInv => GivenUpForCause
  BY DEF GInv
<1> QED
  BY <1>1, <1>2, NextGInv, ReaderInvariant, PTL DEF Spec
=============================================================================
