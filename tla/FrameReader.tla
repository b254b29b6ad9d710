---------------------------- MODULE FrameReader ----------------------------
(***************************************************************************)
(* How one connection cuts the byte stream of its peer into commands: a    *)
(* head of CMD_PREFIX_BYTE digits that gives the length of the body, then  *)
(* the body.  aread reads no further than the command it is in, doubles    *)
(* the buffer when it is full, and is called again by the state machine    *)
(* until the command is whole.  The peer's bytes arrive between any two    *)
(* read() calls.  Bytes are counted; their values are not modelled.  After *)
(* each command conn_renew asks for a new buffer, and may get none.        *)
(***************************************************************************)
EXTENDS Integers

CONSTANTS
  CMD_PREFIX_BYTE, (* 10 in the code                                       *)
  RBUF_SZ,         (* the size of a block, 4096 in the code                *)
  MAX_ALLOCS,      (* how often one aread doubles the buffer, 10           *)
  NCmds,           (* commands a peer sends, a bound                       *)
  Streams,         (* what peers send: where each command ends             *)
  MemoryShort      (* malloc, realloc and get_block may fail               *)

ASSUME ReaderAssumption ==
  /\ CMD_PREFIX_BYTE \in Nat \ {0}
  /\ RBUF_SZ \in Nat /\ RBUF_SZ > CMD_PREFIX_BYTE
  /\ MAX_ALLOCS \in Nat /\ NCmds \in Nat
  /\ MemoryShort \in BOOLEAN

ASSUME StreamAssumption ==
  /\ Streams \subseteq [0 .. NCmds -> Nat]
  /\ \A s \in Streams :
       /\ s[0] = 0
       /\ \A n \in 1 .. NCmds : s[n] >= s[n - 1] + CMD_PREFIX_BYTE

(* Arithmetic the prover has to be told: it does not know the operator ^   *)
ASSUME PowerAssumption ==
  /\ 2 ^ 0 = 1
  /\ \A n \in 0 .. MAX_ALLOCS : 2 ^ n \in Nat /\ 2 ^ (n + 1) = 2 * (2 ^ n)

VARIABLES
  stream,     (* the peer's stream: stream[n] is where its command n ends  *)
  garbled,    (* its commands whose head is not a row of digits            *)
  sent,       (* bytes the peer has sent                                   *)
  closed,     (* the peer has closed the connection                        *)
  broken,     (* the connection is reset or timed out                      *)
  start,      (* where in the stream the buffer begins                     *)
  done,       (* commands handed to on_data_callback                       *)
  state,      (* conn_states; "resting" is conn_read, out of the machine   *)
  gotdata,    (* what the aread under way would return                     *)
  num_allocs, (* how often it has doubled the buffer                       *)
  rbuf_size, have_read, need_read,
  read_buffer,(* a block of the arena, heap memory, or NULL                *)
  result,     (* why the connection was closed                             *)
  failed      (* malloc or realloc of aread has failed                     *)

peer   == <<stream, garbled, sent, closed, broken>>
buffer == <<rbuf_size, have_read, need_read, read_buffer>>
vars   == <<peer, start, done, state, gotdata, num_allocs, buffer, result, failed>>

Total == stream[NCmds]

(* The length in the head of command n                                     *)
Body(n) == stream[n] - stream[n - 1] - CMD_PREFIX_BYTE

(* Bytes in the socket                                                     *)
Arrived == sent - (start + have_read)

Lesser(a, b) == IF a <= b THEN a ELSE b

-----------------------------------------------------------------------------
(* Wrong on purpose: definitions below with a bug that could be made in    *)
(* their code, each of which must break a property.                        *)

(* aread without the limit of the command: it reads all there is room for  *)
WantedAll(size) == size - have_read

(* need_read that leaves out the head                                      *)
NeedOfBody(len) == len

(* A limit that is tested after the increment                              *)
AllocsLeftOneMore == num_allocs <= MAX_ALLOCS

(* A buffer moved to the heap that keeps its r_buf_arena_id                *)
BlockKept(grow) == read_buffer

(* conn_renew that leaves need_read as it is                               *)
NeedKept == need_read

(* state_machine that tests msg_len > 1                                    *)
HeadParsesTooStrict(n) == n \notin garbled /\ Body(n) > 1

-----------------------------------------------------------------------------
Init ==
  /\ stream \in Streams /\ garbled \in SUBSET (1 .. NCmds)
  /\ sent = 0 /\ closed = FALSE /\ broken = FALSE
  /\ start = 0 /\ done = 0
  /\ state = "resting"
  /\ gotdata = "READ_NO_DATA_RECEIVED" /\ num_allocs = 0
  /\ rbuf_size = RBUF_SZ /\ have_read = 0 /\ need_read = CMD_PREFIX_BYTE
  /\ read_buffer = "block"
  /\ result = "none" /\ failed = FALSE

connection == <<start, done, state, gotdata, num_allocs, buffer, result, failed>>

PeerSend ==
  /\ ~closed /\ ~broken
  /\ sent' \in sent + 1 .. Total
  /\ UNCHANGED <<stream, garbled, closed, broken, connection>>

PeerClose ==
  /\ ~closed /\ ~broken /\ closed' = TRUE
  /\ UNCHANGED <<stream, garbled, sent, broken, connection>>

(* The peer resets the connection, or it is lost                           *)
PeerReset ==
  /\ ~broken /\ broken' = TRUE
  /\ UNCHANGED <<stream, garbled, sent, closed, connection>>

(* state_machine calls aread                                               *)
Call ==
  /\ state' = "read"
  /\ gotdata' = "READ_NO_DATA_RECEIVED" /\ num_allocs' = 0

(* EV_READ: the socket has bytes, its end or an error                      *)
Readable ==
  /\ state = "resting"
  /\ Arrived > 0 \/ closed \/ broken
  /\ Call
  /\ UNCHANGED <<peer, start, done, buffer, result, failed>>

(* The switch on what aread returned.  READ_NEED_MORE calls it again,      *)
(* READ_NO_DATA_RECEIVED goes through conn_waiting back to the loop.       *)
Return(got) ==
  \/ got = "READ_NO_DATA_RECEIVED" /\ state' = "resting"
     /\ UNCHANGED <<gotdata, num_allocs, result>>
  \/ got = "READ_NEED_MORE" /\ Call /\ UNCHANGED result
  \/ got = "READ_HEADER_RECEIVED" /\ state' = "parse_header"
     /\ UNCHANGED <<gotdata, num_allocs, result>>
  \/ got = "READ_DATA_RECEIVED" /\ state' = "parse_cmd"
     /\ UNCHANGED <<gotdata, num_allocs, result>>
  \/ got \in {"READ_ERROR", "READ_MEMORY_ERROR"} /\ state' = "closing"
     /\ result' = got /\ UNCHANGED <<gotdata, num_allocs>>

Full == have_read >= rbuf_size

AllocsLeft == num_allocs < MAX_ALLOCS

(* num_allocs++ == 10                                                      *)
AllocLimit ==
  /\ state = "read" /\ Full /\ ~AllocsLeft
  /\ Return("READ_MEMORY_ERROR")
  /\ UNCHANGED <<peer, start, done, buffer, failed>>

(* malloc or realloc fails: what was read is ignored                       *)
AllocFails ==
  /\ state = "read" /\ Full /\ AllocsLeft /\ MemoryShort
  /\ have_read' = 0 /\ start' = start + have_read /\ failed' = TRUE
  /\ Return("READ_MEMORY_ERROR")
  /\ UNCHANGED <<peer, done, rbuf_size, need_read, read_buffer>>

Grown == IF Full THEN 2 * rbuf_size ELSE rbuf_size

(* The first doubling gives the block back: r_buf_arena_id = INVILID_BLOCK *)
GrownBuffer(grow) == IF grow THEN "heap" ELSE read_buffer

Growing ==
  /\ Full => AllocsLeft
  /\ rbuf_size' = Grown /\ read_buffer' = GrownBuffer(Full)

(* What read() is asked for in a buffer of this size                       *)
Wanted(size) == Lesser(need_read - have_read, size - have_read)

(* gotdata once have bytes are in                                          *)
Got(have) ==
  IF need_read > have THEN "READ_NEED_MORE"
  ELSE IF need_read = CMD_PREFIX_BYTE THEN "READ_HEADER_RECEIVED"
  ELSE IF need_read > CMD_PREFIX_BYTE THEN "READ_DATA_RECEIVED"
  ELSE "READ_ERROR"

(* read() returns bytes.  If they fill the buffer aread goes on.           *)
ReadSome ==
  LET n == Lesser(Wanted(Grown), Arrived)
  IN  /\ state = "read" /\ Growing /\ n > 0 /\ read_buffer # "NULL"
      /\ have_read' = have_read + n
      /\ IF n = Grown - have_read
         THEN /\ gotdata' = Got(have_read + n)
              /\ num_allocs' = IF Full THEN num_allocs + 1 ELSE num_allocs
              /\ UNCHANGED <<state, result>>
         ELSE Return(Got(have_read + n))
      /\ UNCHANGED <<peer, start, done, need_read, failed>>

(* EAGAIN: aread returns what it has                                       *)
ReadAgain ==
  /\ state = "read" /\ Growing
  /\ Wanted(Grown) > 0 /\ Arrived = 0 /\ ~closed /\ ~broken
  /\ Return(gotdata)
  /\ UNCHANGED <<peer, start, done, have_read, need_read, failed>>

(* Any other error: the connection's, which may overtake bytes that have   *)
(* arrived, or EFAULT when there are bytes and no buffer for them          *)
ReadFails ==
  /\ state = "read" /\ Growing
  /\ Wanted(Grown) > 0
  /\ broken \/ (read_buffer = "NULL" /\ Arrived > 0)
  /\ Return("READ_ERROR")
  /\ UNCHANGED <<peer, start, done, have_read, need_read, failed>>

(* read() returns 0: the peer has closed, or no byte was asked for         *)
ReadZero ==
  /\ state = "read" /\ Growing
  /\ Wanted(Grown) = 0 \/ (Arrived = 0 /\ closed)
  /\ Return("READ_ERROR")
  /\ UNCHANGED <<peer, start, done, have_read, need_read, failed>>

NeedRead(len) == len + CMD_PREFIX_BYTE

(* parse_cmd_head finds a positive number                                  *)
HeadParses(n) == n \notin garbled /\ Body(n) > 0

ParseHeader ==
  /\ state = "parse_header" /\ HeadParses(done + 1)
  /\ need_read' = NeedRead(Body(done + 1))
  /\ IF have_read < need_read' THEN Call
     ELSE state' = "parse_cmd" /\ UNCHANGED <<gotdata, num_allocs>>
  /\ UNCHANGED <<peer, start, done, rbuf_size, have_read, read_buffer, result,
                 failed>>

BadHeader ==
  /\ state = "parse_header" /\ ~HeadParses(done + 1)
  /\ state' = "closing" /\ result' = "RECV_ERROR"
  /\ UNCHANGED <<peer, start, done, gotdata, num_allocs, buffer, failed>>

NeedAfterRenew == CMD_PREFIX_BYTE

(* conn_renew gives its buffer back and asks for a block.  It does not     *)
(* look whether it gets one: of the id -1 id2addr makes NULL.              *)
RenewedBuffers == {"block"} \cup IF MemoryShort THEN {"NULL"} ELSE {}

(* on_data_callback, the reply, and conn_renew: a new buffer, nothing read *)
Serve ==
  /\ state = "parse_cmd"
  /\ done' = done + 1 /\ start' = start + have_read
  /\ rbuf_size' = RBUF_SZ /\ have_read' = 0 /\ need_read' = NeedAfterRenew
  /\ read_buffer' \in RenewedBuffers
  /\ state' = "resting"
  /\ UNCHANGED <<peer, gotdata, num_allocs, result, failed>>

Read == \/ AllocLimit \/ AllocFails
        \/ ReadSome \/ ReadAgain \/ ReadFails \/ ReadZero

Reader == Readable \/ Read \/ ParseHeader \/ BadHeader \/ Serve

Next == PeerSend \/ PeerClose \/ PeerReset \/ Reader

Spec == Init /\ [][Next]_vars

(* The worker runs, and its EV_READ event is level triggered               *)
FairSpec == Spec /\ WF_vars(Reader)

-----------------------------------------------------------------------------
Results == {"READ_NO_DATA_RECEIVED", "READ_NEED_MORE", "READ_HEADER_RECEIVED",
            "READ_DATA_RECEIVED", "READ_ERROR"}

TypeOK ==
  /\ stream \in Streams /\ garbled \in SUBSET (1 .. NCmds)
  /\ sent \in Nat /\ closed \in BOOLEAN /\ broken \in BOOLEAN
  /\ start \in Nat /\ done \in 0 .. NCmds
  /\ state \in {"resting", "read", "parse_header", "parse_cmd", "closing"}
  /\ gotdata \in Results /\ num_allocs \in 0 .. MAX_ALLOCS
  /\ rbuf_size \in Nat /\ have_read \in Nat /\ need_read \in Nat
  /\ read_buffer \in {"block", "heap", "NULL"} /\ failed \in BOOLEAN
  /\ result \in {"none", "READ_ERROR", "READ_MEMORY_ERROR", "RECV_ERROR"}

(* aread stays inside the buffer and inside the command: the unsigned      *)
(* differences rbuf_size - have_read and need_read - have_read of its      *)
(* read() call do not wrap, and no byte of the next command is taken.      *)
ReadInBounds == have_read <= rbuf_size /\ have_read <= need_read

(* What the worker takes for a head is a head, and what it hands on as a   *)
(* command is exactly one command of the peer, whole, however the bytes    *)
(* were cut on their way: commands sent ahead do not put it out of step.   *)
InStep ==
  /\ state # "closing" => start = stream[done]
  /\ state = "parse_header" => done < NCmds /\ have_read = CMD_PREFIX_BYTE
  /\ state = "parse_cmd" => done < NCmds /\ start + have_read = stream[done + 1]

(* r_buf_arena_id and the size tell of the same buffer: memory that is     *)
(* freed as a block was never grown, memory that was grown is freed once,  *)
(* with free().  A connection that a renewal left without a buffer stays   *)
(* as it is, with nothing read: NULL is neither grown nor freed.           *)
BlockIsNotGrown ==
  /\ read_buffer = "heap" <=> rbuf_size > RBUF_SZ
  /\ read_buffer = "NULL" =>
       /\ MemoryShort /\ done > 0
       /\ rbuf_size = RBUF_SZ /\ have_read = 0
       /\ state \in {"resting", "read", "closing"}

(* aread and the machine give up a command only when the peer closed, the  *)
(* connection broke, the renewal after an earlier command found no buffer, *)
(* the head is no positive number, memory ran out, the buffer was doubled  *)
(* MAX_ALLOCS times in one call, or the command is exactly as long as a    *)
(* buffer that aread reads it into.                                        *)
GivenUpForCause ==
  /\ result = "READ_ERROR" =>
       \/ closed \/ broken
       \/ read_buffer = "NULL"
       \/ have_read = need_read /\ 2 * have_read = rbuf_size
  /\ result = "READ_MEMORY_ERROR" =>
       failed \/ need_read >= RBUF_SZ * (2 ^ MAX_ALLOCS)
  /\ result = "RECV_ERROR" => done + 1 \in garbled \/ Body(done + 1) = 0

(* READ_ERROR, "an error occured (on the socket) (or client closed          *)
(* connection)", is returned only when the connection broke or the peer    *)
(* has closed it.                                                          *)
ErrorMeansClosed == result = "READ_ERROR" => closed \/ broken

(* A command that has arrived is served, also when it came together with   *)
(* an earlier one and no further byte wakes the worker.                    *)
WholeCommandServed ==
  \A n \in 1 .. NCmds :
    sent >= stream[n] ~> done >= n \/ state = "closing"
=============================================================================
