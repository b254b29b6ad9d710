--------------------------- MODULE ConnPoolTypes ---------------------------
(***************************************************************************)
(* The types of the pool, whatever the environment does, and what its      *)
(* choices of a slot, a worker and a descriptor return.                    *)
(***************************************************************************)
EXTENDS ConnPool, WellFoundedInduction, TLAPS

(* Who is under way with a slot has one                                    *)
SlotsAtHand ==
  /\ listener.pc # "idle" => listener.slot \in Slots
  /\ \A j \in Jobs :
       caller[j].pc \in {"filling", "dispatch"} => caller[j].slot \in Slots
  /\ \A w \in Workers :
       ctl[w].pc \in {"machine", "fds"} => ctl[w].slot \in Slots

Typed == TypeOK /\ SlotsAtHand

-----------------------------------------------------------------------------
(* What is chosen.                                                         *)

LEMMA ModLemma ==
  ASSUME NEW n \in Nat \ {0}, NEW a \in Nat
  PROVE  /\ a % n \in 0 .. n - 1
         /\ a < n => a % n = a /\ (a + n) % n = a
<1>1. a % n \in 0 .. n - 1
  BY Z3
<1>2. ASSUME a < n PROVE a % n = a
  BY <1>2, Z3
<1>3. ASSUME a < n PROVE (a + n) % n = a
  BY <1>3, Z3
<1> QED
  BY <1>1, <1>2, <1>3

LEMMA Least ==
  ASSUME NEW S, S \subseteq Nat, S # {}
  PROVE  \E m \in S : \A k \in S : m <= k
<1>1. PICK m \in S : \A k \in S : ~(<<k, m>> \in OpToRel(<, Nat))
  BY NatLessThanWellFounded, WFMin, Zenon
<1>2. \A k \in S : ~(k < m)
  BY <1>1 DEF OpToRel
<1> QED
  BY <1>2

(* find_free finds a free slot if there is one                             *)
LEMMA NextFreeLemma ==
  ASSUME g_curr_conn \in Slots, FreeSlots # {}
  PROVE  NextFree \in FreeSlots
<1> USE PoolAssumption
<1> DEFINE Nth(i) == (i + g_curr_conn + 1) % ConnLimit
           Tries == {i \in Slots : Nth(i) \in FreeSlots}
<1>0. g_curr_conn \in Nat
  BY DEF Slots
<1>1. PICK c \in FreeSlots : c \in Slots
  BY DEF FreeSlots
<1>2. \E i \in Slots : Nth(i) = c
  <2>1. CASE c >= g_curr_conn + 1
    <3>1. (c - g_curr_conn - 1) + g_curr_conn + 1 = c /\ c \in Nat /\ c < ConnLimit
      BY <1>1, <2>1 DEF Slots
    <3>2. Nth(c - g_curr_conn - 1) = c
      BY <1>0, <3>1, ModLemma
    <3> QED
      BY <1>1, <2>1, <3>2 DEF Slots
  <2>2. CASE c < g_curr_conn + 1
    <3>1. /\ (c - g_curr_conn - 1 + ConnLimit) + g_curr_conn + 1 = c + ConnLimit
          /\ c \in Nat /\ c < ConnLimit
      BY <1>1, <2>2 DEF Slots
    <3>2. Nth(c - g_curr_conn - 1 + ConnLimit) = c
      BY <1>0, <3>1, ModLemma
    <3>3. c - g_curr_conn - 1 + ConnLimit \in Slots
      BY <1>0, <1>1, <2>2 DEF Slots
    <3> HIDE DEF Nth
    <3> QED
      BY <3>1, <3>2, <3>3
  <2> QED
    BY <1>1, <2>1, <2>2 DEF Slots
<1>3. Tries # {}
  <2> HIDE DEF Nth
  <2> QED
    BY <1>1, <1>2
<1>3a. Tries \subseteq Nat
  BY DEF Slots
<1>4. PICK m \in Tries : \A k \in Tries : m <= k
  BY <1>3, <1>3a, Least
<1> QED
  BY <1>4 DEF NextFree

LEMMA NextWorkerLemma ==
  ASSUME g_curr_thread \in Workers
  PROVE  NextWorker \in Workers
BY PoolAssumption, ModLemma DEF NextWorker, Workers

(* socket and accept return a descriptor that was not open                 *)
LEMMA NewFdLemma ==
  ASSUME FdLeft
  PROVE  NewFd \in Fds \ open
<1>1. PICK f \in Fds \ open : \A g \in Fds \ open : f <= g
  BY PoolAssumption, Least DEF FdLeft
<1> QED
  BY <1>1 DEF NewFd

(* The sweep goes on with a connection of its list                         *)
LEMMA SweepNextLemma ==
  ASSUME NEW S, S \subseteq Slots, S # {}
  PROVE  (CHOOSE i \in S : \A k \in S : i <= k) \in S
<1>1. S \subseteq Nat
  BY PoolAssumption DEF Slots
<1>2. \E i \in S : \A k \in S : i <= k
  BY <1>1, Least
<1> QED
  BY <1>2

-----------------------------------------------------------------------------
(* What is written into a slot.                                            *)

LEMMA ClearedLemma ==
  ASSUME NEW r \in ConnClient
  PROVE  /\ Cleared(r) \in ConnClient
         /\ Cleared(r).conn_time = "zero" /\ Cleared(r).client_fd = NoFd
         /\ Cleared(r).read_buffer = Null /\ Cleared(r).write_buffer = Null
         /\ Cleared(r).event = "none" /\ Cleared(r).ev_dns = Null
<1>1. ASSUME NEW p \in 0 .. MaxPartial
      PROVE  [r EXCEPT !.client_fd = NoFd, !.err_no = "SUCC",
                       !.read_buffer = Null, !.write_buffer = Null,
                       !.body = FALSE, !.partial = p, !.event = "none",
                       !.ev_dns = Null, !.conn_time = "zero"] \in ConnClient
  BY PoolAssumption DEF ConnClient
<1>2. 0 \in 0 .. MaxPartial
  BY PoolAssumption
<1>3. Cleared(r) \in ConnClient
  BY <1>1, <1>2 DEF Cleared
<1> QED
  BY <1>3 DEF Cleared, ConnClient

LEMMA RecordChange ==
  ASSUME NEW r \in ConnClient
  PROVE  /\ \A w \in Workers : [r EXCEPT !.worker_id = w] \in ConnClient
         /\ \A e \in Workers \cup {Null} :
              [r EXCEPT !.ev_dns = e] \in ConnClient
         /\ \A a \in {"zero", "recent", "old"} :
              [r EXCEPT !.conn_time = a] \in ConnClient
         /\ \A s \in States : [r EXCEPT !.state = s] \in ConnClient
BY DEF ConnClient

LEMMA SlotWritten ==
  ASSUME TypeOK, NEW c \in Slots, NEW r \in ConnClient,
         client' = [client EXCEPT ![c] = r]
  PROVE  client' \in [Slots -> ConnClient]
BY DEF TypeOK

LEMMA BufferInitLemma ==
  ASSUME NEW r \in ConnClient, NEW w \in Workers
  PROVE  /\ BufferInit(r, w) \in ConnClient
         /\ BufferInit(r, w).read_buffer = w
         /\ BufferInit(r, w).write_buffer = w
         /\ \A f \in {"conn_time", "client_fd", "event", "ev_dns", "type",
                      "task_id", "worker_id"} :
              BufferInit(r, w)[f] = r[f]
<1>1. ASSUME NEW p \in 0 .. MaxPartial
      PROVE  [r EXCEPT !.err_no = "INVILID", !.read_buffer = w,
                       !.write_buffer = w, !.body = FALSE,
                       !.partial = p] \in ConnClient
  BY PoolAssumption DEF ConnClient
<1>2. 0 \in 0 .. MaxPartial
  BY PoolAssumption
<1>3. BufferInit(r, w) \in ConnClient
  BY <1>1, <1>2 DEF BufferInit
<1> QED
  BY <1>3 DEF BufferInit, ConnClient

(* What the machine makes of a connection that was r: it keeps its         *)
(* descriptor, its worker and its age or is younger, and its buffers are   *)
(* those it had, new ones of its worker, none, or a read buffer on the     *)
(* heap.                                                                   *)
Continues(r, t) ==
  /\ t \in ConnClient
  /\ t.client_fd = r.client_fd /\ t.worker_id = r.worker_id
  /\ t.type = r.type /\ t.task_id \in {r.task_id, NoTask}
  /\ t.conn_time \in {r.conn_time, "recent"}
  /\ t.read_buffer \in {r.read_buffer, r.worker_id, Heap, Null}
  /\ t.write_buffer \in {r.write_buffer, r.worker_id, Null}
  /\ t.ev_dns \in {r.ev_dns, r.worker_id, Null}

LEMMA ContinuesLemma ==
  ASSUME NEW r \in ConnClient, NEW f \in {"R", "W"},
         NEW e \in {"SUCC", "INVILID", "ERROR"}
  PROVE  /\ Continues(r, r)
         /\ Continues(r, [r EXCEPT !.err_no = e])
         /\ Continues(r, UpdateEvent(r, f))
         /\ Continues(r, [UpdateEventFailed(r, f) EXCEPT !.err_no = e])
         /\ \A read, write \in Blocks(r.worker_id) :
              Continues(r, Renewed(r, read, write))
         /\ Continues(r, [r EXCEPT !.ev_dns = Null])
         /\ Continues(r, [r EXCEPT !.ev_dns = r.worker_id])
         /\ Continues(r, Unresolved(r))
<1> USE DEF Continues
<1>1. Continues(r, r) /\ Continues(r, [r EXCEPT !.err_no = e])
  BY DEF ConnClient
<1>2. [r EXCEPT !.event = f, !.ev_flags = f] \in ConnClient
  BY DEF ConnClient
<1>3. Continues(r, UpdateEvent(r, f))
  BY <1>2 DEF UpdateEvent, ConnClient
<1>4. Continues(r, [UpdateEventFailed(r, f) EXCEPT !.err_no = e])
  BY DEF UpdateEventFailed, ConnClient
<1>5. ASSUME NEW p \in 0 .. MaxPartial, NEW a \in Workers \cup {Null},
             NEW b \in Workers \cup {Null}
      PROVE  [r EXCEPT !.conn_time = "recent", !.err_no = "SUCC",
                       !.task_id = NoTask, !.read_buffer = a,
                       !.write_buffer = b, !.body = FALSE,
                       !.partial = p] \in ConnClient
  BY PoolAssumption DEF ConnClient
<1>6. 0 \in 0 .. MaxPartial /\ Blocks(r.worker_id) \subseteq {r.worker_id, Null}
  BY PoolAssumption DEF Blocks
<1>7. ASSUME NEW a \in Blocks(r.worker_id), NEW b \in Blocks(r.worker_id)
      PROVE  Continues(r, Renewed(r, a, b))
  <2>1. /\ a \in {r.worker_id, Null} /\ b \in {r.worker_id, Null}
        /\ r.worker_id \in Workers
    BY <1>6 DEF ConnClient
  <2>2. Renewed(r, a, b) \in ConnClient
    BY <1>5, <1>6, <2>1 DEF Renewed
  <2> QED
    BY <2>1, <2>2 DEF Renewed, ConnClient
<1>9. /\ Continues(r, [r EXCEPT !.ev_dns = Null])
      /\ Continues(r, [r EXCEPT !.ev_dns = r.worker_id])
      /\ Continues(r, Unresolved(r))
  BY DEF ConnClient, Unresolved
<1> QED
  BY <1>1, <1>3, <1>4, <1>7, <1>9

LEMMA GrownLemma ==
  ASSUME NEW r \in ConnClient, NEW g \in Grown(r)
  PROVE  Continues(r, g) /\ g \in ConnClient /\ g.partial = r.partial
BY DEF Grown, ConnClient, Continues

LEMMA ContinuesAgain ==
  ASSUME NEW r, NEW t, NEW u, Continues(r, t), Continues(t, u)
  PROVE  Continues(r, u)
BY DEF Continues

(* Continues is kept by what does not concern it                           *)
LEMMA ContinuesChange ==
  ASSUME NEW r \in ConnClient, NEW t, Continues(r, t)
  PROVE  /\ \A s \in States : Continues(r, [t EXCEPT !.state = s])
         /\ \A p \in 0 .. MaxPartial : Continues(r, [t EXCEPT !.partial = p])
         /\ \A b \in BOOLEAN : Continues(r, [t EXCEPT !.body = b])
         /\ Continues(r, [t EXCEPT !.conn_time = "recent"])
BY PoolAssumption DEF Continues, ConnClient

-----------------------------------------------------------------------------
(* The machine.  All its steps but the ends of a connection, the socket of *)
(* an active one and the watching of a channel leave the connection served *)
(* and its descriptor alone.                                               *)

Naming == {"dns_cache", "resolving", "connecting"}

(* The job of connection r has been reported                               *)
Reported(r) ==
  /\ r.type = "active" /\ r.task_id \in Jobs
  /\ reports' = [reports EXCEPT ![r.task_id] = @ + 1]

Serving(w) ==
  \E t : /\ Continues(Conn(w), t)
         /\ client' = [client EXCEPT ![ctl[w].slot] = t]
         /\ t.state \in Naming => Conn(w).state \in Naming
         /\ reports' = reports \/ (t.state = "closing" /\ Reported(Conn(w)))

Outcome == <<reports, strayReport>>

OutcomeTyped == reports \in [Jobs -> 0 .. 2] /\ strayReport \in BOOLEAN

LEMMA ReportLemma ==
  ASSUME TypeOK, NEW r \in ConnClient, Report(r) \/ NoReport
  PROVE  OutcomeTyped'
<1>1. CASE NoReport
  BY <1>1 DEF TypeOK, NoReport, OutcomeTyped
<1>2. CASE Report(r)
  <2>1. ASSUME NEW j \in Jobs, reports[j] < 2
        PROVE  [reports EXCEPT ![j] = @ + 1] \in [Jobs -> 0 .. 2]
    <3>1. reports \in [Jobs -> 0 .. 2]
      BY DEF TypeOK
    <3>2. reports[j] + 1 \in 0 .. 2
      BY <2>1, <3>1
    <3> QED
      BY <3>1, <3>2
  <2>2. reports' \in [Jobs -> 0 .. 2]
    BY <1>2, <2>1, Zenon DEF TypeOK, Report
  <2>3. strayReport' \in BOOLEAN
    BY <1>2, Zenon DEF TypeOK, Report
  <2> QED
    BY <2>2, <2>3 DEF OutcomeTyped
<1> QED
  BY <1>1, <1>2

LEMMA SetStateLemma ==
  ASSUME TypeOK, NEW c \in Slots, NEW r \in ConnClient, NEW s \in States,
         SetState(c, r, s)
  PROVE  /\ client' = [client EXCEPT ![c] = [r EXCEPT !.state = s]]
         /\ OutcomeTyped'
         /\ reports' = reports \/ (s = "closing" /\ Reported(r))
<1>1. Report(r) \/ NoReport
  BY DEF SetState
<1>2. reports' = reports \/ (s = "closing" /\ Reported(r))
  <2>1. CASE MustReport(r, s)
    BY <2>1, Zenon DEF SetState, MustReport, Report, Reported
  <2>2. CASE ~MustReport(r, s)
    BY <2>2 DEF SetState, NoReport
  <2> QED
    BY <2>1, <2>2
<1> QED
  BY <1>1, <1>2, ReportLemma DEF SetState

LEMMA GotoLemma ==
  ASSUME Typed, NEW w \in Workers, ctl[w].pc = "machine",
         NEW r, Continues(Conn(w), r), NEW s \in States, Goto(w, r, s),
         s \in Naming => Conn(w).state \in Naming
  PROVE  Serving(w) /\ OutcomeTyped'
<1>1. ctl[w].slot \in Slots /\ Conn(w) \in ConnClient
  BY DEF Typed, SlotsAtHand, TypeOK, Conn
<1>2. r \in ConnClient
  BY DEF Continues
<1>3. /\ client' = [client EXCEPT ![ctl[w].slot] = [r EXCEPT !.state = s]]
      /\ OutcomeTyped'
      /\ reports' = reports \/ (s = "closing" /\ Reported(r))
  BY <1>1, <1>2, SetStateLemma DEF Goto, Typed
<1>4. Continues(Conn(w), [r EXCEPT !.state = s])
  BY <1>1, ContinuesChange
<1>5. [r EXCEPT !.state = s].state = s
  BY <1>2 DEF ConnClient
<1>6. Reported(r) => Reported(Conn(w))
  <2>1. /\ r.type = Conn(w).type
        /\ r.task_id \in Jobs => r.task_id = Conn(w).task_id
    <3>1. NoTask \notin Jobs
      BY PoolAssumption DEF NoTask
    <3> QED
      BY <3>1 DEF Continues
  <2> QED
    BY <2>1, Zenon DEF Reported
<1> QED
  BY <1>3, <1>4, <1>5, <1>6 DEF Serving

LEMMA ServingSteps ==
  ASSUME Typed, NEW w \in Workers,
         \/ Waiting(w) \/ ReadNothing(w) \/ ReadMore(w) \/ ReadAll(w)
         \/ ReadFail(w) \/ ParseHeader(w) \/ ParseComing(w) \/ ParseActive(w)
         \/ Write(w) \/ WriteFail(w) \/ Renew(w) \/ Resolve(w)
         \/ ResolveAtOnce(w)
  PROVE  Serving(w) /\ OutcomeTyped'
<1> DEFINE r == Conn(w)
<1>1. ctl[w].pc = "machine"
  BY DEF At, Waiting, ReadNothing, ReadMore, ReadAll, ReadFail, ParseHeader,
     ParseComing, ParseActive, Write, WriteFail, Renew, Resolve, ResolveAtOnce
<1>2. r \in ConnClient
  BY <1>1 DEF Typed, SlotsAtHand, TypeOK, Conn
<1>3. States = {"nouse", "waiting", "read", "parse_header", "parse_cmd",
                "write", "renew", "closing", "connecting", "dns_cache",
                "resolving"}
      /\ Naming = {"dns_cache", "resolving", "connecting"}
  BY DEF States, Naming
<1>4. ASSUME NEW t, Continues(r, t), NEW s \in States \ Naming, Goto(w, t, s)
      PROVE  Serving(w) /\ OutcomeTyped'
  BY <1>1, <1>4, GotoLemma
<1>5. /\ Continues(r, r)
      /\ \A e \in {"SUCC", "INVILID", "ERROR"} :
           Continues(r, [r EXCEPT !.err_no = e])
      /\ \A f \in {"R", "W"} :
           /\ Continues(r, UpdateEvent(r, f))
           /\ Continues(r, [UpdateEventFailed(r, f) EXCEPT !.err_no = "ERROR"])
  BY <1>2, ContinuesLemma
<1>6. r.err_no \in {"SUCC", "INVILID", "ERROR"}
  BY <1>2 DEF ConnClient
<1> HIDE DEF r
<1>w. CASE Waiting(w)
  BY <1>w, <1>3, <1>4, <1>5 DEF Waiting, r
<1>n. CASE ReadNothing(w)
  BY <1>n, <1>3, <1>4, <1>5 DEF ReadNothing, r
<1>m. CASE ReadMore(w)
  <2>1. PICK g \in Grown(r) :
          Goto(w, [g EXCEPT !.conn_time = "recent", !.partial = @ + 1], "read")
    BY <1>m DEF ReadMore, r
  <2>2. Continues(r, g) /\ g \in ConnClient /\ g.partial = r.partial
    BY <1>2, <2>1, GrownLemma
  <2>3. r.partial < MaxPartial
    BY <1>m DEF ReadMore, r
  <2>4. g.partial + 1 \in 0 .. MaxPartial
    BY <2>2, <2>3, PoolAssumption DEF ConnClient
  <2>5. Continues(r, [g EXCEPT !.conn_time = "recent", !.partial = @ + 1])
    <3>1. Continues(r, [g EXCEPT !.conn_time = "recent"])
      BY <1>2, <2>2, ContinuesChange
    <3>2. [g EXCEPT !.conn_time = "recent"].partial = g.partial
      BY <2>2 DEF ConnClient
    <3>3. ASSUME NEW t, Continues(r, t)
          PROVE  Continues(r, [t EXCEPT !.partial = g.partial + 1])
      BY <1>2, <2>4, <3>3, ContinuesChange
    <3> QED
      BY <3>1, <3>2, <3>3
  <2> QED
    BY <1>3, <1>4, <2>1, <2>5
<1>a. CASE ReadAll(w)
  <2>1. PICK g \in Grown(r) :
          Goto(w, [g EXCEPT !.partial = 0],
               IF g.body THEN "parse_cmd" ELSE "parse_header")
    BY <1>a DEF ReadAll, r
  <2>2. Continues(r, g) /\ 0 \in 0 .. MaxPartial
    BY <1>2, <2>1, GrownLemma, PoolAssumption
  <2>3. Continues(r, [g EXCEPT !.partial = 0])
    BY <1>2, <2>2, ContinuesChange
  <2> QED
    BY <1>3, <1>4, <2>1, <2>3
<1>f. CASE ReadFail(w)
  BY <1>f, <1>3, <1>4, <1>5, <1>6 DEF ReadFail, r
<1>h. CASE ParseHeader(w)
  <2>1. Continues(r, [r EXCEPT !.body = TRUE])
    BY <1>2, <1>5, ContinuesChange
  <2> QED
    BY <1>h, <1>3, <1>4, <1>5, <2>1 DEF ParseHeader, r
<1>c. CASE ParseComing(w)
  <2> DEFINE q == [r EXCEPT !.conn_time = "recent"]
  <2>1. Continues(r, q) /\ q \in ConnClient
    BY <1>2, <1>5, ContinuesChange DEF Continues
  <2> HIDE DEF q
  <2>2. /\ Continues(q, UpdateEvent(q, "W"))
        /\ Continues(q, [UpdateEventFailed(q, "W") EXCEPT !.err_no = "ERROR"])
    BY <2>1, ContinuesLemma
  <2>3. /\ Continues(r, UpdateEvent(q, "W"))
        /\ Continues(r, [UpdateEventFailed(q, "W") EXCEPT !.err_no = "ERROR"])
    BY <2>1, <2>2, ContinuesAgain
  <2>4. \/ Goto(w, UpdateEvent(q, "W"), "write")
        \/ Goto(w, [UpdateEventFailed(q, "W") EXCEPT !.err_no = "ERROR"],
                "closing")
    BY <1>c DEF ParseComing, q, r
  <2> QED
    BY <1>3, <1>4, <2>3, <2>4
<1>v. CASE ParseActive(w)
  BY <1>v, <1>3, <1>4, <1>5 DEF ParseActive, r
<1>t. CASE Write(w)
  <2>1. Continues(r, [r EXCEPT !.conn_time = "recent"])
    BY <1>2, <1>5, ContinuesChange
  <2> QED
    BY <1>t, <1>3, <1>4, <1>5, <2>1 DEF Write, r
<1>u. CASE WriteFail(w)
  BY <1>u, <1>3, <1>4, <1>5, <1>6 DEF WriteFail, r
<1>r. CASE Renew(w)
  <2>1. PICK a \in Blocks(r.worker_id), b \in Blocks(r.worker_id) :
          Goto(w, Renewed(r, a, b), "waiting")
    BY <1>r DEF Renew, r
  <2>2. Continues(r, Renewed(r, a, b))
    BY <1>2, <2>1, ContinuesLemma
  <2> QED
    BY <1>3, <1>4, <2>1, <2>2
<1>s. CASE Resolve(w)
  <2>1. Continues(r, [r EXCEPT !.ev_dns = r.worker_id])
    BY <1>2, ContinuesLemma
  <2>2. Goto(w, [r EXCEPT !.ev_dns = r.worker_id], "resolving")
        /\ r.state \in Naming
    BY <1>s, <1>3 DEF Resolve, At, r
  <2> QED
    BY <1>1, <1>3, <2>1, <2>2, GotoLemma DEF r
<1>o. CASE ResolveAtOnce(w)
  <2> DEFINE q == [r EXCEPT !.ev_dns = Null]
  <2>1. Continues(r, q) /\ q \in ConnClient
    BY <1>2, ContinuesLemma DEF Continues
  <2>2. q = [client[ctl[w].slot] EXCEPT !.ev_dns = Null]
    BY DEF r, Conn
  <2> HIDE DEF q
  <2>3. Continues(q, Unresolved(q))
    BY <2>1, ContinuesLemma
  <2>4. Continues(r, Unresolved(q))
    BY <2>1, <2>3, ContinuesAgain
  <2>5. /\ r.state \in Naming
        /\ Goto(w, q, "connecting") \/ Goto(w, Unresolved(q), "closing")
    BY <1>o, <1>3, <2>2 DEF ResolveAtOnce, At, DnsCallback, Goto, r
  <2> QED
    BY <1>1, <1>3, <1>4, <2>1, <2>4, <2>5, GotoLemma DEF r
<1> QED
  BY <1>w, <1>n, <1>m, <1>a, <1>f, <1>h, <1>c, <1>v, <1>t, <1>u, <1>r, <1>s,
     <1>o

(* Where the worker is after a step of the machine                         *)
Moved(w) ==
  \/ Stop(w) \/ GoOn
  \/ ctl[w].nreqs # 0 /\ ctl' = [ctl EXCEPT ![w].nreqs = @ - 1]
  \/ ctl' = [ctl EXCEPT ![w] = Run(@.slot, TRUE)]

LEMMA MovedSteps ==
  ASSUME NEW w \in Workers, Machine(w)
  PROVE  /\ Moved(w) \/ WatchChannel(w)
         /\ UNCHANGED <<threads, pipe, sweep>>
BY DEF Machine, Moved, quiet, Waiting, ReadNothing, ReadMore, ReadAll, ReadFail,
   ParseHeader, ParseComing, ParseActive, Write, WriteFail, Renew, Closing,
   Connecting, Resolve, ResolveAtOnce, WatchChannel

ThreadsTyped ==
  /\ g_curr_conn \in Slots /\ g_curr_thread \in Workers
  /\ backlog \in 0 .. Peers
  /\ listener \in [pc : {"idle", "filling", "dispatch"},
                   slot : Slots \cup {NoSlot}, fd : Fds \cup {NoFd},
                   worker : Workers]
  /\ caller \in [Jobs -> [pc : {"idle", "filling", "dispatch", "accepted",
                                "refused"},
                          slot : Slots \cup {NoSlot}, worker : Workers]]
  /\ listener.pc # "idle" => listener.slot \in Slots
  /\ \A j \in Jobs :
       caller[j].pc \in {"filling", "dispatch"} => caller[j].slot \in Slots

CtlTyped ==
  /\ ctl \in [Workers -> Control]
  /\ \A w \in Workers :
       ctl[w].pc \in {"machine", "fds"} => ctl[w].slot \in Slots

LEMMA TypedParts ==
  Typed <=> /\ client \in [Slots -> ConnClient]
            /\ ThreadsTyped /\ CtlTyped /\ OutcomeTyped
            /\ pipe \in [Workers -> Seq(Slots)]
            /\ conn_set \in [Workers -> SUBSET Slots]
            /\ sweep \in [Workers -> [todo : SUBSET Slots, freed : SUBSET Slots]]
            /\ queries \subseteq [worker : Workers, slot : Slots,
                                  job : Jobs \cup {NoTask, Fresh}]
            /\ open \subseteq Fds
            /\ answered \in [Jobs -> 0 .. 2]
BY DEF Typed, TypeOK, SlotsAtHand, ThreadsTyped, CtlTyped, OutcomeTyped

LEMMA MovedTypes ==
  ASSUME CtlTyped, NEW w \in Workers, ctl[w].pc = "machine", Moved(w)
  PROVE  CtlTyped'
<1> USE DEF CtlTyped
<1>1. /\ Idle \in Control
      /\ \A c \in Slots, n \in BOOLEAN : Run(c, n) \in Control
  BY PoolAssumption DEF Idle, Run, Control
<1>2. ctl[w] \in Control
  OBVIOUS
<1>3. CASE Stop(w)
  <2>1. [ctl[w] EXCEPT !.pc = "fds"] \in Control
    BY <1>2 DEF Control
  <2>2. Idle.pc = "loop" /\ [ctl[w] EXCEPT !.pc = "fds"].slot = ctl[w].slot
    BY <1>2 DEF Idle, Control
  <2> QED
    BY <1>1, <1>3, <2>1, <2>2 DEF Stop
<1>4. CASE ctl[w].nreqs # 0 /\ ctl' = [ctl EXCEPT ![w].nreqs = @ - 1]
  <2>1. /\ [ctl[w] EXCEPT !.nreqs = @ - 1] \in Control
        /\ [ctl[w] EXCEPT !.nreqs = @ - 1].slot = ctl[w].slot
    BY <1>2, <1>4, PoolAssumption DEF Control
  <2> QED
    BY <1>4, <2>1
<1>5. CASE ctl' = [ctl EXCEPT ![w] = Run(@.slot, TRUE)]
  <2>1. Run(ctl[w].slot, TRUE).slot = ctl[w].slot
    BY DEF Run
  <2> QED
    BY <1>1, <1>5, <2>1
<1> QED
  BY <1>3, <1>4, <1>5 DEF Moved, GoOn

LEMMA InitTyped == Init => Typed
<1> SUFFICES ASSUME Init PROVE Typed
  OBVIOUS
<1> USE PoolAssumption
<1>1. EmptyClient \in ConnClient
  BY DEF EmptyClient, ConnClient, Workers, States
<1>2. ThreadsTyped
  BY DEF Init, ThreadsTyped, Slots, Workers
<1>3. CtlTyped
  BY DEF Init, CtlTyped, Idle, Control
<1>4. OutcomeTyped
  <2>1. reports \in [Jobs -> 0 .. 2]
    BY DEF Init
  <2>2. strayReport \in BOOLEAN
    BY Zenon DEF Init
  <2> QED
    BY <2>1, <2>2 DEF OutcomeTyped
<1>5. /\ pipe \in [Workers -> Seq(Slots)]
      /\ conn_set \in [Workers -> SUBSET Slots]
      /\ sweep \in [Workers -> [todo : SUBSET Slots, freed : SUBSET Slots]]
  BY DEF Init, NoSweep
<1>6. /\ client \in [Slots -> ConnClient]
      /\ queries = {} /\ open = {} /\ answered \in [Jobs -> 0 .. 2]
  BY <1>1 DEF Init
<1> QED
  BY <1>2, <1>3, <1>4, <1>5, <1>6, TypedParts

LEMMA ListeningTyped ==
  ASSUME Typed, Listening
  PROVE  Typed'
<1>1. CASE Accept
  <2>1. NextFree \in Slots /\ NewFd \in Fds
    BY <1>1, NextFreeLemma, NewFdLemma DEF Accept, Typed, TypeOK, FreeSlots
  <2>2. Taken(NextFree) \in ConnClient
    <3>1. Cleared(client[NextFree]) \in ConnClient
      BY <2>1, ClearedLemma DEF Typed, TypeOK
    <3> QED
      BY <3>1 DEF Taken, ConnClient
  <2>3. client' \in [Slots -> ConnClient] /\ open' \subseteq Fds
    BY <1>1, <2>1, <2>2 DEF Accept, Typed, TypeOK
  <2>4. ThreadsTyped'
    <3>1. backlog' \in 0 .. Peers
      BY <1>1, PoolAssumption DEF Accept, Typed, TypeOK
    <3>2. [listener EXCEPT !.pc = "filling", !.slot = NextFree, !.fd = NewFd]
            \in [pc : {"idle", "filling", "dispatch"},
                 slot : Slots \cup {NoSlot}, fd : Fds \cup {NoFd},
                 worker : Workers]
      BY <2>1 DEF Typed, TypeOK
    <3>3. listener'.slot = NextFree
      BY <1>1 DEF Accept, Typed, TypeOK
    <3> QED
      BY <1>1, <2>1, <3>1, <3>2, <3>3, TypedParts DEF Accept, ThreadsTyped
  <2> QED
    BY <1>1, <2>3, <2>4 DEF Accept, ThreadsTyped, jobs, Typed, TypeOK,
       SlotsAtHand
<1>2. CASE AcceptRefuse
  BY <1>2, PoolAssumption DEF AcceptRefuse, Typed, TypeOK, SlotsAtHand, jobs
<1>3. CASE AcceptFill
  <2>1. NextWorker \in Workers
    BY NextWorkerLemma DEF Typed, TypeOK
  <2>2. ThreadsTyped'
    BY <1>3, <2>1, TypedParts DEF AcceptFill, ThreadsTyped, pool
  <2>3. client' \in [Slots -> ConnClient]
    <3>1. /\ listener.slot \in Slots /\ listener.fd \in Fds \cup {NoFd}
          /\ client[listener.slot] \in ConnClient
      BY <1>3 DEF AcceptFill, Typed, TypeOK, SlotsAtHand
    <3>2. ASSUME NEW r \in ConnClient, NEW f \in Fds \cup {NoFd}
          PROVE  [r EXCEPT !.client_fd = f, !.type = "coming"] \in ConnClient
      BY DEF ConnClient
    <3> QED
      BY <1>3, <3>1, <3>2 DEF AcceptFill, Typed, TypeOK
  <2> QED
    BY <1>3, <2>2, <2>3 DEF AcceptFill, ThreadsTyped, jobs, pool, Typed,
       TypeOK, SlotsAtHand
<1>4. CASE AcceptFail
  <2>1. listener.slot \in Slots /\ client[listener.slot] \in ConnClient
    BY <1>4 DEF AcceptFail, Typed, TypeOK, SlotsAtHand
  <2>2. Cleared(client[listener.slot]) \in ConnClient
    BY <2>1, ClearedLemma
  <2>3. client' \in [Slots -> ConnClient] /\ open' \subseteq Fds
    BY <1>4, <2>1, <2>2 DEF AcceptFail, CloseFd, Typed, TypeOK
  <2>4. ThreadsTyped'
    BY <1>4, TypedParts DEF AcceptFail, ListenerIdle, ThreadsTyped
  <2> QED
    BY <1>4, <2>3, <2>4 DEF AcceptFail, ThreadsTyped, jobs, Typed, TypeOK,
       SlotsAtHand
<1>5. CASE AcceptDispatch
  <2>1. listener.slot \in Slots /\ listener.worker \in Workers
    BY <1>5 DEF AcceptDispatch, Typed, TypeOK, SlotsAtHand
  <2>2. pipe' \in [Workers -> Seq(Slots)]
    BY <1>5, <2>1 DEF AcceptDispatch, Typed, TypeOK
  <2>3. ThreadsTyped'
    BY <1>5, TypedParts DEF AcceptDispatch, ListenerIdle, ThreadsTyped, pool
  <2> QED
    BY <1>5, <2>2, <2>3 DEF AcceptDispatch, ThreadsTyped, jobs, pool, Typed,
       TypeOK, SlotsAtHand
<1> QED
  BY <1>1, <1>2, <1>3, <1>4, <1>5 DEF Listening

LEMMA CallingTyped ==
  ASSUME Typed, NEW j \in Jobs, Calling(j)
  PROVE  Typed'
<1>1. CASE Connect(j)
  <2>1. NextFree \in Slots
    BY <1>1, NextFreeLemma DEF Connect, Typed, TypeOK, FreeSlots
  <2>2. Taken(NextFree) \in ConnClient
    <3>1. Cleared(client[NextFree]) \in ConnClient
      BY <2>1, ClearedLemma DEF Typed, TypeOK
    <3> QED
      BY <3>1 DEF Taken, ConnClient
  <2>3. client' \in [Slots -> ConnClient]
    BY <1>1, <2>1, <2>2 DEF Connect, Typed, TypeOK
  <2>4. ThreadsTyped'
    BY <1>1, <2>1, TypedParts DEF Connect, ThreadsTyped
  <2> QED
    BY <1>1, <2>3, <2>4 DEF Connect, ThreadsTyped, jobs, Typed, TypeOK,
       SlotsAtHand
<1>2. CASE ConnectRefused(j)
  BY <1>2 DEF ConnectRefused, Typed, TypeOK, SlotsAtHand, jobs, pool
<1>3. CASE ConnectFill(j)
  <2>1. NextWorker \in Workers
    BY NextWorkerLemma DEF Typed, TypeOK
  <2>2. ThreadsTyped'
    BY <1>3, <2>1, TypedParts DEF ConnectFill, ThreadsTyped, pool
  <2>3. client' \in [Slots -> ConnClient]
    <3>1. caller[j].slot \in Slots /\ client[caller[j].slot] \in ConnClient
      BY <1>3 DEF ConnectFill, Typed, TypeOK, SlotsAtHand
    <3> DEFINE b == BufferInit(client[caller[j].slot], NextWorker)
    <3>2. b \in ConnClient
      BY <2>1, <3>1, BufferInitLemma
    <3>3. client' = [client EXCEPT ![caller[j].slot] =
                       [b EXCEPT !.client_fd = FD_BEFORE_CONNECT,
                                 !.worker_id = NextWorker,
                                 !.type = "active", !.task_id = j]]
      BY <1>3 DEF ConnectFill
    <3> HIDE DEF b
    <3>4. [b EXCEPT !.client_fd = FD_BEFORE_CONNECT, !.worker_id = NextWorker,
                    !.type = "active", !.task_id = j] \in ConnClient
      BY <2>1, <3>2 DEF ConnClient
    <3> QED
      BY <3>1, <3>3, <3>4 DEF Typed, TypeOK
  <2> QED
    BY <1>3, <2>2, <2>3 DEF ConnectFill, ThreadsTyped, jobs, pool, Typed,
       TypeOK, SlotsAtHand
<1>4. CASE ConnectDispatch(j)
  <2>1. caller[j].slot \in Slots /\ caller[j].worker \in Workers
    BY <1>4 DEF ConnectDispatch, Typed, TypeOK, SlotsAtHand
  <2>2. pipe' \in [Workers -> Seq(Slots)]
    BY <1>4, <2>1 DEF ConnectDispatch, Typed, TypeOK
  <2>3. ThreadsTyped'
    <3>1. /\ [caller[j] EXCEPT !.pc = "accepted", !.slot = NoSlot]
               \in [pc : {"idle", "filling", "dispatch", "accepted", "refused"},
                   slot : Slots \cup {NoSlot}, worker : Workers]
          /\ [caller[j] EXCEPT !.pc = "accepted", !.slot = NoSlot].pc
               = "accepted"
      BY DEF Typed, TypeOK
    <3>2. caller' = [caller EXCEPT ![j] =
                       [@ EXCEPT !.pc = "accepted", !.slot = NoSlot]]
      BY <1>4 DEF ConnectDispatch, Typed, TypeOK
    <3> QED
      BY <1>4, <3>1, <3>2, TypedParts DEF ConnectDispatch, ThreadsTyped, pool
  <2> QED
    BY <1>4, <2>2, <2>3 DEF ConnectDispatch, ThreadsTyped, jobs, pool, Typed,
       TypeOK, SlotsAtHand
<1> QED
  BY <1>1, <1>2, <1>3, <1>4 DEF Calling

LEMMA MachineTyped ==
  ASSUME Typed, NEW w \in Workers, Machine(w)
  PROVE  Typed'
<1> DEFINE c == ctl[w].slot
<1>1. ctl[w].pc \in {"machine", "fds"}
  BY DEF Machine, At, Waiting, ReadNothing, ReadMore, ReadAll, ReadFail,
     ParseHeader, ParseComing, ParseActive, Write, WriteFail, Renew, Closing,
     Connecting, Resolve, ResolveAtOnce, WatchChannel
<1>2. c \in Slots /\ Conn(w) \in ConnClient /\ Conn(w) = client[c]
  BY <1>1 DEF Typed, TypeOK, SlotsAtHand, Conn
<1>3. UNCHANGED <<threads, pipe, sweep>> /\ (Moved(w) \/ WatchChannel(w))
  BY MovedSteps
<1>4. ThreadsTyped'
  BY <1>3, TypedParts DEF ThreadsTyped, threads
<1>5. CtlTyped'
  <2>1. CASE WatchChannel(w)
    BY <2>1, TypedParts, PoolAssumption
       DEF WatchChannel, CtlTyped, Idle, Control
  <2>2. CASE ~WatchChannel(w)
    <3>1. ctl[w].pc = "machine"
      BY <2>2 DEF Machine, At, Waiting, ReadNothing, ReadMore, ReadAll,
         ReadFail, ParseHeader, ParseComing, ParseActive, Write, WriteFail,
         Renew, Closing, Connecting, Resolve, ResolveAtOnce
    <3> QED
      BY <1>3, <2>2, <3>1, MovedTypes, TypedParts
  <2> QED
    BY <2>1, <2>2
<1>6. SUFFICES /\ client' \in [Slots -> ConnClient] /\ OutcomeTyped'
               /\ conn_set' \in [Workers -> SUBSET Slots]
               /\ queries' \subseteq [worker : Workers, slot : Slots,
                                      job : Jobs \cup {NoTask, Fresh}]
               /\ open' \subseteq Fds
               /\ answered' \in [Jobs -> 0 .. 2]
  BY <1>3, <1>4, <1>5 DEF Typed, TypeOK, SlotsAtHand, ThreadsTyped, CtlTyped,
     OutcomeTyped
<1>7. ASSUME Serving(w) PROVE client' \in [Slots -> ConnClient]
  BY <1>2, <1>7 DEF Serving, Continues, Typed, TypeOK
<1>8. CASE \/ Waiting(w) \/ ReadNothing(w) \/ ReadMore(w) \/ ReadAll(w)
           \/ ReadFail(w) \/ ParseHeader(w) \/ ParseComing(w)
           \/ Write(w) \/ WriteFail(w) \/ Renew(w) \/ ResolveAtOnce(w)
  <2>1. UNCHANGED <<conn_set, queries, open, answered>>
    BY <1>8 DEF quiet, Waiting, ReadNothing, ReadMore, ReadAll, ReadFail,
       ParseHeader, ParseComing, Write, WriteFail, Renew, ResolveAtOnce
  <2>2. Serving(w) /\ OutcomeTyped'
    BY <1>8, ServingSteps
  <2> QED
    BY <1>7, <2>1, <2>2 DEF Typed, TypeOK
<1>9. CASE ParseActive(w)
  <2>1. UNCHANGED <<conn_set, queries, open>>
    BY <1>9 DEF quiet, ParseActive
  <2>2. Serving(w) /\ OutcomeTyped'
    BY <1>9, ServingSteps
  <2>3. ASSUME NEW j \in Jobs, answered[j] < 2
        PROVE  [answered EXCEPT ![j] = @ + 1] \in [Jobs -> 0 .. 2]
    <3>1. answered \in [Jobs -> 0 .. 2]
      BY DEF Typed, TypeOK
    <3>2. answered[j] + 1 \in 0 .. 2
      BY <2>3, <3>1
    <3> QED
      BY <3>1, <3>2
  <2>4. answered' \in [Jobs -> 0 .. 2]
    BY <1>9, <2>3, Zenon DEF ParseActive, Typed, TypeOK
  <2> QED
    BY <1>7, <2>1, <2>2, <2>4 DEF Typed, TypeOK
<1>10. CASE Resolve(w)
  <2>1. UNCHANGED <<conn_set, open, answered>>
    BY <1>10 DEF Resolve
  <2>2. Serving(w) /\ OutcomeTyped'
    BY <1>10, ServingSteps
  <2>3. [worker |-> Conn(w).worker_id, slot |-> c, job |-> Conn(w).task_id]
          \in [worker : Workers, slot : Slots, job : Jobs \cup {NoTask, Fresh}]
    BY <1>2 DEF ConnClient
  <2>4. queries' = queries \cup
          {[worker |-> Conn(w).worker_id, slot |-> c, job |-> Conn(w).task_id]}
    BY <1>10 DEF Resolve
  <2> QED
    BY <1>7, <2>1, <2>2, <2>3, <2>4 DEF Typed, TypeOK
<1>11. CASE Closing(w)
  <2>1. client' = [client EXCEPT ![c] = Freed(client[c])]
    BY <1>11 DEF Closing
  <2>2. Freed(client[c]) \in ConnClient
    BY <1>2, ClearedLemma DEF Freed
  <2>3. /\ conn_set' = [conn_set EXCEPT ![client[c].worker_id] = @ \ {c}]
        /\ UNCHANGED <<queries, reports, strayReport, answered>>
    BY <1>11 DEF Closing, quiet, jobs
  <2>4. open' \subseteq Fds
    BY <1>11 DEF Closing, CloseFd, Typed, TypeOK
  <2>5. client' \in [Slots -> ConnClient]
    BY <1>2, <2>1, <2>2 DEF Typed, TypeOK
  <2>6. conn_set' \in [Workers -> SUBSET Slots]
    BY <2>3 DEF Typed, TypeOK
  <2> QED
    BY <2>3, <2>4, <2>5, <2>6 DEF Typed, TypeOK, OutcomeTyped
<1>12. CASE Connecting(w)
  <2>1. UNCHANGED <<conn_set, queries, answered>>
    BY <1>12 DEF Connecting, quiet
  <2>2. \E r \in ConnClient, s \in States : SetState(c, r, s)
    <3>1. CASE FdLeft /\ \E e \in AddedEvents("W") :
                 Goto(w, [Conn(w) EXCEPT !.client_fd = NewFd, !.event = e],
                      "write")
      <4>1. NewFd \in Fds
        BY <3>1, NewFdLemma
      <4>2. \A e \in AddedEvents("W") :
              [Conn(w) EXCEPT !.client_fd = NewFd, !.event = e] \in ConnClient
        BY <1>2, <4>1 DEF ConnClient, AddedEvents
      <4> QED
        BY <3>1, <4>2 DEF Goto, States
    <3>2. CASE Goto(w, [Conn(w) EXCEPT !.client_fd = FD_BEFORE_CONNECT,
                                       !.err_no = "ERROR"], "closing")
      <4>1. [Conn(w) EXCEPT !.client_fd = FD_BEFORE_CONNECT, !.err_no = "ERROR"]
              \in ConnClient
        BY <1>2 DEF ConnClient
      <4> QED
        BY <3>2, <4>1 DEF Goto, States
    <3> QED
      BY <1>12, <3>1, <3>2 DEF Connecting
  <2>3. client' \in [Slots -> ConnClient] /\ OutcomeTyped'
    <3>1. PICK r \in ConnClient, s \in States : SetState(c, r, s)
      BY <2>2
    <3>2. [r EXCEPT !.state = s] \in ConnClient
      BY RecordChange
    <3>3. /\ client' = [client EXCEPT ![c] = [r EXCEPT !.state = s]]
          /\ OutcomeTyped'
      BY <1>2, <3>1, SetStateLemma DEF Typed
    <3> QED
      BY <1>2, <3>2, <3>3, SlotWritten DEF Typed
  <2>4. open' \subseteq Fds
    BY <1>12, NewFdLemma DEF Connecting, Typed, TypeOK
  <2> QED
    BY <2>1, <2>3, <2>4 DEF Typed, TypeOK
<1>13. CASE WatchChannel(w)
  <2>1. UNCHANGED <<conn_set, open, queries, reports, strayReport, answered>>
    BY <1>13 DEF WatchChannel, quiet, jobs
  <2>2. PICK e \in {Conn(w).worker_id, Null} :
          client' = [client EXCEPT ![c] = [client[c] EXCEPT !.ev_dns = e]]
    BY <1>13 DEF WatchChannel
  <2>3. Conn(w).worker_id \in Workers
    BY <1>2 DEF ConnClient
  <2>4. [client[c] EXCEPT !.ev_dns = e] \in ConnClient
    BY <1>2, <2>3, RecordChange
  <2>5. client' \in [Slots -> ConnClient]
    BY <1>2, <2>2, <2>4, SlotWritten DEF Typed
  <2> QED
    BY <2>1, <2>5 DEF Typed, TypeOK, OutcomeTyped
<1> QED
  BY <1>8, <1>9, <1>10, <1>11, <1>12, <1>13 DEF Machine

LEMMA LoopTyped ==
  ASSUME Typed, NEW w \in Workers, NEW c \in Slots,
         Process(w) \/ Sweeping(w) \/ Event(w, c) \/ DnsEvent(w, c)
  PROVE  Typed'
<1>0. /\ Idle \in Control
      /\ \A d \in Slots, n \in BOOLEAN :
           /\ Run(d, n) \in Control /\ Run(d, n).slot = d
  BY PoolAssumption DEF Idle, Run, Control
<1>00. ASSUME NEW d \in Slots, ctl' = [ctl EXCEPT ![w] = Run(d, FALSE)]
       PROVE  CtlTyped'
  BY <1>0, <1>00, TypedParts DEF CtlTyped
<1>1. CASE Process(w)
  <2> DEFINE h == Head(pipe[w])
             r == [client[h] EXCEPT !.worker_id = w]
  <2>1. h \in Slots /\ pipe' \in [Workers -> Seq(Slots)]
    <3>1. pipe \in [Workers -> Seq(Slots)]
      BY DEF Typed, TypeOK
    <3>2. pipe[w] # <<>> /\ pipe' = [pipe EXCEPT ![w] = Tail(@)]
      BY <1>1 DEF Process
    <3>3. pipe[w] \in Seq(Slots)
      BY <3>1
    <3>4. h \in Slots /\ Tail(pipe[w]) \in Seq(Slots)
      BY <3>2, <3>3
    <3> QED
      BY <3>1, <3>2, <3>4
  <2>2. r \in ConnClient
    <3>1. client[h] \in ConnClient
      BY <2>1 DEF Typed, TypeOK
    <3> QED
      BY <3>1, RecordChange
  <2>3. client' \in [Slots -> ConnClient] /\ CtlTyped'
    <3>1. CASE /\ UNCHANGED ctl
               /\ \E e \in IF r.client_fd # NoFd THEN AddedEvents("R")
                          ELSE {r.event} :
                    client' = [client EXCEPT ![h] =
                      [BufferInit(r, w) EXCEPT !.state = "waiting",
                                               !.event = e]]
      <4> DEFINE b == BufferInit(r, w)
      <4>1. b \in ConnClient
        BY <2>2, BufferInitLemma
      <4>2. \E e \in {"none", "R", "W"} :
              client' = [client EXCEPT ![h] =
                           [b EXCEPT !.state = "waiting", !.event = e]]
        BY <2>2, <3>1 DEF AddedEvents, ConnClient
      <4> HIDE DEF b
      <4>3. \A e \in {"none", "R", "W"} :
              [b EXCEPT !.state = "waiting", !.event = e] \in ConnClient
        BY <4>1 DEF ConnClient, States
      <4>4. client' \in [Slots -> ConnClient]
        BY <2>1, <4>2, <4>3, SlotWritten DEF Typed
      <4> QED
        BY <3>1, <4>4, TypedParts DEF CtlTyped
    <3>2. CASE /\ client' = [client EXCEPT ![h] =
                               [r EXCEPT !.state = "dns_cache"]]
               /\ ctl' = [ctl EXCEPT ![w] = Run(h, FALSE)]
      <4>1. [r EXCEPT !.state = "dns_cache"] \in ConnClient
        BY <2>2 DEF ConnClient, States
      <4> QED
        BY <1>00, <2>1, <3>2, <4>1 DEF Typed, TypeOK
    <3> QED
      BY <1>1, <3>1, <3>2 DEF Process
  <2>4. /\ UNCHANGED <<threads, sweep, queries, open, jobs>>
        /\ conn_set' \in [Workers -> SUBSET Slots]
    BY <1>1, <2>1 DEF Process, Typed, TypeOK
  <2> QED
    BY <2>1, <2>3, <2>4 DEF Typed, TypeOK, SlotsAtHand, CtlTyped, threads, jobs
<1>2. CASE Event(w, c)
  BY <1>2, <1>00 DEF Event, CtlTyped, Typed, TypeOK, SlotsAtHand, threads, jobs
<1>3. CASE DnsEvent(w, c)
  <2>1. UNCHANGED <<threads, pipe, conn_set, sweep, open, answered>>
    BY <1>3 DEF DnsEvent
  <2>2. CASE /\ client' = [client EXCEPT ![c].ev_dns = Null]
             /\ ctl' = [ctl EXCEPT ![w] = Run(c, FALSE)]
             /\ UNCHANGED <<queries, reports, strayReport>>
    <3>1. client[c] \in ConnClient
      BY DEF Typed, TypeOK
    <3>2. [client[c] EXCEPT !.ev_dns = Null] \in ConnClient
      BY <3>1, RecordChange
    <3> QED
      BY <1>00, <2>1, <2>2, <3>2 DEF CtlTyped, Typed, TypeOK, SlotsAtHand,
         threads
  <2>3. ASSUME NEW q \in queries, NEW ok \in BOOLEAN,
               queries' = queries \ {q}, DnsCallback(q.slot, ok),
               ctl' = [ctl EXCEPT ![w] = Run(q.slot, FALSE)]
        PROVE  Typed'
    <3> DEFINE r == [client[q.slot] EXCEPT !.ev_dns = Null]
    <3>1. q.slot \in Slots
      BY DEF Typed, TypeOK
    <3>2. r \in ConnClient /\ Unresolved(r) \in ConnClient
      <4>1. client[q.slot] \in ConnClient
        BY <3>1 DEF Typed, TypeOK
      <4>2. r \in ConnClient
        BY <4>1, RecordChange
      <4> QED
        BY <4>2, ContinuesLemma DEF Continues
    <3>3. \E t \in ConnClient, s \in States : SetState(q.slot, t, s)
      BY <2>3, <3>2 DEF DnsCallback, States
    <3>4. PICK t \in ConnClient, s \in States : SetState(q.slot, t, s)
      BY <3>3
    <3>5. [t EXCEPT !.state = s] \in ConnClient
      BY RecordChange
    <3>5a. /\ client' = [client EXCEPT ![q.slot] = [t EXCEPT !.state = s]]
           /\ OutcomeTyped'
      BY <3>1, <3>4, SetStateLemma DEF Typed
    <3>6. client' \in [Slots -> ConnClient] /\ OutcomeTyped'
      BY <3>1, <3>5, <3>5a, SlotWritten DEF Typed
    <3>7. CtlTyped'
      BY <1>00, <2>3, <3>1
    <3> QED
      BY <2>1, <2>3, <3>6, <3>7 DEF CtlTyped, OutcomeTyped, Typed, TypeOK,
         SlotsAtHand, threads
  <2> QED
    BY <1>3, <2>2, <2>3 DEF DnsEvent
<1>4. CASE SweepBegin(w)
  <2>1. CtlTyped'
    BY <1>4, TypedParts DEF SweepBegin, InLoop, CtlTyped, Control
  <2>2. sweep' \in [Workers -> [todo : SUBSET Slots, freed : SUBSET Slots]]
    BY <1>4 DEF SweepBegin, Typed, TypeOK
  <2> QED
    BY <1>4, <2>1, <2>2 DEF SweepBegin, CtlTyped, Typed, TypeOK, SlotsAtHand,
       threads, jobs
<1>5. CASE SweepConn(w)
  <2> DEFINE n == CHOOSE i \in sweep[w].todo : \A k \in sweep[w].todo : i <= k
             r == client[n]
  <2>1. n \in Slots /\ r \in ConnClient
    <3>1. sweep[w].todo \subseteq Slots /\ sweep[w].todo # {}
      BY <1>5 DEF SweepConn, Typed, TypeOK
    <3> QED
      BY <3>1, SweepNextLemma DEF Typed, TypeOK
  <2>2. /\ UNCHANGED <<threads, pipe, conn_set, ctl, answered>>
        /\ \/ sweep' = [sweep EXCEPT ![w].todo = @ \ {n}]
           \/ sweep' = [sweep EXCEPT ![w].todo = @ \ {n},
                                     ![w].freed = @ \cup {n}]
        /\ \/ UNCHANGED client
           \/ client' = [client EXCEPT ![n] = Freed(Expired(r))]
        /\ open' \subseteq open /\ queries' \subseteq queries
        /\ Report(r) \/ NoReport
    BY <1>5 DEF SweepConn, CloseFd, NoReport
  <2> HIDE DEF n
  <2>3. Expired(r) \in ConnClient
    <3>1. /\ [r EXCEPT !.err_no = "ERROR", !.ev_dns = Null] \in ConnClient
          /\ [r EXCEPT !.err_no = "ERROR"] \in ConnClient
          /\ [r EXCEPT !.err_no = "ERROR", !.ev_dns = @] \in ConnClient
      BY <2>1 DEF ConnClient
    <3> QED
      BY <2>1, <3>1 DEF Expired
  <2>4. Freed(Expired(r)) \in ConnClient
    BY <2>3, ClearedLemma DEF Freed
  <2>5. client' \in [Slots -> ConnClient]
    BY <2>1, <2>2, <2>4 DEF Typed, TypeOK
  <2>6. sweep' \in [Workers -> [todo : SUBSET Slots, freed : SUBSET Slots]]
    <3>1. sweep \in [Workers -> [todo : SUBSET Slots, freed : SUBSET Slots]]
      BY DEF Typed, TypeOK
    <3>2. ASSUME NEW x \in [todo : SUBSET Slots, freed : SUBSET Slots]
          PROVE  /\ [x EXCEPT !.todo = @ \ {n}]
                      \in [todo : SUBSET Slots, freed : SUBSET Slots]
                 /\ [x EXCEPT !.todo = @ \ {n}, !.freed = @ \cup {n}]
                      \in [todo : SUBSET Slots, freed : SUBSET Slots]
      BY <2>1
    <3>3. sweep[w] \in [todo : SUBSET Slots, freed : SUBSET Slots]
      BY <3>1
    <3>4. \/ sweep' = [sweep EXCEPT ![w] =
                         [sweep[w] EXCEPT !.todo = @ \ {n}]]
          \/ sweep' = [sweep EXCEPT ![w] =
               [sweep[w] EXCEPT !.todo = @ \ {n}, !.freed = @ \cup {n}]]
      BY <2>2, <3>1
    <3> QED
      BY <3>1, <3>2, <3>3, <3>4
  <2>7. OutcomeTyped'
    BY <2>1, <2>2, ReportLemma DEF Typed
  <2> QED
    BY <2>2, <2>5, <2>6, <2>7 DEF OutcomeTyped, Typed, TypeOK, SlotsAtHand,
       threads
<1>6. CASE SweepEnd(w)
  <2>1. CtlTyped'
    BY <1>0, <1>6, TypedParts DEF SweepEnd, CtlTyped, Idle
  <2>2. sweep' \in [Workers -> [todo : SUBSET Slots, freed : SUBSET Slots]]
    BY <1>6 DEF SweepEnd, NoSweep, Typed, TypeOK
  <2>3. conn_set' \in [Workers -> SUBSET Slots]
    BY <1>6 DEF SweepEnd, Remaining, Typed, TypeOK
  <2> QED
    BY <1>6, <2>1, <2>2, <2>3 DEF SweepEnd, CtlTyped, Typed, TypeOK,
       SlotsAtHand, threads, jobs
<1> QED
  BY <1>1, <1>2, <1>3, <1>4, <1>5, <1>6 DEF Sweeping

(* The types, and that whoever is under way with a slot has one: nothing   *)
(* of the environment is ruled out.                                        *)
THEOREM PoolTyped == Spec => []Typed
<1>1. Typed /\ [Next]_vars => Typed'
  <2> SUFFICES ASSUME Typed, [Next]_vars PROVE Typed'
    OBVIOUS
  <2>1. CASE UNCHANGED vars
    BY <2>1 DEF vars, Typed, TypeOK, SlotsAtHand
  <2>2. ASSUME NEW c \in Slots, Age(c)
        PROVE  Typed'
    <3>1. client[c] \in ConnClient
      BY DEF Typed, TypeOK
    <3>2. [client[c] EXCEPT !.conn_time = "old"] \in ConnClient
      BY <3>1, RecordChange
    <3> QED
      BY <2>2, <3>2 DEF Age, Typed, TypeOK, SlotsAtHand, threads, jobs
  <2>3. ASSUME NEW q \in queries, QueryLost(q)
        PROVE  Typed'
    BY <2>3 DEF QueryLost, Typed, TypeOK, SlotsAtHand, threads, jobs
  <2>4. 0 \in Slots
    BY PoolAssumption DEF Slots
  <2> QED
    BY <2>1, <2>2, <2>3, <2>4, ListeningTyped, CallingTyped, MachineTyped,
       LoopTyped DEF Next
<1> QED
  BY <1>1, InitTyped, PTL DEF Spec

(* Every variable keeps its type, whatever peers, name servers and the     *)
(* system do and however many slots, workers and jobs there are.           *)
THEOREM PoolTypeOK == Spec => []TypeOK
<1>1. Typed => TypeOK
  BY DEF Typed
<1> QED
  BY <1>1, PoolTyped, PTL
=============================================================================
