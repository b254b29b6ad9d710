------------------------------ MODULE ConnPool ------------------------------
(***************************************************************************)
(* The connection pool of gko_pool: the table of conn_client slots, the    *)
(* listener that accepts connections, the threads that call                *)
(* make_active_connect, the worker threads with their notify pipes, their  *)
(* libevent loops, the per-connection state machine, asynchronous name     *)
(* resolution, and the timer that sweeps out silent connections.           *)
(*                                                                         *)
(* A slot passes from thread to thread without a lock: a worker gives it   *)
(* up by storing 0 into conn_time, find_free takes it under                *)
(* conn_list_lock, a pipe carries its index to a worker.  An action is the *)
(* code one thread runs between two points at which another thread can     *)
(* see what it did.                                                        *)
(***************************************************************************)
EXTENDS Integers, Sequences, FiniteSets

CONSTANTS
  ConnLimit,    (* option->connlimit: the number of slots                  *)
  WorkerThread, (* option->worker_thread: the number of workers            *)
  PipeCap,      (* indices a notify pipe holds before write() blocks       *)
  Fds,          (* the descriptors the process may have open               *)
  Peers,        (* how many peers will connect to the listening socket, a  *)
                (* bound                                                   *)
  Jobs,         (* task ids given to make_active_connect, each one once    *)
  NReqs,        (* commands one run of the machine serves (nreqs, 3)       *)
  MaxPartial,   (* partial reads of one header or body, a bound            *)
  IsServer,     (* g_server exists: gko_run was called with port >= 0      *)
  Env           (* what the environment of this instance may do            *)

EnvKinds == {"bad_header",   \* a peer sends a malformed header
             "large_body",   \* a message outgrows the read buffer
             "literal_ip",   \* a host name resolves inside ares_gethostbyname
             "bad_name",     \* a host name is refused there
             "full_socket",  \* a reply finds no room at all in the socket
             "late_dns",     \* a name is answered after its sweep
             "no_socket",    \* socket() fails
             "no_block",     \* get_block fails in conn_renew
             "sys_error"}    \* fcntl, event_add or a large malloc fails

ASSUME PoolAssumption ==
  /\ ConnLimit \in Nat \ {0} /\ WorkerThread \in Nat \ {0}
  /\ PipeCap \in Nat \ {0}
  /\ Fds \subseteq Nat \ {0}
  /\ Jobs \subseteq Nat \ {0}
  /\ Peers \in Nat /\ NReqs \in Nat /\ MaxPartial \in Nat
  /\ IsServer \in BOOLEAN
  /\ Env \subseteq EnvKinds

Slots   == 0 .. ConnLimit - 1
Workers == 0 .. WorkerThread - 1

NoSlot == -1
NoFd   == 0             \* conn_client_clear: client_fd = 0
FD_BEFORE_CONNECT == -1
NoTask == -1            \* make_active_connect's default task id
Fresh  == 0             \* the task id of a slot straight from memset
Null   == -1            \* a buffer or a DNS event list that is not there
Heap   == -2            \* a read buffer that outgrew its block

States == {"nouse", "waiting", "read", "parse_header", "parse_cmd", "write",
           "renew", "closing", "connecting", "dns_cache", "resolving"}

(***************************************************************************)
(* conn_time is the age of the last sign of life: "zero" marks a free      *)
(* slot, "old" one silent for more than NET_TIMEOUT.  A buffer is the      *)
(* number of the worker whose arena its block came from.  body says that   *)
(* need_read is past the header, partial counts the reads of this part.    *)
(***************************************************************************)
ConnClient ==
  [conn_time    : {"zero", "recent", "old"},
   client_fd    : Fds \cup {NoFd, FD_BEFORE_CONNECT},
   state        : States,
   type         : {"coming", "active"},
   task_id      : Jobs \cup {NoTask, Fresh},
   err_no       : {"SUCC", "INVILID", "ERROR"},
   ev_flags     : {"none", "R", "W"},
   event        : {"none", "R", "W"},
   worker_id    : Workers,
   read_buffer  : Workers \cup {Null, Heap},
   write_buffer : Workers \cup {Null},
   body         : BOOLEAN,
   partial      : 0 .. MaxPartial,
   ev_dns       : Workers \cup {Null}]

VARIABLES
  client,       (* g_client_list: the slots                                *)
  g_curr_conn,  (* the slot find_free handed out last                      *)
  g_curr_thread,(* the worker thread_list_find_next chose last             *)
  backlog,      (* peers not accepted yet                                  *)
  listener,     (* where the accepting thread is, and what it holds        *)
  caller,       (* the same of the thread that starts each job             *)
  pipe,         (* each worker's notify pipe                               *)
  conn_set,     (* each worker's set of connections                        *)
  ctl,          (* what each worker is running                             *)
  sweep,        (* each worker's pass of clean_conn_timeout                *)
  queries,      (* name queries in the workers' c-ares channels            *)
  open,         (* descriptors open in the process                         *)
  reports,      (* reportHandler calls for each job, counted up to 2       *)
  strayReport,  (* a coming connection has called it for a job              *)
  answered      (* replies handed to on_data_callback per job, up to 2     *)

vars == <<client, g_curr_conn, g_curr_thread, backlog, listener, caller, pipe,
          conn_set, ctl, sweep, queries, open, reports, strayReport, answered>>

-----------------------------------------------------------------------------
(* Wrong on purpose.  Each of these is a definition below with a bug that  *)
(* could be made in its code; put in its place it must break a property.   *)

(* find_free that goes on from the last slot and forgets conn_time         *)
NextFreeBlind == (g_curr_conn + 1) % ConnLimit

(* thread_list_find_next that does not wrap                                *)
NextWorkerUnbounded == g_curr_thread + 1

(* conn_client_clear without the deletion of the event                     *)
ClearedKeepsEvent(r) ==
  [r EXCEPT !.client_fd = NoFd, !.err_no = "SUCC",
            !.read_buffer = Null, !.write_buffer = Null,
            !.body = FALSE, !.partial = 0,
            !.ev_dns = Null, !.conn_time = "zero"]

(* conn_client_clear that does not give the read buffer back               *)
ClearedKeepsBuffer(r) ==
  [r EXCEPT !.client_fd = NoFd, !.err_no = "SUCC",
            !.write_buffer = Null, !.body = FALSE, !.partial = 0,
            !.event = "none", !.ev_dns = Null, !.conn_time = "zero"]

(* conn_renew that takes its blocks from the arena of the first worker     *)
RenewedElsewhere(r, read, write) ==
  [r EXCEPT !.conn_time = "recent", !.err_no = "SUCC", !.task_id = NoTask,
            !.read_buffer = 0, !.write_buffer = 0,
            !.body = FALSE, !.partial = 0]

(* conn_client_free without close()                                        *)
CloseFdNot(r) == open

(* clean_conn_timeout without its last loop                                *)
RemainingAll(w) == conn_set[w]

(* clean_conn_timeout that does not know conn_resolving                    *)
SweepableNoDns(r) ==
  r.state \in IF r.type = "coming" THEN {"waiting", "read", "write"}
              ELSE {"read", "write", "connecting"}

(* conn_set_state that reports err_no = INVILID as well                    *)
MustReportAlways(r, s) ==
  s = "closing" /\ r.state # "closing" /\ r.task_id # NoTask

(* dns_callback that fails without setting err_no                          *)
UnresolvedSilently(r) == r

-----------------------------------------------------------------------------
(* Slots.                                                                  *)

(* memset to 0 of a slot that was never used                               *)
EmptyClient ==
  [conn_time |-> "zero", client_fd |-> NoFd, state |-> "nouse",
   type |-> "coming", task_id |-> Fresh, err_no |-> "SUCC",
   ev_flags |-> "none", event |-> "none", worker_id |-> 0,
   read_buffer |-> Null, write_buffer |-> Null, body |-> FALSE,
   partial |-> 0, ev_dns |-> Null]

(* conn_client_clear: what it resets, and all it leaves in the slot: the   *)
(* state, the type, the task ids, ev_flags and worker_id                   *)
Cleared(r) ==
  [r EXCEPT !.client_fd = NoFd, !.err_no = "SUCC",
            !.read_buffer = Null, !.write_buffer = Null,
            !.body = FALSE, !.partial = 0,
            !.event = "none", !.ev_dns = Null, !.conn_time = "zero"]

(* conn_buffer_init: two blocks of the arena of worker w.  It asserts that *)
(* it got them.                                                            *)
BufferInit(r, w) ==
  [r EXCEPT !.err_no = "INVILID", !.read_buffer = w, !.write_buffer = w,
            !.body = FALSE, !.partial = 0]

(* What get_block and id2addr give conn_renew: a block of worker w or NULL *)
Blocks(w) == {w} \cup IF "no_block" \in Env THEN {Null} ELSE {}

(* conn_renew: both buffers go back, and what it is given for them is      *)
(* taken as it comes                                                       *)
Renewed(r, read, write) ==
  [r EXCEPT !.conn_time = "recent", !.err_no = "SUCC", !.task_id = NoTask,
            !.read_buffer = read, !.write_buffer = write,
            !.body = FALSE, !.partial = 0]

(* update_event: nothing when ev_flags already says so                     *)
UpdateEvent(r, flags) ==
  IF r.ev_flags = flags THEN r
  ELSE [r EXCEPT !.event = flags, !.ev_flags = flags]

UpdateEventFailed(r, flags) ==
  [r EXCEPT !.event = "none", !.ev_flags = flags]

FreeSlots == {c \in Slots : client[c].conn_time = "zero"}

(* conn_client_list_find_free: round robin from the slot after the last    *)
NextFree ==
  LET At(i) == (i + g_curr_conn + 1) % ConnLimit
      first == CHOOSE i \in Slots :
                 /\ At(i) \in FreeSlots
                 /\ \A k \in Slots : At(k) \in FreeSlots => i <= k
  IN  At(first)

(* thread_list_find_next: every worker runs, so it is the one after the    *)
(* last                                                                    *)
NextWorker == (g_curr_thread + 1) % WorkerThread

(* socket and accept return the lowest descriptor that is not open         *)
NewFd == CHOOSE f \in Fds \ open : \A g \in Fds \ open : f <= g

FdLeft == Fds \ open # {}

(* conn_client_free: does nothing to a slot whose client_fd is 0, and      *)
(* closes the descriptor of any other                                      *)
Freed(r) == IF r.client_fd = NoFd THEN r ELSE Cleared(r)

CloseFd(r) == open \ {r.client_fd}

(* reportHandler called for a connection                                   *)
Report(r) ==
  /\ reports' = IF r.type = "active" /\ r.task_id \in Jobs
                   /\ reports[r.task_id] < 2
                THEN [reports EXCEPT ![r.task_id] = @ + 1] ELSE reports
  /\ strayReport' = (strayReport \/ (r.type = "coming" /\ r.task_id \in Jobs))

NoReport == UNCHANGED <<reports, strayReport>>

-----------------------------------------------------------------------------
Idle == [pc |-> "loop", slot |-> NoSlot, nested |-> FALSE, nreqs |-> 0]

NoSweep == [todo |-> {}, freed |-> {}]

Init ==
  /\ client = [c \in Slots |-> EmptyClient]
  /\ g_curr_conn = 0
  /\ g_curr_thread = 0
  /\ backlog = IF IsServer THEN Peers ELSE 0
  /\ listener = [pc |-> "idle", slot |-> NoSlot, fd |-> NoFd, worker |-> 0]
  /\ caller = [j \in Jobs |-> [pc |-> "idle", slot |-> NoSlot, worker |-> 0]]
  /\ pipe = [w \in Workers |-> <<>>]
  /\ conn_set = [w \in Workers |-> {}]
  /\ ctl = [w \in Workers |-> Idle]
  /\ sweep = [w \in Workers |-> NoSweep]
  /\ queries = {}
  /\ open = {}
  /\ reports = [j \in Jobs |-> 0]
  /\ strayReport = FALSE
  /\ answered = [j \in Jobs |-> 0]

-----------------------------------------------------------------------------
(* The thread that accepts.                                                *)

pool == <<g_curr_conn, backlog, open, queries>>
jobs == <<reports, strayReport, answered>>

(* The slot find_free returns: cleared once more, then marked as used      *)
Taken(c) == [Cleared(client[c]) EXCEPT !.conn_time = "recent"]

(* conn_tcp_server_accept up to the end of find_free                       *)
Accept ==
  /\ listener.pc = "idle" /\ backlog > 0
  /\ backlog' = backlog - 1
  /\ FdLeft /\ FreeSlots # {}
  /\ open' = open \cup {NewFd}
  /\ g_curr_conn' = NextFree
  /\ client' = [client EXCEPT ![NextFree] = Taken(NextFree)]
  /\ listener' = [listener EXCEPT !.pc = "filling", !.slot = NextFree,
                                  !.fd = NewFd]
  /\ UNCHANGED <<g_curr_thread, caller, pipe, conn_set, ctl, sweep, queries,
                 jobs>>

(* "Server limited": no free slot, the new descriptor is closed again      *)
AcceptRefuse ==
  /\ listener.pc = "idle" /\ backlog > 0
  /\ FdLeft /\ FreeSlots = {}
  /\ backlog' = backlog - 1
  /\ UNCHANGED <<client, g_curr_conn, g_curr_thread, listener, caller, pipe,
                 conn_set, ctl, sweep, queries, open, jobs>>

(* The rest of add_new_conn_client, the slot's fields, the next worker     *)
AcceptFill ==
  /\ listener.pc = "filling"
  /\ client' = [client EXCEPT ![listener.slot].client_fd = listener.fd,
                              ![listener.slot].type = "coming"]
  /\ g_curr_thread' = NextWorker
  /\ listener' = [listener EXCEPT !.pc = "dispatch", !.worker = NextWorker]
  /\ UNCHANGED <<caller, pipe, conn_set, ctl, sweep, pool, jobs>>

ListenerIdle == [listener EXCEPT !.pc = "idle", !.slot = NoSlot, !.fd = NoFd]

(* setnonblock failed: conn_client_free                                    *)
AcceptFail ==
  /\ listener.pc = "filling" /\ "sys_error" \in Env
  /\ client' = [client EXCEPT ![listener.slot] = Cleared(@)]
  /\ open' = CloseFd([client_fd |-> listener.fd])
  /\ listener' = ListenerIdle
  /\ UNCHANGED <<g_curr_conn, g_curr_thread, backlog, caller, pipe, conn_set,
                 ctl, sweep, queries, jobs>>

(* thread_worker_dispatch: a write that blocks while the pipe is full      *)
AcceptDispatch ==
  /\ listener.pc = "dispatch"
  /\ Len(pipe[listener.worker]) < PipeCap
  /\ pipe' = [pipe EXCEPT ![listener.worker] = Append(@, listener.slot)]
  /\ listener' = ListenerIdle
  /\ UNCHANGED <<client, g_curr_thread, caller, conn_set, ctl, sweep, pool,
                 jobs>>

-----------------------------------------------------------------------------
(* A thread in make_active_connect.                                        *)

Connect(j) ==
  /\ caller[j].pc = "idle" /\ FreeSlots # {}
  /\ g_curr_conn' = NextFree
  /\ client' = [client EXCEPT ![NextFree] = Taken(NextFree)]
  /\ caller' = [caller EXCEPT ![j].pc = "filling", ![j].slot = NextFree]
  /\ UNCHANGED <<g_curr_thread, backlog, listener, pipe, conn_set, ctl, sweep,
                 open, queries, jobs>>

(* No free slot: SERVER_INTERNAL_ERROR                                     *)
ConnectRefused(j) ==
  /\ caller[j].pc = "idle" /\ FreeSlots = {}
  /\ caller' = [caller EXCEPT ![j].pc = "refused"]
  /\ UNCHANGED <<client, g_curr_thread, listener, pipe, conn_set, ctl, sweep,
                 pool, jobs>>

ConnectFill(j) ==
  LET c == caller[j].slot
  IN  /\ caller[j].pc = "filling"
      /\ g_curr_thread' = NextWorker
      /\ client' = [client EXCEPT ![c] =
           [BufferInit(@, NextWorker) EXCEPT
              !.client_fd = FD_BEFORE_CONNECT, !.worker_id = NextWorker,
              !.type = "active", !.task_id = j]]
      /\ caller' = [caller EXCEPT ![j].pc = "dispatch",
                                  ![j].worker = NextWorker]
      /\ UNCHANGED <<listener, pipe, conn_set, ctl, sweep, pool, jobs>>

ConnectDispatch(j) ==
  LET w == caller[j].worker
  IN  /\ caller[j].pc = "dispatch"
      /\ Len(pipe[w]) < PipeCap
      /\ pipe' = [pipe EXCEPT ![w] = Append(@, caller[j].slot)]
      /\ caller' = [caller EXCEPT ![j].pc = "accepted", ![j].slot = NoSlot]
      /\ UNCHANGED <<client, g_curr_thread, listener, conn_set, ctl, sweep,
                     pool, jobs>>

-----------------------------------------------------------------------------
(* The event loop of worker w.                                             *)

threads == <<g_curr_conn, g_curr_thread, backlog, listener, caller>>

Run(c, nested) ==
  [pc |-> "machine", slot |-> c, nested |-> nested, nreqs |-> NReqs]

InLoop(w) == ctl[w].pc = "loop"

(* event_add fails only for want of memory; the code logs it and goes on   *)
AddedEvents(flags) ==
  {flags} \cup IF "sys_error" \in Env THEN {"none"} ELSE {}

(* thread_worker_process: one index read from the pipe.  A coming          *)
(* connection waits for its first bytes, an active one enters the machine. *)
Process(w) ==
  LET c == Head(pipe[w])
      r == [client[c] EXCEPT !.worker_id = w]
  IN  /\ InLoop(w) /\ pipe[w] # <<>>
      /\ pipe' = [pipe EXCEPT ![w] = Tail(@)]
      /\ conn_set' = [conn_set EXCEPT ![w] = @ \cup {c}]
      /\ \/ /\ r.type = "coming"
            /\ \E e \in IF r.client_fd # NoFd THEN AddedEvents("R")
                       ELSE {r.event} :
                 client' = [client EXCEPT ![c] =
                   [BufferInit(r, w) EXCEPT !.state = "waiting", !.event = e]]
            /\ UNCHANGED ctl
         \/ /\ r.type = "active"
            /\ client' = [client EXCEPT ![c] =
                            [r EXCEPT !.state = "dns_cache"]]
            /\ ctl' = [ctl EXCEPT ![w] = Run(c, FALSE)]
      /\ UNCHANGED <<threads, sweep, queries, open, jobs>>

(* worker_event_handler: the descriptor of c is ready.  A readable one is  *)
(* ready only when its peer has sent, which the result of aread shows.     *)
Event(w, c) ==
  /\ InLoop(w)
  /\ client[c].worker_id = w /\ client[c].event # "none"
  /\ ctl' = [ctl EXCEPT ![w] = Run(c, FALSE)]
  /\ UNCHANGED <<client, threads, pipe, conn_set, sweep, queries, open, jobs>>

(* More than NET_TIMEOUT passes since the last sign of life of c           *)
Age(c) ==
  /\ client[c].conn_time = "recent"
  /\ client' = [client EXCEPT ![c].conn_time = "old"]
  /\ UNCHANGED <<threads, pipe, conn_set, ctl, sweep, queries, open, jobs>>

-----------------------------------------------------------------------------
(* clean_handler and clean_conn_timeout, run by worker w's timer.          *)

SweepBegin(w) ==
  /\ InLoop(w)
  /\ ctl' = [ctl EXCEPT ![w].pc = "sweep"]
  /\ sweep' = [sweep EXCEPT ![w].todo = conn_set[w]]
  /\ UNCHANGED <<client, threads, pipe, conn_set, queries, open, jobs>>

(* The states the sweep knows what to do with                              *)
Sweepable(r) ==
  r.state \in IF r.type = "coming" THEN {"waiting", "read", "write"}
              ELSE {"read", "write", "connecting", "resolving"}

Expired(r) ==
  IF r.type = "coming" THEN r
  ELSE [r EXCEPT !.err_no = "ERROR",
                 !.ev_dns = IF r.state = "resolving" THEN Null ELSE @]

(* One connection of the set, in the order of std::set.  A silent one is   *)
(* reported if it is active, and freed; its index stays in conn_set.  Its  *)
(* name query is not cancelled; without late_dns it is never answered.     *)
SweepConn(w) ==
  LET c == CHOOSE i \in sweep[w].todo : \A k \in sweep[w].todo : i <= k
      r == client[c]
      expired == r.conn_time = "old" /\ Sweepable(r)
  IN  /\ ctl[w].pc = "sweep" /\ sweep[w].todo # {}
      /\ \/ /\ ~expired
            /\ sweep' = [sweep EXCEPT ![w].todo = @ \ {c}]
            /\ UNCHANGED <<client, open, queries, reports, strayReport>>
         \/ /\ expired
            /\ sweep' = [sweep EXCEPT ![w].todo = @ \ {c},
                                      ![w].freed = @ \cup {c}]
            /\ client' = [client EXCEPT ![c] = Freed(Expired(r))]
            /\ open' = CloseFd(r)
            /\ queries' = IF "late_dns" \in Env THEN queries
                          ELSE {q \in queries : q.slot # c}
            /\ IF r.type = "active" THEN Report(r) ELSE NoReport
      /\ UNCHANGED <<threads, pipe, conn_set, ctl, answered>>

(* del_conn for what was freed, after the loop                             *)
Remaining(w) == conn_set[w] \ sweep[w].freed

SweepEnd(w) ==
  /\ ctl[w].pc = "sweep" /\ sweep[w].todo = {}
  /\ conn_set' = [conn_set EXCEPT ![w] = Remaining(w)]
  /\ sweep' = [sweep EXCEPT ![w] = NoSweep]
  /\ ctl' = [ctl EXCEPT ![w] = Idle]
  /\ UNCHANGED <<client, threads, pipe, queries, open, jobs>>

-----------------------------------------------------------------------------
(* state_machine, run by worker w on the slot of ctl[w]: one action per    *)
(* case of its switch.                                                     *)

Conn(w) == client[ctl[w].slot]

At(w, s) == ctl[w].pc = "machine" /\ Conn(w).state = s

quiet == <<threads, pipe, sweep, queries>>

(* conn_set_state: entering conn_closing reports a task, unless err_no is  *)
(* INVILID                                                                 *)
MustReport(r, s) ==
  /\ s = "closing" /\ r.state # "closing"
  /\ r.task_id # NoTask /\ r.err_no # "INVILID"

SetState(c, r, s) ==
  /\ client' = [client EXCEPT ![c] = [r EXCEPT !.state = s]]
  /\ IF MustReport(r, s) THEN Report(r) ELSE NoReport

Goto(w, r, s) == SetState(ctl[w].slot, r, s)

GoOn == UNCHANGED ctl

(* stop = true: back to the loop, or into nb_gethostbyname if the machine  *)
(* was run by a callback that ares_gethostbyname made                      *)
Stop(w) ==
  ctl' = [ctl EXCEPT ![w] = IF @.nested THEN [@ EXCEPT !.pc = "fds"]
                            ELSE Idle]

Waiting(w) ==
  /\ At(w, "waiting")
  /\ \/ /\ Goto(w, UpdateEvent(Conn(w), "R"), "read")
        /\ Stop(w)
     \/ /\ "sys_error" \in Env /\ Conn(w).ev_flags # "R"
        /\ Goto(w, [UpdateEventFailed(Conn(w), "R") EXCEPT !.err_no = "ERROR"],
                "closing")
        /\ GoOn
  /\ UNCHANGED <<quiet, conn_set, open, answered>>

ReadNothing(w) ==
  /\ At(w, "read")
  /\ Goto(w, Conn(w), "waiting")
  /\ GoOn
  /\ UNCHANGED <<quiet, conn_set, open, answered>>

(* A body may outgrow the block: aread then moves it to the heap and gives *)
(* the block back                                                          *)
Grown(r) ==
  {r} \cup IF r.body /\ "large_body" \in Env
          THEN {[r EXCEPT !.read_buffer = Heap]} ELSE {}

(* Bytes have come.  Without a buffer read() makes EFAULT of them instead. *)
ReadMore(w) ==
  /\ At(w, "read") /\ Conn(w).read_buffer # Null
  /\ Conn(w).partial < MaxPartial
  /\ \E r \in Grown(Conn(w)) :
       Goto(w, [r EXCEPT !.conn_time = "recent", !.partial = @ + 1], "read")
  /\ GoOn
  /\ UNCHANGED <<quiet, conn_set, open, answered>>

(* The header, or the body, is complete                                    *)
ReadAll(w) ==
  /\ At(w, "read") /\ Conn(w).read_buffer # Null
  /\ \E r \in Grown(Conn(w)) :
       Goto(w, [r EXCEPT !.partial = 0],
            IF r.body THEN "parse_cmd" ELSE "parse_header")
  /\ GoOn
  /\ UNCHANGED <<quiet, conn_set, open, answered>>

(* READ_ERROR names an error only for an active connection,                *)
(* READ_MEMORY_ERROR for both                                              *)
ReadFail(w) ==
  /\ At(w, "read")
  /\ \/ Goto(w, [Conn(w) EXCEPT !.err_no = IF Conn(w).type = "active"
                                           THEN "ERROR" ELSE @], "closing")
     \/ /\ Conn(w).body /\ "large_body" \in Env
        /\ Goto(w, [Conn(w) EXCEPT !.err_no = "ERROR"], "closing")
  /\ GoOn
  /\ UNCHANGED <<quiet, conn_set, open, answered>>

ParseHeader(w) ==
  /\ At(w, "parse_header")
  /\ \/ Goto(w, [Conn(w) EXCEPT !.body = TRUE], "read")
     \/ /\ "bad_header" \in Env
        /\ Goto(w, [Conn(w) EXCEPT !.err_no = "ERROR"], "closing")
  /\ GoOn
  /\ UNCHANGED <<quiet, conn_set, open, answered>>

(* A complete command of a coming connection: the reply is ready, the      *)
(* machine goes on until it has served NReqs + 1 of them                   *)
ParseComing(w) ==
  LET r == [Conn(w) EXCEPT !.conn_time = "recent"]
  IN  /\ At(w, "parse_cmd") /\ r.type = "coming"
      /\ \/ /\ Goto(w, UpdateEvent(r, "W"), "write")
            /\ IF ctl[w].nreqs = 0 THEN Stop(w)
               ELSE ctl' = [ctl EXCEPT ![w].nreqs = @ - 1]
         \/ /\ "sys_error" \in Env /\ r.ev_flags # "W"
            /\ Goto(w, [UpdateEventFailed(r, "W") EXCEPT !.err_no = "ERROR"],
                    "closing")
            /\ GoOn
      /\ UNCHANGED <<quiet, conn_set, open, answered>>

(* The reply to a job, handed to on_data_callback if there is a g_server   *)
ParseActive(w) ==
  LET j == Conn(w).task_id
  IN  /\ At(w, "parse_cmd") /\ Conn(w).type = "active"
      /\ Goto(w, [Conn(w) EXCEPT !.err_no = "INVILID"], "closing")
      /\ answered' = IF IsServer /\ j \in Jobs /\ answered[j] < 2
                     THEN [answered EXCEPT ![j] = @ + 1] ELSE answered
      /\ GoOn
      /\ UNCHANGED <<quiet, conn_set, open>>

Write(w) ==
  /\ At(w, "write") /\ Conn(w).write_buffer # Null
  /\ \/ \* WRITE_DATA_SENT
        /\ IF Conn(w).type = "coming" THEN Goto(w, Conn(w), "renew")
           ELSE Goto(w, [Conn(w) EXCEPT !.conn_time = "recent"], "read")
        /\ GoOn
     \/ \* WRITE_SENT_MORE: some of it was sent, the socket is full
        /\ Goto(w, Conn(w), "write")
        /\ Stop(w)
  /\ UNCHANGED <<quiet, conn_set, open, answered>>

(* WRITE_ERROR names an error only for an active connection; no write      *)
(* buffer, and WRITE_NO_DATA_SENT, for both                                *)
WriteFail(w) ==
  /\ At(w, "write")
  /\ \/ /\ Conn(w).write_buffer # Null
        /\ Goto(w, [Conn(w) EXCEPT !.err_no = IF Conn(w).type = "active"
                                              THEN "ERROR" ELSE @],
                "closing")
     \/ /\ Conn(w).write_buffer = Null \/ "full_socket" \in Env
        /\ Goto(w, [Conn(w) EXCEPT !.err_no = "ERROR"], "closing")
  /\ GoOn
  /\ UNCHANGED <<quiet, conn_set, open, answered>>

Renew(w) ==
  /\ At(w, "renew")
  /\ \E read, write \in Blocks(Conn(w).worker_id) :
       Goto(w, Renewed(Conn(w), read, write), "waiting")
  /\ GoOn
  /\ UNCHANGED <<quiet, conn_set, open, answered>>

(* del_conn, then conn_client_free: the slot is free when conn_time is 0   *)
Closing(w) ==
  LET c == ctl[w].slot
      r == client[c]
  IN  /\ At(w, "closing")
      /\ conn_set' = [conn_set EXCEPT ![r.worker_id] = @ \ {c}]
      /\ client' = [client EXCEPT ![c] = Freed(r)]
      /\ open' = CloseFd(r)
      /\ Stop(w)
      /\ UNCHANGED <<quiet, jobs>>

(* nb_connect.  An error other than EINPROGRESS is only logged: the first  *)
(* send finds it.                                                          *)
Connecting(w) ==
  /\ At(w, "connecting")
  /\ \/ /\ FdLeft
        /\ open' = open \cup {NewFd}
        /\ \E e \in AddedEvents("W") :
             Goto(w, [Conn(w) EXCEPT !.client_fd = NewFd, !.event = e],
                  "write")
        /\ Stop(w)
     \/ /\ "no_socket" \in Env
        /\ Goto(w, [Conn(w) EXCEPT !.client_fd = FD_BEFORE_CONNECT,
                                   !.err_no = "ERROR"], "closing")
        /\ GoOn
        /\ UNCHANGED open
  /\ UNCHANGED <<quiet, conn_set, answered>>

-----------------------------------------------------------------------------
(* Name resolution.  DNS_EXPIRE_TIME is -1, so the cache always misses and *)
(* conn_dns_cache falls through to conn_resolving.                         *)

Unresolved(r) == [r EXCEPT !.err_no = "ERROR"]

(* dns_callback up to its call of state_machine                            *)
DnsCallback(c, ok) ==
  LET r == [client[c] EXCEPT !.ev_dns = Null]
  IN  IF ok THEN SetState(c, r, "connecting")
      ELSE SetState(c, Unresolved(r), "closing")

(* nb_gethostbyname: the query is sent and its sockets are watched         *)
Resolve(w) ==
  LET c == ctl[w].slot
      h == Conn(w).worker_id
  IN  /\ At(w, "dns_cache")
      /\ queries' = queries \cup
           {[worker |-> h, slot |-> c, job |-> Conn(w).task_id]}
      /\ Goto(w, [Conn(w) EXCEPT !.ev_dns = h], "resolving")
      /\ Stop(w)
      /\ UNCHANGED <<threads, pipe, sweep, conn_set, open, answered>>

(* The same when ares_gethostbyname itself calls dns_callback              *)
ResolveAtOnce(w) ==
  /\ At(w, "dns_cache")
  /\ \/ "literal_ip" \in Env /\ DnsCallback(ctl[w].slot, TRUE)
     \/ "bad_name" \in Env /\ DnsCallback(ctl[w].slot, FALSE)
  /\ ctl' = [ctl EXCEPT ![w] = Run(@.slot, TRUE)]
  /\ UNCHANGED <<quiet, conn_set, open, answered>>

(* The rest of nb_gethostbyname: every socket of the worker's channel is   *)
(* watched for this connection, whoever's query it carries                 *)
WatchChannel(w) ==
  LET h == Conn(w).worker_id
  IN  /\ ctl[w].pc = "fds"
      /\ client' = [client EXCEPT ![ctl[w].slot].ev_dns =
                      IF \E q \in queries : q.worker = h THEN h ELSE Null]
      /\ ctl' = [ctl EXCEPT ![w] = Idle]
      /\ UNCHANGED <<quiet, conn_set, open, jobs>>

(* dns_ev_callback for the events of c: c-ares reads the socket and calls  *)
(* back for the query q it finds an answer to, which need not be c's.  A   *)
(* connection in conn_closing is closed first.                             *)
DnsEvent(w, c) ==
  /\ InLoop(w) /\ client[c].ev_dns = w
  /\ IF client[c].state = "closing"
     THEN /\ client' = [client EXCEPT ![c].ev_dns = Null]
          /\ ctl' = [ctl EXCEPT ![w] = Run(c, FALSE)]
          /\ UNCHANGED <<queries, reports, strayReport>>
     ELSE \E q \in queries, ok \in BOOLEAN :
          /\ q.worker = w
          /\ queries' = queries \ {q}
          /\ DnsCallback(q.slot, ok)
          /\ ctl' = [ctl EXCEPT ![w] = Run(q.slot, FALSE)]
  /\ UNCHANGED <<threads, pipe, conn_set, sweep, open, answered>>

(* No answer comes and nothing wakes the channel again                     *)
QueryLost(q) ==
  /\ queries' = queries \ {q}
  /\ UNCHANGED <<client, threads, pipe, conn_set, ctl, sweep, open, jobs>>

-----------------------------------------------------------------------------
Machine(w) ==
  \/ Waiting(w) \/ ReadNothing(w) \/ ReadMore(w) \/ ReadAll(w) \/ ReadFail(w)
  \/ ParseHeader(w) \/ ParseComing(w) \/ ParseActive(w)
  \/ Write(w) \/ WriteFail(w) \/ Renew(w) \/ Closing(w)
  \/ Connecting(w) \/ Resolve(w) \/ ResolveAtOnce(w) \/ WatchChannel(w)

Sweeping(w) == SweepBegin(w) \/ SweepConn(w) \/ SweepEnd(w)

Listening == Accept \/ AcceptRefuse \/ AcceptFill \/ AcceptFail \/ AcceptDispatch

Calling(j) == Connect(j) \/ ConnectRefused(j) \/ ConnectFill(j)
              \/ ConnectDispatch(j)

Next ==
  \/ Listening
  \/ \E j \in Jobs : Calling(j)
  \/ \E w \in Workers : Process(w) \/ Machine(w) \/ Sweeping(w)
  \/ \E w \in Workers, c \in Slots : Event(w, c) \/ DnsEvent(w, c)
  \/ \E q \in queries : QueryLost(q)
  \/ \E c \in Slots : Age(c)

Spec == Init /\ [][Next]_vars

-----------------------------------------------------------------------------
(* What is promised.                                                       *)

Control == [pc : {"loop", "machine", "fds", "sweep"},
            slot : Slots \cup {NoSlot}, nested : BOOLEAN, nreqs : 0 .. NReqs]

(* Every variable has the type its declaration in the code gives it.       *)
TypeOK ==
  /\ client \in [Slots -> ConnClient]
  /\ g_curr_conn \in Slots /\ g_curr_thread \in Workers
  /\ backlog \in 0 .. Peers
  /\ listener \in [pc : {"idle", "filling", "dispatch"},
                   slot : Slots \cup {NoSlot}, fd : Fds \cup {NoFd},
                   worker : Workers]
  /\ caller \in [Jobs -> [pc : {"idle", "filling", "dispatch", "accepted",
                                "refused"},
                          slot : Slots \cup {NoSlot}, worker : Workers]]
  /\ pipe \in [Workers -> Seq(Slots)]
  /\ conn_set \in [Workers -> SUBSET Slots]
  /\ ctl \in [Workers -> Control]
  /\ sweep \in [Workers -> [todo : SUBSET Slots, freed : SUBSET Slots]]
  /\ queries \subseteq [worker : Workers, slot : Slots,
                        job : Jobs \cup {NoTask, Fresh}]
  /\ open \subseteq Fds
  /\ reports \in [Jobs -> 0 .. 2] /\ strayReport \in BOOLEAN
  /\ answered \in [Jobs -> 0 .. 2]

(* Whoever may hold a slot: the listener, a caller, a pipe, a worker       *)
Holders == {<<"listener", 0>>} \cup ({"caller"} \X Jobs)
           \cup ({"pipe", "worker"} \X Workers)

Holding(h) ==
  CASE h[1] = "listener" -> {listener.slot} \ {NoSlot}
    [] h[1] = "caller"   -> {caller[h[2]].slot} \ {NoSlot}
    [] h[1] = "pipe"     -> {pipe[h[2]][i] : i \in 1 .. Len(pipe[h[2]])}
    [] h[1] = "worker"   -> conn_set[h[2]] \ sweep[h[2]].freed

(* A slot is held by one thread or pipe at a time, once, and conn_time,    *)
(* the flag find_free goes by, is set exactly while somebody holds it:     *)
(* no slot is handed out twice and none is lost.                           *)
OneHolder ==
  /\ \A h, k \in Holders : h # k => Holding(h) \cap Holding(k) = {}
  /\ \A w \in Workers : \A i, k \in 1 .. Len(pipe[w]) :
       pipe[w][i] = pipe[w][k] => i = k
  /\ \A c \in Slots : client[c].conn_time # "zero"
                      <=> \E h \in Holders : c \in Holding(h)

(* A free slot owns nothing: no descriptor, buffer or event is left in it  *)
(* when conn_time says that the next find_free may take it.                *)
FreeSlotIsClean ==
  \A c \in FreeSlots :
    /\ client[c].client_fd = NoFd
    /\ client[c].read_buffer = Null /\ client[c].write_buffer = Null
    /\ client[c].event = "none" /\ client[c].ev_dns = Null

Sockets == {c \in Slots : client[c].client_fd \in Fds}

(* Every open descriptor belongs to one slot, or to the accept under way:  *)
(* none leaks, none is closed under its connection or shared.              *)
DescriptorsOwned ==
  /\ open = {client[c].client_fd : c \in Sockets}
            \cup (IF listener.pc = "filling" THEN {listener.fd} ELSE {})
  /\ \A c, d \in Sockets :
       client[c].client_fd = client[d].client_fd => c = d
  /\ listener.pc = "filling" =>
       \A c \in Sockets : client[c].client_fd # listener.fd

(* What a connection that is served lacks: nothing, but for a coming one   *)
(* that conn_renew found no block for.  That has no task any more, nothing *)
(* of a command is in a buffer that is not there, and no reply is taken    *)
(* for sent from one.                                                      *)
LacksNothingElse(r) ==
  /\ Null \in {r.read_buffer, r.write_buffer} =>
       /\ "no_block" \in Env
       /\ r.type = "coming" /\ r.task_id = NoTask /\ r.state # "renew"
  /\ r.read_buffer = Null =>
       ~r.body /\ r.partial = 0 /\ r.state \in {"waiting", "read", "closing"}

(* Blocks go back to the arena they came from, and conn_buffer_init never  *)
(* overwrites a buffer: what waits in a pipe holds the buffers of its      *)
(* worker if it is active and none if it is coming.  What is served holds  *)
(* both, its reply's in a block, or is a connection that a renewal left    *)
(* without.                                                                *)
BuffersFollowSlot ==
  /\ \A c \in Slots :
       /\ client[c].read_buffer \in Workers
            => client[c].read_buffer = client[c].worker_id
       /\ client[c].write_buffer \in Workers
            => client[c].write_buffer = client[c].worker_id
  /\ \A w \in Workers, c \in Slots :
       /\ c \in Holding(<<"pipe", w>>) =>
            IF client[c].type = "active"
            THEN client[c].write_buffer = w /\ client[c].read_buffer = w
            ELSE client[c].write_buffer = Null /\ client[c].read_buffer = Null
       /\ c \in Holding(<<"worker", w>>) =>
            /\ client[c].write_buffer \in {w, Null}
            /\ client[c].read_buffer \in {w, Heap, Null}
            /\ LacksNothingElse(client[c])

(* Only the worker a connection was dispatched to runs its state machine.  *)
DriverServes ==
  \A w \in Workers : ctl[w].pc = "machine" =>
    ctl[w].slot \in Holding(<<"worker", w>>)

(* A job has at most one outcome, a report or a reply.                     *)
OneOutcome == \A j \in Jobs : reports[j] + answered[j] <= 1

(* A coming connection has no task: no job is reported when one fails.     *)
NoStrayReport == ~strayReport

-----------------------------------------------------------------------------
(* The pool implements SlotLease.                                          *)

LeaseOf(c) ==
  CASE client[c].conn_time = "zero" -> "free"
    [] \E w \in Workers : c \in Holding(<<"pipe", w>>) -> "queued"
    [] \E w \in Workers : c \in Holding(<<"worker", w>>) -> "served"
    [] OTHER -> "taken"

WorkerOf(c) ==
  IF LeaseOf(c) \in {"queued", "served"}
  THEN CHOOSE w \in Workers :
         c \in Holding(<<"pipe", w>>) \cup Holding(<<"worker", w>>)
  ELSE Null

Lease == INSTANCE SlotLease WITH
           None <- Null,
           lease <- [c \in Slots |-> LeaseOf(c)],
           at <- [c \in Slots |-> WorkerOf(c)]

(* Each connection is dispatched to one worker, served by that worker and  *)
(* by no other, and its slot is leased again only after that.              *)
ImplementsLease == Lease!LeaseSpec

-----------------------------------------------------------------------------
(***************************************************************************)
(* Fairness.  Threads run: what one has begun it goes on with.  A write to *)
(* a full pipe goes through when there is room, and libevent gets to every *)
(* ready pipe and due timer in each turn of its loop, so no other event of *)
(* the worker can keep them off for ever.  Time passes.  Nothing is asked  *)
(* of peers, name servers or the callers of make_active_connect.           *)
(***************************************************************************)
Fairness ==
  /\ WF_vars(AcceptFill \/ AcceptFail) /\ SF_vars(AcceptDispatch)
  /\ \A j \in Jobs : WF_vars(ConnectFill(j)) /\ SF_vars(ConnectDispatch(j))
  /\ \A w \in Workers :
       /\ WF_vars(Machine(w)) /\ WF_vars(SweepConn(w) \/ SweepEnd(w))
       /\ SF_vars(Process(w)) /\ SF_vars(SweepBegin(w))
  /\ \A c \in Slots : WF_vars(Age(c))

FairSpec == Spec /\ Fairness

(* A connection silent for NET_TIMEOUT is closed, or shows a sign of life: *)
(* clean_conn_timeout finds it whatever it was doing.                      *)
SilentIsSwept ==
  \A c \in Slots :
    client[c].conn_time = "old" ~> client[c].conn_time # "old"

(* Every job make_active_connect accepted gets its reply or its report,    *)
(* whatever name server and agent do.                                      *)
JobEnds ==
  \A j \in Jobs :
    caller[j].pc = "accepted" ~> reports[j] + answered[j] = 1

=============================================================================
