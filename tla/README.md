# gko_pool in TLA+

gko_pool is a C++ connection pool: one listening thread, a set of worker threads
with one libevent loop each, a table of connection slots shared by all of them, a
block allocator for the connections' buffers, and asynchronous name resolution with
c-ares. A *coming* connection is a peer that connected to us; it sends commands
(a head of ten digits, then a body) and gets replies. An *active* connection is a
job given to `make_active_connect`: resolve a host, connect, send one command, read
one reply, report.

This directory holds the specification of the parts of it that are concurrent or
stateful, what TLC checks about them and what TLAPS proves. Paths below are relative
to the repository's `src/`; `async_threads.cpp:183` is line 183 of that file.

## Inventory

| component | code | state | operations | model |
|---|---|---|---|---|
| connection table, accepting thread | `async_conn.cpp` | `g_client_list`, `g_curr_conn`, `conn_list_lock` | find_free, accept, add, clear, free, buffer_init, renew | `ConnPool`, `SlotLease` |
| active connections | `async_clnt.cpp` | the slot being filled | make_active_connect, nb_connect | `ConnPool` |
| workers | `async_threads.cpp` | `g_worker_list`, notify pipes, `conn_set`, events | dispatch, thread_worker_process, worker_event_handler, state_machine, update_event, conn_set_state, clean_conn_timeout | `ConnPool` |
| name resolution | `async_dns.cpp` | a c-ares channel per worker, `ev_dns_vec` per connection | nb_gethostbyname, dns_callback, dns_ev_callback, del_dns_event | `ConnPool` |
| command framing | `async_threads.cpp` (aread), `gingko.h` (parse_cmd_head) | `read_buffer`, `rbuf_size`, `have_read`, `need_read` | aread, the header and body cases of state_machine | `FrameReader` |
| block allocator | `memory.cpp` | bitmap, `bucket_s`, `bucket_used`, `latest_bucket` | get_block, free_block, id2addr | `GkoAlloc`, `BlockPool` |
| synchronous client | `gingko_base.cpp`, `socket.cpp` | a kept descriptor | chat_fd, chat_with_host, sendcmd2host, send2host_fd, readcmd, readall, sendall, connect_host | `ChatClient` |
| block transfer | `gingko_base.cpp` | file, block and offset of a transfer | sendblocks, sendfileall, ev_fn_gsendfile, writeblock, next_f, next_b | `JobTransfer`, `FileCopy` |
| paths and file lists | `path.cpp` | the destination's file system | process_path, mk_dir_symlink_file, correct_mode, gen_snap_fpath, path_type and the functions on strings below them | `JobPaths`, `JobTransfer` |
| hashes | `hash/xor_hash.cpp` | the block being hashed | xor_hash_block, digest_ok | `JobTransfer` |
| bandwidth limiter | `limit.cpp` | per limiter: a window's start, its bytes, a threshold, a lock | bw_down_limit, bw_up_limit, disk_r_limit, disk_w_limit, mk_seed_limit | `RateLimit` |
| dictionary | `dict.c` | two hash tables, `rehashidx` | add, find, delete, incremental rehash | not modelled: vendored, and never reached |
| logging | `log.cpp` | the log file and its lock | write, rotate | not modelled: output only |
| compression and vendored hashes, examples | `hash/`, `example/` | none | functions of byte strings; callers of the pool | not modelled |

How they interact:

* The listener and any thread in `make_active_connect` take a slot from the table
  under `conn_list_lock`, fill it *without* the lock, and write its index to the
  notify pipe of a worker. The worker reads the index, puts it in its `conn_set` and
  from then on is the only one to touch the slot, until it stores 0 into `conn_time`:
  that store, made without the lock, gives the slot back.
* The worker's loop calls back: a descriptor is ready (`worker_event_handler`), a
  name server's socket is ready (`dns_ev_callback`), the timer is due
  (`clean_handler`). All of them run `state_machine` or free slots. c-ares may call
  `dns_callback`, hence `state_machine`, from inside `ares_gethostbyname`, hence from
  inside `state_machine`.
* The synchronous client shares nothing with the pool but the wire format: a command is
  a head and a body on both sides.
* A transfer joins the text of both ends: the source hashes the blocks of a job
  (`xor_hash_block`) and sends those it is asked for (`sendblocks`); the destination
  names and creates the files (`process_path`, `mk_dir_symlink_file`), checks what comes
  (`digest_ok`), writes it (`writeblock`) and sets modes (`correct_mode`). They share the
  list of files and the list of blocks, `s_job_t`. Who asks for blocks, and who keeps the
  snapshot of those that are done, is declared in `gingko.h` and not in the repository.
* Transfers report what they move to the limiters, which hold the caller back.
* The buffers of a slot are blocks of the arena of the worker the slot is dispatched
  to. For an active connection they are taken by the thread that calls
  `make_active_connect`, so an arena has several users; `alloc_lock` guards it, except
  in `id2addr`.

What is hard about it, and where: the lock-free hand-over of slots; what is left in a
slot for its next owner; the nested run of the state machine; queries that outlive
their connections; error paths that have to set `err_no` for a failure to be
reported; sweeping every state a connection can rest in; bytes that arrive cut in any
way; an allocator that keeps the same fact in three places and reads one of them
without its lock; a client that keeps a connection from call to call whatever became of
the last one; a file, a block and an offset that advance at different places; a
transfer that is killed and goes on from what it left; names that must come out the same
however a path is spelt; a limiter that sleeps with its lock held and goes by a clock
that may be set. `PROJECT.json` lists them with their lines under `hazards`.

What makes each part correct: a slot, a descriptor or a block has one holder and none
is lost; a free slot owns nothing; a connection is run by its worker only; nothing can
stay silent out of the sweep's reach; an accepted job has exactly one outcome; what is
taken for a command is one command; a block's address is good while it is held; a call
returns the reply to its own command and leaves no socket behind; a job that is
reported done is the job; the rate is kept and every caller comes back.

## The modules

### ConnPool

An action is what one thread does between two points at which another can see the
result. `find_free` up to its unlock is one action, the filling of the slot another,
the write to the pipe a third. Within a worker, one case of `state_machine`'s switch is
one action: other threads may run between two cases, but the same worker's events may
not (`ctl[w].pc = "machine"`), just as libevent does not re-enter a callback.

| variable | code |
|---|---|
| `client` | `g_client_list`; a record per `conn_client` |
| `g_curr_conn`, `g_curr_thread` | the round-robin indices |
| `listener`, `caller` | the locals of the accepting thread and of the threads in make_active_connect |
| `pipe`, `conn_set` | each worker's notify pipe and `conn_set` |
| `ctl`, `sweep` | the stack of each worker: its callback, state_machine's `nreqs`, clean_conn_timeout's list of what it has freed |
| `queries` | what the c-ares channels still hold |
| `open` | the process's descriptors |
| `reports`, `strayReport`, `answered` | calls of `reportHandler` and of `on_data_callback` for replies |

Abstracted: `conn_time` is `zero`, `recent` or `old` (silent for `NET_TIMEOUT`); a
buffer is the worker whose arena it came from, `Heap`, or `Null`; the result of `aread` and of
`awrite` is chosen, what leads to it is `FrameReader`'s business. A slot's fields are
changed in one step where no other thread can see the difference; so `conn_client_clear`
is one step too (`Cleared`), though the slot is anybody's from its last store on: what
it leaves in a slot is checked, not that `conn_time` is stored last. `g_total_clients`
and `g_total_connect` are not modelled: nothing reads them.

The two places that take blocks differ. `conn_buffer_init` asserts that it got them
(`async_conn.cpp:390-393`), which ends the process, so `BufferInit` always has both.
`conn_renew` does not look (`async_conn.cpp:535`, `561`): `get_block` returns -1, `id2addr`
makes NULL of it, and the connection goes on. With `no_block` in `Env` `Renewed` may
leave either buffer `Null`. Without a read buffer nothing is read any more (`ReadMore` and
`ReadAll` are disabled; `read()` gives EFAULT, which is `ReadFail`); without a write buffer the
next reply meets the branch of `async_threads.cpp:829` (`WriteFail`). Only a coming connection
is renewed, so no job is lost by it; that nothing else is wrong with such a connection is
`LacksNothingElse`, a part of `BuffersFollowSlot`. In between, `on_data_callback` is handed a
`write_buffer` of NULL and `CMD_PREFIX_BYTE`. One that writes its reply there, as that of
`example/server.cpp` does, ends the process; callbacks are the application's and are not
modelled.

`Env` names what the environment of an instance may do (`EnvKinds` in the module), so
that a run can say which failures it is about. Some of these break what the passing runs
check: `late_dns` (a query answered after the sweep of its connection) and, with two
slots, `literal_ip` together with `no_socket`, or `bad_name` (a name refused inside
`ares_gethostbyname`). One branch, `dns_ev_callback` for a connection that is closing
already, is entered only after such a close.

`SlotLease` is the abstract specification: a slot is free, taken, queued for one
worker, served by that worker, free. `ConnPool` computes `lease` and `at` from who
holds the slot.

### GkoAlloc and BlockPool

`get_block` and `free_block` are critical sections, so each is one action;
`id2addr` is another step because it reads `bucket_s` without the lock. The search for
a bucket and for a bit in it is stated by its result (the first bucket with room from
`latest_bucket`; the first clear bit), the bookkeeping by its assignments.
`BlockPool` is what an allocator promises: a block has one holder, a request fails only
when all are held or the system is out of memory.

Two facts of `free_block` show in the model: the memory of bucket 0 is never
returned, and `latest_bucket` is only moved when the bucket is *not* returned.

### FrameReader

One connection and its peer. The peer sends the bytes of `NCmds` commands in any
pieces and may close at any point; `stream[n]` is where command *n* ends, so bytes are
counted and not spelt. An action is one turn of aread's loop, with the growth of the
buffer before its `read()`, or one case of the state machine. Three actions end a turn
without bytes: EAGAIN (`ReadAgain`), a `read()` of 0 (`ReadZero`), and any other error
(`ReadFails`): the connection is reset or lost (`PeerReset`, at any point, even with bytes still
to be read), or there is no buffer to read into. `read_buffer` is a block, heap memory after
the first doubling, or NULL when `conn_renew` asked in vain (`RenewedBuffers`, with `MemoryShort`).

### ChatClient

One thread that calls one of the synchronous functions again and again, and the
connection behind its descriptor. `api` is the function: `chat_fd` keeps `*fd`, the
others connect and close in each call, and `sendcmd2host` reads nothing. An action is one
turn of sendall's or readall's loop, one `connect_host`, or a step of the peer.

| variable | code |
|---|---|
| `pc`, `retries`, `sz`, `counter`, `need` | where the call is; chat_fd's `i`; sendall's `sz` and `send_counter`; what readall has left of a body |
| `fd`, `open` | `*fd` or the local `sock`; the sockets the client has open |
| `link` | the connection: what the peer has to answer, what is on its way back, whether the peer has closed and the client's bytes have met a reset |
| `own`, `proper`, `result`, `delivered` | whether what the call read is its own reply and began with a head; what it returned; how often its command arrived whole |
| `faulted` | history: a reply of this connection was late, cut, garbled or too long |

Bytes come in units of a head, `CMD_PREFIX_BYTE` bytes, which is how readcmd reads them
when it is out of step as well. A unit of a body read as a head is no number. Whose reply
a unit belongs to is known to the model only: the wire does not say. `MaxPending` and
`MaxBack` are the sockets' buffers; a sender that finds them full gets the time-out of
`poll`. The errors of one system call, and its retries after `EINTR`, are one choice of
success or failure. `connect_host` is one action: nothing of it is shared. An empty command
is one more environment (`empty_cmd`): `send2host_fd` takes the 0 of `sendall` for a success
without a descriptor (`SendNothing`), `sendcmd2host` and `chat_with_host` connect, find the
text no longer than its head, close and give up (`SendTooShort`).

### JobPaths and JobTransfer

`JobPaths` is `path.cpp`'s functions on strings and file names. A path is a sequence of
names and slashes, since where the slashes are is what those functions are about; a name
is not taken apart. A file system is a function from the names that lead to a node. How
the kernel walks a path is in there as well (`Names`, `Real`, `Target`), for one link on
the way and one at the end.

`JobTransfer` is one job from the hashing of its blocks to its last mode.

| variable | code |
|---|---|
| `job`, `blocks` | `s_job_t`: the request and its list of files; `s_block_t`, computed from it |
| `remote`, `sd`, `digest` | the source's files, the locals of `xor_hash_block`, the blocks' `digest` |
| `dl` | the process that fetches: how far it is, the local names, `to_continue`, the blocks it has |
| `fs`, `snaps` | the destination's file system, and the snapshots in it |
| `th` | each fetching thread, joined with the source's end of its request: locals of `sendblocks`, `sendfileall`, `ev_fn_gsendfile`, then of `writeblock` |
| `short`, `altered` | history: a `pwrite` was cut short, a file of the source has changed |

A byte is the pair of its file and offset at the source, and a hash is the sequence of the
bytes that went into it: `digest_ok` then says what it would if the hash had no
collisions. `mk_dir_symlink_file` and `correct_mode` are one action per file, sendblocks
one per part of a file with one per `sendfile` inside, `writeblock` one per part: between
two of them the process may be killed and another thread may write. The request for blocks
(any run of blocks that nobody has or asks for), the hand-over of what arrives and
the snapshot are the glue the repository lacks; they are marked external in
`PROJECT.json` and are as permissive as their declarations.

`FileCopy` is what a fetch promises: bytes come to their place and stay, *done* is said
when none is missing.

### RateLimit

The five limiters have one text and share nothing; `fn` is which of them a behaviour is
about, and each has its own entry (`bw_down_limit` ... `mk_seed_limit`). All a call does
between taking the lock and releasing it, or beginning to sleep, is one action, as
nobody else can see it. `wall` is what `gettimeofday` reads and `real` is
the time that passes: only `SetClock` tells them apart. `passed`, `closed`, `windows`,
`opened`, `since`, `forth` and `back` are history.

## What is checked

All runs are small instances; a passing run explores them completely.

| run | what it asks | instance |
|---|---|---|
| `one_slot` | with every failure of the environment but a late name: is the slot leased in order (`SlotLease`), cleaned, closed and reused correctly while it moves between workers, and does every silent connection and every accepted job come to an end, the job with one outcome? | 1 slot, 2 workers, 2 peers, 1 job, 1 command per run of the machine |
| `two_workers` | does the lock-free hand-over ever give a slot to two threads, free one that still owns something, or bring a connection to a worker it was not dispatched to? | 2 slots, 2 workers, 2 peers, 1 job |
| `alloc` | do the allocator's three records agree, are addresses good while blocks are held, is a request refused only when all blocks are out or the system is short of memory (`BlockPool`)? | 3 buckets of 2 blocks, 2 threads, memory short |
| `frames` | is every command cut out of the stream whole and in step, is none given up without cause, is a whole one served unless the connection is closed? | heads of 2 bytes, blocks of 4, 2 doublings, bodies of 0 to 31 bytes, 2 commands, memory short in `aread` and `conn_renew`, one reset |
| `chat` | does the synchronous client leak no socket, deliver no command twice, stay in step on a connection that gave no trouble, and get over every fault? | commands of 2 units, bodies of 0 to 3 and room for 2, every fault |
| `job` | do files get the names asked for however the paths are spelt, is a block that counts as fetched in its place, is what is reported done the job, does a restarted fetch go on where it was (`FileCopy`), and does a fetch end? | 92 combinations of a job, a destination and what is there already; 3 layouts of files in blocks of 2; 2 threads, requests of up to 2 blocks, 1 fault, 1 crash |
| `limiter` | is the rate kept over every sequence of windows, is a wait owed to its own window's bytes, does every call return? | 2 threads, 4 calls of 0, 2 or 5 bytes, 3 bytes in a second of 4 ticks, thresholds 2 to 8, the clock set once by +2 or -3 |
| `bad_name`, `stray_report`, `exact_buffer`, `chat_late`, `digest` | findings, see below | the smallest instance that shows each |

Why the bounds are enough for what they are meant to show:

* Two slots and two workers are what two threads need to take the same one or to leave
  one to the wrong worker; three connections for two slots make one wait, be refused or
  take a slot just given back. Two *connections* in one slot one after the other is
  what stale contents need, and three are reached in `one_slot`.
* `PipeCap` = 1 makes a full pipe, hence a blocked dispatch, common. `Fds` has one
  descriptor more than slots, for the `accept` that is refused.
* `NReqs` is 3 in the code and counts commands served before the machine yields; 0 and 1
  already show both outcomes of the test. `MaxPartial` bounds the partial reads of one
  header or body; their number changes nothing but `conn_time`.
* In `frames` the lengths include a body that ends exactly at the buffer (2), bodies that
  need one and two doublings, and one that needs a third (31); 0 is the head that
  `state_machine` rejects. The second of the two commands is the one that a renewal
  without a block leaves no buffer for.
* In `alloc` three buckets are needed for a search to pass over a full bucket and to
  meet one that was returned; buckets of two blocks tell the first and the last block
  of a bucket apart.
* In `chat` commands of two units can be cut by a failed send, bodies of two by a
  time-out or a close; three units are too many for the caller. Two replies fit on the
  way back, so a call may find the whole reply to an earlier one there, and the buffer
  towards the peer can be full.

* In `job` the cases of paths have what process_path tells apart: a destination that is
  nothing, a directory, a file, a link to a directory or to nothing, below a file, in the
  root, with slashes at its end or not, absolute or relative; one where an old link cannot
  be replaced; and jobs that are a file, a
  link, or a directory with one of each, one of them read-only. The layouts have a file
  that ends in the midst of a block, with it, after it, an empty one, and a last block that
  is smaller. One fault is one system call that fails, or a run of failed `sendfile`
  calls: `MaxRetry` is 3 in the code and 0 here, so two failures in a row are enough to give
  up. One crash is what resuming needs, and the snapshot it leaves may be of any length.
* In `limiter` a window may close in time or with a wait, waits are rounded down, both
  branches of the threshold's adjustment and both of its bounds are met, and the clock may
  be set to before the window's start. `MaxIdle` bounds the time during which nobody sleeps.

Every property of a passing run is also shown to notice a bug: `PROJECT.json` lists,
for each of them, a wrong version of a definition (the section "Wrong on purpose" of
each module) under which TLC finds it violated.

The pool never stops, since its timers always fire, nor does a client that calls again
and again, so their runs look for deadlocks as well. In `GkoAlloc` and `FrameReader` a client that holds all it wants and a peer that
has closed have nothing left to do, a fetch ends, and the calls of a limiter are bounded: the runs
of these do not look for deadlocks.

### Fairness

`ConnPool`'s `Fairness` asks that a thread that has begun something goes on (weak
fairness of the machine, of the sweep, of filling a slot), that time passes (`Age`),
and that libevent gets to a ready pipe and to a due timer although other descriptors
keep the worker busy, and a blocked `write` to a pipe returns when there is room. The
last three are strong fairness since these steps are disabled again and again, whenever
the worker is inside a callback. libevent handles all that is ready in each turn of its
loop, and time-outs in the same turn, which is what justifies it. Nothing is asked of
peers, name servers, or the threads that call `make_active_connect`: `JobEnds` and
`SilentIsSwept` hold although all of them may be silent for ever.

`ChatClient`'s `FairSpec` asks for weak fairness of the client's own steps, which
`poll` with a time-out justifies (a step that waits is enabled when the time-out is);
of a peer that has a command and room for its answer; and of a reset on its way.
`Recovers` needs the peer's: without an answer there is nothing to return. It says so only of
an environment that stops failing: each `Fault` is one of its choices.

`FrameReader` asks for weak fairness of the reader alone: `EV_READ` is level
triggered, so bytes that were left in the socket wake the worker again.

`JobTransfer` asks that what is on its way goes on: each fetching thread, and the process
between them. Not that it is begun (`ProcessPath`) nor that the source's hashing ends, and
an enabled `Fetching` may be a fault as well as a success. `FetchEnds` excepts a process
that is killed, a block that was hashed wrongly (no source can send what its digest asks
for) and a source whose files change.

`RateLimit` asks that time passes, that a thread that may take the free mutex does and that
a sleeper wakes. Weak fairness of the lock is enough here because the calls are bounded: a
thread cannot be overtaken for ever.

### Findings

* `bad_name`: `ares_gethostbyname` (`async_dns.cpp:212`) calls `dns_callback` before it
  returns when it refuses a name. The nested state machine frees the slot and
  `nb_gethostbyname` goes on to register DNS events for it, which later free it a second
  time, under its next owner. Any machine that closes its connection inside that call does the
  same: with two slots, a host that is an address (`literal_ip`) and a `socket` that fails
  (`no_socket`) break `FreeSlotIsClean` too.
* `stray_report`: `conn_client_clear` keeps the task ids (`async_conn.cpp:430`). A coming
  connection that takes the slot of a job and sends a bad head is reported as that job
  (`async_threads.cpp:436`), whose outcome has been reported already; in a slot that
  was never used it is reported as task 0.
* `exact_buffer`: a command that ends exactly where the read buffer ends makes `aread`
  (`async_threads.cpp:526`) ask `read()` for 0 bytes and take the 0 it returns for a
  closed connection. Its run has memory enough and ends with the peer there and the
  connection unbroken, so this is the only cause left.

* `chat_late`: `chat_fd` (`gingko_base.cpp:1126`) returns when its reply is late but keeps
  the descriptor. The reply is then read by the next call, as its own, and every later
  call is one reply behind. A garbled head does the same with the body that follows it.

* `digest`: `xor_hash_block` (`hash/xor_hash.cpp:134`) opens `files[start_f + file_i]` for the
  file a block goes on in, although `file_i` is already an index into the whole list. In
  a job that is a directory, whose list begins with the directory, every block that spans
  two files is hashed with the bytes of a third; where there is no third file the loop
  never ends, since `pread` on the bad descriptor returns -1 and the bytes that are left become
  more.

Seen in the models as well, and no runs of their own:

* With `late_dns` in `Env`, `FreeSlotIsClean` and `OneOutcome` fail: `clean_conn_timeout`
  (`async_threads.cpp:169`) frees a slot whose name query is still in c-ares, and the late
  answer runs the state machine on a free slot, which still has the task id of its job.
* `update_event` (`async_threads.cpp:409`) believes `ev_flags`, which neither
  `conn_client_clear` nor the places that register a new event set: on a reused slot an
  active connection may stay watched for output while it waits for input.
* Without a `g_server`, as in `example/client.cpp`, the reply to a job is handed to nobody:
  `JobEnds` fails with `IsServer = FALSE`.
* `conn_renew` does not look whether it got its blocks (`async_conn.cpp:535`, `561`): a peer
  whose reply was sent in full is closed at its next command, by EFAULT or by the branch for
  a missing write buffer, when memory ran short in between (`BuffersFollowSlot`,
  `BlockIsNotGrown`, `GivenUpForCause`).
* `READ_MEMORY_ERROR` is returned with no allocation having failed when one call of
  `aread` has to double its buffer an eleventh time (`GivenUpForCause` says so).
* A job of several files whose destination does not exist makes that directory; after a restart it
  is a directory that exists, and the job is put *into* it, with a new snapshot
  (`ResumesInPlace` excepts it).
* `get_base_name_index` does not look at the first character: a destination in the root is
  refused (`Possible`), and a relative link in the root of the source leads elsewhere
  (`DoneIsWhole` excepts it).
* `mkdir` that finds a file under the name takes it for the directory, and a link that
  cannot be made a second time is only logged (`path.cpp:479`, `path.cpp:495`): the job is
  reported done although a directory is where its link should be, or an old link that leads
  elsewhere has stayed in a directory that cannot be written to. `DoneIsWhole` excepts
  these; the last came up in its proof, and run `job` has a case of it now.
* A short `pwrite` (`gingko_base.cpp:965`) makes writeblock go on with the next file, and it
  returns the size of the whole: all of `job`'s properties about data are stated for
  behaviours without one.
* When `event_add` fails, `sendfileall` returns 0 with nothing sent, and what follows arrives
  in the place of the missing bytes; the digests find it (`ImplementsCopy`).
* `sendfile` at the end of a file that has become shorter returns 0, which `ev_fn_gsendfile`
  takes for a full socket: it is called for ever (`FetchEnds` excepts it).

## What is proved

`GkoAllocProofs`, for every number and size of buckets, every set of threads and
regions: `AllocTypeOK`, `AllocOneHolder`, `AllocAddressStaysValid`, `AllocUsedCountsBits`,
`AllocIdleBucketReturned` and `AllocImplementsPool`, from `AllocAssumption` alone (there is a bucket, a bucket has a
block, `NULL` is neither a region nor a thread). The inductive invariant is the
conjunction of the properties of `alloc` and of `BucketMemory`, which says when `bucket_s`
holds memory. None of the interesting ones is inductive
alone: that `free_block`'s counter does not pass zero and that a bucket with room has a
clear bit need `UsedCountsBits`; that `bucket_used = 1` is right for a bucket just
fetched needs `BucketMemory`; that a bucket returned is behind nobody's address needs
both and `OneHolder`. There is a lemma per action, and under each a step per conjunct.
The lemmas on `Cardinality` rest on the library's `FiniteSetTheorems`. The refinement is
proved step by step: `GetBlock` is `Get`, `Id2Addr` is `Take`, `FreeBlock` is `Put`, and
both failures of `get_block` are `GetFails`, for which a full bucket has to be shown to
have every bit set.

`ConnPoolTypes`, `ConnPoolProofs` and `ConnPoolPromises`, for any number of slots, workers,
peers, jobs and descriptors. `PoolTypeOK` holds in every environment. The others, which are
`PoolOneHolder`, `PoolFreeSlotIsClean`, `PoolDescriptorsOwned`, `PoolBuffersFollowSlot`,
`PoolDriverServes`, `PoolImplementsLease` and `PoolOneOutcome`, assume `SafeEnv`: no answer of
a name server after the sweep of its connection (`late_dns`), and nothing that makes a machine
run inside `ares_gethostbyname` close its connection (`bad_name`; `literal_ip` together with
`no_socket`), unless there is one slot only. Each of these really breaks the pool (see the
findings), and the passing runs are within it: one slot with everything but `late_dns`, two
slots with none. The inductive invariant is
`OneHolder /\ Records /\ Places /\ Queries /\ DescriptorsOwned`:

* `OneHolder` is kept by a step that frees a slot only if the thread that frees it holds it,
  which `Places` says: what a machine or a sweep is busy with is in its worker's set.
* `Records` ties what is in a slot to who holds it: nothing in a free one, in one in the pipe
  what its kind has been given, in one at a worker a descriptor and no blocks but that worker's. It is what
  `FreeSlotIsClean`, `DriverServes` and most of `BuffersFollowSlot` follow from, and what shows that
  `close` closes the descriptor of the slot and not of its next owner (`DescriptorsOwned`).
* `Queries` says that a name query belongs to a connection that waits for it, one to each:
  without it the answer would run the machine of another.

A step that moves a slot changes its holder and its record, so there are lemmas for one slot
that moves while the others stay, and one lemma per action uses them. For the refinement every
action is shown to be the step of `SlotLease` of the slot it moves, or none. `PoolOneOutcome`
needs one more invariant, `Outcomes`: a job that is under way has one connection that lives
for it, with its id, and one whose connection has ended has been reported or answered once. Only
active connections count, since a coming one may carry the id of a job that is over
(`stray_report`); an active one gets its own id before anybody else sees it. The part of
`BuffersFollowSlot` about connections that a renewal left without a buffer needs one more as
well, `LInv`: every case of the machine and every callback either keeps what `LacksNothingElse`
speaks of (`Keeps`) or is a renewal, and a renewal is reached only by a coming connection
that still has both its buffers (`Sound`).

`FrameReaderProofs`, for every block size, head length, number of doublings and every
set of streams that `StreamAssumption` admits: `ReaderTypeOK`, `ReaderInBounds`,
`ReaderInStep`, `ReaderBlock` and `ReaderGivenUpForCause`. `IInv` adds to the properties that
the bytes in the buffer have been sent,
that `need_read` is either the head or the whole command the buffer begins with, that
`parse_header` and `parse_cmd` are entered with `have_read = need_read`, and that the
result `aread` carries around its loop was computed from the `have_read` it now has:
without the last, `READ_NEED_MORE` for one read could be returned as `READ_DATA_RECEIVED`
after another. `GInv` adds for `GivenUpForCause` how large the buffer is after so many
doublings, and when nothing is missing of a command between two reads. A connection without a
buffer is in both: it has read nothing and stays in the states a read can leave it in. A `READ_MEMORY_ERROR`
that names no failed allocation then comes of a command longer than all doublings make room
for, and a `READ_ERROR` on a connection that is there, with a buffer, of the command that ends with it. `PowerAssumption` states of `2 ^ n` what the provers do not know of it; TLC evaluates it.

`ChatClientProofs`, for all lengths of commands, replies and buffers and every
environment: `ChatTypeOK`, `ChatDescriptorKept`, `ChatDeliveredOnce` and
`ChatInStepReplyIsOwn`. `IInv` joins descriptor and delivery with what
makes them inductive: `connect_host` is only called without a descriptor and `sendall`
only with one, and a call that is still to connect or to send has delivered nothing. The
last is what allows `chat_fd` to send again; it holds because a command is whole at the
peer only with its last unit, and sendall's loop ends there. `Typed` says what may be on its
way. `InStep` says what must be on its way of a connection that has given no trouble: nothing
between calls and while sending; then the call's own command at the peer or its own reply,
of which the head tells the length; then no more than the rest of that reply. So a call that ends
well has taken all of its reply, and the next finds nothing of it.

`JobTransferProofs`, for every size of a block, jobs of every layout that
`LayoutAssumption` admits, any number of threads, any limit of a request, and every fault and
crash: `TransferTypeOK`, `TransferRequestsAnswered` and `TransferWritesInPlace`; and, with
hypotheses on hashes and names, `TransferFetchedIsPlaced`, `TransferImplementsCopy`,
`TransferDoneIsWhole` and `TransferNothingAnew`. The argument for the first three
is that the source's walk and the destination's are walks through one stream, the bytes of all
files one after another. `next_f` of a file is the file of the next byte of the stream
(`NextInStream`), a block is the part of it between `Lo` and `Hi` (`Cut`); so file, offset,
block and `block_left` of a request stand for one position (`Walking`), each of sendblocks'
three branches moves to the position after what was sent (`SentOK`), and writeblock's loop
does the same within its block (`InPlace`, `PartOK`). `Whole` adds that without a fault what has
arrived is the stream up to there, whatever the sizes of the `sendfile` calls: so every block lies
where the receiver looks for it (`RequestsAnswered`). `Writing` adds that the block under way
has passed `digest_ok`: hence, if the hashes are right and no `pwrite` stopped short, each
byte is written to the offset it has at the source, also when the source has sent
something else (`WritesInPlace`). `LayoutAssumption` says of the concatenation of the files what
the walks need: a file lies in one piece, and what follows its last byte is the first of the next
file that has any. It is true of every list of files; it is stated since the concatenation is a
recursive definition, of which a prover knows nothing, and TLC evaluates it for the cases of
`job`.

`TransferFetchedIsPlaced` and `TransferImplementsCopy` follow the written bytes on disk, for any
number of crashes. `Ready` says that from the start of the fetch on each file with bytes keeps
its node and its size and shares it with no other, that the blocks in `got` are in their places,
and of a block that is being written as many bytes as have been. A turn of `writeblock`
puts in place what it writes and, since `WritesInPlace` holds of it, disturbs no byte that
already is, of its own block or of another thread's (`TurnPlaces`). `Saved` ties `got` to the snapshot
while the fetch runs and keeps what the snapshot says true from a crash through
`process_path` and `mk_dir_symlink_file`, which opens and `ftruncate`s each file once more
(`MakePlaces`), to the next `StartFetch`; so a resumed fetch goes on with blocks that are there.
Every step is then one of `FileCopy` (`CopyStep`).

`TransferDoneIsWhole` needs the whole tree of the job as well, which `InOrder` describes:
while files are made, the entries up to `dl.i` are there and nothing is in the way of the rest
(`Making`); from the start of the fetch on all are there and are writable, until their mode
has been set (`Standing`); and they stay through a crash as long as there is a snapshot
(`Left`). An entry made disturbs no other, since a step that makes, writes or changes the mode
of one touches one node only (`Touches`, `StepFor`) and no link of the job is on the way to another entry
(`Apart`): so every path leads where it did (`AsideReal`, `SameLinksReal`). At the end every byte
of the job is in a block (`InSomeBlock`), every block in its place, and a file has no bytes but
those and the mode `correct_mode` gave it last (`FileWhole`). `Left` also gives
`TransferNothingAnew`: what `mk_dir_symlink_file` makes again is there already.

These four theorems have the hypothesis `Given`, which is what they cannot have from the provers
or from the code:

* `DigestOfBlock` always: the source's hashes are right. With the defect of
  `xor_hash_block` (run `digest`) they are not for every job.
* `NamedAsAsked` always: `process_path` gives the entries places of their own, in whose way
  nothing is that cannot be replaced.
* `SameNames` at every step: a job that is started again over a snapshot has the names it had.

The last two are about what `process_path` makes of paths and links, slash by slash, with
`SelectSeq`, which is a recursive definition; run `job` checks them. They speak of the moment at
which `process_path` returns. That files, directories and links are made from those names, keep
their places until the end and are found again after a crash is proved, and is no
hypothesis.

`TreeAssumption` says that the cases' file systems consist of nodes, `EntryAssumption` that an
entry is a file, a directory or a link and has a mode, and that what
`symlink_dest_to_abs_path` makes of a link leads where the link does, unless that lies in the
root; TLC evaluates both.

`RateLimitProofs`, for every rate, unit of time, threshold and its bounds, every set of
callers and amounts and every way to set the clock that `LimitAssumption` admits:
`LimitTypeOK`, `LimitPaced` and `LimitWaitIsOwed`. `Paced` says nothing of the present window,
so it is not inductive. `IInv` remembers, by `Window(f, b)`, how far the clock had been set
forth and back when this window began: then its start is known in real time, the rate over
the windows before it holds without what the clock does later, and a sleeper's rest, the
time since the start and the clock's steps since then are never less than what the window's
bytes take. A window that ends adds its bytes on one side and at least their time, less a
tick, on the other (`WindowEnds`). The arithmetic, which has products of two variables, is
in lemmas of its own.

Only model-checked: of `JobTransfer`, `NamedAsAsked` and the half of `ResumesInPlace` that is
`SameNames`, which rest on what the functions of `JobPaths` compute, slash by slash; liveness
(`JobEnds`, `SilentIsSwept`, `WholeCommandServed`, `Recovers`, `FetchEnds`, `CallReturns`), which is out of
the prover's reach as is everything about `ENABLED`.

## What is not modelled

* The values of bytes: heads are lengths or garbage. The conversion in
  `parse_cmd_head` (ten digits into an `int`) is planned.
* The DNS cache: `DNS_EXPIRE_TIME` is -1, so its look-up and its update return before they
  touch the dictionary. The dictionary, which is that of Redis, has no other user.
* `make_active_connect` called from inside a handler of a worker; its caller here is a
  thread of its own. The write to a pipe never fails, only blocks.
* Descriptor 0, which `conn_client_free` takes for none.
* Construction and start-up (`gko_run` up to its loop, `thread_init`): the initial
  state. `gko_loopexit` is not modelled.
* Data races as such: a store to `conn_time` is one step and is seen in order, which x86
  gives and the C++ of the code does not promise.
* The log: lines, rotation and flushing are output, and nothing else in the program reads
  them. `gko_quit` ends with `_exit`, so what is in the buffers then is lost.
* The order of the stores in `conn_client_clear`: it is one step, so that `conn_time` is
  stored last (`async_conn.cpp:494`) is taken over from the code and not checked.
* What an application's `on_data_callback` does, in particular with the write buffer that a
  renewal did not get, and the end of the process by an `assert` of `conn_buffer_init`.
* Of the synchronous client: a text longer than the buffer that `sendcmd2host` and
  `chat_with_host` format it into (`gingko_base.cpp:1004`, `1043`).
* Of the transfer: `sendfileall2`, which is `sendfileall` once more without a caller;
  `readfileall`, which reads a file into memory; `host_distance`. `sendblocks_zip`,
  `get_blocks_c`, `host_hash` and the walk that lists the files of a job are declared and
  defined nowhere.
* The arithmetic of `xor_hash`; md5, lz4 and `gko_zip`: functions of byte strings.
* Paths that reach `MAX_PATH_LEN`, and paths with `.` or `..`; more than one link on a path.
* A limiter whose counted bytes overflow an `int` (2 GB in one window).
* The examples: callers of the pool, without state of their own.

## Plan

1. `JobPaths` without `SelectSeq`: `NamedAsAsked` and `SameNames` from the functions of `path.cpp`,
   which would leave `DigestOfBlock` as the only hypothesis on a transfer.
2. `CmdHead`: `parse_cmd_head` and `fill_cmd_head` on digits, in 32-bit arithmetic, against
   their reference (functions only); and the search of `get_block` through 64-bit words
   against `IsFirstClear`.

`ConnPool` stays apart from `GkoAlloc` and `FrameReader`: their product is out of TLC's
reach. They meet in small interfaces, `BuffersFollowSlot` on one side (a block goes back
to the arena it came from, once) and `OneHolder` of the allocator on the other (every
free is of a block that is held); `ReadAll`, `ReadMore`, `ReadFail` of `ConnPool` are the
results `FrameReader` shows to be possible.
