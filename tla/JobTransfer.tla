---------------------------- MODULE JobTransfer -----------------------------
(***************************************************************************)
(* Fetching a job, a file or a directory, from another host: the source    *)
(* hashes its blocks (xor_hash_block); the destination gives the files     *)
(* their local names (process_path) and creates them                       *)
(* (mk_dir_symlink_file); its threads ask for blocks, which the source     *)
(* sends (sendblocks, sendfileall) and they check (digest_ok) and write    *)
(* (writeblock); then the modes are set right (correct_mode).              *)
(*                                                                         *)
(* A byte is its file and offset at the source, so a hash is the sequence  *)
(* of bytes that went into it: xor_hash is taken to have no collisions.    *)
(* The request for blocks, and the snapshot of the blocks that are done,   *)
(* are not in the repository: they are modelled from s_job_t, s_snap_t and *)
(* the declaration of get_blocks_c.                                        *)
(***************************************************************************)
EXTENDS JobPaths

CONSTANTS
  BLOCK_SIZE,
  Cases,      (* jobs and the file systems they are fetched to             *)
  Threads,    (* threads that fetch blocks                                 *)
  MaxNum,     (* blocks of a request                                       *)
  MaxRetry,   (* failed sendfile calls put up with: 3                      *)
  MaxFaults,  (* faults of a behaviour, errors in a row counted once       *)
  MaxCrashes, (* how often the fetching process is killed                  *)
  Env         (* which faults                                              *)

EnvKinds == {"alter",        \* a byte of a file changes at the source
             "shrink",       \* a file gets shorter there
             "open_error", "send_error", "write_error",  \* calls fail
             "event_error",  \* event_add fails
             "short_write"}  \* pwrite writes less than it is given

ASSUME TransferAssumption ==
  /\ BLOCK_SIZE \in Nat \ {0} /\ MaxNum \in Nat \ {0}
  /\ MaxRetry \in Nat /\ MaxFaults \in Nat /\ MaxCrashes \in Nat
  /\ Env \subseteq EnvKinds

VARIABLES
  job,      (* the case: files, uri, path, and the hashes' origin          *)
  blocks,   (* its blocks, which have no names in files of their own       *)
  remote,   (* the source's files                                          *)
  sd,       (* the source's hashing of a block                             *)
  digest,   (* the blocks' hashes                                          *)
  dl,       (* the fetching process                                        *)
  fs,       (* its file system                                             *)
  snaps,    (* snapshots in it: the blocks that are done                   *)
  th,       (* its threads, each with the source's end of its request      *)
  faults, crashes,
  short,    (* history: a write was cut short                              *)
  altered   (* history: a file of the source changed                       *)

vars == <<job, blocks, remote, sd, digest, dl, fs, snaps, th, faults,
          crashes, short, altered>>

-----------------------------------------------------------------------------
(* The layout of a job.  Files count from 1, blocks from 0.                *)

files == job.files
file_count == Len(files)
Regular == {f \in DOMAIN files : files[f].size >= 0}

FileBytes(fl, f) == [o \in 1 .. Max({fl[f].size, 0}) |-> <<f, o - 1>>]
Source(f) == FileBytes(files, f)

(* The bytes of a list of files one after the other                        *)
StreamOf(fl) == FlattenSeq([f \in DOMAIN fl |-> FileBytes(fl, f)])

(* No file after f and before g has bytes                                  *)
NoneBetween(fl, f, g) == \A h \in f + 1 .. g - 1 : fl[h].size <= 0

(* What the walks through blocks and files rely on: a file lies in one     *)
(* piece, and what follows its last byte is the first of the next file     *)
(* that has any.  It holds of StreamOf, and is stated since a recursive    *)
(* definition tells a prover nothing.                                      *)
ASSUME LayoutAssumption ==
  \A c \in Cases :
    LET fl == c.files
        s == StreamOf(fl)
    IN /\ Len(fl) \in Nat \ {0} /\ DOMAIN fl = 1 .. Len(fl)
       /\ \A f \in DOMAIN fl :
            /\ fl[f].size \in Int
            /\ fl[f].size > 0 => \E p \in DOMAIN s : s[p] = <<f, 0>>
       /\ s \in Seq((DOMAIN fl) \X Nat)
       /\ \A p \in DOMAIN s :
            LET f == s[p][1]
                begin == p - s[p][2]
                end == begin + fl[f].size
            IN /\ begin >= 1 /\ p < end /\ end <= Len(s) + 1
               /\ \A q \in begin .. end - 1 : s[q] = <<f, q - begin>>
               /\ IF end \in DOMAIN s
                  THEN /\ s[end][1] > f /\ s[end][2] = 0
                       /\ NoneBetween(fl, f, s[end][1])
                  ELSE NoneBetween(fl, f, Len(fl) + 1)
       /\ s # <<>> => s[1][2] = 0 /\ NoneBetween(fl, 0, s[1][1])

(* Where a link of a source leads                                          *)
Leads(f) ==
  IF Head(f.to) = "/" THEN Names(f.to)
  ELSE Front(Names(f.name)) \o SelectSeq(f.to, LAMBDA x : x # "/")

(* An entry is a file of some size, a directory or a link, and has a mode, *)
(* which for a link does not forbid to write.  Where a link leads is what  *)
(* it is taken to lead to, but for a relative one in the root: SelectSeq   *)
(* and the last slash of a path are out of a prover's reach.               *)
ASSUME EntryAssumption ==
  \A c \in Cases : \A i \in DOMAIN c.files :
    LET f == c.files[i]
    IN /\ f.size >= -2 /\ f.mode \in {"ro", "rw"}
       /\ f.size = -2 =>
            /\ f.mode = "rw"
            /\ \/ Names(symlink_dest_to_abs_path(f.name, f.to)) = Leads(f)
               \/ Len(Names(f.name)) = 1

(* The file systems of the cases have nothing but nodes, and only a link   *)
(* leads on.                                                               *)
IsTree(f) ==
  /\ f = [q \in DOMAIN f |-> f[q]]
  /\ \A q \in DOMAIN f :
       /\ f[q] = Node(f[q].kind, f[q].data, f[q].to, f[q].mode)
       /\ f[q].kind = "file" => f[q].to = <<>>

ASSUME TreeAssumption == \A c \in Cases : IsTree(c.fs)

BLOCK_COUNT(n) ==
  IF n % BLOCK_SIZE # 0 THEN n \div BLOCK_SIZE + 1 ELSE n \div BLOCK_SIZE

(* The job cut in blocks: s_block_t, and the bytes that make it up         *)
CutInBlocks ==
  LET stream == StreamOf(files)
      Cut(b) == SubSeq(stream, BLOCK_SIZE * b + 1,
                       Min({BLOCK_SIZE * (b + 1), Len(stream)}))
  IN [b \in 0 .. BLOCK_COUNT(Len(stream)) - 1 |->
        [start_f |-> Cut(b)[1][1], start_off |-> Cut(b)[1][2],
         size |-> Len(Cut(b)), bytes |-> Cut(b)]]

Blocks == DOMAIN blocks
block_count == Cardinality(Blocks)

(* The bytes of the file that d reads from offset on, n at most            *)
Pread(data, offset, n) == SubSeq(data, offset + 1, Min({offset + n, Len(data)}))

Cyclic(f) == ((f - 1) % file_count) + 1

next_b(b) == (b + 1) % block_count

(* What a file still has from the offset on, and what of it is the block's *)
file_left(r) == files[r.f].size - r.off

Count(r) == Min({r.block_left, file_left(r)})

-----------------------------------------------------------------------------
(* Wrong on purpose: definitions below with a bug that could be made in    *)
(* their code, each of which must break a property.                        *)

(* next_f that does not pass over directories, links and empty files       *)
next_fAny(f) == Cyclic(f + 1)

(* digest_ok that takes every block                                        *)
digest_okAlways(buf, b) == TRUE

(* correct_mode that only sets directories right                           *)
NeedsModeDirs(f) == files[f].size = -1

(* sendblocks without the branch for a block that ends with its file       *)
AfterBothInFile(r) ==
  [r EXCEPT !.off = @ + Count(r), !.b = next_b(@),
            !.block_left = blocks[next_b(r.b)].size]

(* mk_dir_symlink_file that opens with O_TRUNC                             *)
ResizedAnew(data, size) == [o \in 1 .. size |-> <<>>]

-----------------------------------------------------------------------------
(* The next file that has bytes, after the last comes the first            *)
next_f(f) ==
  Cyclic(f + Min({k \in 1 .. file_count : files[Cyclic(f + k)].size > 0}))

digest_ok(buf, b) == buf = digest[b]

(* -------------------------- the source hashes -------------------------- *)

NoHash == <<>>      \* the digest of a block that has not been hashed

(* open() gives a descriptor that can be read for regular files only.      *)
(* What is beyond the list is no name.                                     *)
NoFd == 0
OpenToHash(f) == IF f \in Regular THEN f ELSE NoFd

HashBlock(b) ==
  IF b \in Blocks
  THEN [pc |-> "read", b |-> b, f |-> blocks[b].start_f,
        fd |-> OpenToHash(blocks[b].start_f), off |-> blocks[b].start_off,
        val |-> <<>>, left |-> blocks[b].size]
  ELSE [pc |-> "ready", b |-> 0, f |-> 0, fd |-> NoFd, off |-> 0,
        val |-> <<>>, left |-> 0]

(* pread on a bad descriptor returns -1, which adds one to what is left:   *)
(* xor_hash_block never returns                                            *)
HashFails ==
  /\ sd.pc = "read" /\ sd.left > 0 /\ sd.fd = NoFd
  /\ sd' = [sd EXCEPT !.pc = "stuck"]
  /\ UNCHANGED digest

HashRead ==
  /\ sd.pc = "read" /\ sd.left > 0 /\ sd.fd # NoFd
  /\ LET got == Pread(remote[sd.fd], sd.off, sd.left)
         f == next_f(sd.f)
     IN sd' = IF got # <<>>
              THEN [sd EXCEPT !.val = @ \o got, !.left = @ - Len(got),
                              !.off = @ + Len(got)]
              ELSE [sd EXCEPT !.f = f, !.off = 0,
                      !.fd = OpenToHash(blocks[sd.b].start_f + f - 1)]
  /\ UNCHANGED digest

HashDone ==
  /\ sd.pc = "read" /\ sd.left = 0
  /\ digest' = [digest EXCEPT ![sd.b] = sd.val]
  /\ sd' = HashBlock(sd.b + 1)

xor_hash_block ==
  /\ HashFails \/ HashRead \/ HashDone
  /\ UNCHANGED <<job, blocks, remote, dl, fs, snaps, th, faults, crashes, short, altered>>

(* --------------------- the destination: its files ---------------------- *)

MayCreate(q) == ParentIs(fs, q, "dir") /\ fs[Front(q)].mode = "rw"

With(q, node) == [x \in DOMAIN fs \cup {q} |-> IF x = q THEN node ELSE fs[x]]

unmoved == <<job, blocks, remote, sd, digest, faults, crashes, short, altered>>

Fail == dl' = [dl EXCEPT !.pc = "failed"]

(* The names, the snapshot and, if there is one, what it says              *)
ProcessPath ==
  /\ dl.pc = "path" /\ sd.pc = "ready"
  /\ \E names \in {process_path(fs, files, job.uri, job.path)},
        snap \in {Real(fs, gen_snap_fpath(fs, job.path))} :
       LET found == snap \in DOMAIN snaps
       IN dl' = IF names = Refused
                THEN [dl EXCEPT !.pc = "failed", !.names = Refused]
                ELSE [dl EXCEPT !.pc = "mk", !.i = 1, !.names = names,
                        !.snap = snap, !.cont = found,
                        !.got = IF found THEN snaps[snap] ELSE {}]
  /\ UNCHANGED <<fs, snaps, th, unmoved>>

Made(i, cont) == dl' = [dl EXCEPT !.i = i + 1, !.cont = cont]

Resized(data, size) ==
  [o \in 1 .. size |-> IF o \in DOMAIN data THEN data[o] ELSE <<>>]

(* mkdir; whatever has the name already is taken for the directory         *)
MakeDir(i) ==
  LET q == Real(fs, dl.names[i])
  IN \/ q \in DOMAIN fs /\ Made(i, dl.cont) /\ UNCHANGED fs
     \/ /\ q \notin DOMAIN fs /\ MayCreate(q)
        /\ fs' = With(q, Dir("rw")) /\ Made(i, dl.cont)
     \/ q \notin DOMAIN fs /\ ~MayCreate(q) /\ Fail /\ UNCHANGED fs

(* symlink, once more after unlink; that the second fails is only logged   *)
MakeLink(i) ==
  LET q == Real(fs, dl.names[i])
      link == Link(symlink_dest_to_abs_path(files[i].name, files[i].to))
  IN \/ /\ q \in DOMAIN fs => fs[q].kind # "dir"
        /\ MayCreate(q)
        /\ fs' = With(q, link) /\ Made(i, dl.cont)
     \/ /\ q \in DOMAIN fs /\ (fs[q].kind = "dir" \/ ~MayCreate(q))
        /\ Made(i, dl.cont) /\ UNCHANGED fs
     \/ q \notin DOMAIN fs /\ ~MayCreate(q) /\ Fail /\ UNCHANGED fs

(* open with O_CREAT, and ftruncate                                        *)
MakeFile(i) ==
  LET q == Target(fs, dl.names[i])
      size == files[i].size
  IN \/ /\ q \in DOMAIN fs /\ fs[q].kind = "file" /\ fs[q].mode = "rw"
        /\ fs' = [fs EXCEPT ![q].data = Resized(@, size)]
        /\ Made(i, dl.cont /\ Len(fs[q].data) = size)
     \/ /\ q \notin DOMAIN fs /\ MayCreate(q)
        /\ fs' = With(q, File(Resized(<<>>, size), "rw"))
        /\ Made(i, dl.cont /\ size = 0)
     \/ /\ IF q \in DOMAIN fs THEN fs[q].kind # "file" \/ fs[q].mode = "ro"
           ELSE ~MayCreate(q)
        /\ Fail /\ UNCHANGED fs

mk_dir_symlink_file ==
  /\ dl.pc = "mk" /\ dl.i <= file_count
  /\ CASE files[dl.i].size = -1 -> MakeDir(dl.i)
       [] files[dl.i].size = -2 -> MakeLink(dl.i)
       [] OTHER -> MakeFile(dl.i)
  /\ UNCHANGED <<snaps, th, unmoved>>

(* A snapshot counts only while to_continue stands                         *)
StartFetch ==
  /\ dl.pc = "mk" /\ dl.i > file_count
  /\ LET got == IF dl.cont THEN dl.got ELSE {}
     IN /\ dl' = [dl EXCEPT !.pc = "fetch", !.got = got]
        /\ snaps' = [q \in DOMAIN snaps \cup {dl.snap} |->
                       IF q = dl.snap THEN got ELSE snaps[q]]
  /\ UNCHANGED <<fs, th, unmoved>>

NeedsMode(f) == files[f].size = -1 \/ files[f].mode = "ro"

correct_mode ==
  /\ dl.pc = "mode" /\ dl.i <= file_count
  /\ LET q == Target(fs, dl.names[dl.i])
     IN \/ ~NeedsMode(dl.i) /\ Made(dl.i, dl.cont) /\ UNCHANGED fs
        \/ /\ NeedsMode(dl.i) /\ q \in DOMAIN fs
           /\ fs' = [fs EXCEPT ![q].mode = files[dl.i].mode]
           /\ Made(dl.i, dl.cont)
        \/ NeedsMode(dl.i) /\ q \notin DOMAIN fs /\ Fail /\ UNCHANGED fs
  /\ UNCHANGED <<snaps, th, unmoved>>

Finish ==
  /\ dl.pc = "mode" /\ dl.i > file_count
  /\ dl' = [dl EXCEPT !.pc = "done"]
  /\ UNCHANGED <<fs, snaps, th, unmoved>>

(* ------------------ a request: the source's sendblocks ----------------- *)

Idle == [pc |-> "idle", start |-> 0, num |-> 0, b |-> 0, f |-> 1, off |-> 0,
         block_left |-> 0, total |-> 0, cnt |-> 0, retry |-> 0,
         wire |-> <<>>]

CanFault(kind) == kind \in Env /\ faults < MaxFaults /\ faults' = faults + 1

Set(t, r) == th' = [th EXCEPT ![t] = r]

sending == <<job, blocks, remote, sd, digest, dl, fs, snaps, crashes, altered>>

Asked(t) == th[t].start .. th[t].start + th[t].num - 1

(* Bytes of the blocks asked for; the last of the job may be smaller       *)
Total(start, num) ==
  BLOCK_SIZE * (num - 1)
  + (IF start + num >= block_count THEN blocks[block_count - 1].size
     ELSE BLOCK_SIZE)

(* Some blocks that are neither here nor asked for by another thread       *)
Request(t) ==
  /\ dl.pc = "fetch" /\ th[t].pc = "idle"
  /\ \E start \in Blocks, num \in 1 .. MaxNum :
       /\ start + num <= block_count
       /\ \A b \in start .. start + num - 1 :
            b \notin dl.got /\ \A u \in Threads : b \notin Asked(u)
       /\ Set(t, [Idle EXCEPT !.pc = "open", !.start = start, !.num = num,
                    !.b = start, !.f = blocks[start].start_f,
                    !.off = blocks[start].start_off,
                    !.block_left = blocks[start].size,
                    !.total = Total(start, num)])
  /\ UNCHANGED <<sending, faults, short>>

(* What of the present run of sendfileall the file still has               *)
Unsent(r) == Pread(remote[r.f], r.off + r.cnt, Count(r) - r.cnt)

(* open, and a new event for this part of a file; without the event the    *)
(* loop of sendfileall ends at once, and it returns 0                      *)
SendOpen(t) ==
  /\ th[t].pc = "open"
  /\ \/ /\ Set(t, [th[t] EXCEPT !.pc = "send", !.cnt = 0, !.retry = 0])
        /\ UNCHANGED faults
     \/ CanFault("event_error") /\ Set(t, [th[t] EXCEPT !.pc = "sent"])
     \/ CanFault("open_error") /\ Set(t, [th[t] EXCEPT !.pc = "arrived"])
  /\ UNCHANGED <<sending, short>>

(* sendfile sends some of it; errors in a row are one fault.  At the end   *)
(* of a file that is shorter than the job says it sends nothing, and is    *)
(* called again for ever.                                                  *)
ev_fn_gsendfile(t) ==
  /\ th[t].pc = "send"
  /\ \/ /\ \E n \in 1 .. Len(Unsent(th[t])) :
             Set(t, [th[t] EXCEPT
               !.wire = @ \o SubSeq(Unsent(th[t]), 1, n), !.cnt = @ + n,
               !.retry = 0,
               !.pc = IF th[t].cnt + n = Count(th[t]) THEN "sent" ELSE "send"])
        /\ UNCHANGED faults
     \/ /\ \/ CanFault("send_error")
           \/ th[t].retry > 0 /\ UNCHANGED faults
        /\ Set(t, [th[t] EXCEPT !.retry = @ + 1,
                     !.pc = IF th[t].retry > MaxRetry THEN "arrived" ELSE "send"])
  /\ UNCHANGED <<sending, short>>

(* The file ends in the midst of the block, with it, or after it           *)
AfterFile(r) ==
  [r EXCEPT !.block_left = @ - Count(r), !.f = next_f(@), !.off = 0]

AfterBoth(r) ==
  [r EXCEPT !.f = next_f(@), !.off = 0, !.b = next_b(@),
            !.block_left = blocks[next_b(r.b)].size]

AfterBlock(r) ==
  [r EXCEPT !.off = @ + Count(r), !.b = next_b(@),
            !.block_left = blocks[next_b(r.b)].size]

Sent(t) ==
  /\ th[t].pc = "sent"
  /\ LET r == th[t]
         next == IF r.block_left > file_left(r) THEN AfterFile(r)
                 ELSE IF r.block_left = file_left(r) THEN AfterBoth(r)
                 ELSE AfterBlock(r)
         total == r.total - Count(r)
     IN Set(t, [next EXCEPT !.total = total,
                  !.pc = IF total > 0 THEN "open" ELSE "arrived"])
  /\ UNCHANGED <<sending, faults, short>>

(* ------------- the request's other end: check and write ---------------- *)

(* The b-th block of what has arrived                                      *)
Buffer(r, b) ==
  SubSeq(r.wire, BLOCK_SIZE * (b - r.start) + 1,
         BLOCK_SIZE * (b - r.start) + blocks[b].size)

(* Blocks are checked in turn and written if they are right; a request     *)
(* that has not brought all it asked for, or a wrong block, is given up    *)
Check(r, b) ==
  IF /\ b < r.start + r.num
     /\ Len(r.wire) = Total(r.start, r.num)
     /\ digest_ok(Buffer(r, b), b)
  THEN [r EXCEPT !.pc = "write", !.b = b, !.f = blocks[b].start_f,
          !.off = blocks[b].start_off, !.total = blocks[b].size, !.cnt = 0]
  ELSE Idle

Receive(t) ==
  /\ th[t].pc = "arrived"
  /\ Set(t, Check(th[t], th[t].start))
  /\ UNCHANGED <<sending, faults, short>>

Overwritten(data, off, s) ==
  [o \in DOMAIN data |->
     IF o \in off + 1 .. off + Len(s) THEN s[o - off] ELSE data[o]]

writing == <<job, blocks, remote, sd, digest, snaps, crashes, altered>>

(* One turn of writeblock: open, pwrite, fsync, close, the next file       *)
WritePart(t) ==
  /\ th[t].pc = "write" /\ th[t].total > 0
  /\ LET r == th[t]
         q == Target(fs, dl.names[r.f])
         n == Min({file_left(r), r.total})
         Wrote(k) ==
           /\ fs' = [fs EXCEPT ![q].data =
                Overwritten(@, r.off, SubSeq(Buffer(r, r.b), r.cnt + 1, r.cnt + k))]
           /\ Set(t, [r EXCEPT !.total = @ - k, !.cnt = @ + k,
                         !.f = next_f(@), !.off = 0])
     IN \/ Wrote(n) /\ UNCHANGED <<faults, short>>
        \/ /\ CanFault("short_write") /\ short' = TRUE
           /\ \E k \in 0 .. n - 1 : Wrote(k)
        \/ /\ CanFault("open_error") \/ CanFault("write_error")
           /\ Set(t, Idle) /\ UNCHANGED <<fs, short>>
  /\ UNCHANGED <<writing, dl>>

(* writeblock returns what it has written: the block is done               *)
WriteDone(t) ==
  /\ th[t].pc = "write" /\ th[t].total <= 0
  /\ LET got == dl.got \cup {th[t].b}
     IN /\ dl' = [dl EXCEPT !.got = got]
        /\ snaps' = [snaps EXCEPT ![dl.snap] = got]
  /\ Set(t, Check(th[t], th[t].b + 1))
  /\ UNCHANGED <<job, blocks, remote, sd, digest, fs, faults, crashes, short, altered>>

(* All blocks are here                                                     *)
EndFetch ==
  /\ dl.pc = "fetch" /\ dl.got = Blocks
  /\ \A t \in Threads : th[t].pc = "idle"
  /\ dl' = [dl EXCEPT !.pc = "mode", !.i = 1]
  /\ UNCHANGED <<fs, snaps, th, unmoved>>

-----------------------------------------------------------------------------
(* The fetching process is killed, and started again                       *)
Crash ==
  /\ dl.pc \in {"mk", "fetch", "mode"} /\ crashes < MaxCrashes
  /\ crashes' = crashes + 1
  /\ dl' = [dl EXCEPT !.pc = "path", !.i = 1, !.cont = FALSE, !.got = {}]
  /\ th' = [t \in Threads |-> Idle]
  /\ UNCHANGED <<job, blocks, remote, sd, digest, fs, snaps, faults, short, altered>>

(* A file changes at the source after it has been hashed                   *)
Alter ==
  /\ sd.pc = "ready" /\ altered' = TRUE
  /\ \E f \in Regular :
       /\ remote[f] # <<>>
       /\ \/ /\ CanFault("alter")
             /\ remote' = [remote EXCEPT ![f][1] = Append(@, "new")]
          \/ CanFault("shrink") /\ remote' = [remote EXCEPT ![f] = Front(@)]
  /\ UNCHANGED <<job, blocks, sd, digest, dl, fs, snaps, th, crashes, short>>

-----------------------------------------------------------------------------
Init ==
  /\ job \in Cases /\ blocks = CutInBlocks
  /\ remote = [f \in DOMAIN files |-> Source(f)]
  /\ sd = HashBlock(IF job.hashed THEN 0 ELSE block_count)
  /\ digest = [b \in Blocks |-> IF job.hashed THEN NoHash ELSE blocks[b].bytes]
  /\ dl = [pc |-> "path", i |-> 1, names |-> Refused, snap |-> <<>>,
           cont |-> FALSE, got |-> {}]
  /\ fs = job.fs /\ snaps = [q \in {} |-> {}]
  /\ th = [t \in Threads |-> Idle]
  /\ faults = 0 /\ crashes = 0 /\ short = FALSE /\ altered = FALSE

OnItsWay ==
  mk_dir_symlink_file \/ StartFetch \/ EndFetch \/ correct_mode \/ Finish

sendblocks(t) == SendOpen(t) \/ ev_fn_gsendfile(t) \/ Sent(t)

writeblock(t) == WritePart(t) \/ WriteDone(t)

Fetching(t) == Request(t) \/ sendblocks(t) \/ Receive(t) \/ writeblock(t)

Next ==
  \/ xor_hash_block \/ ProcessPath \/ OnItsWay \/ \E t \in Threads : Fetching(t)
  \/ Crash \/ Alter

Spec == Init /\ [][Next]_vars

(* A fetch that is on its way goes on, and so does each thread of it       *)
FairSpec ==
  /\ Spec
  /\ WF_vars(OnItsWay)
  /\ \A t \in Threads : WF_vars(Fetching(t))

-----------------------------------------------------------------------------
TypeOK ==
  /\ job \in Cases
  /\ sd.pc \in {"read", "ready", "stuck"} /\ sd.b \in Nat /\ sd.left \in Nat
  /\ DOMAIN digest = Blocks
  /\ dl.pc \in {"path", "mk", "fetch", "mode", "done", "failed"}
  /\ dl.i \in 1 .. file_count + 1 /\ dl.cont \in BOOLEAN
  /\ dl.got \subseteq Blocks
  /\ \A t \in Threads :
       /\ th[t].pc \in {"idle", "open", "send", "sent", "arrived", "write"}
       /\ th[t].f \in DOMAIN files /\ th[t].b \in Blocks \cup {0}
       /\ \A x \in {"off", "block_left", "total", "cnt", "retry"} :
            th[t][x] \in Nat
  /\ faults \in 0 .. MaxFaults /\ crashes \in 0 .. MaxCrashes
  /\ short \in BOOLEAN /\ altered \in BOOLEAN

(* What is where the bytes of a file belong                                *)
LocalData(f) ==
  LET q == Target(fs, dl.names[f])
  IN IF q \in DOMAIN fs THEN fs[q].data ELSE <<>>

Bytes == UNION {Range(blocks[b].bytes) : b \in Blocks}

Placed ==
  UNION {LET data == LocalData(f)
         IN {<<f, o>> : o \in {x \in 0 .. files[f].size - 1 :
                                x + 1 \in DOMAIN data /\ data[x + 1] = <<f, x>>}} :
           f \in Regular}

Missing == Bytes \ Placed

(* "xor hash specified block": the digest of a block is the hash of its    *)
(* bytes.                                                                  *)
DigestOfBlock == \A b \in Blocks : digest[b] \in {NoHash, blocks[b].bytes}

(* Every file that has bytes is there, has its size and is not another     *)
(* file of the job as well.                                                *)
Own(f, g) == f # g => Target(fs, dl.names[f]) # Target(fs, dl.names[g])

LocalFiles ==
  LET Full == {f \in Regular : files[f].size > 0}
  IN \A f \in Full :
       /\ Target(fs, dl.names[f]) \in DOMAIN fs
       /\ DOMAIN LocalData(f) = 1 .. files[f].size
       /\ \A g \in Regular : Own(f, g)

(* A block that counts as fetched is in its place, whole, in a file that   *)
(* has its size: also after the process has been killed and has gone on    *)
(* from its snapshot, also while other threads write to the same files,    *)
(* whatever the source has sent.                                           *)
FetchedIsPlaced ==
  dl.pc \in {"fetch", "mode", "done"} =>
    /\ LocalFiles
    /\ ~short => \A b \in dl.got : \A k \in DOMAIN blocks[b].bytes :
                   blocks[b].bytes[k] \notin Missing

(* What the destination is before anything of the job is there             *)
Dest == Target(fs, job.path)

DestIs(kind) == Dest \in DOMAIN fs /\ fs[Dest].kind = kind

Single == file_count = 1 /\ files[1].size >= 0

(* A destination that is a directory gets the job, another becomes the job *)
Place(i) ==
  (IF DestIs("dir") THEN Append(Dest, Last(Names(job.uri))) ELSE Dest)
  \o SubSeq(Names(files[i].name), Len(Names(job.uri)) + 1,
            Len(Names(files[i].name)))

(* Not in the root itself: process_path looks for what is before the last  *)
(* slash of "/name" and finds no directory                                 *)
Possible ==
  \/ DestIs("dir")
  \/ DestIs("file") /\ Single
  \/ /\ Dest \notin DOMAIN fs /\ Dest = Real(fs, job.path)
     /\ ParentIs(fs, Dest, "dir") /\ Len(Dest) > 1
     /\ ~(Single /\ Last(job.path) = "/")

(* Files and directories have places of their own, and a link of the job   *)
(* is neither in the place of another entry nor on the way to one.         *)
IsLink(i) == files[i].size = -2

OnTheWay(q, p) == \E k \in 1 .. Len(Names(p)) - 1 : SubSeq(Names(p), 1, k) = q

Apart ==
  \A i, j \in DOMAIN files :
    LET q == Real(fs, dl.names[i])
    IN IF IsLink(i)
       THEN /\ ~OnTheWay(q, dl.names[j])
            /\ i # j => /\ q # Real(fs, dl.names[j])
                        /\ ~IsLink(j) => q # Target(fs, dl.names[j])
       ELSE ~IsLink(j) => Own(i, j)

(* A directory is there, or something had its name before the job; a link  *)
(* leads where it does at the source, or there was a directory or a link   *)
(* in a directory that cannot be written to.                               *)
DirThere(i) ==
  \/ /\ Target(fs, dl.names[i]) \in DOMAIN fs
     /\ fs[Target(fs, dl.names[i])].kind = "dir"
  \/ Real(fs, dl.names[i]) \in DOMAIN job.fs

LeftAsItWas(q) ==
  /\ q \in DOMAIN job.fs /\ fs[q] = job.fs[q]
  /\ \/ job.fs[q].kind = "dir"
     \/ ParentIs(job.fs, q, "dir") => job.fs[Front(q)].mode # "rw"

LinkThere(i) ==
  LET q == Real(fs, dl.names[i])
  IN \/ fs[q] = Link(symlink_dest_to_abs_path(files[i].name, files[i].to))
     \/ LeftAsItWas(q)

(* What is in the way of the job was so before it, was left by an earlier  *)
(* run for the same entry, or can be replaced.                             *)
NotInTheWay(i) ==
  LET q == Real(fs, dl.names[i])
  IN q \in DOMAIN fs =>
       /\ files[i].size = -1 => DirThere(i)
       /\ IsLink(i) => LinkThere(i) \/ (fs[q].kind # "dir" /\ MayCreate(q))

(* Whatever slashes source and destination are given with, the job is      *)
(* refused only if it cannot be put there, its files keep their places     *)
(* relative to each other, each has one of its own, nothing that an        *)
(* earlier run has left is in their way, and the snapshot has a directory  *)
(* to be in.                                                               *)
NamedAsAsked ==
  /\ dl.pc = "mk" /\ dl.i = 1 =>
       /\ Possible
       /\ IF DestIs("file") THEN Target(fs, dl.names[1]) = Dest
          ELSE \A i \in DOMAIN files : Real(fs, dl.names[i]) = Place(i)
       /\ Apart
       /\ \A i \in DOMAIN files : NotInTheWay(i)
       /\ ParentIs(fs, dl.snap, "dir")
  /\ dl.pc = "failed" /\ dl.names = Refused => ~Possible

(* A process that is started again goes on where it was: with the same     *)
(* local files, and the snapshot it has left.  Not so when it has made the *)
(* destination of a directory itself: that is then a directory to put the  *)
(* job in, where there is no snapshot yet.  Where there is one, nothing    *)
(* has to be made again, and directories and links are as they were, but   *)
(* for a link of before the job that can now be replaced.                  *)
SameNames ==
  dl.pc = "path" /\ dl.names # Refused /\ dl'.pc = "mk"
    => \/ dl'.names = dl.names /\ dl'.snap = dl.snap
       \/ /\ ~Single /\ Target(job.fs, job.path) \notin DOMAIN job.fs
          /\ ~dl'.cont

NothingAnew ==
  mk_dir_symlink_file /\ dl.snap \in DOMAIN snaps
    => /\ DOMAIN fs' = DOMAIN fs
       /\ files[dl.i].size < 0 =>
            \/ fs' = fs
            \/ IsLink(dl.i) /\ LeftAsItWas(Real(fs, dl.names[dl.i]))

ResumesInPlace == [][SameNames /\ NothingAnew]_vars

(* What is reported done is the job: every file with its bytes and mode,   *)
(* the directories, and links that lead where they do at the source; but   *)
(* not where a directory's name was a file's before or a link's that of a  *)
(* directory, nor for a link of before the job in a directory that cannot  *)
(* be written to, or a relative link that lies in the root.                *)
DoneIsWhole ==
  dl.pc = "done" /\ ~short =>
    \A i \in DOMAIN files :
      LET q == Real(fs, dl.names[i])
          to == Target(fs, dl.names[i])
      IN CASE files[i].size >= 0 ->
                fs[to] = File(Source(i), files[i].mode)
           [] files[i].size = -1 ->
                DirThere(i) /\ fs[to].mode = files[i].mode
           [] OTHER ->
                \/ LeftAsItWas(q)
                \/ fs[q].kind = "link" /\ Names(fs[q].to) = Leads(files[i])
                \/ Len(Names(files[i].name)) = 1

(* Bytes come to their places and stay there, see FileCopy                 *)
Copy == INSTANCE FileCopy WITH
  missing <- IF dl.pc \in {"fetch", "mode", "done"} THEN Missing
             ELSE Bytes,
  outcome <- IF dl.pc \in {"done", "failed"} THEN dl.pc ELSE "none",
  run <- crashes,
  spoilt <- short

ImplementsCopy == Copy!Spec

(* A fetch ends, whichever calls fail, unless it is killed, the source     *)
(* has hashed a block wrongly or one of its files has changed.             *)
FetchEnds ==
  dl.pc = "fetch" ~>
    dl.pc \in {"done", "failed", "path"} \/ ~DigestOfBlock \/ altered
=============================================================================
