--------------------------- MODULE ConnPoolProofs ---------------------------
(***************************************************************************)
(* Who holds a slot, what is in it, and whose the descriptors are.         *)
(***************************************************************************)
EXTENDS ConnPoolTypes

(* What the environment may do without breaking the pool: no late answer   *)
(* of a name server, and nothing that makes the machine ares_gethostbyname *)
(* calls close its connection - unless there is one slot, whose connection *)
(* no other can take for its own.                                          *)
SafeEnv ==
  /\ "late_dns" \notin Env
  /\ \/ ConnLimit = 1
     \/ "bad_name" \notin Env /\ ~({"literal_ip", "no_socket"} \subseteq Env)

InPipe(w)   == Holding(<<"pipe", w>>)
AtWorker(w) == Holding(<<"worker", w>>)

(* A slot that nobody has filled yet, one that is filled and on its way to *)
(* worker w, and one that worker w serves                                  *)
Clean(r) ==
  /\ r.client_fd = NoFd /\ r.read_buffer = Null /\ r.write_buffer = Null
  /\ r.event = "none" /\ r.ev_dns = Null

Queued(r, w) ==
  /\ r.event = "none" /\ r.ev_dns = Null
  /\ r.type = "active" =>
       /\ r.client_fd = FD_BEFORE_CONNECT /\ r.worker_id = w
       /\ r.read_buffer = w /\ r.write_buffer = w
  /\ r.type = "coming" =>
       r.client_fd \in Fds /\ r.read_buffer = Null /\ r.write_buffer = Null

Served(r, w) ==
  /\ r.client_fd # NoFd /\ r.worker_id = w
  /\ r.write_buffer \in {w, Null} /\ r.read_buffer \in {w, Heap, Null}
  /\ r.ev_dns \in {Null, w}
  /\ r.state \in Naming => r.client_fd = FD_BEFORE_CONNECT

(* What is in slot c fits whoever holds it                                 *)
Fits(c) ==
  /\ client[c].conn_time = "zero" => Clean(client[c])
  /\ listener.slot = c =>
       /\ listener.pc = "filling" => Clean(client[c])
       /\ listener.pc = "dispatch" =>
            client[c].type = "coming" /\ Queued(client[c], Null)
  /\ \A j \in Jobs : caller[j].slot = c =>
       /\ caller[j].pc = "filling" => Clean(client[c])
       /\ caller[j].pc = "dispatch" =>
            client[c].type = "active" /\ Queued(client[c], caller[j].worker)
  /\ \A w \in Workers :
       /\ c \in InPipe(w) => Queued(client[c], w)
       /\ c \in AtWorker(w) => Served(client[c], w)

Records == \A c \in Slots : Fits(c)

(* Worker w is busy with a connection of its own.  Back from a machine     *)
(* that ares_gethostbyname ran, it still is, or there is one slot only.    *)
Busy(w) ==
  /\ sweep[w].todo \subseteq AtWorker(w)
  /\ ctl[w].pc # "sweep" => sweep[w] = NoSweep
  /\ ctl[w].pc = "machine" =>
       /\ ctl[w].slot \in AtWorker(w)
       /\ ctl[w].nested =>
            \/ ConnLimit = 1
            \/ "literal_ip" \in Env /\ client[ctl[w].slot].state = "connecting"
  /\ ctl[w].pc = "fds" => ConnLimit = 1 \/ ctl[w].slot \in AtWorker(w)

Places ==
  /\ listener.pc = "idle" <=> listener.slot = NoSlot
  /\ listener.pc = "filling" => listener.fd \in Fds
  /\ \A j \in Jobs :
       caller[j].pc \in {"filling", "dispatch"} <=> caller[j].slot # NoSlot
  /\ \A w \in Workers : Busy(w)

(* A query is of a connection that waits for it, which has no other        *)
Queries ==
  /\ \A q \in queries :
       q.slot \in AtWorker(q.worker) /\ client[q.slot].state = "resolving"
  /\ \A p, q \in queries : p.slot = q.slot => p = q

IInv == OneHolder /\ Records /\ Places /\ Queries /\ DescriptorsOwned

-----------------------------------------------------------------------------
(* Holders.                                                                *)

LEMMA Apart ==
  /\ NoSlot \notin Slots /\ NoFd \notin Fds /\ FD_BEFORE_CONNECT \notin Fds
  /\ NoFd # FD_BEFORE_CONNECT
  /\ Null \notin Workers /\ Heap \notin Workers /\ Null # Heap
BY PoolAssumption DEF NoSlot, Slots, NoFd, FD_BEFORE_CONNECT, Null, Heap,
   Workers

HeldIs ==
  /\ Holding(<<"listener", 0>>) = {listener.slot} \ {NoSlot}
  /\ \A j \in Jobs : Holding(<<"caller", j>>) = {caller[j].slot} \ {NoSlot}
  /\ \A w \in Workers :
       /\ InPipe(w) = {pipe[w][i] : i \in 1 .. Len(pipe[w])}
       /\ AtWorker(w) = conn_set[w] \ sweep[w].freed

LEMMA HeldLemma == HeldIs /\ HeldIs'
BY DEF HeldIs, Holding, InPipe, AtWorker

LEMMA HolderKinds ==
  /\ \A h \in Holders :
       \/ h = <<"listener", 0>>
       \/ \E j \in Jobs : h = <<"caller", j>>
       \/ \E w \in Workers : h = <<"pipe", w>> \/ h = <<"worker", w>>
  /\ <<"listener", 0>> \in Holders
  /\ \A j \in Jobs : <<"caller", j>> \in Holders
  /\ \A w \in Workers : <<"pipe", w>> \in Holders /\ <<"worker", w>> \in Holders
BY DEF Holders

LEMMA HoldersKeep ==
  ASSUME OneHolder, UNCHANGED pipe,
         \A h \in Holders : Holding(h)' = Holding(h),
         \A c \in Slots : client'[c].conn_time = "zero"
                          <=> client[c].conn_time = "zero"
  PROVE  OneHolder'
BY DEF OneHolder, Holders

LEMMA HoldersPass ==
  ASSUME OneHolder, NEW h \in Holders, NEW k \in Holders, h # k,
         NEW c \in Holding(h),
         Holding(h)' = Holding(h) \ {c}, Holding(k)' = Holding(k) \cup {c},
         \A g \in Holders \ {h, k} : Holding(g)' = Holding(g),
         \A w \in Workers : \A i, n \in 1 .. Len(pipe'[w]) :
            pipe'[w][i] = pipe'[w][n] => i = n,
         \A d \in Slots : client'[d].conn_time = "zero"
                          <=> client[d].conn_time = "zero"
  PROVE  OneHolder'
<1>0. Holders' = Holders
  BY DEF Holders
<1>1. \A g, f \in Holders : g # f => Holding(g)' \cap Holding(f)' = {}
  BY DEF OneHolder
<1>2. \A d \in Slots : (\E g \in Holders : d \in Holding(g)')
                       <=> \E g \in Holders : d \in Holding(g)
  OBVIOUS
<1> QED
  BY <1>0, <1>1, <1>2 DEF OneHolder

LEMMA HoldersGrab ==
  ASSUME OneHolder, UNCHANGED pipe, NEW h \in Holders, NEW c \in FreeSlots,
         Holding(h)' = Holding(h) \cup {c},
         \A g \in Holders \ {h} : Holding(g)' = Holding(g),
         client'[c].conn_time # "zero",
         \A d \in Slots \ {c} : client'[d].conn_time = "zero"
                                <=> client[d].conn_time = "zero"
  PROVE  OneHolder'
<1>0. Holders' = Holders
  BY DEF Holders
<1>1. c \in Slots /\ \A g \in Holders : c \notin Holding(g)
  BY DEF OneHolder, FreeSlots
<1>2. \A g, f \in Holders : g # f => Holding(g)' \cap Holding(f)' = {}
  BY <1>1 DEF OneHolder
<1>3. \A d \in Slots \ {c} : (\E g \in Holders : d \in Holding(g)')
                             <=> \E g \in Holders : d \in Holding(g)
  OBVIOUS
<1>4. \E g \in Holders : c \in Holding(g)'
  OBVIOUS
<1> QED
  BY <1>0, <1>1, <1>2, <1>3, <1>4 DEF OneHolder

LEMMA HoldersDrop ==
  ASSUME OneHolder, UNCHANGED pipe, NEW h \in Holders, NEW c \in Holding(h),
         c \in Slots,
         Holding(h)' = Holding(h) \ {c},
         \A g \in Holders \ {h} : Holding(g)' = Holding(g),
         client'[c].conn_time = "zero",
         \A d \in Slots \ {c} : client'[d].conn_time = "zero"
                                <=> client[d].conn_time = "zero"
  PROVE  OneHolder'
<1>0. Holders' = Holders
  BY DEF Holders
<1>1. \A g \in Holders \ {h} : c \notin Holding(g)
  BY DEF OneHolder
<1>2. \A g, f \in Holders : g # f => Holding(g)' \cap Holding(f)' = {}
  BY DEF OneHolder
<1>3. \A d \in Slots \ {c} : (\E g \in Holders : d \in Holding(g)')
                             <=> \E g \in Holders : d \in Holding(g)
  OBVIOUS
<1>4. \A g \in Holders : c \notin Holding(g)'
  BY <1>1
<1> QED
  BY <1>0, <1>2, <1>3, <1>4 DEF OneHolder

(* Who has a slot in the pool: each has it alone.                          *)
Alone ==
  \A c \in Slots :
    /\ listener.slot = c =>
         /\ client[c].conn_time # "zero"
         /\ \A j \in Jobs : caller[j].slot # c
         /\ \A w \in Workers : c \notin InPipe(w) /\ c \notin AtWorker(w)
    /\ \A j \in Jobs : caller[j].slot = c =>
         /\ client[c].conn_time # "zero"
         /\ \A k \in Jobs \ {j} : caller[k].slot # c
         /\ \A w \in Workers : c \notin InPipe(w) /\ c \notin AtWorker(w)
    /\ \A w \in Workers : c \in InPipe(w) =>
         /\ client[c].conn_time # "zero"
         /\ \A v \in Workers : c \notin AtWorker(v)
         /\ \A v \in Workers \ {w} : c \notin InPipe(v)
    /\ \A w \in Workers : c \in AtWorker(w) =>
         /\ client[c].conn_time # "zero"
         /\ \A v \in Workers \ {w} : c \notin AtWorker(v)
    /\ client[c].conn_time # "zero" =>
         \/ listener.slot = c \/ \E j \in Jobs : caller[j].slot = c
         \/ \E w \in Workers : c \in InPipe(w) \/ c \in AtWorker(w)

LEMMA HolderAlone == OneHolder => Alone
<1> DEFINE L == <<"listener", 0>>
           C(j) == <<"caller", j>>
           P(w) == <<"pipe", w>>
           W(w) == <<"worker", w>>
<1>1. /\ L \in Holders /\ \A j \in Jobs : C(j) \in Holders /\ C(j) # L
      /\ \A w \in Workers : /\ P(w) \in Holders /\ W(w) \in Holders
                            /\ P(w) # L /\ W(w) # L
      /\ \A j \in Jobs, w \in Workers : C(j) # P(w) /\ C(j) # W(w)
      /\ \A v, w \in Workers : P(v) # W(w)
      /\ \A v, w \in Workers : v # w => P(v) # P(w) /\ W(v) # W(w)
      /\ \A j, k \in Jobs : j # k => C(j) # C(k)
  BY HolderKinds
<1>2. \A h \in Holders :
        \/ h = L \/ \E j \in Jobs : h = C(j)
        \/ \E w \in Workers : h = P(w) \/ h = W(w)
  BY HolderKinds
<1>3. \A w : Holding(P(w)) = InPipe(w) /\ Holding(W(w)) = AtWorker(w)
  BY DEF InPipe, AtWorker
<1>4. /\ NoSlot \notin Slots
      /\ Holding(L) = {listener.slot} \ {NoSlot}
      /\ \A j \in Jobs : Holding(C(j)) = {caller[j].slot} \ {NoSlot}
  BY Apart, HeldLemma DEF HeldIs
<1> HIDE DEF L, C, P, W
<1>5. ASSUME OneHolder PROVE Alone
  <2>1. /\ \A h, k \in Holders : h # k => Holding(h) \cap Holding(k) = {}
        /\ \A c \in Slots : client[c].conn_time # "zero"
                            <=> \E h \in Holders : c \in Holding(h)
    BY <1>5 DEF OneHolder
  <2> QED
    BY <1>1, <1>2, <1>3, <1>4, <2>1 DEF Alone
<1> QED
  BY <1>5

LEMMA AloneLemma == (OneHolder => Alone) /\ (OneHolder' => Alone')
BY HolderAlone, PTL

-----------------------------------------------------------------------------
(* Slots: one that a step does not touch, and the one it does.             *)

LEMMA FitsStill ==
  ASSUME NEW c \in Slots, Fits(c),
         client'[c] = client[c],
         listener'.slot = c =>
           listener.slot = c /\ listener'.pc = listener.pc,
         \A j \in Jobs : caller'[j].slot = c => caller'[j] = caller[j],
         \A w \in Workers : /\ c \in InPipe(w)' => c \in InPipe(w)
                            /\ c \in AtWorker(w)' => c \in AtWorker(w)
  PROVE  Fits(c)'
BY DEF Fits

(* The one holder of a slot decides what must be in it                     *)
LEMMA FitsOwner ==
  ASSUME NEW c \in Slots, OneHolder',
         \/ client'[c].conn_time = "zero" /\ Clean(client'[c])
         \/ /\ listener'.slot = c
            /\ listener'.pc = "filling" => Clean(client'[c])
            /\ listener'.pc = "dispatch" =>
                 client'[c].type = "coming" /\ Queued(client'[c], Null)
         \/ \E j \in Jobs :
              /\ caller'[j].slot = c
              /\ caller'[j].pc = "filling" => Clean(client'[c])
              /\ caller'[j].pc = "dispatch" =>
                   /\ client'[c].type = "active"
                   /\ Queued(client'[c], caller'[j].worker)
         \/ \E w \in Workers : c \in InPipe(w)' /\ Queued(client'[c], w)
         \/ \E w \in Workers : c \in AtWorker(w)' /\ Served(client'[c], w)
  PROVE  Fits(c)'
<1>1. Alone'
  BY AloneLemma
<1> QED
  BY <1>1 DEF Alone, Fits

LEMMA BusyStill ==
  ASSUME NEW w \in Workers, Busy(w),
         ctl'[w] = ctl[w], sweep'[w] = sweep[w],
         AtWorker(w)' = AtWorker(w),
         client'[ctl[w].slot].state = client[ctl[w].slot].state
           \/ ctl[w].pc # "machine"
  PROVE  Busy(w)'
BY DEF Busy

LEMMA SameDescriptors ==
  ASSUME DescriptorsOwned, open' = open,
         \A c \in Slots : client'[c].client_fd = client[c].client_fd,
         listener'.pc = "filling" <=> listener.pc = "filling",
         listener.pc = "filling" => listener'.fd = listener.fd
  PROVE  DescriptorsOwned'
<1>1. Sockets' = Sockets
  BY DEF Sockets
<1>2. {client'[c].client_fd : c \in Sockets} = {client[c].client_fd : c \in Sockets}
  BY DEF Sockets
<1> QED
  BY <1>1, <1>2 DEF DescriptorsOwned, Sockets

(* A worker goes on with a connection                                      *)
LEMMA ServedStill ==
  ASSUME NEW w \in Workers, NEW r, Served(r, w), NEW t, Continues(r, t),
         t.state \in Naming => r.state \in Naming
  PROVE  Served(t, w)
BY DEF Served, Continues

LEMMA InPlace ==
  ASSUME TypeOK, OneHolder, Records, DescriptorsOwned,
         NEW w \in Workers, NEW c \in AtWorker(w), c \in Slots,
         NEW t, Continues(client[c], t),
         t.state \in Naming => client[c].state \in Naming,
         client' = [client EXCEPT ![c] = t],
         UNCHANGED <<listener, caller, pipe, conn_set, sweep, open>>
  PROVE  /\ OneHolder' /\ Records' /\ DescriptorsOwned'
         /\ \A v \in Workers : AtWorker(v)' = AtWorker(v)
<1>1. client'[c] = t /\ \A d \in Slots \ {c} : client'[d] = client[d]
  BY DEF TypeOK
<1>2. Served(client[c], w) /\ client[c].conn_time # "zero"
  BY AloneLemma DEF Records, Fits, Alone
<1>3. Served(t, w)
  BY <1>2, ServedStill
<1>4. /\ \A h \in Holders : Holding(h)' = Holding(h)
      /\ \A v \in Workers : AtWorker(v)' = AtWorker(v) /\ InPipe(v)' = InPipe(v)
  BY DEF Holding, AtWorker, InPipe
<1>5. t.conn_time # "zero"
  BY <1>2 DEF Continues
<1>6. OneHolder'
  BY <1>1, <1>2, <1>4, <1>5, HoldersKeep
<1>7. Fits(c)'
  BY <1>1, <1>3, <1>4, <1>6, FitsOwner
<1>8. \A d \in Slots \ {c} : Fits(d)'
  BY <1>1, <1>4, FitsStill DEF Records
<1>9. DescriptorsOwned'
  BY <1>1, SameDescriptors DEF Continues
<1> QED
  BY <1>4, <1>6, <1>7, <1>8, <1>9 DEF Records

-----------------------------------------------------------------------------
(* Pipes.                                                                  *)

In(s) == {s[i] : i \in 1 .. Len(s)}

Once(s) == \A i, n \in 1 .. Len(s) : s[i] = s[n] => i = n

LEMMA AppendLemma ==
  ASSUME NEW S, NEW s \in Seq(S), NEW c \in S, c \notin In(s), Once(s)
  PROVE  In(Append(s, c)) = In(s) \cup {c} /\ Once(Append(s, c))
<1>1. /\ Len(Append(s, c)) = Len(s) + 1 /\ Len(s) \in Nat
      /\ \A i \in 1 .. Len(s) : Append(s, c)[i] = s[i]
      /\ Append(s, c)[Len(s) + 1] = c
  OBVIOUS
<1> DEFINE a == Append(s, c)
           l == Len(s)
<1>2. /\ Len(a) = l + 1 /\ l \in Nat /\ a[l + 1] = c
      /\ \A i \in 1 .. l : a[i] = s[i] /\ s[i] # c
  BY <1>1 DEF In
<1>3. Once(s) <=> \A i, n \in 1 .. l : s[i] = s[n] => i = n
  BY DEF Once
<1>4. In(s) = {s[i] : i \in 1 .. l}
  BY DEF In
<1> HIDE DEF a, l
<1>5. In(a) = In(s) \cup {c}
  <2>1. \A i \in 1 .. l + 1 : i = l + 1 \/ i \in 1 .. l
    BY <1>2
  <2>2. In(a) \subseteq In(s) \cup {c}
    BY <1>2, <1>4, <2>1 DEF In
  <2>3. \A i \in 1 .. l : s[i] \in In(a)
    BY <1>2 DEF In
  <2>4. c \in In(a)
    BY <1>2 DEF In
  <2> QED
    BY <1>4, <2>2, <2>3, <2>4
<1>6. Once(a)
  BY <1>2, <1>3 DEF Once
<1> QED
  BY <1>5, <1>6 DEF a

LEMMA TailLemma ==
  ASSUME NEW S, NEW s \in Seq(S), s # <<>>, Once(s)
  PROVE  /\ In(Tail(s)) = In(s) \ {Head(s)} /\ Once(Tail(s))
         /\ Head(s) \in In(s)
<1> DEFINE t == Tail(s)
           l == Len(s)
<1>1. /\ Len(t) = l - 1 /\ l \in Nat \ {0} /\ Head(s) = s[1]
      /\ \A i \in 1 .. l - 1 : t[i] = s[i + 1]
  OBVIOUS
<1>3. \A i, n \in 1 .. l : s[i] = s[n] => i = n
  BY DEF Once
<1>4. In(s) = {s[i] : i \in 1 .. l}
  BY DEF In
<1> HIDE DEF t, l
<1>5. \A i \in 1 .. l - 1 : i + 1 \in 1 .. l /\ i + 1 # 1
  BY <1>1
<1>6. Once(t)
  <2>1. ASSUME NEW i \in 1 .. Len(t), NEW n \in 1 .. Len(t), t[i] = t[n]
        PROVE  i = n
    <3>1. i + 1 = n + 1
      BY <1>1, <1>3, <1>5, <2>1
    <3> QED
      BY <1>1, <3>1
  <2> QED
    BY <2>1 DEF Once
<1>7. Head(s) \in In(s)
  BY <1>1, <1>4
<1>8. In(t) \subseteq In(s) \ {Head(s)}
  <2>1. ASSUME NEW i \in 1 .. Len(t)
        PROVE  t[i] \in In(s) \ {Head(s)}
    <3>1. i + 1 \in 1 .. l /\ i + 1 # 1 /\ 1 \in 1 .. l /\ t[i] = s[i + 1]
      BY <1>1, <1>5
    <3> QED
      BY <1>1, <1>3, <1>4, <3>1
  <2> QED
    BY <2>1 DEF In
<1>9. In(s) \ {Head(s)} \subseteq In(t)
  <2>1. ASSUME NEW i \in 1 .. l, s[i] # Head(s)
        PROVE  s[i] \in In(t)
    <3>1. i # 1
      BY <1>1, <2>1
    <3>2. i - 1 \in 1 .. Len(t) /\ (i - 1) + 1 = i
      BY <1>1, <3>1
    <3>3. t[i - 1] = s[i]
      BY <1>1, <3>2
    <3> QED
      BY <3>2, <3>3 DEF In
  <2> QED
    BY <1>4, <2>1
<1> QED
  BY <1>6, <1>7, <1>8, <1>9 DEF t

LEMMA PipeOnce ==
  ASSUME OneHolder, NEW w \in Workers
  PROVE  Once(pipe[w]) /\ InPipe(w) = In(pipe[w])
BY HeldLemma DEF OneHolder, Once, In, HeldIs

-----------------------------------------------------------------------------
LEMMA InitIInv == Init => IInv
<1> SUFFICES ASSUME Init PROVE IInv
  OBVIOUS
<1>0. HeldIs /\ NoSlot \notin Slots
  BY HeldLemma, Apart
<1>1. \A h \in Holders : Holding(h) = {}
  <2>1. \A w \in Workers : InPipe(w) = {} /\ AtWorker(w) = {}
    <3>1. \A w \in Workers : pipe[w] = <<>> /\ conn_set[w] = {}
      BY DEF Init
    <3> QED
      BY <1>0, <3>1 DEF HeldIs
  <2>2. /\ Holding(<<"listener", 0>>) = {}
        /\ \A j \in Jobs : Holding(<<"caller", j>>) = {}
    BY <1>0 DEF HeldIs, Init
  <2> QED
    BY <2>1, <2>2, HolderKinds DEF InPipe, AtWorker
<1>2. \A c \in Slots : client[c] = EmptyClient
  BY DEF Init
<1>3. OneHolder
  BY <1>1, <1>2 DEF OneHolder, EmptyClient, Init
<1>4. Records
  BY <1>2, <1>3, <1>0, <1>1 DEF Records, Fits, Clean, EmptyClient, Init,
     InPipe, AtWorker, Holders
<1>5. Places
  BY <1>1 DEF Places, Init, Busy, Idle, NoSweep
<1>6. Queries
  BY DEF Queries, Init
<1>7. DescriptorsOwned
  BY <1>2, Apart DEF DescriptorsOwned, Sockets, EmptyClient, Init
<1> QED
  BY <1>3, <1>4, <1>5, <1>6, <1>7 DEF IInv

-----------------------------------------------------------------------------
(* The thread that accepts.                                                *)

LEMMA HeldSame ==
  /\ listener'.slot = listener.slot =>
       Holding(<<"listener", 0>>)' = Holding(<<"listener", 0>>)
  /\ \A j \in Jobs : caller'[j].slot = caller[j].slot =>
       Holding(<<"caller", j>>)' = Holding(<<"caller", j>>)
  /\ \A w \in Workers : pipe'[w] = pipe[w] =>
       Holding(<<"pipe", w>>)' = Holding(<<"pipe", w>>)
  /\ \A w \in Workers : conn_set'[w] = conn_set[w] /\ sweep'[w] = sweep[w] =>
       Holding(<<"worker", w>>)' = Holding(<<"worker", w>>)
BY DEF Holding

(* What happens to a slot that no worker serves is nothing to the workers  *)
LEMMA WorkersStill ==
  ASSUME Typed, IInv, NEW c \in Slots, \A w \in Workers : c \notin AtWorker(w),
         \A d \in Slots \ {c} : client'[d] = client[d],
         UNCHANGED <<conn_set, ctl, sweep, queries>>
  PROVE  /\ \A w \in Workers : Busy(w)' /\ AtWorker(w)' = AtWorker(w)
         /\ Queries'
<1>1. \A w \in Workers : AtWorker(w)' = AtWorker(w)
  BY HeldSame DEF AtWorker
<1>2. \A w \in Workers : Busy(w)'
  <2>1. ASSUME NEW w \in Workers
        PROVE  ctl[w].pc = "machine" => ctl[w].slot \in Slots \ {c}
    BY DEF IInv, Places, Busy, Typed, SlotsAtHand
  <2> QED
    BY <1>1, <2>1, BusyStill DEF IInv, Places
<1>3. Queries'
  <2>1. \A q \in queries : q.slot \in Slots \ {c} /\ q.worker \in Workers
    BY DEF IInv, Queries, Typed, TypeOK
  <2> QED
    BY <1>1, <2>1 DEF IInv, Queries
<1> QED
  BY <1>1, <1>2, <1>3

(* A thread takes a free slot                                              *)
LEMMA TakenIInv ==
  ASSUME Typed, IInv, NEW c \in FreeSlots, NEW h \in Holders,
         client' = [client EXCEPT ![c] = Taken(c)],
         UNCHANGED <<pipe, conn_set, ctl, sweep, queries>>,
         Holding(h)' = Holding(h) \cup {c},
         \A g \in Holders \ {h} : Holding(g)' = Holding(g),
         listener'.slot = c => listener'.pc = "filling",
         listener'.slot # c => listener' = listener,
         \A j \in Jobs : /\ caller'[j].slot = c => caller'[j].pc = "filling"
                         /\ caller'[j].slot # c => caller'[j] = caller[j]
  PROVE  /\ OneHolder' /\ Records' /\ Queries'
         /\ \A w \in Workers : Busy(w)'
         /\ \A d \in Slots : client'[d].client_fd = client[d].client_fd
<1>1. c \in Slots /\ client[c] \in ConnClient
  BY DEF Typed, TypeOK, FreeSlots
<1>2. client'[c] = Taken(c) /\ \A d \in Slots \ {c} : client'[d] = client[d]
  BY <1>1 DEF Typed, TypeOK
<1>3. Clean(Taken(c)) /\ Taken(c).conn_time # "zero"
  BY <1>1, ClearedLemma DEF Taken, Clean, ConnClient
<1>4. OneHolder'
  BY <1>2, <1>3, HoldersGrab DEF IInv
<1>5. /\ \A w \in Workers : c \notin AtWorker(w) /\ InPipe(w)' = InPipe(w)
      /\ \A w \in Workers : Busy(w)' /\ AtWorker(w)' = AtWorker(w)
      /\ Queries'
  <2>1. \A w \in Workers : c \notin AtWorker(w)
    BY <1>1, AloneLemma DEF IInv, Alone, FreeSlots
  <2> QED
    BY <1>1, <1>2, <2>1, HeldSame, WorkersStill DEF InPipe
<1>6. Fits(c)'
  <2>1. \/ listener'.slot = c
        \/ \E j \in Jobs : caller'[j].slot = c
    <3>1. Alone'
      BY <1>4, AloneLemma
    <3> QED
      BY <1>1, <1>2, <1>3, <1>4, <1>5, <3>1, AloneLemma
         DEF Alone, IInv, FreeSlots
  <2> QED
    BY <1>1, <1>2, <1>3, <1>4, <2>1, FitsOwner
<1>7. \A d \in Slots \ {c} : Fits(d)'
  BY <1>2, <1>5, FitsStill DEF IInv, Records
<1>8. client[c].client_fd = NoFd /\ client'[c].client_fd = NoFd
  BY <1>1, <1>2, <1>3 DEF IInv, Records, Fits, Clean, FreeSlots
<1> QED
  BY <1>2, <1>4, <1>5, <1>6, <1>7, <1>8 DEF Records

LEMMA AcceptIInv ==
  ASSUME Typed, IInv, Accept
  PROVE  IInv'
<1> DEFINE L == <<"listener", 0>>
<1>1. PICK c : c = NextFree
  OBVIOUS
<1>2. PICK f : f = NewFd
  OBVIOUS
<1>3. c \in FreeSlots /\ c \in Slots /\ f \in Fds \ open
  BY <1>1, <1>2, NextFreeLemma, NewFdLemma DEF Accept, Typed, TypeOK, FreeSlots
<1>4. /\ listener.pc = "idle" /\ listener'.pc = "filling"
      /\ listener'.slot = c /\ listener'.fd = f
      /\ open' = open \cup {f}
      /\ client' = [client EXCEPT ![c] = Taken(c)]
      /\ UNCHANGED <<caller, pipe, conn_set, ctl, sweep, queries>>
  BY <1>1, <1>2 DEF Accept, Typed, TypeOK
<1>5. listener.slot = NoSlot /\ NoSlot \notin Slots
  BY <1>4, Apart DEF IInv, Places
<1>6. Holding(L)' = Holding(L) \cup {c} /\ L \in Holders
  BY <1>3, <1>4, <1>5, HeldLemma, HolderKinds DEF HeldIs
<1>7. \A h \in Holders \ {L} : Holding(h)' = Holding(h)
  BY <1>4, HeldSame, HolderKinds
<1>8. \A j \in Jobs : caller[j].slot # c
  BY <1>3, AloneLemma DEF IInv, Alone, FreeSlots
<1>9. /\ OneHolder' /\ Records' /\ Queries'
      /\ \A w \in Workers : Busy(w)'
      /\ \A d \in Slots : client'[d].client_fd = client[d].client_fd
  BY <1>3, <1>4, <1>6, <1>7, <1>8, TakenIInv
<1>10. Places'
  BY <1>3, <1>4, <1>5, <1>9 DEF IInv, Places
<1>11. DescriptorsOwned'
  <2>1. Sockets' = Sockets
    BY <1>9 DEF Sockets
  <2>2. \A d \in Sockets : client'[d].client_fd = client[d].client_fd
    BY <1>9 DEF Sockets
  <2>3. \A d \in Sockets : client[d].client_fd # f
    BY <1>3 DEF IInv, DescriptorsOwned
  <2> QED
    BY <1>4, <2>1, <2>2, <2>3 DEF IInv, DescriptorsOwned
<1> QED
  BY <1>9, <1>10, <1>11 DEF IInv

LEMMA ConnectIInv ==
  ASSUME Typed, IInv, NEW j \in Jobs, Connect(j)
  PROVE  IInv'
<1> DEFINE C == <<"caller", j>>
<1>1. PICK c : c = NextFree
  OBVIOUS
<1>2. c \in FreeSlots /\ c \in Slots
  BY <1>1, NextFreeLemma DEF Connect, Typed, TypeOK, FreeSlots
<1>3. /\ caller[j].pc = "idle"
      /\ caller'[j].pc = "filling" /\ caller'[j].slot = c
      /\ \A k \in Jobs \ {j} : caller'[k] = caller[k]
      /\ client' = [client EXCEPT ![c] = Taken(c)]
      /\ UNCHANGED <<listener, pipe, conn_set, ctl, sweep, queries, open>>
  BY <1>1 DEF Connect, Typed, TypeOK
<1>4. caller[j].slot = NoSlot /\ NoSlot \notin Slots
  BY <1>3, Apart DEF IInv, Places
<1>5. Holding(C)' = Holding(C) \cup {c} /\ C \in Holders
  BY <1>2, <1>3, <1>4, HeldLemma, HolderKinds DEF HeldIs
<1>6. \A h \in Holders \ {C} : Holding(h)' = Holding(h)
  BY <1>3, HeldSame, HolderKinds
<1>7. listener'.slot # c /\ \A k \in Jobs \ {j} : caller'[k].slot # c
  BY <1>2, <1>3, AloneLemma DEF IInv, Alone, FreeSlots
<1>7a. \A k \in Jobs : /\ caller'[k].slot = c => caller'[k].pc = "filling"
                       /\ caller'[k].slot # c => caller'[k] = caller[k]
  BY <1>3, <1>7
<1> HIDE DEF C
<1>8. /\ OneHolder' /\ Records' /\ Queries'
      /\ \A w \in Workers : Busy(w)'
      /\ \A d \in Slots : client'[d].client_fd = client[d].client_fd
  BY <1>2, <1>3, <1>5, <1>6, <1>7, <1>7a, TakenIInv
<1>9. Places'
  BY <1>2, <1>3, <1>4, <1>8 DEF IInv, Places
<1>10. DescriptorsOwned'
  BY <1>3, <1>8, SameDescriptors DEF IInv
<1> QED
  BY <1>8, <1>9, <1>10 DEF IInv

(* A thread fills the slot it has taken                                    *)
LEMMA FilledIInv ==
  ASSUME Typed, IInv, NEW c \in Slots, NEW t, t.conn_time = client[c].conn_time,
         client' = [client EXCEPT ![c] = t],
         UNCHANGED <<pipe, conn_set, ctl, sweep, queries>>,
         \/ /\ listener.slot = c /\ listener'.slot = c
            /\ listener'.pc = "dispatch"
            /\ t.type = "coming" /\ Queued(t, Null)
            /\ caller' = caller
         \/ \E j \in Jobs :
              /\ caller[j].slot = c /\ caller'[j].slot = c
              /\ caller'[j].pc = "dispatch"
              /\ t.type = "active" /\ Queued(t, caller'[j].worker)
              /\ \A k \in Jobs \ {j} : caller'[k] = caller[k]
              /\ listener' = listener
  PROVE  /\ OneHolder' /\ Records' /\ Queries'
         /\ \A w \in Workers : Busy(w)'
<1>1. client'[c] = t /\ \A d \in Slots \ {c} : client'[d] = client[d]
  BY DEF Typed, TypeOK
<1>2. \A h \in Holders : Holding(h)' = Holding(h)
  BY HeldSame, HolderKinds
<1>3. OneHolder'
  BY <1>1, <1>2, HoldersKeep DEF IInv
<1>4. \A w \in Workers : c \notin AtWorker(w) /\ InPipe(w)' = InPipe(w)
  BY AloneLemma, HeldSame DEF IInv, Alone, InPipe
<1>5. Queries' /\ \A w \in Workers : Busy(w)' /\ AtWorker(w)' = AtWorker(w)
  BY <1>1, <1>4, WorkersStill
<1>6. Fits(c)'
  BY <1>1, <1>3, FitsOwner
<1>7. \A d \in Slots \ {c} : Fits(d)'
  BY <1>1, <1>4, <1>5, FitsStill DEF IInv, Records
<1> QED
  BY <1>3, <1>5, <1>6, <1>7 DEF Records

LEMMA AcceptFillIInv ==
  ASSUME Typed, IInv, AcceptFill
  PROVE  IInv'
<1>1. PICK c : c = listener.slot
  OBVIOUS
<1>2. PICK t : t = [client[c] EXCEPT !.client_fd = listener.fd, !.type = "coming"]
  OBVIOUS
<1>3. /\ listener.pc = "filling" /\ c \in Slots /\ client[c] \in ConnClient
      /\ listener.fd \in Fds
      /\ client' = [client EXCEPT ![c] = t]
      /\ listener'.pc = "dispatch" /\ listener'.slot = c
      /\ UNCHANGED <<caller, pipe, conn_set, ctl, sweep, queries, open>>
  BY <1>1, <1>2 DEF AcceptFill, pool, IInv, Places, Typed, TypeOK, SlotsAtHand
<1>4. Clean(client[c]) /\ client[c].conn_time # "zero"
  BY <1>1, <1>3, AloneLemma DEF IInv, Records, Fits, Alone
<1>5. /\ t.conn_time = client[c].conn_time /\ t.client_fd = listener.fd
      /\ t.type = "coming" /\ Queued(t, Null)
  BY <1>2, <1>3, <1>4 DEF Clean, Queued, ConnClient
<1>6. /\ OneHolder' /\ Records' /\ Queries'
      /\ \A w \in Workers : Busy(w)'
  BY <1>1, <1>3, <1>5, FilledIInv
<1>7. Places'
  BY <1>3, <1>6, Apart DEF IInv, Places
<1>8. DescriptorsOwned'
  <2>1. client'[c] = t /\ \A d \in Slots \ {c} : client'[d] = client[d]
    BY <1>3 DEF Typed, TypeOK
  <2>2. Sockets' = Sockets \cup {c} /\ c \notin Sockets
    BY <1>3, <1>4, <1>5, <2>1, Apart DEF Sockets, Clean
  <2>3. \A d \in Sockets : client'[d].client_fd = client[d].client_fd
    BY <2>1, <2>2 DEF Sockets
  <2>4. /\ open = {client[d].client_fd : d \in Sockets} \cup {listener.fd}
        /\ \A d, e \in Sockets :
             client[d].client_fd = client[e].client_fd => d = e
        /\ \A d \in Sockets : client[d].client_fd # listener.fd
    BY <1>3 DEF IInv, DescriptorsOwned
  <2>5. open = {client'[d].client_fd : d \in Sockets'}
    BY <1>5, <2>1, <2>2, <2>3, <2>4
  <2> QED
    BY <1>3, <1>5, <2>1, <2>2, <2>3, <2>4, <2>5 DEF DescriptorsOwned
<1> QED
  BY <1>6, <1>7, <1>8 DEF IInv

LEMMA ConnectFillIInv ==
  ASSUME Typed, IInv, NEW j \in Jobs, ConnectFill(j)
  PROVE  IInv'
<1>1. PICK c : c = caller[j].slot
  OBVIOUS
<1>2. PICK w : w = NextWorker
  OBVIOUS
<1>3. PICK b : b = BufferInit(client[c], w)
  OBVIOUS
<1>4. PICK t : t = [b EXCEPT !.client_fd = FD_BEFORE_CONNECT, !.worker_id = w,
                             !.type = "active", !.task_id = j]
  OBVIOUS
<1>5. w \in Workers
  BY <1>2, NextWorkerLemma DEF Typed, TypeOK
<1>6. /\ caller[j].pc = "filling" /\ c \in Slots /\ client[c] \in ConnClient
      /\ client' = [client EXCEPT ![c] = t]
      /\ caller'[j].pc = "dispatch" /\ caller'[j].slot = c
      /\ caller'[j].worker = w
      /\ \A k \in Jobs \ {j} : caller'[k] = caller[k]
      /\ UNCHANGED <<listener, pipe, conn_set, ctl, sweep, queries, open>>
  BY <1>1, <1>2, <1>3, <1>4 DEF ConnectFill, pool, Typed, TypeOK, SlotsAtHand
<1>7. Clean(client[c]) /\ client[c].conn_time # "zero"
  BY <1>1, <1>6, AloneLemma DEF IInv, Records, Fits, Alone
<1>8. /\ b \in ConnClient /\ b.read_buffer = w /\ b.write_buffer = w
      /\ b.conn_time = client[c].conn_time
      /\ b.event = client[c].event /\ b.ev_dns = client[c].ev_dns
  BY <1>3, <1>5, <1>6, BufferInitLemma
<1>9. /\ t.conn_time = client[c].conn_time
      /\ t.client_fd = FD_BEFORE_CONNECT
      /\ t.type = "active" /\ Queued(t, w)
  BY <1>4, <1>7, <1>8 DEF Clean, Queued, ConnClient
<1>10. /\ OneHolder' /\ Records' /\ Queries'
       /\ \A v \in Workers : Busy(v)'
  BY <1>1, <1>6, <1>9, FilledIInv
<1>11. Places'
  BY <1>6, <1>10, Apart DEF IInv, Places
<1>12. DescriptorsOwned'
  <2>1. client'[c] = t /\ \A d \in Slots \ {c} : client'[d] = client[d]
    BY <1>6 DEF Typed, TypeOK
  <2>2. Sockets' = Sockets /\ c \notin Sockets
    BY <1>6, <1>7, <1>9, <2>1, Apart DEF Sockets, Clean
  <2>3. \A d \in Sockets : client'[d].client_fd = client[d].client_fd
    BY <2>1, <2>2 DEF Sockets
  <2> QED
    BY <1>6, <2>2, <2>3 DEF IInv, DescriptorsOwned
<1> QED
  BY <1>10, <1>11, <1>12 DEF IInv

LEMMA AcceptFailIInv ==
  ASSUME Typed, IInv, AcceptFail
  PROVE  IInv'
<1> DEFINE L == <<"listener", 0>>
<1>1. PICK c : c = listener.slot
  OBVIOUS
<1>2. PICK t : t = Cleared(client[c])
  OBVIOUS
<1>3. /\ listener.pc = "filling" /\ c \in Slots /\ client[c] \in ConnClient
      /\ listener.fd \in Fds
      /\ client' = [client EXCEPT ![c] = t]
      /\ listener'.pc = "idle" /\ listener'.slot = NoSlot
      /\ open' = open \ {listener.fd}
      /\ UNCHANGED <<caller, pipe, conn_set, ctl, sweep, queries>>
  BY <1>1, <1>2 DEF AcceptFail, ListenerIdle, CloseFd, IInv, Places, Typed,
     TypeOK, SlotsAtHand
<1>4. /\ Clean(client[c]) /\ client[c].conn_time # "zero"
      /\ \A w \in Workers : c \notin AtWorker(w)
      /\ \A j \in Jobs : caller[j].slot # c
  BY <1>1, <1>3, AloneLemma DEF IInv, Records, Fits, Alone
<1>5. Clean(t) /\ t.conn_time = "zero"
  BY <1>2, <1>3, ClearedLemma DEF Clean
<1>6. client'[c] = t /\ \A d \in Slots \ {c} : client'[d] = client[d]
  BY <1>3 DEF Typed, TypeOK
<1>7. /\ L \in Holders /\ c \in Holding(L) /\ Holding(L)' = Holding(L) \ {c}
      /\ \A h \in Holders \ {L} : Holding(h)' = Holding(h)
  BY <1>1, <1>3, Apart, HeldLemma, HeldSame, HolderKinds DEF HeldIs
<1>8. OneHolder'
  BY <1>3, <1>5, <1>6, <1>7, HoldersDrop DEF IInv
<1>9. /\ Queries'
      /\ \A w \in Workers : Busy(w)' /\ AtWorker(w)' = AtWorker(w)
                            /\ InPipe(w)' = InPipe(w)
  BY <1>3, <1>4, <1>6, WorkersStill, HeldSame DEF InPipe
<1>10. Fits(c)'
  BY <1>3, <1>5, <1>6, <1>8, FitsOwner
<1>11. \A d \in Slots \ {c} : Fits(d)'
  BY <1>3, <1>6, <1>9, Apart, FitsStill DEF IInv, Records
<1>12. Places'
  BY <1>3, <1>9 DEF IInv, Places
<1>13. DescriptorsOwned'
  <2>1. client[c].client_fd = NoFd /\ client'[c].client_fd = NoFd
    BY <1>4, <1>5, <1>6 DEF Clean
  <2>2. \A d \in Slots : client'[d].client_fd = client[d].client_fd
    BY <1>6, <2>1
  <2>3. Sockets' = Sockets
    BY <2>2 DEF Sockets
  <2>4. \A d \in Sockets : client'[d].client_fd = client[d].client_fd
    BY <2>2 DEF Sockets
  <2> QED
    BY <1>3, <2>3, <2>4 DEF IInv, DescriptorsOwned
<1> QED
  BY <1>8, <1>9, <1>10, <1>11, <1>12, <1>13 DEF IInv, Records

(* A filled slot is written into the pipe of its worker                    *)
LEMMA DispatchedIInv ==
  ASSUME Typed, IInv, NEW c \in Slots, NEW w \in Workers,
         NEW h \in Holders, h # <<"pipe", w>>,
         c \in Holding(h), Holding(h)' = Holding(h) \ {c},
         \A g \in Holders \ {h, <<"pipe", w>>} : Holding(g)' = Holding(g),
         pipe' = [pipe EXCEPT ![w] = Append(@, c)],
         UNCHANGED <<client, conn_set, ctl, sweep, queries, open>>,
         \A v \in Workers : c \notin AtWorker(v),
         Queued(client[c], w),
         \/ listener' = listener
         \/ listener'.slot = NoSlot /\ listener.pc = "dispatch"
              /\ listener'.pc = "idle",
         \A j \in Jobs : \/ caller'[j] = caller[j]
                         \/ caller'[j].slot = NoSlot
                              /\ caller'[j].pc = "accepted"
  PROVE  IInv'
<1> DEFINE k == <<"pipe", w>>
<1>1. pipe[w] \in Seq(Slots) /\ pipe'[w] = Append(pipe[w], c)
      /\ \A v \in Workers \ {w} : pipe'[v] = pipe[v]
  BY DEF Typed, TypeOK
<1>2. k \in Holders /\ c \notin Holding(k)
  BY HolderKinds DEF IInv, OneHolder
<1>3. Once(pipe[w]) /\ InPipe(w) = In(pipe[w]) /\ c \notin In(pipe[w])
  BY <1>2, PipeOnce DEF IInv, InPipe
<1>4. /\ In(Append(pipe[w], c)) = In(pipe[w]) \cup {c}
      /\ Once(Append(pipe[w], c))
  BY <1>1, <1>3, AppendLemma
<1>5. InPipe(w)' = InPipe(w) \cup {c}
  <2>1. InPipe(w)' = In(pipe'[w])
    BY HeldLemma DEF HeldIs, In
  <2> QED
    BY <1>1, <1>3, <1>4, <2>1
<1>6. \A v \in Workers : \A i, n \in 1 .. Len(pipe'[v]) :
        pipe'[v][i] = pipe'[v][n] => i = n
  <2>1. \A v \in Workers : Once(pipe'[v])
    BY <1>1, <1>4, PipeOnce DEF IInv
  <2> QED
    BY <2>1 DEF Once
<1>7. OneHolder'
  <2>1. Holding(k)' = Holding(k) \cup {c}
    BY <1>5 DEF InPipe
  <2> HIDE DEF k
  <2>2. k = <<"pipe", w>>
    BY DEF k
  <2> QED
    BY <1>2, <1>6, <2>1, <2>2, HoldersPass DEF IInv
<1>8. /\ Queries'
      /\ \A v \in Workers : Busy(v)' /\ AtWorker(v)' = AtWorker(v)
      /\ \A v \in Workers \ {w} : InPipe(v)' = InPipe(v)
  BY <1>1, WorkersStill, HeldSame DEF InPipe
<1>9. Fits(c)'
  BY <1>5, <1>7, FitsOwner
<1>10. \A d \in Slots \ {c} : Fits(d)'
  <2>1. \A d \in Slots \ {c}, v \in Workers : d \in InPipe(v)' => d \in InPipe(v)
    BY <1>5, <1>8
  <2> QED
    BY <1>8, <2>1, Apart, FitsStill DEF IInv, Records
<1>11. Places'
  BY <1>8, Apart DEF IInv, Places
<1>12. DescriptorsOwned'
  BY SameDescriptors DEF IInv
<1> QED
  BY <1>7, <1>8, <1>9, <1>10, <1>11, <1>12 DEF IInv, Records

LEMMA AcceptDispatchIInv ==
  ASSUME Typed, IInv, AcceptDispatch
  PROVE  IInv'
<1> DEFINE L == <<"listener", 0>>
<1>1. PICK c : c = listener.slot
  OBVIOUS
<1>2. PICK w : w = listener.worker
  OBVIOUS
<1>3. /\ listener.pc = "dispatch" /\ c \in Slots /\ w \in Workers
      /\ pipe' = [pipe EXCEPT ![w] = Append(@, c)]
      /\ listener'.pc = "idle" /\ listener'.slot = NoSlot
      /\ UNCHANGED <<client, caller, conn_set, ctl, sweep, queries, open>>
  BY <1>1, <1>2 DEF AcceptDispatch, ListenerIdle, pool, Typed, TypeOK,
     SlotsAtHand
<1>4. /\ client[c].type = "coming" /\ Queued(client[c], Null)
      /\ \A v \in Workers : c \notin AtWorker(v)
  BY <1>1, <1>3, AloneLemma DEF IInv, Records, Fits, Alone
<1>5. Queued(client[c], w)
  BY <1>4 DEF Queued
<1>6. /\ L \in Holders /\ c \in Holding(L) /\ Holding(L)' = Holding(L) \ {c}
      /\ L # <<"pipe", w>>
      /\ \A h \in Holders \ {L, <<"pipe", w>>} : Holding(h)' = Holding(h)
  <2>1. \A v \in Workers \ {w} : pipe'[v] = pipe[v]
    BY <1>3 DEF Typed, TypeOK
  <2> QED
    BY <1>1, <1>3, <2>1, Apart, HeldLemma, HeldSame, HolderKinds DEF HeldIs
<1> HIDE DEF L
<1> QED
  BY <1>3, <1>4, <1>5, <1>6, DispatchedIInv

LEMMA ConnectDispatchIInv ==
  ASSUME Typed, IInv, NEW j \in Jobs, ConnectDispatch(j)
  PROVE  IInv'
<1> DEFINE C == <<"caller", j>>
<1>1. PICK c : c = caller[j].slot
  OBVIOUS
<1>2. PICK w : w = caller[j].worker
  OBVIOUS
<1>3. /\ caller[j].pc = "dispatch" /\ c \in Slots /\ w \in Workers
      /\ pipe' = [pipe EXCEPT ![w] = Append(@, c)]
      /\ caller'[j].pc = "accepted" /\ caller'[j].slot = NoSlot
      /\ \A k \in Jobs \ {j} : caller'[k] = caller[k]
      /\ UNCHANGED <<client, listener, conn_set, ctl, sweep, queries, open>>
  BY <1>1, <1>2 DEF ConnectDispatch, pool, Typed, TypeOK, SlotsAtHand
<1>4. /\ client[c].type = "active" /\ Queued(client[c], w)
      /\ \A v \in Workers : c \notin AtWorker(v)
  BY <1>1, <1>2, <1>3, AloneLemma DEF IInv, Records, Fits, Alone
<1>5. /\ C \in Holders /\ c \in Holding(C) /\ Holding(C)' = Holding(C) \ {c}
      /\ C # <<"pipe", w>>
      /\ \A h \in Holders \ {C, <<"pipe", w>>} : Holding(h)' = Holding(h)
  <2>1. \A v \in Workers \ {w} : pipe'[v] = pipe[v]
    BY <1>3 DEF Typed, TypeOK
  <2> QED
    BY <1>1, <1>3, <2>1, Apart, HeldLemma, HeldSame, HolderKinds DEF HeldIs
<1>6. \A k \in Jobs : \/ caller'[k] = caller[k]
                      \/ caller'[k].slot = NoSlot /\ caller'[k].pc = "accepted"
  BY <1>3
<1> HIDE DEF C
<1> QED
  BY <1>3, <1>4, <1>5, <1>6, DispatchedIInv

-----------------------------------------------------------------------------
(* The workers.                                                            *)

(* Whatever wakes a worker for a slot: the worker serves it                *)
LEMMA Watched ==
  ASSUME Typed, IInv, NEW w \in Workers, NEW c \in Slots,
         \/ client[c].event # "none" /\ client[c].worker_id = w
         \/ client[c].ev_dns = w
  PROVE  c \in AtWorker(w)
<1>1. Fits(c) /\ Null # w /\ Null \notin Workers
  BY Apart DEF IInv, Records
<1>2. ~Clean(client[c]) /\ \A v : ~Queued(client[c], v)
  BY <1>1 DEF Clean, Queued
<1>3. client[c].conn_time # "zero"
  BY <1>1, <1>2 DEF Fits
<1>4. listener.slot # c
  <2>1. CASE listener.slot = c
    <3>1. listener.pc \in {"filling", "dispatch"}
      BY <2>1, Apart DEF IInv, Places, Typed, TypeOK
    <3> QED
      BY <1>1, <1>2, <2>1, <3>1 DEF Fits
  <2> QED
    BY <2>1
<1>5. \A j \in Jobs : caller[j].slot # c
  <2>1. ASSUME NEW j \in Jobs, caller[j].slot = c
        PROVE  FALSE
    <3>1. caller[j].pc \in {"filling", "dispatch"}
      BY <2>1, Apart DEF IInv, Places
    <3> QED
      BY <1>1, <1>2, <2>1, <3>1 DEF Fits
  <2> QED
    BY <2>1
<1>6. \A v \in Workers : c \notin InPipe(v)
  BY <1>1, <1>2 DEF Fits
<1>7. PICK v \in Workers : c \in AtWorker(v)
  BY <1>3, <1>4, <1>5, <1>6, AloneLemma DEF IInv, Alone
<1>8. Served(client[c], v)
  BY <1>1, <1>7 DEF Fits
<1> QED
  BY <1>1, <1>7, <1>8 DEF Served

LEMMA ProcessIInv ==
  ASSUME Typed, IInv, NEW w \in Workers, Process(w)
  PROVE  IInv'
<1> DEFINE P == <<"pipe", w>>
           W == <<"worker", w>>
<1>1. PICK c : c = Head(pipe[w])
  OBVIOUS
<1>2. pipe[w] \in Seq(Slots) /\ pipe[w] # <<>> /\ ctl[w].pc = "loop"
  BY DEF Process, InLoop, Typed, TypeOK
<1>3. Once(pipe[w]) /\ InPipe(w) = In(pipe[w])
  BY PipeOnce DEF IInv
<1>4. /\ In(Tail(pipe[w])) = In(pipe[w]) \ {c} /\ Once(Tail(pipe[w]))
      /\ c \in InPipe(w) /\ c \in Slots
  BY <1>1, <1>2, <1>3, TailLemma
<1>5. /\ pipe'[w] = Tail(pipe[w])
      /\ \A v \in Workers \ {w} : pipe'[v] = pipe[v] /\ conn_set'[v] = conn_set[v]
      /\ conn_set'[w] = conn_set[w] \cup {c}
      /\ UNCHANGED <<listener, caller, sweep, queries, open>>
  BY <1>1, <1>4 DEF Process, threads, Typed, TypeOK
<1>6. /\ Queued(client[c], w) /\ client[c].conn_time # "zero"
      /\ \A v \in Workers : c \notin AtWorker(v)
      /\ client[c] \in ConnClient
  BY <1>4, AloneLemma DEF IInv, Records, Fits, Alone, Typed, TypeOK
<1>7. PICK r : r = [client[c] EXCEPT !.worker_id = w]
  OBVIOUS
<1>8. /\ r \in ConnClient /\ r.worker_id = w /\ Queued(r, w)
      /\ r.conn_time = client[c].conn_time
      /\ r.client_fd = client[c].client_fd
  BY <1>6, <1>7 DEF ConnClient, Queued
<1>9. \E t : /\ client' = [client EXCEPT ![c] = t]
             /\ Served(t, w)
             /\ t.conn_time = client[c].conn_time
             /\ t.client_fd = client[c].client_fd
             /\ \/ ctl' = ctl
                \/ ctl' = [ctl EXCEPT ![w] = Run(c, FALSE)]
  <2>1. CASE /\ r.type = "coming"
             /\ \E e \in IF r.client_fd # NoFd THEN AddedEvents("R")
                        ELSE {r.event} :
                  client' = [client EXCEPT ![c] =
                    [BufferInit(r, w) EXCEPT !.state = "waiting", !.event = e]]
             /\ UNCHANGED ctl
    <3>1. PICK b : b = BufferInit(r, w)
      OBVIOUS
    <3>2. /\ b \in ConnClient /\ b.read_buffer = w /\ b.write_buffer = w
          /\ b.conn_time = r.conn_time /\ b.client_fd = r.client_fd
          /\ b.ev_dns = r.ev_dns /\ b.worker_id = w
      BY <1>8, <3>1, BufferInitLemma
    <3>3. PICK e : client' = [client EXCEPT ![c] =
                                [b EXCEPT !.state = "waiting", !.event = e]]
      BY <2>1, <3>1
    <3>4. PICK t : t = [b EXCEPT !.state = "waiting", !.event = e]
      OBVIOUS
    <3>5. r.client_fd \in Fds /\ r.ev_dns = Null
      BY <1>8, <2>1 DEF Queued
    <3>6. /\ t.read_buffer = w /\ t.write_buffer = w /\ t.worker_id = w
          /\ t.conn_time = r.conn_time /\ t.client_fd = r.client_fd
          /\ t.ev_dns = Null /\ t.state = "waiting"
      BY <3>2, <3>4, <3>5 DEF ConnClient
    <3>7. Served(t, w)
      BY <3>5, <3>6, Apart DEF Served, Naming
    <3> QED
      BY <1>8, <2>1, <3>3, <3>4, <3>6, <3>7
  <2>2. CASE /\ r.type = "active"
             /\ client' = [client EXCEPT ![c] = [r EXCEPT !.state = "dns_cache"]]
             /\ ctl' = [ctl EXCEPT ![w] = Run(c, FALSE)]
    <3>1. PICK t : t = [r EXCEPT !.state = "dns_cache"]
      OBVIOUS
    <3>2. /\ t.read_buffer = r.read_buffer /\ t.write_buffer = r.write_buffer
          /\ t.worker_id = w /\ t.ev_dns = r.ev_dns
          /\ t.conn_time = r.conn_time /\ t.client_fd = r.client_fd
      BY <1>8, <3>1 DEF ConnClient
    <3>3. Served(t, w)
      BY <1>8, <2>2, <3>2, Apart DEF Queued, Served
    <3> QED
      BY <1>8, <2>2, <3>1, <3>2, <3>3
  <2> QED
    BY <1>1, <1>7, <2>1, <2>2 DEF Process
<1>10. PICK t : /\ client' = [client EXCEPT ![c] = t]
                /\ Served(t, w)
                /\ t.conn_time = client[c].conn_time
                /\ t.client_fd = client[c].client_fd
                /\ \/ ctl' = ctl
                   \/ ctl' = [ctl EXCEPT ![w] = Run(c, FALSE)]
  BY <1>9
<1>11. client'[c] = t /\ \A d \in Slots \ {c} : client'[d] = client[d]
  BY <1>4, <1>10 DEF Typed, TypeOK
<1>12. sweep[w] = NoSweep
  BY <1>2 DEF IInv, Places, Busy
<1>13. /\ InPipe(w)' = InPipe(w) \ {c}
       /\ AtWorker(w)' = AtWorker(w) \cup {c}
       /\ \A v \in Workers \ {w} : /\ InPipe(v)' = InPipe(v)
                                   /\ AtWorker(v)' = AtWorker(v)
  <2>1. InPipe(w)' = In(pipe'[w])
    BY HeldLemma DEF HeldIs, In
  <2>2. /\ AtWorker(w)' = conn_set'[w] \ sweep'[w].freed
        /\ AtWorker(w) = conn_set[w] \ sweep[w].freed
    BY HeldLemma DEF HeldIs
  <2>3. AtWorker(w)' = AtWorker(w) \cup {c}
    BY <1>5, <1>12, <2>2 DEF NoSweep
  <2> QED
    BY <1>3, <1>4, <1>5, <2>1, <2>3, HeldSame DEF InPipe, AtWorker
<1>14. OneHolder'
  <2>1. /\ P \in Holders /\ W \in Holders /\ P # W /\ c \in Holding(P)
        /\ Holding(P)' = Holding(P) \ {c} /\ Holding(W)' = Holding(W) \cup {c}
    BY <1>4, <1>13, HolderKinds DEF InPipe, AtWorker
  <2>2. \A h \in Holders \ {P, W} : Holding(h)' = Holding(h)
    BY <1>5, <1>13, HeldSame, HolderKinds DEF InPipe, AtWorker
  <2>3. \A v \in Workers : \A i, n \in 1 .. Len(pipe'[v]) :
          pipe'[v][i] = pipe'[v][n] => i = n
    <3>1. \A v \in Workers : Once(pipe'[v])
      BY <1>4, <1>5, PipeOnce DEF IInv
    <3> QED
      BY <3>1 DEF Once
  <2>4. \A d \in Slots : client'[d].conn_time = "zero"
                         <=> client[d].conn_time = "zero"
    BY <1>10, <1>11
  <2> HIDE DEF P, W
  <2> QED
    BY <2>1, <2>2, <2>3, <2>4, HoldersPass DEF IInv
<1>15. Fits(c)'
  BY <1>4, <1>10, <1>11, <1>13, <1>14, FitsOwner
<1>16. \A d \in Slots \ {c} : Fits(d)'
  BY <1>5, <1>11, <1>13, FitsStill DEF IInv, Records
<1>17. ctl'[w] \in {ctl[w], Run(c, FALSE)}
       /\ \A v \in Workers \ {w} : ctl'[v] = ctl[v]
  BY <1>10 DEF Typed, TypeOK
<1>18. \A v \in Workers : Busy(v)'
  <2>1. Busy(w)'
    BY <1>2, <1>5, <1>12, <1>13, <1>17 DEF Busy, NoSweep, Run
  <2>2. ASSUME NEW v \in Workers \ {w}
        PROVE  Busy(v)'
    <3>1. ctl[v].pc = "machine" => ctl[v].slot \in Slots \ {c}
      BY <1>6 DEF IInv, Places, Busy, Typed, SlotsAtHand
    <3> QED
      BY <1>5, <1>11, <1>13, <1>17, <3>1, BusyStill DEF IInv, Places
  <2> QED
    BY <2>1, <2>2
<1>19. Queries'
  <2>1. \A q \in queries : q.slot \in Slots \ {c} /\ q.worker \in Workers
    BY <1>6 DEF IInv, Queries, Typed, TypeOK
  <2>2. \A v \in Workers : AtWorker(v) \subseteq AtWorker(v)'
    BY <1>13
  <2> QED
    BY <1>5, <1>11, <2>1, <2>2 DEF IInv, Queries
<1>20. Places'
  BY <1>5, <1>18 DEF IInv, Places
<1>21. DescriptorsOwned'
  BY <1>5, <1>10, <1>11, SameDescriptors DEF IInv
<1> QED
  BY <1>14, <1>15, <1>16, <1>19, <1>20, <1>21 DEF IInv, Records

(* Steps that leave every slot and every holder as they are                *)
LEMMA HoldersStill ==
  ASSUME IInv, UNCHANGED <<listener, pipe, open>>,
         \A j \in Jobs :
           /\ caller'[j].slot = caller[j].slot
           /\ caller'[j] = caller[j] \/ caller[j].slot = NoSlot,
         \A c \in Slots : /\ client'[c].conn_time = "zero"
                             <=> client[c].conn_time = "zero"
                          /\ Fits(c)' \/ client'[c] = client[c]
                          /\ client'[c].client_fd = client[c].client_fd,
         \A w \in Workers : AtWorker(w)' = AtWorker(w)
  PROVE  OneHolder' /\ Records' /\ DescriptorsOwned'
<1>1. \A h \in Holders : Holding(h)' = Holding(h)
  BY HeldSame, HolderKinds DEF AtWorker
<1>2. OneHolder'
  BY <1>1, HoldersKeep DEF IInv
<1>3. Records'
  BY <1>1, Apart, FitsStill, HeldSame DEF IInv, Records, InPipe
<1> QED
  BY <1>2, <1>3, SameDescriptors DEF IInv

LEMMA EventIInv ==
  ASSUME Typed, IInv, NEW w \in Workers, NEW c \in Slots, Event(w, c)
  PROVE  IInv'
<1>1. /\ UNCHANGED <<client, listener, caller, pipe, conn_set, sweep, queries,
                     open>>
      /\ ctl[w].pc = "loop" /\ ctl'[w] = Run(c, FALSE)
      /\ \A v \in Workers \ {w} : ctl'[v] = ctl[v]
  BY DEF Event, InLoop, threads, Typed, TypeOK
<1>2. c \in AtWorker(w)
  BY Watched DEF Event
<1>3. \A v \in Workers : AtWorker(v)' = AtWorker(v)
  BY <1>1, HeldSame DEF AtWorker
<1>4. OneHolder' /\ Records' /\ DescriptorsOwned'
  BY <1>1, <1>3, HoldersStill
<1>5. \A v \in Workers : Busy(v)'
  BY <1>1, <1>2, <1>3 DEF IInv, Places, Busy, Run
<1> QED
  BY <1>1, <1>3, <1>4, <1>5 DEF IInv, Places, Queries, Typed, TypeOK

LEMMA AgeIInv ==
  ASSUME Typed, IInv, NEW c \in Slots, Age(c)
  PROVE  IInv'
<1>1. PICK t : t = [client[c] EXCEPT !.conn_time = "old"]
  OBVIOUS
<1>2. /\ UNCHANGED <<listener, caller, pipe, conn_set, ctl, sweep, queries, open>>
      /\ client' = [client EXCEPT ![c] = t] /\ client[c] \in ConnClient
      /\ client[c].conn_time = "recent"
  BY <1>1 DEF Age, threads, Typed, TypeOK
<1>3. client'[c] = t /\ \A d \in Slots \ {c} : client'[d] = client[d]
  BY <1>2 DEF Typed, TypeOK
<1>4. /\ t.conn_time = "old"
      /\ \A f \in {"client_fd", "state", "type", "event", "worker_id", "ev_dns",
                   "read_buffer", "write_buffer"} : t[f] = client[c][f]
  BY <1>1, <1>2 DEF ConnClient
<1>5. /\ \A v \in Workers : AtWorker(v)' = AtWorker(v) /\ InPipe(v)' = InPipe(v)
  BY <1>2, HeldSame DEF AtWorker, InPipe
<1>6. Fits(c)'
  <2>1. Fits(c)
    BY DEF IInv, Records
  <2>2. /\ Clean(client[c]) => Clean(t)
        /\ \A v : Queued(client[c], v) => Queued(t, v)
        /\ \A v : Served(client[c], v) => Served(t, v)
    BY <1>4 DEF Clean, Queued, Served
  <2> QED
    BY <1>2, <1>3, <1>4, <1>5, <2>1, <2>2 DEF Fits
<1>7. OneHolder' /\ Records' /\ DescriptorsOwned'
  BY <1>2, <1>3, <1>4, <1>5, <1>6, HoldersStill DEF IInv, Records
<1>8. \A d \in Slots : client'[d].state = client[d].state
  BY <1>3, <1>4
<1>9. \A v \in Workers : Busy(v)'
  BY <1>2, <1>5, <1>8, BusyStill DEF IInv, Places, Typed, SlotsAtHand
<1> QED
  BY <1>2, <1>5, <1>7, <1>8, <1>9 DEF IInv, Places, Queries, Typed, TypeOK

LEMMA QueryLostIInv ==
  ASSUME Typed, IInv, NEW q \in queries, QueryLost(q)
  PROVE  IInv'
<1>1. /\ UNCHANGED <<client, listener, caller, pipe, conn_set, ctl, sweep, open>>
      /\ queries' = queries \ {q}
  BY DEF QueryLost, threads
<1>2. \A v \in Workers : AtWorker(v)' = AtWorker(v)
  BY <1>1, HeldSame DEF AtWorker
<1>3. OneHolder' /\ Records' /\ DescriptorsOwned'
  BY <1>1, <1>2, HoldersStill
<1>4. \A v \in Workers : Busy(v)'
  BY <1>1, <1>2, BusyStill DEF IInv, Places
<1> QED
  BY <1>1, <1>2, <1>3, <1>4 DEF IInv, Places, Queries, Typed, TypeOK

LEMMA SweepEndsIInv ==
  ASSUME Typed, IInv, NEW w \in Workers, SweepBegin(w) \/ SweepEnd(w)
  PROVE  IInv'
<1>1. /\ UNCHANGED <<client, listener, caller, pipe, queries, open>>
      /\ \A v \in Workers \ {w} : /\ ctl'[v] = ctl[v] /\ sweep'[v] = sweep[v]
                                  /\ conn_set'[v] = conn_set[v]
  BY DEF SweepBegin, SweepEnd, threads, Typed, TypeOK
<1>2. /\ AtWorker(w) = conn_set[w] \ sweep[w].freed
      /\ AtWorker(w)' = conn_set'[w] \ sweep'[w].freed
  BY HeldLemma DEF HeldIs
<1>3. AtWorker(w)' = AtWorker(w) /\ Busy(w)'
  <2>1. CASE SweepBegin(w)
    <3>1. /\ ctl[w].pc = "loop" /\ ctl'[w].pc = "sweep"
          /\ conn_set'[w] = conn_set[w]
          /\ sweep'[w].todo = conn_set[w] /\ sweep'[w].freed = sweep[w].freed
      BY <2>1 DEF SweepBegin, InLoop, Typed, TypeOK, Control
    <3>2. sweep[w].freed = {}
      BY <3>1 DEF IInv, Places, Busy, NoSweep
    <3> QED
      BY <1>2, <3>1, <3>2 DEF Busy
  <2>2. CASE SweepEnd(w)
    <3>1. /\ ctl'[w].pc = "loop" /\ sweep'[w] = NoSweep
          /\ conn_set'[w] = conn_set[w] \ sweep[w].freed
      BY <2>2 DEF SweepEnd, Remaining, Idle, Typed, TypeOK
    <3> QED
      BY <1>2, <3>1 DEF Busy, NoSweep
  <2> QED
    BY <2>1, <2>2
<1>4. \A v \in Workers : AtWorker(v)' = AtWorker(v)
  BY <1>1, <1>3, HeldSame DEF AtWorker
<1>5. OneHolder' /\ Records' /\ DescriptorsOwned'
  BY <1>1, <1>4, HoldersStill
<1>6. \A v \in Workers : Busy(v)'
  BY <1>1, <1>3, <1>4, BusyStill DEF IInv, Places
<1> QED
  BY <1>1, <1>4, <1>5, <1>6 DEF IInv, Places, Queries, Typed, TypeOK

(* A worker gives a slot up: the slot is clean when it is free             *)
LEMMA GivenUp ==
  ASSUME Typed, IInv, NEW w \in Workers, NEW c \in AtWorker(w), c \in Slots,
         NEW t, Clean(t), t.conn_time = "zero",
         client' = [client EXCEPT ![c] = t],
         open' = open \ {client[c].client_fd},
         AtWorker(w)' = AtWorker(w) \ {c},
         \A v \in Workers \ {w} : /\ ctl'[v] = ctl[v] /\ sweep'[v] = sweep[v]
                                  /\ conn_set'[v] = conn_set[v],
         UNCHANGED <<listener, caller, pipe>>,
         queries' \subseteq queries, \A q \in queries' : q.slot # c
  PROVE  /\ OneHolder' /\ Records' /\ Queries' /\ DescriptorsOwned'
         /\ \A v \in Workers \ {w} : Busy(v)'
<1> DEFINE W == <<"worker", w>>
<1>1. client'[c] = t /\ \A d \in Slots \ {c} : client'[d] = client[d]
  BY DEF Typed, TypeOK
<1>2. \A v \in Workers : InPipe(v)' = InPipe(v)
  BY HeldSame DEF InPipe
<1>3. \A v \in Workers \ {w} : AtWorker(v)' = AtWorker(v)
  BY HeldSame DEF AtWorker
<1>4. OneHolder'
  <2>1. W \in Holders /\ c \in Holding(W) /\ Holding(W)' = Holding(W) \ {c}
    BY HolderKinds DEF AtWorker
  <2>2. \A h \in Holders \ {W} : Holding(h)' = Holding(h)
    BY <1>3, HeldSame, HolderKinds DEF AtWorker
  <2> HIDE DEF W
  <2> QED
    BY <1>1, <2>1, <2>2, HoldersDrop DEF IInv
<1>5. Fits(c)'
  BY <1>1, <1>4, FitsOwner
<1>6. \A d \in Slots \ {c} : Fits(d)'
  BY <1>1, <1>2, <1>3, FitsStill DEF IInv, Records
<1>7. \A v \in Workers \ {w} : c \notin AtWorker(v)
  BY AloneLemma DEF IInv, Alone
<1>8. \A v \in Workers \ {w} : Busy(v)'
  <2>1. ASSUME NEW v \in Workers \ {w}
        PROVE  ctl[v].pc = "machine" => ctl[v].slot \in Slots \ {c}
    BY <1>7 DEF IInv, Places, Busy, Typed, SlotsAtHand
  <2> QED
    BY <1>1, <1>3, <2>1, BusyStill DEF IInv, Places
<1>9. Queries'
  <2>1. \A q \in queries' : q.slot \in Slots \ {c} /\ q.worker \in Workers
    BY DEF Typed, TypeOK
  <2>2. \A q \in queries' : q.slot \in AtWorker(q.worker)'
    BY <1>3, <2>1 DEF IInv, Queries
  <2> QED
    BY <1>1, <2>1, <2>2 DEF IInv, Queries
<1>10. DescriptorsOwned'
  <2>1. client'[c].client_fd = NoFd
    BY <1>1 DEF Clean
  <2>2. Sockets' = Sockets \ {c}
    BY <1>1, <2>1, Apart DEF Sockets
  <2>3. \A d \in Sockets \ {c} : client'[d].client_fd = client[d].client_fd
    BY <1>1 DEF Sockets
  <2>4. /\ \A d, e \in Sockets :
             client[d].client_fd = client[e].client_fd => d = e
        /\ open = {client[d].client_fd : d \in Sockets}
                  \cup (IF listener.pc = "filling" THEN {listener.fd} ELSE {})
        /\ listener.pc = "filling" =>
             \A d \in Sockets : client[d].client_fd # listener.fd
    BY DEF IInv, DescriptorsOwned
  <2>5. c \in Sockets \/ client[c].client_fd \notin Fds
    BY DEF Sockets
  <2>6. open \subseteq Fds /\ c \in Slots
    BY DEF Typed, TypeOK
  <2>7. open' = {client'[d].client_fd : d \in Sockets'}
                \cup (IF listener'.pc = "filling" THEN {listener'.fd} ELSE {})
    <3>1. CASE c \in Sockets
      <4>1. {client'[d].client_fd : d \in Sockets \ {c}}
              = {client[d].client_fd : d \in Sockets} \ {client[c].client_fd}
        BY <2>3, <2>4, <3>1
      <4> QED
        BY <2>2, <2>4, <3>1, <4>1
    <3>2. CASE client[c].client_fd \notin Fds
      <4>1. Sockets' = Sockets /\ open' = open
        BY <2>2, <2>6, <3>2 DEF Sockets
      <4> QED
        BY <2>2, <2>3, <2>4, <4>1
    <3> QED
      BY <2>5, <3>1, <3>2
  <2> QED
    BY <2>2, <2>3, <2>4, <2>7 DEF DescriptorsOwned
<1> QED
  BY <1>4, <1>5, <1>6, <1>8, <1>9, <1>10 DEF Records

(* What worker w does to a connection of its own leaves the other workers  *)
(* and the queries of other connections alone.                             *)
LEMMA OthersStill ==
  ASSUME Typed, IInv, NEW w \in Workers, NEW c \in AtWorker(w), c \in Slots,
         \A d \in Slots \ {c} : client'[d] = client[d],
         \A v \in Workers \ {w} : ctl'[v] = ctl[v] /\ sweep'[v] = sweep[v],
         \A v \in Workers : AtWorker(v)' = AtWorker(v)
  PROVE  /\ \A v \in Workers \ {w} : Busy(v)'
         /\ \A q \in queries : q.slot # c =>
              q.slot \in AtWorker(q.worker)' /\ client'[q.slot].state = "resolving"
<1>1. \A v \in Workers \ {w} : c \notin AtWorker(v)
  BY AloneLemma DEF IInv, Alone
<1>2. \A v \in Workers \ {w} : Busy(v)'
  <2>1. ASSUME NEW v \in Workers \ {w}
        PROVE  ctl[v].pc = "machine" => ctl[v].slot \in Slots \ {c}
    BY <1>1 DEF IInv, Places, Busy, Typed, SlotsAtHand
  <2> QED
    BY <2>1, BusyStill DEF IInv, Places
<1>3. \A q \in queries : q.slot \in Slots /\ q.worker \in Workers
  BY DEF Typed, TypeOK
<1> QED
  BY <1>2, <1>3 DEF IInv, Queries

LEMMA SweepConnIInv ==
  ASSUME Typed, IInv, SafeEnv, NEW w \in Workers, SweepConn(w)
  PROVE  IInv'
<1>1. PICK c : c = CHOOSE i \in sweep[w].todo : \A k \in sweep[w].todo : i <= k
  OBVIOUS
<1>2. /\ ctl[w].pc = "sweep" /\ sweep[w].todo \subseteq Slots
      /\ sweep[w].todo \subseteq AtWorker(w)
      /\ c \in sweep[w].todo /\ c \in Slots /\ c \in AtWorker(w)
  <2>1. /\ ctl[w].pc = "sweep" /\ sweep[w].todo # {}
        /\ sweep[w].todo \subseteq Slots
        /\ sweep[w].todo \subseteq AtWorker(w)
    BY DEF SweepConn, Typed, TypeOK, IInv, Places, Busy
  <2> QED
    BY <1>1, <2>1, SweepNextLemma
<1>3. PICK r : r = client[c]
  OBVIOUS
<1>4. /\ r \in ConnClient /\ Served(r, w)
  BY <1>2, <1>3 DEF IInv, Records, Fits, Typed, TypeOK
<1>5. UNCHANGED <<listener, caller, pipe, conn_set, ctl>>
  BY DEF SweepConn, threads
<1>6. /\ AtWorker(w) = conn_set[w] \ sweep[w].freed
      /\ AtWorker(w)' = conn_set'[w] \ sweep'[w].freed
  BY HeldLemma DEF HeldIs
<1>7. CASE /\ sweep' = [sweep EXCEPT ![w].todo = @ \ {c}]
           /\ UNCHANGED <<client, open, queries>>
  <2>1. /\ sweep'[w].todo = sweep[w].todo \ {c}
        /\ sweep'[w].freed = sweep[w].freed
        /\ \A v \in Workers \ {w} : sweep'[v] = sweep[v]
    BY <1>7 DEF Typed, TypeOK
  <2>2. AtWorker(w)' = AtWorker(w)
    BY <1>5, <1>6, <2>1
  <2>3. \A v \in Workers : AtWorker(v)' = AtWorker(v)
    BY <1>5, <2>1, <2>2, HeldSame DEF AtWorker
  <2>4. OneHolder' /\ Records' /\ DescriptorsOwned'
    BY <1>5, <1>7, <2>3, HoldersStill
  <2>5. Busy(w)'
    BY <1>2, <1>5, <2>1, <2>2 DEF Busy
  <2>6. \A v \in Workers : Busy(v)'
    BY <1>5, <1>7, <2>1, <2>3, <2>5, BusyStill DEF IInv, Places
  <2> QED
    BY <1>5, <1>7, <2>3, <2>4, <2>6 DEF IInv, Places, Queries, Typed, TypeOK
<1>8. CASE /\ sweep' = [sweep EXCEPT ![w].todo = @ \ {c},
                                     ![w].freed = @ \cup {c}]
           /\ client' = [client EXCEPT ![c] = Freed(Expired(r))]
           /\ open' = CloseFd(r)
           /\ queries' = {q \in queries : q.slot # c}
  <2>1. /\ sweep'[w].todo = sweep[w].todo \ {c}
        /\ sweep'[w].freed = sweep[w].freed \cup {c}
        /\ \A v \in Workers \ {w} : sweep'[v] = sweep[v]
    BY <1>8 DEF Typed, TypeOK
  <2>2. AtWorker(w)' = AtWorker(w) \ {c}
    BY <1>5, <1>6, <2>1
  <2>3. PICK t : t = Freed(Expired(r))
    OBVIOUS
  <2>4. Clean(t) /\ t.conn_time = "zero"
    <3>1. Expired(r) \in ConnClient /\ Expired(r).client_fd = r.client_fd
      <4>1. ASSUME NEW e \in Workers \cup {Null}
            PROVE  LET x == [r EXCEPT !.err_no = "ERROR", !.ev_dns = e]
                   IN  x \in ConnClient /\ x.client_fd = r.client_fd
        BY <1>4 DEF ConnClient
      <4>2. r.ev_dns \in Workers \cup {Null}
        BY <1>4 DEF ConnClient
      <4> QED
        BY <1>4, <4>1, <4>2 DEF Expired
    <3>2. t = Cleared(Expired(r))
      BY <1>4, <2>3, <3>1 DEF Freed, Served
    <3> QED
      BY <3>1, <3>2, ClearedLemma DEF Clean
  <2>5. /\ client' = [client EXCEPT ![c] = t]
        /\ open' = open \ {client[c].client_fd}
    BY <1>3, <1>8, <2>3 DEF CloseFd
  <2>6. /\ OneHolder' /\ Records' /\ Queries' /\ DescriptorsOwned'
        /\ \A v \in Workers \ {w} : Busy(v)'
    BY <1>2, <1>5, <1>8, <2>1, <2>2, <2>4, <2>5, GivenUp
  <2>7. Busy(w)'
    BY <1>2, <1>5, <2>1, <2>2 DEF Busy
  <2> QED
    BY <1>5, <2>6, <2>7 DEF IInv, Places
<1> QED
  BY <1>1, <1>3, <1>7, <1>8 DEF SweepConn, SafeEnv

-----------------------------------------------------------------------------
(* The machine.                                                            *)

(* The slot a machine is run on is the worker's, and how it got there      *)
LEMMA AtMachine ==
  ASSUME Typed, IInv, NEW w \in Workers, ctl[w].pc = "machine"
  PROVE  /\ ctl[w].slot \in AtWorker(w) /\ ctl[w].slot \in Slots
         /\ Conn(w) \in ConnClient /\ Served(Conn(w), w)
         /\ sweep[w] = NoSweep
BY DEF IInv, Places, Busy, Typed, SlotsAtHand, TypeOK, Conn, Records, Fits

(* What a step of the machine makes of the worker, if it still has its     *)
(* connection                                                              *)
LEMMA MovedBusy ==
  ASSUME Typed, IInv, NEW w \in Workers, ctl[w].pc = "machine", Moved(w),
         UNCHANGED sweep,
         AtWorker(w)' = AtWorker(w),
         ctl'[w].pc = "machine" /\ ctl'[w].nested =>
           \/ ConnLimit = 1
           \/ "literal_ip" \in Env
              /\ client'[ctl[w].slot].state = "connecting"
  PROVE  /\ Busy(w)'
         /\ \A v \in Workers \ {w} : ctl'[v] = ctl[v]
<1>1. ctl[w].slot \in AtWorker(w) /\ sweep[w] = NoSweep
  BY AtMachine
<1>2. ctl \in [Workers -> Control] /\ ctl[w] \in Control
  BY DEF Typed, TypeOK
<1>3. \A v \in Workers \ {w} : ctl'[v] = ctl[v]
  BY <1>2 DEF Moved, Stop, GoOn
<1>4. ctl'[w].pc # "loop" => ctl'[w].slot = ctl[w].slot
  BY <1>2 DEF Moved, Stop, GoOn, Idle, Run, Control
<1>5. ctl'[w].pc # "sweep"
  BY <1>2 DEF Moved, Stop, GoOn, Idle, Run, Control
<1> QED
  BY <1>1, <1>3, <1>4, <1>5 DEF Busy, NoSweep

LEMMA ServingIInv ==
  ASSUME Typed, IInv, SafeEnv, NEW w \in Workers, Machine(w),
         \/ Waiting(w) \/ ReadNothing(w) \/ ReadMore(w) \/ ReadAll(w)
         \/ ReadFail(w) \/ ParseHeader(w) \/ ParseComing(w) \/ ParseActive(w)
         \/ Write(w) \/ WriteFail(w) \/ Renew(w) \/ Resolve(w)
         \/ ResolveAtOnce(w)
  PROVE  IInv'
<1>1. PICK c : c = ctl[w].slot
  OBVIOUS
<1>2. /\ ctl[w].pc = "machine"
      /\ Conn(w).state \notin {"connecting", "resolving"}
      /\ UNCHANGED <<conn_set, open>>
  BY DEF At, Waiting, ReadNothing, ReadMore, ReadAll, ReadFail, ParseHeader,
     ParseComing, ParseActive, Write, WriteFail, Renew, Resolve, ResolveAtOnce
<1>3. /\ c \in AtWorker(w) /\ c \in Slots /\ Conn(w) = client[c]
      /\ client[c] \in ConnClient /\ Served(client[c], w)
  BY <1>1, <1>2, AtMachine DEF Conn
<1>4. /\ UNCHANGED <<listener, caller, pipe, sweep>>
      /\ Moved(w)
  BY <1>2, MovedSteps DEF threads, WatchChannel
<1>5. PICK t : /\ Continues(client[c], t)
               /\ client' = [client EXCEPT ![c] = t]
               /\ t.state \in Naming => client[c].state \in Naming
  BY <1>1, <1>3, ServingSteps DEF Serving
<1>6. client'[c] = t /\ \A d \in Slots \ {c} : client'[d] = client[d]
  BY <1>3, <1>5 DEF Typed, TypeOK
<1>7. /\ OneHolder' /\ Records' /\ DescriptorsOwned'
      /\ \A v \in Workers : AtWorker(v)' = AtWorker(v)
  BY <1>2, <1>3, <1>4, <1>5, InPlace DEF IInv, Typed
<1>8. ctl'[w].pc = "machine" /\ ctl'[w].nested =>
        \/ ConnLimit = 1
        \/ "literal_ip" \in Env /\ client'[c].state = "connecting"
  <2>1. CASE ResolveAtOnce(w)
    <3>1. CASE "literal_ip" \in Env /\ DnsCallback(c, TRUE)
      <4>1. PICK r : r = [client[c] EXCEPT !.ev_dns = Null]
        OBVIOUS
      <4>2. r \in ConnClient
        BY <1>3, <4>1 DEF ConnClient
      <4>3. client'[c] = [r EXCEPT !.state = "connecting"]
        BY <1>3, <3>1, <4>1 DEF DnsCallback, SetState, Typed, TypeOK
      <4> QED
        BY <3>1, <4>2, <4>3 DEF ConnClient
    <3>2. CASE "bad_name" \in Env
      BY <3>2 DEF SafeEnv
    <3> QED
      BY <1>1, <2>1, <3>1, <3>2 DEF ResolveAtOnce
  <2>2. CASE \/ Waiting(w) \/ ReadNothing(w) \/ ReadMore(w) \/ ReadAll(w)
             \/ ReadFail(w) \/ ParseHeader(w) \/ ParseComing(w)
             \/ ParseActive(w) \/ Write(w) \/ WriteFail(w) \/ Renew(w)
             \/ Resolve(w)
    <3>1. Stop(w) \/ GoOn \/ ctl' = [ctl EXCEPT ![w].nreqs = @ - 1]
      BY <2>2 DEF Waiting, ReadNothing, ReadMore, ReadAll, ReadFail,
         ParseHeader, ParseComing, ParseActive, Write, WriteFail, Renew, Resolve
    <3>2. ctl'[w].pc = "machine" => ctl'[w].nested = ctl[w].nested
      BY <3>1 DEF Stop, GoOn, Idle, Typed, TypeOK, Control
    <3>3. ctl[w].nested => ConnLimit = 1
      BY <1>1, <1>2, <1>3 DEF IInv, Places, Busy
    <3> QED
      BY <3>2, <3>3
  <2> QED
    BY <2>1, <2>2
<1>9. Busy(w)' /\ \A v \in Workers \ {w} : ctl'[v] = ctl[v]
  BY <1>1, <1>2, <1>4, <1>7, <1>8, MovedBusy
<1>10. /\ \A v \in Workers \ {w} : Busy(v)'
       /\ \A q \in queries : q.slot # c =>
            q.slot \in AtWorker(q.worker)' /\ client'[q.slot].state = "resolving"
  BY <1>3, <1>4, <1>6, <1>7, <1>9, OthersStill
<1>11. \A q \in queries : q.slot # c
  BY <1>2, <1>3 DEF IInv, Queries
<1>12. Queries'
  <2>1. CASE Resolve(w)
    <3>1. PICK q : q = [worker |-> Conn(w).worker_id, slot |-> c,
                        job |-> Conn(w).task_id]
      OBVIOUS
    <3>2. queries' = queries \cup {q} /\ q.slot = c /\ q.worker = w
      BY <1>1, <1>3, <2>1, <3>1 DEF Resolve, Served
    <3>3. client'[c].state = "resolving"
      <4>1. PICK r : r = [Conn(w) EXCEPT !.ev_dns = Conn(w).worker_id]
        OBVIOUS
      <4>2. r \in ConnClient
        BY <1>3, <4>1 DEF ConnClient
      <4>3. client'[c] = [r EXCEPT !.state = "resolving"]
        BY <1>1, <1>3, <2>1, <4>1 DEF Resolve, Goto, SetState, Typed, TypeOK
      <4> QED
        BY <4>2, <4>3 DEF ConnClient
    <3> QED
      BY <1>3, <1>7, <1>10, <1>11, <3>2, <3>3 DEF IInv, Queries
  <2>2. CASE queries' = queries
    BY <1>10, <1>11, <2>2 DEF IInv, Queries
  <2> QED
    BY <2>1, <2>2 DEF quiet, Waiting, ReadNothing, ReadMore, ReadAll, ReadFail,
       ParseHeader, ParseComing, ParseActive, Write, WriteFail, Renew,
       ResolveAtOnce
<1> QED
  BY <1>4, <1>7, <1>9, <1>10, <1>12 DEF IInv, Places

LEMMA ConnectingIInv ==
  ASSUME Typed, IInv, SafeEnv, NEW w \in Workers, Machine(w), Connecting(w)
  PROVE  IInv'
<1>1. PICK c : c = ctl[w].slot
  OBVIOUS
<1>2. ctl[w].pc = "machine" /\ Conn(w).state = "connecting"
  BY DEF Connecting, At
<1>3. /\ c \in AtWorker(w) /\ c \in Slots /\ Conn(w) = client[c]
      /\ client[c] \in ConnClient /\ Served(client[c], w)
  BY <1>1, <1>2, AtMachine DEF Conn
<1>4. /\ UNCHANGED <<listener, caller, pipe, sweep, conn_set, queries>>
      /\ Moved(w)
  BY <1>2, MovedSteps DEF threads, WatchChannel, Connecting, quiet
<1>5. client[c].client_fd = FD_BEFORE_CONNECT /\ c \notin Sockets
  BY <1>2, <1>3, Apart DEF Served, Naming, Sockets
<1>6. /\ \A v \in Workers : AtWorker(v)' = AtWorker(v)
      /\ \A h \in Holders : Holding(h)' = Holding(h)
  BY <1>4, HeldSame, HolderKinds DEF AtWorker
<1>7. \A q \in queries : q.slot # c
  BY <1>2, <1>3 DEF IInv, Queries
<1>8. /\ OneHolder' /\ Records' /\ DescriptorsOwned'
      /\ \A d \in Slots \ {c} : client'[d] = client[d]
      /\ ctl'[w].pc = "machine" /\ ctl'[w].nested => ConnLimit = 1
  <2>1. CASE /\ FdLeft
             /\ open' = open \cup {NewFd}
             /\ \E e \in AddedEvents("W") :
                  Goto(w, [Conn(w) EXCEPT !.client_fd = NewFd, !.event = e],
                       "write")
             /\ Stop(w)
    <3>1. PICK f : f = NewFd
      OBVIOUS
    <3>2. f \in Fds \ open /\ open' = open \cup {f}
      BY <2>1, <3>1, NewFdLemma
    <3>3. PICK e \in AddedEvents("W") :
            Goto(w, [client[c] EXCEPT !.client_fd = f, !.event = e], "write")
      BY <1>3, <2>1, <3>1
    <3>4. PICK t : t = [[client[c] EXCEPT !.client_fd = f, !.event = e]
                          EXCEPT !.state = "write"]
      OBVIOUS
    <3>5. client'[c] = t /\ \A d \in Slots \ {c} : client'[d] = client[d]
      BY <1>1, <1>3, <3>3, <3>4 DEF Goto, SetState, Typed, TypeOK
    <3>6. /\ t.client_fd = f /\ t.state = "write"
          /\ \A k \in {"worker_id", "write_buffer", "read_buffer", "ev_dns",
                       "conn_time"} : t[k] = client[c][k]
      BY <1>3, <3>4 DEF ConnClient
    <3>7. Served(t, w)
      BY <1>3, <3>2, <3>6, Apart DEF Served, Naming
    <3>8. client[c].conn_time # "zero"
      BY <1>3, AloneLemma DEF IInv, Alone
    <3>9. OneHolder'
      BY <1>4, <1>6, <3>5, <3>6, HoldersKeep DEF IInv
    <3>10. Fits(c)'
      BY <1>3, <1>6, <3>5, <3>7, <3>9, FitsOwner
    <3>11. \A d \in Slots \ {c} : Fits(d)'
      BY <1>4, <1>6, <3>5, HeldSame, FitsStill DEF IInv, Records, InPipe
    <3>12. DescriptorsOwned'
      <4>1. Sockets' = Sockets \cup {c}
        BY <1>3, <3>2, <3>5, <3>6 DEF Sockets
      <4>2. \A d \in Sockets : client'[d].client_fd = client[d].client_fd
        BY <1>5, <3>5 DEF Sockets
      <4>3. /\ \A d, g \in Sockets :
                 client[d].client_fd = client[g].client_fd => d = g
            /\ open = {client[d].client_fd : d \in Sockets}
                      \cup (IF listener.pc = "filling" THEN {listener.fd} ELSE {})
            /\ listener.pc = "filling" =>
                 \A d \in Sockets : client[d].client_fd # listener.fd
        BY DEF IInv, DescriptorsOwned
      <4>4. \A d \in Sockets : client[d].client_fd # f
        BY <3>2, <4>3
      <4>5. listener.pc = "filling" => listener.fd # f
        BY <3>2, <4>3
      <4>6. {client'[d].client_fd : d \in Sockets \cup {c}}
              = {client[d].client_fd : d \in Sockets} \cup {f}
        BY <3>5, <3>6, <4>2
      <4> QED
        BY <1>4, <3>2, <3>5, <3>6, <4>1, <4>2, <4>3, <4>4, <4>5, <4>6
           DEF DescriptorsOwned
    <3>13. ctl'[w].pc # "machine"
      BY <2>1 DEF Stop, Idle, Typed, TypeOK, Control
    <3> QED
      BY <3>5, <3>9, <3>10, <3>11, <3>12, <3>13 DEF Records
  <2>2. CASE /\ "no_socket" \in Env
             /\ Goto(w, [Conn(w) EXCEPT !.client_fd = FD_BEFORE_CONNECT,
                                        !.err_no = "ERROR"], "closing")
             /\ GoOn
             /\ UNCHANGED open
    <3>1. PICK t : t = [[client[c] EXCEPT !.client_fd = FD_BEFORE_CONNECT,
                                          !.err_no = "ERROR"]
                          EXCEPT !.state = "closing"]
      OBVIOUS
    <3>2. client' = [client EXCEPT ![c] = t]
      BY <1>1, <1>3, <2>2, <3>1 DEF Goto, SetState
    <3>3. Continues(client[c], t) /\ t.state = "closing"
      BY <1>3, <1>5, <3>1 DEF Continues, ConnClient, States
    <3>4. OneHolder' /\ Records' /\ DescriptorsOwned'
      BY <1>3, <1>4, <2>2, <3>2, <3>3, InPlace DEF IInv, Typed, Naming
    <3>5. ctl'[w] = ctl[w]
      BY <2>2 DEF GoOn
    <3>6. ctl[w].nested => ConnLimit = 1
      BY <1>2, <2>2 DEF SafeEnv, IInv, Places, Busy
    <3> QED
      BY <3>2, <3>4, <3>5, <3>6 DEF Typed, TypeOK
  <2> QED
    BY <2>1, <2>2 DEF Connecting
<1>9. Busy(w)' /\ \A v \in Workers \ {w} : ctl'[v] = ctl[v]
  BY <1>1, <1>2, <1>4, <1>6, <1>8, MovedBusy
<1>10. /\ \A v \in Workers \ {w} : Busy(v)'
       /\ \A q \in queries : q.slot # c =>
            q.slot \in AtWorker(q.worker)' /\ client'[q.slot].state = "resolving"
  BY <1>3, <1>4, <1>6, <1>8, <1>9, OthersStill
<1>11. Queries'
  BY <1>4, <1>7, <1>10 DEF IInv, Queries
<1> QED
  BY <1>4, <1>8, <1>9, <1>10, <1>11 DEF IInv, Places

LEMMA ClosingIInv ==
  ASSUME Typed, IInv, NEW w \in Workers, Machine(w), Closing(w)
  PROVE  IInv'
<1>1. PICK c : c = ctl[w].slot
  OBVIOUS
<1>2. ctl[w].pc = "machine" /\ Conn(w).state = "closing"
  BY DEF Closing, At
<1>3. /\ c \in AtWorker(w) /\ c \in Slots /\ Conn(w) = client[c]
      /\ client[c] \in ConnClient /\ Served(client[c], w)
      /\ sweep[w] = NoSweep
  BY <1>1, <1>2, AtMachine DEF Conn
<1>4. PICK t : t = Freed(client[c])
  OBVIOUS
<1>5. /\ UNCHANGED <<listener, caller, pipe, sweep, queries>>
      /\ conn_set' = [conn_set EXCEPT ![w] = @ \ {c}]
      /\ client' = [client EXCEPT ![c] = t]
      /\ open' = open \ {client[c].client_fd}
      /\ Stop(w)
  BY <1>1, <1>3, <1>4 DEF Closing, quiet, threads, CloseFd, Served
<1>6. Clean(t) /\ t.conn_time = "zero"
  BY <1>3, <1>4, ClearedLemma DEF Freed, Served, Clean
<1>7. /\ conn_set'[w] = conn_set[w] \ {c}
      /\ \A v \in Workers \ {w} : conn_set'[v] = conn_set[v] /\ ctl'[v] = ctl[v]
  BY <1>5 DEF Stop, Typed, TypeOK
<1>8. AtWorker(w)' = AtWorker(w) \ {c}
  <2>1. /\ AtWorker(w) = conn_set[w] \ sweep[w].freed
        /\ AtWorker(w)' = conn_set'[w] \ sweep'[w].freed
    BY HeldLemma DEF HeldIs
  <2> QED
    BY <1>5, <1>7, <2>1
<1>9. \A q \in queries' : q.slot # c
  BY <1>2, <1>3, <1>5 DEF IInv, Queries
<1>10. /\ OneHolder' /\ Records' /\ Queries' /\ DescriptorsOwned'
       /\ \A v \in Workers \ {w} : Busy(v)'
  BY <1>3, <1>5, <1>6, <1>7, <1>8, <1>9, GivenUp
<1>11. Busy(w)'
  <2>1. ctl[w].nested => ConnLimit = 1
    BY <1>2 DEF IInv, Places, Busy, Conn
  <2>2. ctl'[w] = IF ctl[w].nested THEN [ctl[w] EXCEPT !.pc = "fds"] ELSE Idle
    BY <1>5 DEF Stop, Typed, TypeOK
  <2>3. ctl'[w].pc = "loop" \/ (ctl'[w].pc = "fds" /\ ConnLimit = 1)
    BY <2>1, <2>2 DEF Idle, Typed, TypeOK, Control
  <2> QED
    BY <1>3, <1>5, <2>3 DEF Busy, NoSweep
<1> QED
  BY <1>5, <1>10, <1>11 DEF IInv, Places

(* The slot a channel is watched for is served by the worker of a query    *)
(* that is in it, or nothing is watched for it                             *)
LEMMA WatchChannelIInv ==
  ASSUME Typed, IInv, NEW w \in Workers, Machine(w), WatchChannel(w)
  PROVE  IInv'
<1>1. PICK c : c = ctl[w].slot
  OBVIOUS
<1>2. PICK h : h = client[c].worker_id
  OBVIOUS
<1>3. /\ ctl[w].pc = "fds" /\ c \in Slots /\ client[c] \in ConnClient
      /\ h \in Workers
      /\ ConnLimit = 1 \/ c \in AtWorker(w)
      /\ sweep[w] = NoSweep
  BY <1>1, <1>2 DEF WatchChannel, Typed, SlotsAtHand, TypeOK, IInv, Places,
     Busy, ConnClient
<1>4. PICK e : e = IF \E q \in queries : q.worker = h THEN h ELSE Null
  OBVIOUS
<1>5. PICK t : t = [client[c] EXCEPT !.ev_dns = e]
  OBVIOUS
<1>6. /\ client' = [client EXCEPT ![c] = t]
      /\ ctl' = [ctl EXCEPT ![w] = Idle]
      /\ UNCHANGED <<listener, caller, pipe, sweep, queries, conn_set, open>>
  BY <1>1, <1>2, <1>4, <1>5 DEF WatchChannel, quiet, threads, Conn
<1>7. client'[c] = t /\ \A d \in Slots \ {c} : client'[d] = client[d]
  BY <1>3, <1>6 DEF Typed, TypeOK
<1>8. /\ t.ev_dns = e
      /\ \A k \in {"client_fd", "state", "type", "event", "worker_id",
                   "read_buffer", "write_buffer", "conn_time"} :
           t[k] = client[c][k]
  BY <1>3, <1>5 DEF ConnClient
<1>9. \A v \in Workers : AtWorker(v)' = AtWorker(v) /\ InPipe(v)' = InPipe(v)
  BY <1>6, HeldSame DEF AtWorker, InPipe
<1>10. OneHolder' /\ Records' /\ DescriptorsOwned'
  <2>1. CASE e = Null
    <3>1. Fits(c)
      BY <1>3 DEF IInv, Records
    <3>2. /\ Clean(client[c]) => Clean(t)
          /\ \A v : Queued(client[c], v) => Queued(t, v)
          /\ \A v : Served(client[c], v) => Served(t, v)
      BY <1>8, <2>1 DEF Clean, Queued, Served
    <3>3. Fits(c)'
      BY <1>6, <1>7, <1>8, <1>9, <3>1, <3>2 DEF Fits
    <3> QED
      BY <1>3, <1>6, <1>7, <1>8, <1>9, <3>3, HoldersStill DEF IInv, Records
  <2>2. CASE e # Null
    <3>1. PICK q \in queries : q.worker = h
      BY <1>4, <2>2
    <3>2. e = h /\ q.slot \in AtWorker(h) /\ q.slot \in Slots
      BY <1>4, <3>1 DEF IInv, Queries, Typed, TypeOK
    <3>3. c \in AtWorker(h)
      <4>1. CASE ConnLimit = 1
        <5>1. Slots = {0}
          BY <4>1 DEF Slots
        <5> QED
          BY <1>3, <3>2, <5>1
      <4>2. CASE c \in AtWorker(w)
        <5>1. Served(client[c], w)
          BY <1>3, <4>2 DEF IInv, Records, Fits
        <5> QED
          BY <1>2, <4>2, <5>1 DEF Served
      <4> QED
        BY <1>3, <4>1, <4>2
    <3>4. Continues(client[c], t)
      BY <1>2, <1>3, <1>5, <3>2, ContinuesLemma
    <3> QED
      BY <1>3, <1>6, <1>8, <3>3, <3>4, InPlace DEF IInv, Typed
  <2> QED
    BY <2>1, <2>2
<1>11. \A d \in Slots : client'[d].state = client[d].state
  BY <1>7, <1>8
<1>12. \A v \in Workers : Busy(v)'
  <2>1. ctl'[w] = Idle /\ \A v \in Workers \ {w} : ctl'[v] = ctl[v]
    BY <1>6 DEF Typed, TypeOK
  <2>2. Busy(w)'
    BY <1>3, <1>6, <2>1 DEF Busy, Idle, NoSweep
  <2>3. \A v \in Workers \ {w} : Busy(v)'
    BY <1>6, <1>9, <1>11, <2>1, BusyStill DEF IInv, Places, Typed, SlotsAtHand
  <2> QED
    BY <2>2, <2>3
<1> QED
  BY <1>6, <1>9, <1>10, <1>11, <1>12 DEF IInv, Places, Queries, Typed, TypeOK

LEMMA DnsEventIInv ==
  ASSUME Typed, IInv, NEW w \in Workers, NEW c \in Slots, DnsEvent(w, c)
  PROVE  IInv'
<1>1. /\ ctl[w].pc = "loop" /\ client[c].ev_dns = w
      /\ UNCHANGED <<listener, caller, pipe, conn_set, sweep, open>>
  BY DEF DnsEvent, InLoop, threads
<1>2. c \in AtWorker(w) /\ sweep[w] = NoSweep
  BY <1>1, Watched DEF IInv, Places, Busy
<1>3. ASSUME NEW d \in Slots, d \in AtWorker(w), NEW t,
             Continues(client[d], t),
             t.state \in Naming => client[d].state \in Naming,
             client' = [client EXCEPT ![d] = t],
             ctl' = [ctl EXCEPT ![w] = Run(d, FALSE)],
             queries' \subseteq queries,
             \A q \in queries' : q.slot # d
      PROVE  IInv'
  <2>1. client'[d] = t /\ \A e \in Slots \ {d} : client'[e] = client[e]
    BY <1>3 DEF Typed, TypeOK
  <2>2. /\ OneHolder' /\ Records' /\ DescriptorsOwned'
        /\ \A v \in Workers : AtWorker(v)' = AtWorker(v)
    BY <1>1, <1>3, InPlace DEF IInv, Typed
  <2>3. ctl'[w] = Run(d, FALSE) /\ \A v \in Workers \ {w} : ctl'[v] = ctl[v]
    BY <1>3 DEF Typed, TypeOK
  <2>4. Busy(w)'
    BY <1>1, <1>2, <1>3, <2>2, <2>3 DEF Busy, Run, NoSweep
  <2>5. /\ \A v \in Workers \ {w} : Busy(v)'
        /\ \A q \in queries : q.slot # d =>
             q.slot \in AtWorker(q.worker)' /\ client'[q.slot].state = "resolving"
    BY <1>1, <1>3, <2>1, <2>2, <2>3, OthersStill
  <2>6. Queries'
    BY <1>3, <2>5 DEF IInv, Queries
  <2> QED
    BY <1>1, <2>2, <2>4, <2>5, <2>6 DEF IInv, Places
<1>4. CASE /\ client[c].state = "closing"
           /\ client' = [client EXCEPT ![c].ev_dns = Null]
           /\ ctl' = [ctl EXCEPT ![w] = Run(c, FALSE)]
           /\ UNCHANGED <<queries, reports, strayReport>>
  <2>1. PICK t : t = [client[c] EXCEPT !.ev_dns = Null]
    OBVIOUS
  <2>2. client[c] \in ConnClient
    BY DEF Typed, TypeOK
  <2>3. Continues(client[c], t)
    BY <2>1, <2>2, ContinuesLemma
  <2>4. t.state = "closing"
    BY <1>4, <2>1, <2>2 DEF ConnClient
  <2>5. \A q \in queries : q.slot # c
    BY <1>4 DEF IInv, Queries
  <2> QED
    BY <1>2, <1>3, <1>4, <2>1, <2>3, <2>4, <2>5 DEF Naming
<1>5. ASSUME NEW q \in queries, NEW ok \in BOOLEAN,
             q.worker = w, queries' = queries \ {q},
             DnsCallback(q.slot, ok),
             ctl' = [ctl EXCEPT ![w] = Run(q.slot, FALSE)]
      PROVE  IInv'
  <2>1. PICK d : d = q.slot
    OBVIOUS
  <2>2. /\ d \in Slots /\ d \in AtWorker(w) /\ client[d].state = "resolving"
        /\ client[d] \in ConnClient
    BY <1>5, <2>1 DEF IInv, Queries, Typed, TypeOK
  <2>3. PICK r : r = [client[d] EXCEPT !.ev_dns = Null]
    OBVIOUS
  <2>4. Continues(client[d], r) /\ r \in ConnClient
    BY <2>2, <2>3, ContinuesLemma DEF Continues
  <2>5. Continues(client[d], Unresolved(r))
    BY <2>4, ContinuesLemma, ContinuesAgain
  <2>6. \E u, s : /\ Continues(client[d], u) /\ s \in States
                  /\ client' = [client EXCEPT ![d] = [u EXCEPT !.state = s]]
    <3>1. CASE ok
      BY <1>5, <2>1, <2>3, <2>4, <3>1 DEF DnsCallback, SetState, States
    <3>2. CASE ~ok
      BY <1>5, <2>1, <2>3, <2>5, <3>2 DEF DnsCallback, SetState, States
    <3> QED
      BY <3>1, <3>2
  <2>7. PICK u, s : /\ Continues(client[d], u) /\ s \in States
                    /\ client' = [client EXCEPT ![d] = [u EXCEPT !.state = s]]
    BY <2>6
  <2>8. PICK t : t = [u EXCEPT !.state = s]
    OBVIOUS
  <2>9. Continues(client[d], t)
    BY <2>2, <2>7, <2>8, ContinuesChange
  <2>10. \A p \in queries' : p.slot # d
    BY <1>5, <2>1 DEF IInv, Queries
  <2> QED
    BY <1>3, <1>5, <2>1, <2>2, <2>7, <2>8, <2>9, <2>10 DEF Naming
<1> QED
  BY <1>4, <1>5 DEF DnsEvent

-----------------------------------------------------------------------------
LEMMA RefusedIInv ==
  ASSUME Typed, IInv,
         AcceptRefuse \/ (\E j \in Jobs : ConnectRefused(j)) \/ UNCHANGED vars
  PROVE  IInv'
<1>1. UNCHANGED <<client, listener, pipe, conn_set, ctl, sweep, queries, open>>
  BY DEF AcceptRefuse, ConnectRefused, pool, vars
<1>2. \A j \in Jobs :
        /\ caller'[j].slot = caller[j].slot
        /\ \/ caller'[j] = caller[j]
           \/ /\ caller[j].pc = "idle" /\ caller'[j].pc = "refused"
              /\ caller[j].slot = NoSlot
  <2>1. CASE UNCHANGED caller
    BY <2>1
  <2>2. ASSUME NEW k \in Jobs, ConnectRefused(k)
        PROVE  \A j \in Jobs :
                 /\ caller'[j].slot = caller[j].slot
                 /\ \/ caller'[j] = caller[j]
                    \/ caller[j].pc = "idle" /\ caller'[j].pc = "refused"
    BY <2>2 DEF ConnectRefused, Typed, TypeOK
  <2> QED
    BY <2>1, <2>2 DEF AcceptRefuse, vars, IInv, Places
<1>3. \A w \in Workers : AtWorker(w)' = AtWorker(w)
  BY <1>1, HeldSame DEF AtWorker
<1>4. OneHolder' /\ Records' /\ DescriptorsOwned'
  BY <1>1, <1>2, <1>3, HoldersStill
<1>5. \A w \in Workers : Busy(w)'
  BY <1>1, <1>3, BusyStill DEF IInv, Places
<1>6. Places'
  BY <1>1, <1>2, <1>5 DEF IInv, Places
<1>7. Queries'
  BY <1>1, <1>3 DEF IInv, Queries, Typed, TypeOK
<1> QED
  BY <1>4, <1>6, <1>7 DEF IInv

LEMMA NextIInv ==
  ASSUME Typed, IInv, SafeEnv, [Next]_vars
  PROVE  IInv'
<1>1. CASE Listening
  BY <1>1, AcceptIInv, RefusedIInv, AcceptFillIInv, AcceptFailIInv,
     AcceptDispatchIInv DEF Listening
<1>2. ASSUME NEW j \in Jobs, Calling(j)
      PROVE  IInv'
  BY <1>2, ConnectIInv, RefusedIInv, ConnectFillIInv, ConnectDispatchIInv
     DEF Calling
<1>3. ASSUME NEW w \in Workers, Process(w) \/ Machine(w) \/ Sweeping(w)
      PROVE  IInv'
  <2>1. CASE Machine(w)
    BY <2>1, ServingIInv, ConnectingIInv, ClosingIInv, WatchChannelIInv
       DEF Machine
  <2>2. CASE Sweeping(w)
    BY <2>2, SweepEndsIInv, SweepConnIInv DEF Sweeping
  <2> QED
    BY <1>3, <2>1, <2>2, ProcessIInv
<1>4. ASSUME NEW w \in Workers, NEW c \in Slots, Event(w, c) \/ DnsEvent(w, c)
      PROVE  IInv'
  BY <1>4, EventIInv, DnsEventIInv
<1>5. ASSUME NEW q \in queries, QueryLost(q)
      PROVE  IInv'
  BY <1>5, QueryLostIInv
<1>6. ASSUME NEW c \in Slots, Age(c)
      PROVE  IInv'
  BY <1>6, AgeIInv
<1>7. CASE UNCHANGED vars
  BY <1>7, RefusedIInv
<1> QED
  BY <1>1, <1>2, <1>3, <1>4, <1>5, <1>6, <1>7 DEF Next

(* The inductive invariant: who holds a slot, what is in it, where the     *)
(* threads and workers are with it, which queries are under way, and whose *)
(* the descriptors are.                                                    *)
THEOREM PoolInvariant ==
  ASSUME SafeEnv
  PROVE  Spec => [](Typed /\ IInv)
<1>1. Typed /\ IInv /\ [Next]_vars => IInv'
  BY NextIInv
<1>2. Init => IInv
  BY InitIInv
<1>3. Spec => []Typed
  BY PoolTyped
<1> QED
  BY <1>1, <1>2, <1>3, PTL DEF Spec

(* A slot is held by one thread, pipe or worker at a time, once, and       *)
(* conn_time, the flag conn_client_list_find_free goes by, is set exactly  *)
(* while somebody holds it.                                                *)
THEOREM PoolOneHolder ==
  ASSUME SafeEnv
  PROVE  Spec => []OneHolder
<1>1. Typed /\ IInv => OneHolder
  BY DEF IInv
<1> QED
  BY <1>1, PoolInvariant, PTL

(* A slot find_free may take owns no descriptor, buffer or event.          *)
THEOREM PoolFreeSlotIsClean ==
  ASSUME SafeEnv
  PROVE  Spec => []FreeSlotIsClean
<1>1. Typed /\ IInv => FreeSlotIsClean
  BY DEF IInv, Records, Fits, Clean, FreeSlots, FreeSlotIsClean
<1> QED
  BY <1>1, PoolInvariant, PTL

(* Every open descriptor belongs to one slot or to the accept under way.   *)
THEOREM PoolDescriptorsOwned ==
  ASSUME SafeEnv
  PROVE  Spec => []DescriptorsOwned
<1>1. Typed /\ IInv => DescriptorsOwned
  BY DEF IInv
<1> QED
  BY <1>1, PoolInvariant, PTL

(* Only the worker a connection was dispatched to runs its state machine.  *)
THEOREM PoolDriverServes ==
  ASSUME SafeEnv
  PROVE  Spec => []DriverServes
<1>1. Typed /\ IInv => DriverServes
  BY DEF IInv, Places, Busy, DriverServes, AtWorker
<1> QED
  BY <1>1, PoolInvariant, PTL

-----------------------------------------------------------------------------
(* Connections a renewal left without a buffer.  A step that takes none    *)
(* away leads no connection that lacks one where its buffer is needed.     *)
Sound(r) == LacksNothingElse(r) /\ (r.state = "renew" => r.type = "coming")

LInv == \A w \in Workers : \A c \in AtWorker(w) : Sound(client[c])

(* What a step that is no renewal keeps of a connection that was r         *)
Keeps(r, t) ==
  /\ t.type = r.type /\ t.task_id = r.task_id
  /\ t.write_buffer = r.write_buffer
  /\ t.read_buffer = Null <=> r.read_buffer = Null
  /\ r.read_buffer = Null => t.body = r.body /\ t.partial = r.partial

LEMMA KeepsSound ==
  ASSUME NEW r \in ConnClient, NEW t \in ConnClient, NEW s \in States,
         Sound(r), Keeps(r, t),
         r.read_buffer = Null => s \in {"waiting", "read", "closing"},
         s = "renew" => r.type = "coming"
                        /\ r.read_buffer # Null /\ r.write_buffer # Null
  PROVE  Sound([t EXCEPT !.state = s])
<1>1. PICK u : u = [t EXCEPT !.state = s]
  OBVIOUS
<1>2. /\ u.state = s /\ u.type = t.type /\ u.task_id = t.task_id
      /\ u.write_buffer = t.write_buffer /\ u.read_buffer = t.read_buffer
      /\ u.body = t.body /\ u.partial = t.partial
  BY <1>1 DEF ConnClient
<1>3. Keeps(r, u)
  BY <1>2 DEF Keeps
<1>4. Sound(u)
  BY <1>2, <1>3 DEF Keeps, Sound, LacksNothingElse
<1> QED
  BY <1>1, <1>4

(* Records that keep what Sound is about                                   *)
LEMMA KeepsChange ==
  ASSUME NEW r \in ConnClient, NEW f \in {"R", "W"}
  PROVE  /\ Keeps(r, r) /\ Keeps(r, Unresolved(r))
         /\ \A e \in {"SUCC", "INVILID", "ERROR"} :
              Keeps(r, [r EXCEPT !.err_no = e])
         /\ \A a \in {"zero", "recent", "old"} :
              Keeps(r, [r EXCEPT !.conn_time = a])
         /\ \A d \in Workers \cup {Null} : Keeps(r, [r EXCEPT !.ev_dns = d])
         /\ Keeps(r, UpdateEvent(r, f))
         /\ Keeps(r, [UpdateEventFailed(r, f) EXCEPT !.err_no = "ERROR"])
<1> USE DEF Keeps
<1>1. /\ Keeps(r, r) /\ Keeps(r, Unresolved(r))
      /\ \A e \in {"SUCC", "INVILID", "ERROR"} :
           Keeps(r, [r EXCEPT !.err_no = e])
      /\ \A a \in {"zero", "recent", "old"} :
           Keeps(r, [r EXCEPT !.conn_time = a])
      /\ \A d \in Workers \cup {Null} : Keeps(r, [r EXCEPT !.ev_dns = d])
  BY DEF ConnClient, Unresolved
<1>2. Keeps(r, UpdateEvent(r, f))
  BY DEF ConnClient, UpdateEvent
<1>3. Keeps(r, [UpdateEventFailed(r, f) EXCEPT !.err_no = "ERROR"])
  BY DEF ConnClient, UpdateEventFailed
<1> QED
  BY <1>1, <1>2, <1>3

LEMMA KeepsAgain ==
  ASSUME NEW r, NEW t, NEW u, Keeps(r, t), Keeps(t, u)
  PROVE  Keeps(r, u)
BY DEF Keeps

(* A connection that lacks no read buffer may grow it and read into it     *)
LEMMA KeepsRead ==
  ASSUME NEW r \in ConnClient, r.read_buffer # Null, NEW g \in Grown(r)
  PROVE  /\ \A p : Keeps(r, [g EXCEPT !.conn_time = "recent", !.partial = p])
         /\ \A p : Keeps(r, [g EXCEPT !.partial = p])
         /\ \A b : Keeps(r, [r EXCEPT !.body = b])
BY Apart DEF Keeps, Grown, ConnClient

LEMMA RenewedSound ==
  ASSUME NEW r \in ConnClient, r.type = "coming",
         NEW a \in Blocks(r.worker_id), NEW b \in Blocks(r.worker_id)
  PROVE  Sound([Renewed(r, a, b) EXCEPT !.state = "waiting"])
<1>1. PICK t : t = [Renewed(r, a, b) EXCEPT !.state = "waiting"]
  OBVIOUS
<1>2. /\ t.state = "waiting" /\ t.type = "coming" /\ t.task_id = NoTask
      /\ t.read_buffer = a /\ t.write_buffer = b
      /\ t.body = FALSE /\ t.partial = 0
  BY <1>1 DEF Renewed, ConnClient
<1>3. /\ r.worker_id # Null
      /\ Null \in {a, b} => "no_block" \in Env
  BY Apart DEF Blocks, ConnClient
<1>4. Sound(t)
  BY <1>2, <1>3 DEF Sound, LacksNothingElse
<1> QED
  BY <1>1, <1>4

(* One step of the machine on connection r                                 *)
SoundGoto(w) ==
  \E t, s : Sound([t EXCEPT !.state = s]) /\ Goto(w, t, s)

LEMMA MachineSound ==
  ASSUME Typed, NEW w \in Workers, Conn(w) \in ConnClient, Sound(Conn(w)),
         \/ Waiting(w) \/ ReadNothing(w) \/ ReadMore(w) \/ ReadAll(w)
         \/ ReadFail(w) \/ ParseHeader(w) \/ ParseComing(w) \/ ParseActive(w)
         \/ Write(w) \/ WriteFail(w) \/ Renew(w) \/ Connecting(w)
         \/ Resolve(w)
  PROVE  SoundGoto(w)
<1> DEFINE r == Conn(w)
<1>1. r \in ConnClient /\ Sound(r)
  OBVIOUS
<1>2. States = {"nouse", "waiting", "read", "parse_header", "parse_cmd",
                "write", "renew", "closing", "connecting", "dns_cache",
                "resolving"}
  BY DEF States
<1>3. ASSUME NEW t \in ConnClient, NEW s \in States, Goto(w, t, s), Keeps(r, t),
             r.read_buffer = Null => s \in {"waiting", "read", "closing"},
             s = "renew" => r.type = "coming"
                            /\ r.read_buffer # Null /\ r.write_buffer # Null
      PROVE  SoundGoto(w)
  BY <1>1, <1>3, KeepsSound DEF SoundGoto
<1>4. r.read_buffer = Null => r.state \in {"waiting", "read", "closing"}
  BY <1>1 DEF Sound, LacksNothingElse
<1>5. /\ Keeps(r, r)
      /\ \A e \in {"SUCC", "INVILID", "ERROR"} :
           [r EXCEPT !.err_no = e] \in ConnClient
           /\ Keeps(r, [r EXCEPT !.err_no = e])
      /\ \A f \in {"R", "W"} :
           /\ UpdateEvent(r, f) \in ConnClient
           /\ Keeps(r, UpdateEvent(r, f))
           /\ [UpdateEventFailed(r, f) EXCEPT !.err_no = "ERROR"] \in ConnClient
           /\ Keeps(r, [UpdateEventFailed(r, f) EXCEPT !.err_no = "ERROR"])
  BY <1>1, KeepsChange, ContinuesLemma DEF Continues
<1>6. r.err_no \in {"SUCC", "INVILID", "ERROR"}
  BY <1>1 DEF ConnClient
<1>7. [r EXCEPT !.conn_time = "recent"] \in ConnClient
      /\ Keeps(r, [r EXCEPT !.conn_time = "recent"])
  BY <1>1, KeepsChange, RecordChange
<1> HIDE DEF r
<1>w. CASE Waiting(w)
  BY <1>w, <1>1, <1>2, <1>3, <1>5 DEF Waiting, r
<1>n. CASE ReadNothing(w)
  BY <1>n, <1>1, <1>2, <1>3, <1>5 DEF ReadNothing, r
<1>m. CASE ReadMore(w)
  <2>1. PICK g \in Grown(r) :
          Goto(w, [g EXCEPT !.conn_time = "recent", !.partial = @ + 1], "read")
    BY <1>m DEF ReadMore, r
  <2>2. /\ g \in ConnClient /\ g.partial = r.partial
        /\ r.partial < MaxPartial /\ r.read_buffer # Null
    BY <1>m, <1>1, <2>1, GrownLemma DEF ReadMore, r
  <2>3. [g EXCEPT !.conn_time = "recent", !.partial = @ + 1]
          = [g EXCEPT !.conn_time = "recent", !.partial = g.partial + 1]
    BY <2>2 DEF ConnClient
  <2>4. ASSUME NEW p \in 0 .. MaxPartial
        PROVE  [g EXCEPT !.conn_time = "recent", !.partial = p] \in ConnClient
    <3>1. PICK h : h = [g EXCEPT !.conn_time = "recent"]
      OBVIOUS
    <3>2. h \in ConnClient
      BY <2>2, <3>1, RecordChange
    <3>3. [h EXCEPT !.partial = p] \in ConnClient
      BY <2>4, <3>2 DEF ConnClient
    <3>4. [h EXCEPT !.partial = p]
            = [g EXCEPT !.conn_time = "recent", !.partial = p]
      BY <3>1, <2>2 DEF ConnClient
    <3> QED
      BY <3>3, <3>4
  <2>5. g.partial + 1 \in 0 .. MaxPartial
    BY <1>1, <2>2, PoolAssumption DEF ConnClient
  <2>6. PICK t : t = [g EXCEPT !.conn_time = "recent", !.partial = g.partial + 1]
    OBVIOUS
  <2>7. t \in ConnClient /\ Keeps(r, t) /\ Goto(w, t, "read")
    BY <1>1, <2>1, <2>2, <2>3, <2>4, <2>5, <2>6, KeepsRead
  <2> QED
    BY <1>2, <1>3, <2>7
<1>a. CASE ReadAll(w)
  <2>1. PICK g \in Grown(r), s \in {"parse_cmd", "parse_header"} :
          Goto(w, [g EXCEPT !.partial = 0], s)
    BY <1>a DEF ReadAll, r
  <2>2. g \in ConnClient /\ r.read_buffer # Null
    BY <1>a, <1>1, <2>1, GrownLemma DEF ReadAll, r
  <2>3. ASSUME NEW p \in 0 .. MaxPartial
        PROVE  [g EXCEPT !.partial = p] \in ConnClient
    BY <2>2 DEF ConnClient
  <2>4. 0 \in 0 .. MaxPartial
    BY PoolAssumption
  <2>5. PICK t : t = [g EXCEPT !.partial = 0]
    OBVIOUS
  <2>6. t \in ConnClient /\ Keeps(r, t) /\ Goto(w, t, s)
    BY <1>1, <2>1, <2>2, <2>3, <2>4, <2>5, KeepsRead
  <2> QED
    BY <1>2, <1>3, <2>1, <2>2, <2>6
<1>f. CASE ReadFail(w)
  BY <1>f, <1>1, <1>2, <1>3, <1>5, <1>6 DEF ReadFail, r
<1>h. CASE ParseHeader(w)
  <2>1. r.read_buffer # Null
    BY <1>h, <1>4 DEF ParseHeader, At, r
  <2>2. PICK t : t = [r EXCEPT !.body = TRUE]
    OBVIOUS
  <2>3. t \in ConnClient /\ Keeps(r, t)
    BY <1>1, <2>1, <2>2, GrownLemma, KeepsRead DEF ConnClient, Grown
  <2>4. \/ Goto(w, t, "read")
        \/ Goto(w, [r EXCEPT !.err_no = "ERROR"], "closing")
    BY <1>h, <2>2 DEF ParseHeader, r
  <2> QED
    BY <1>2, <1>3, <1>5, <2>1, <2>3, <2>4
<1>c. CASE ParseComing(w)
  <2>1. PICK q : q = [r EXCEPT !.conn_time = "recent"]
    OBVIOUS
  <2>2. q \in ConnClient /\ Keeps(r, q) /\ r.read_buffer # Null
    BY <1>c, <1>4, <1>7, <2>1 DEF ParseComing, At, r
  <2>3. /\ UpdateEvent(q, "W") \in ConnClient
        /\ Keeps(r, UpdateEvent(q, "W"))
        /\ [UpdateEventFailed(q, "W") EXCEPT !.err_no = "ERROR"] \in ConnClient
        /\ Keeps(r, [UpdateEventFailed(q, "W") EXCEPT !.err_no = "ERROR"])
    BY <2>2, KeepsChange, KeepsAgain, ContinuesLemma DEF Continues
  <2>4. \/ Goto(w, UpdateEvent(q, "W"), "write")
        \/ Goto(w, [UpdateEventFailed(q, "W") EXCEPT !.err_no = "ERROR"],
                "closing")
    BY <1>c, <2>1 DEF ParseComing, r
  <2> QED
    BY <1>2, <1>3, <2>2, <2>3, <2>4
<1>v. CASE ParseActive(w)
  BY <1>v, <1>1, <1>2, <1>3, <1>5 DEF ParseActive, r
<1>t. CASE Write(w)
  <2>1. r.read_buffer # Null /\ r.write_buffer # Null
    BY <1>t, <1>4 DEF Write, At, r
  <2>2. \/ r.type = "coming" /\ Goto(w, r, "renew")
        \/ Goto(w, [r EXCEPT !.conn_time = "recent"], "read")
        \/ Goto(w, r, "write")
    BY <1>t DEF Write, r
  <2> QED
    BY <1>1, <1>2, <1>3, <1>5, <1>7, <2>1, <2>2
<1>u. CASE WriteFail(w)
  BY <1>u, <1>1, <1>2, <1>3, <1>5, <1>6 DEF WriteFail, r
<1>r. CASE Renew(w)
  <2>1. PICK a \in Blocks(r.worker_id), b \in Blocks(r.worker_id) :
          Goto(w, Renewed(r, a, b), "waiting")
    BY <1>r DEF Renew, r
  <2>2. r.type = "coming"
    BY <1>r, <1>1 DEF Renew, At, Sound, r
  <2> QED
    BY <1>1, <2>1, <2>2, RenewedSound DEF SoundGoto
<1>k. CASE Connecting(w)
  <2>1. r.read_buffer # Null
    BY <1>k, <1>4 DEF Connecting, At, r
  <2>2. PICK t, s : s \in {"write", "closing"} /\ Goto(w, t, s)
                    /\ t \in ConnClient /\ Keeps(r, t)
    <3>1. CASE FdLeft /\ \E e \in AddedEvents("W") :
                 Goto(w, [r EXCEPT !.client_fd = NewFd, !.event = e], "write")
      <4>1. PICK e \in {"W", "none"} :
              Goto(w, [r EXCEPT !.client_fd = NewFd, !.event = e], "write")
        BY <3>1 DEF AddedEvents
      <4>2. PICK t : t = [r EXCEPT !.client_fd = NewFd, !.event = e]
        OBVIOUS
      <4>3. NewFd \in Fds
        BY <3>1, NewFdLemma
      <4>4. t \in ConnClient /\ Keeps(r, t)
        BY <1>1, <4>1, <4>2, <4>3 DEF ConnClient, Keeps
      <4> QED
        BY <4>1, <4>2, <4>4
    <3>2. CASE Goto(w, [r EXCEPT !.client_fd = FD_BEFORE_CONNECT,
                                 !.err_no = "ERROR"], "closing")
      <4>1. PICK t : t = [r EXCEPT !.client_fd = FD_BEFORE_CONNECT,
                                   !.err_no = "ERROR"]
        OBVIOUS
      <4>2. t \in ConnClient /\ Keeps(r, t)
        BY <1>1, <4>1 DEF ConnClient, Keeps
      <4> QED
        BY <3>2, <4>1, <4>2
    <3> QED
      BY <1>k, <3>1, <3>2 DEF Connecting, r
  <2> QED
    BY <1>2, <1>3, <2>1, <2>2
<1>s. CASE Resolve(w)
  <2>1. r.read_buffer # Null
    BY <1>s, <1>4 DEF Resolve, At, r
  <2>2. PICK t : t = [r EXCEPT !.ev_dns = r.worker_id]
    OBVIOUS
  <2>3. r.worker_id \in Workers
    BY <1>1 DEF ConnClient
  <2>4. t \in ConnClient /\ Keeps(r, t) /\ Goto(w, t, "resolving")
    BY <1>s, <1>1, <2>2, <2>3, KeepsChange, RecordChange DEF Resolve, r
  <2> QED
    BY <1>2, <1>3, <2>1, <2>4
<1> QED
  BY <1>w, <1>n, <1>m, <1>a, <1>f, <1>h, <1>c, <1>v, <1>t, <1>u, <1>r, <1>k,
     <1>s

(* dns_callback, for a connection that was resolving or about to           *)
LEMMA CallbackSound ==
  ASSUME Typed, NEW c \in Slots, Sound(client[c]),
         client[c].state \in {"dns_cache", "resolving"},
         NEW ok \in BOOLEAN, DnsCallback(c, ok)
  PROVE  /\ Sound(client'[c])
         /\ \A d \in Slots \ {c} : client'[d] = client[d]
<1>1. client[c] \in ConnClient
  BY DEF Typed, TypeOK
<1>2. PICK r : r = [client[c] EXCEPT !.ev_dns = Null]
  OBVIOUS
<1>3. /\ r \in ConnClient /\ Keeps(client[c], r)
      /\ Unresolved(r) \in ConnClient /\ Keeps(client[c], Unresolved(r))
  <2>1. r \in ConnClient /\ Keeps(client[c], r)
    BY <1>1, <1>2, KeepsChange, RecordChange
  <2>2. Unresolved(r) \in ConnClient /\ Keeps(r, Unresolved(r))
    BY <2>1, KeepsChange, ContinuesLemma DEF Continues
  <2> QED
    BY <2>1, <2>2, KeepsAgain
<1>4. PICK u \in {r, Unresolved(r)}, s \in {"connecting", "closing"} :
        client' = [client EXCEPT ![c] = [u EXCEPT !.state = s]]
  <2>1. CASE ok
    BY <1>2, <2>1 DEF DnsCallback, SetState
  <2>2. CASE ~ok
    BY <1>2, <2>2 DEF DnsCallback, SetState
  <2> QED
    BY <2>1, <2>2
<1>5. client[c].read_buffer # Null
  BY DEF Sound, LacksNothingElse
<1>6. Sound([u EXCEPT !.state = s])
  <2>1. u \in ConnClient /\ Keeps(client[c], u) /\ s \in States /\ s # "renew"
    BY <1>3, <1>4 DEF States
  <2> QED
    BY <1>1, <1>5, <2>1, KeepsSound
<1> QED
  BY <1>4, <1>6 DEF Typed, TypeOK

LEMMA LeftSound ==
  ASSUME LInv, \A w \in Workers : AtWorker(w)' \subseteq AtWorker(w),
         \A w \in Workers : \A c \in AtWorker(w)' :
           client'[c] = client[c] \/ Sound(client'[c])
  PROVE  LInv'
BY DEF LInv

(* Whoever accepts or connects writes into a slot no worker serves         *)
LEMMA TakingLInv ==
  ASSUME Typed, IInv, LInv, Listening \/ \E j \in Jobs : Calling(j)
  PROVE  LInv'
<1>1. UNCHANGED <<conn_set, sweep>>
  BY DEF Listening, Accept, AcceptRefuse, AcceptFill, AcceptFail, AcceptDispatch,
     Calling, Connect, ConnectRefused, ConnectFill, ConnectDispatch
<1>2. \A w \in Workers : AtWorker(w)' = AtWorker(w)
  BY <1>1 DEF AtWorker, Holding
<1>3. Alone
  BY AloneLemma DEF IInv
<1>4. \/ client' = client
      \/ \E c \in Slots :
           /\ \A d \in Slots \ {c} : client'[d] = client[d]
           /\ \/ c \in FreeSlots
              \/ listener.slot = c
              \/ \E j \in Jobs : caller[j].slot = c
  <2>1. FreeSlots # {} => NextFree \in FreeSlots /\ NextFree \in Slots
    BY NextFreeLemma DEF Typed, TypeOK, FreeSlots
  <2>2. CASE Listening
    <3>1. CASE Accept
      BY <2>1, <3>1 DEF Accept, Typed, TypeOK
    <3>2. CASE AcceptFill \/ AcceptFail
      <4>1. listener.slot \in Slots
        BY <3>2 DEF AcceptFill, AcceptFail, Typed, SlotsAtHand
      <4>2. \A d \in Slots \ {listener.slot} : client'[d] = client[d]
        BY <3>2, <4>1 DEF AcceptFill, AcceptFail, Typed, TypeOK
      <4> QED
        BY <4>1, <4>2
    <3>3. CASE AcceptRefuse \/ AcceptDispatch
      BY <3>3 DEF AcceptRefuse, AcceptDispatch
    <3> QED
      BY <2>2, <3>1, <3>2, <3>3 DEF Listening
  <2>3. ASSUME NEW j \in Jobs, Calling(j)
        PROVE  \/ client' = client
               \/ \E c \in Slots :
                    /\ \A d \in Slots \ {c} : client'[d] = client[d]
                    /\ c \in FreeSlots \/ caller[j].slot = c
    <3>1. CASE Connect(j)
      BY <2>1, <3>1 DEF Connect, Typed, TypeOK
    <3>2. CASE ConnectFill(j)
      <4>1. caller[j].slot \in Slots
        BY <3>2 DEF ConnectFill, Typed, SlotsAtHand
      <4>2. \A d \in Slots \ {caller[j].slot} : client'[d] = client[d]
        BY <3>2, <4>1 DEF ConnectFill, Typed, TypeOK
      <4> QED
        BY <4>1, <4>2
    <3>3. CASE ConnectRefused(j) \/ ConnectDispatch(j)
      BY <3>3 DEF ConnectRefused, ConnectDispatch, pool
    <3> QED
      BY <2>3, <3>1, <3>2, <3>3 DEF Calling
  <2> QED
    BY <2>2, <2>3
<1>5. ASSUME NEW c \in Slots,
             \/ c \in FreeSlots
             \/ listener.slot = c
             \/ \E j \in Jobs : caller[j].slot = c
      PROVE  \A w \in Workers : c \notin AtWorker(w)
  BY <1>3, <1>5 DEF Alone, FreeSlots
<1>6. \A w \in Workers : AtWorker(w) \subseteq Slots
  BY HeldLemma DEF HeldIs, Typed, TypeOK
<1> QED
  BY <1>2, <1>4, <1>5, <1>6, LeftSound

(* A worker that takes a connection from its pipe gives it both buffers    *)
LEMMA ProcessLInv ==
  ASSUME Typed, IInv, LInv, NEW w \in Workers, Process(w)
  PROVE  LInv'
<1>1. PICK c : c = Head(pipe[w])
  OBVIOUS
<1>2. /\ ctl[w].pc = "loop" /\ pipe[w] # <<>> /\ UNCHANGED sweep
      /\ conn_set' = [conn_set EXCEPT ![w] = @ \cup {c}]
  BY <1>1 DEF Process, InLoop
<1>3. c \in InPipe(w) /\ c \in Slots
  <2>1. pipe[w] \in Seq(Slots)
    BY DEF Typed, TypeOK
  <2>2. Len(pipe[w]) \in Nat /\ Len(pipe[w]) >= 1 /\ c = pipe[w][1]
    BY <1>1, <1>2, <2>1
  <2> QED
    BY <2>1, <2>2, HeldLemma DEF HeldIs
<1>4. client[c] \in ConnClient /\ Queued(client[c], w)
  BY <1>3 DEF Typed, TypeOK, IInv, Records, Fits
<1>5. PICK r : r = [client[c] EXCEPT !.worker_id = w]
  OBVIOUS
<1>6. /\ r \in ConnClient /\ Queued(r, w)
      /\ r.type \in {"coming", "active"}
  BY <1>4, <1>5 DEF ConnClient, Queued
<1>7. PICK t : /\ client' = [client EXCEPT ![c] = t]
               /\ t.read_buffer = w /\ t.write_buffer = w
               /\ t.state \in {"waiting", "dns_cache"}
  <2>1. CASE r.type = "coming"
    <3>1. PICK b : b = BufferInit(r, w)
      OBVIOUS
    <3>2. b \in ConnClient /\ b.read_buffer = w /\ b.write_buffer = w
      BY <1>6, <3>1, BufferInitLemma
    <3>3. PICK e : client' = [client EXCEPT ![c] =
                                [b EXCEPT !.state = "waiting", !.event = e]]
      BY <1>1, <1>5, <2>1, <3>1 DEF Process
    <3>4. PICK t : t = [b EXCEPT !.state = "waiting", !.event = e]
      OBVIOUS
    <3>5. t.read_buffer = w /\ t.write_buffer = w /\ t.state = "waiting"
      BY <3>2, <3>4 DEF ConnClient
    <3> QED
      BY <3>3, <3>4, <3>5
  <2>2. CASE r.type = "active"
    <3>1. PICK t : t = [r EXCEPT !.state = "dns_cache"]
      OBVIOUS
    <3>2. client' = [client EXCEPT ![c] = t]
      BY <1>1, <1>5, <2>2, <3>1 DEF Process
    <3>3. t.read_buffer = w /\ t.write_buffer = w /\ t.state = "dns_cache"
      BY <1>6, <2>2, <3>1 DEF ConnClient, Queued
    <3> QED
      BY <3>2, <3>3
  <2> QED
    BY <1>6, <2>1, <2>2
<1>8. client'[c] = t /\ \A d \in Slots \ {c} : client'[d] = client[d]
  BY <1>3, <1>7 DEF Typed, TypeOK
<1>9. Sound(t)
  BY <1>7, Apart DEF Sound, LacksNothingElse
<1>10. ASSUME NEW v \in Workers, NEW d \in AtWorker(v)'
       PROVE  d = c \/ (d \in AtWorker(v) /\ d \in Slots)
  BY <1>2, <1>10, HeldLemma DEF HeldIs, Typed, TypeOK
<1> QED
  BY <1>8, <1>9, <1>10 DEF LInv

(* The timer, and what changes no more than the age of a connection        *)
LEMMA LoopLInv ==
  ASSUME Typed, IInv, LInv, SafeEnv,
         \/ \E w \in Workers : Sweeping(w)
         \/ \E w \in Workers, c \in Slots : Event(w, c)
         \/ \E q \in queries : QueryLost(q)
         \/ \E c \in Slots : Age(c)
         \/ UNCHANGED vars
  PROVE  LInv'
<1>1. \A w \in Workers : AtWorker(w) \subseteq Slots
  BY HeldLemma DEF HeldIs, Typed, TypeOK
<1>2. ASSUME UNCHANGED <<client, conn_set, sweep>>
      PROVE  LInv'
  BY <1>2 DEF LInv, AtWorker, Holding
<1>3. ASSUME NEW w \in Workers, SweepBegin(w)
      PROVE  LInv'
  <2>1. UNCHANGED <<client, conn_set>> /\ \A v \in Workers :
          sweep'[v].freed = sweep[v].freed
    BY <1>3 DEF SweepBegin, Typed, TypeOK
  <2>2. \A v \in Workers : AtWorker(v)' = AtWorker(v)
    BY <2>1, HeldLemma DEF HeldIs
  <2> QED
    BY <2>1, <2>2, LeftSound
<1>4. ASSUME NEW w \in Workers, SweepEnd(w)
      PROVE  LInv'
  <2>1. /\ client' = client
        /\ conn_set'[w] = conn_set[w] \ sweep[w].freed
        /\ \A v \in Workers \ {w} : /\ conn_set'[v] = conn_set[v]
                                   /\ sweep'[v] = sweep[v]
    BY <1>4 DEF SweepEnd, Remaining, Typed, TypeOK
  <2>2. \A v \in Workers : AtWorker(v)' \subseteq AtWorker(v)
    BY <2>1, HeldLemma DEF HeldIs
  <2> QED
    BY <2>1, <2>2, LeftSound
<1>5. ASSUME NEW w \in Workers, SweepConn(w)
      PROVE  LInv'
  <2>1. PICK c : c = CHOOSE i \in sweep[w].todo : \A k \in sweep[w].todo : i <= k
    OBVIOUS
  <2>2. c \in AtWorker(w) /\ c \in Slots
    <3>1. sweep[w].todo \subseteq AtWorker(w) /\ sweep[w].todo \subseteq Slots
      BY DEF IInv, Places, Busy, Typed, TypeOK
    <3>2. c \in sweep[w].todo
      BY <1>5, <2>1, <3>1, SweepNextLemma DEF SweepConn
    <3> QED
      BY <3>1, <3>2
  <2>3. \A v \in Workers \ {w} : c \notin AtWorker(v)
    BY <2>2, AloneLemma DEF IInv, Alone
  <2>4. \/ /\ UNCHANGED <<client, conn_set>>
           /\ \A v \in Workers : sweep'[v].freed = sweep[v].freed
        \/ /\ \A d \in Slots \ {c} : client'[d] = client[d]
           /\ conn_set' = conn_set
           /\ sweep'[w].freed = sweep[w].freed \cup {c}
           /\ \A v \in Workers \ {w} : sweep'[v] = sweep[v]
    <3>1. CASE /\ UNCHANGED client
               /\ sweep' = [sweep EXCEPT ![w].todo = @ \ {c}]
      <4>1. \A v \in Workers : sweep'[v].freed = sweep[v].freed
        BY <3>1 DEF Typed, TypeOK
      <4>2. conn_set' = conn_set
        BY <1>5 DEF SweepConn
      <4> QED
        BY <3>1, <4>1, <4>2
    <3>2. CASE \E t :
                 /\ client' = [client EXCEPT ![c] = t]
                 /\ sweep' = [sweep EXCEPT ![w].todo = @ \ {c},
                                           ![w].freed = @ \cup {c}]
      <4>1. \A d \in Slots \ {c} : client'[d] = client[d]
        BY <3>2 DEF Typed, TypeOK
      <4>2. sweep'[w].freed = sweep[w].freed \cup {c}
        BY <3>2 DEF Typed, TypeOK
      <4>3. \A v \in Workers \ {w} : sweep'[v] = sweep[v]
        BY <3>2 DEF Typed, TypeOK
      <4>4. conn_set' = conn_set
        BY <1>5 DEF SweepConn
      <4> QED
        BY <4>1, <4>2, <4>3, <4>4
    <3> QED
      BY <1>5, <2>1, <3>1, <3>2 DEF SweepConn
  <2>5. /\ \A v \in Workers : AtWorker(v)' \subseteq AtWorker(v)
        /\ client' = client \/ c \notin AtWorker(w)'
    BY <2>4, HeldLemma DEF HeldIs
  <2> QED
    BY <1>1, <2>3, <2>4, <2>5, LeftSound
<1>6. ASSUME NEW c \in Slots, Age(c)
      PROVE  LInv'
  <2>1. PICK t : t = [client[c] EXCEPT !.conn_time = "old"]
    OBVIOUS
  <2>2. /\ client'[c] = t /\ client[c] \in ConnClient
        /\ \A d \in Slots \ {c} : client'[d] = client[d]
        /\ UNCHANGED <<conn_set, sweep>>
    BY <1>6, <2>1 DEF Age, Typed, TypeOK
  <2>3. Sound(client[c]) => Sound(t)
    BY <2>1, <2>2 DEF Sound, LacksNothingElse, ConnClient
  <2>4. \A v \in Workers : AtWorker(v)' = AtWorker(v)
    BY <2>2 DEF AtWorker, Holding
  <2> QED
    BY <1>1, <2>2, <2>3, <2>4, LeftSound DEF LInv
<1>7. ASSUME NEW w \in Workers, NEW c \in Slots, Event(w, c)
      PROVE  LInv'
  BY <1>2, <1>7 DEF Event
<1>8. ASSUME NEW q \in queries, QueryLost(q)
      PROVE  LInv'
  BY <1>2, <1>8 DEF QueryLost
<1>9. ASSUME UNCHANGED vars
      PROVE  LInv'
  BY <1>2, <1>9 DEF vars
<1> QED
  BY <1>3, <1>4, <1>5, <1>6, <1>7, <1>8, <1>9 DEF Sweeping

(* A step that writes one slot, of which Sound is known                    *)
LEMMA OneSlotLInv ==
  ASSUME Typed, LInv, NEW c \in Slots,
         \A d \in Slots \ {c} : client'[d] = client[d],
         \A w \in Workers : AtWorker(w)' \subseteq AtWorker(w),
         \A w \in Workers : c \in AtWorker(w)' => Sound(client'[c])
  PROVE  LInv'
<1>1. \A w \in Workers : AtWorker(w) \subseteq Slots
  BY HeldLemma DEF HeldIs, Typed, TypeOK
<1> QED
  BY <1>1, LeftSound

LEMMA MachineLInv ==
  ASSUME Typed, IInv, LInv, NEW w \in Workers, Machine(w)
  PROVE  LInv'
<1>1. PICK c : c = ctl[w].slot
  OBVIOUS
<1>2. CASE WatchChannel(w)
  <2>1. PICK t, e : /\ t = [client[c] EXCEPT !.ev_dns = e]
                    /\ client' = [client EXCEPT ![c] = t]
    BY <1>1, <1>2 DEF WatchChannel
  <2>2. /\ c \in Slots /\ client[c] \in ConnClient
        /\ UNCHANGED <<conn_set, sweep>>
    BY <1>1, <1>2 DEF WatchChannel, quiet, Typed, TypeOK, SlotsAtHand
  <2>3. client'[c] = t /\ \A d \in Slots \ {c} : client'[d] = client[d]
    BY <2>1, <2>2 DEF Typed, TypeOK
  <2>4. Sound(client[c]) => Sound(t)
    BY <2>1, <2>2 DEF Sound, LacksNothingElse, ConnClient
  <2>5. \A v \in Workers : AtWorker(v)' = AtWorker(v)
    BY <2>2 DEF AtWorker, Holding
  <2> QED
    BY <2>2, <2>3, <2>4, <2>5, OneSlotLInv DEF LInv
<1>3. CASE ~WatchChannel(w)
  <2>1. ctl[w].pc = "machine"
    BY <1>3 DEF Machine, Waiting, ReadNothing, ReadMore, ReadAll, ReadFail,
       ParseHeader, ParseComing, ParseActive, Write, WriteFail, Renew, Closing,
       Connecting, Resolve, ResolveAtOnce, At
  <2>2. /\ c \in AtWorker(w) /\ c \in Slots /\ Conn(w) = client[c]
        /\ client[c] \in ConnClient /\ Served(client[c], w)
    BY <1>1, <2>1, AtMachine DEF Conn
  <2>3. Sound(client[c])
    BY <2>2 DEF LInv
  <2>4. CASE Closing(w)
    <3>1. /\ conn_set' = [conn_set EXCEPT ![w] = @ \ {c}]
          /\ \A d \in Slots \ {c} : client'[d] = client[d]
          /\ sweep' = sweep
      BY <1>1, <2>2, <2>4 DEF Closing, quiet, Served, Typed, TypeOK
    <3>2. /\ \A v \in Workers : AtWorker(v)' \subseteq AtWorker(v)
          /\ c \notin AtWorker(w)'
      BY <3>1, HeldLemma DEF HeldIs, Typed, TypeOK
    <3>3. \A v \in Workers \ {w} : c \notin AtWorker(v)
      BY <2>2, AloneLemma DEF IInv, Alone
    <3> QED
      BY <2>2, <3>1, <3>2, <3>3, OneSlotLInv
  <2>5. CASE ResolveAtOnce(w)
    <3>1. /\ client[c].state = "dns_cache" /\ UNCHANGED <<conn_set, sweep>>
          /\ DnsCallback(c, TRUE) \/ DnsCallback(c, FALSE)
      BY <1>1, <2>2, <2>5 DEF ResolveAtOnce, At, quiet
    <3>2. /\ Sound(client'[c])
          /\ \A d \in Slots \ {c} : client'[d] = client[d]
      BY <2>2, <2>3, <3>1, CallbackSound
    <3>3. \A v \in Workers : AtWorker(v)' = AtWorker(v)
      BY <3>1 DEF AtWorker, Holding
    <3> QED
      BY <2>2, <3>2, <3>3, OneSlotLInv
  <2>6. CASE \/ Waiting(w) \/ ReadNothing(w) \/ ReadMore(w) \/ ReadAll(w)
             \/ ReadFail(w) \/ ParseHeader(w) \/ ParseComing(w)
             \/ ParseActive(w) \/ Write(w) \/ WriteFail(w) \/ Renew(w)
             \/ Connecting(w) \/ Resolve(w)
    <3>1. PICK t, s : Sound([t EXCEPT !.state = s]) /\ Goto(w, t, s)
      BY <2>2, <2>3, <2>6, MachineSound DEF SoundGoto
    <3>2. /\ client'[c] = [t EXCEPT !.state = s]
          /\ \A d \in Slots \ {c} : client'[d] = client[d]
      BY <1>1, <2>2, <3>1 DEF Goto, SetState, Typed, TypeOK
    <3>3. UNCHANGED <<conn_set, sweep>>
      BY <2>6 DEF quiet, Waiting, ReadNothing, ReadMore, ReadAll, ReadFail,
         ParseHeader, ParseComing, ParseActive, Write, WriteFail, Renew,
         Connecting, Resolve
    <3>4. \A v \in Workers : AtWorker(v)' = AtWorker(v)
      BY <3>3 DEF AtWorker, Holding
    <3> QED
      BY <2>2, <3>1, <3>2, <3>4, OneSlotLInv
  <2> QED
    BY <1>3, <2>4, <2>5, <2>6 DEF Machine
<1> QED
  BY <1>2, <1>3

LEMMA DnsEventLInv ==
  ASSUME Typed, IInv, LInv, NEW w \in Workers, NEW c \in Slots, DnsEvent(w, c)
  PROVE  LInv'
<1>1. \A v \in Workers : AtWorker(v)' = AtWorker(v)
  BY DEF DnsEvent, AtWorker, Holding
<1>2. CASE client' = [client EXCEPT ![c].ev_dns = Null]
  <2>1. PICK t : t = [client[c] EXCEPT !.ev_dns = Null]
    OBVIOUS
  <2>2. /\ client'[c] = t /\ client[c] \in ConnClient
        /\ \A d \in Slots \ {c} : client'[d] = client[d]
    BY <1>2, <2>1 DEF Typed, TypeOK
  <2>3. Sound(client[c]) => Sound(t)
    BY <2>1, <2>2 DEF Sound, LacksNothingElse, ConnClient
  <2> QED
    BY <1>1, <2>2, <2>3, OneSlotLInv DEF LInv
<1>3. ASSUME NEW q \in queries, NEW ok \in BOOLEAN, DnsCallback(q.slot, ok)
      PROVE  LInv'
  <2>1. PICK d : d = q.slot
    OBVIOUS
  <2>2. /\ d \in Slots /\ client[d].state = "resolving"
        /\ q.worker \in Workers /\ d \in AtWorker(q.worker)
    BY <1>3, <2>1 DEF IInv, Queries, Typed, TypeOK
  <2>3. /\ Sound(client'[d])
        /\ \A e \in Slots \ {d} : client'[e] = client[e]
    BY <1>3, <2>1, <2>2, CallbackSound DEF LInv
  <2> QED
    BY <1>1, <2>2, <2>3, OneSlotLInv
<1> QED
  BY <1>2, <1>3 DEF DnsEvent

LEMMA NextLInv == SafeEnv /\ Typed /\ IInv /\ LInv /\ [Next]_vars => LInv'
<1>1. ASSUME SafeEnv, Typed, IInv, LInv, Next
      PROVE  LInv'
  BY <1>1, TakingLInv, ProcessLInv, MachineLInv, LoopLInv, DnsEventLInv DEF Next
<1>2. ASSUME SafeEnv, Typed, IInv, LInv, UNCHANGED vars
      PROVE  LInv'
  BY <1>2, LoopLInv
<1> QED
  BY <1>1, <1>2

(* Blocks stay with the worker whose arena they came from, whoever gives a *)
(* slot its buffers finds none in it, and only a connection that was       *)
(* renewed for want of blocks is served without, and then neither reads    *)
(* nor replies.                                                            *)
THEOREM PoolBuffersFollowSlot ==
  ASSUME SafeEnv
  PROVE  Spec => []BuffersFollowSlot
<1>1. ASSUME Typed, IInv, LInv
      PROVE  BuffersFollowSlot
  <2>1. ASSUME NEW c \in Slots
        PROVE  /\ client[c].read_buffer \in Workers
                    => client[c].read_buffer = client[c].worker_id
               /\ client[c].write_buffer \in Workers
                    => client[c].write_buffer = client[c].worker_id
    <3>1. \/ Clean(client[c])
          \/ Queued(client[c], Null) /\ client[c].type = "coming"
          \/ \E w \in Workers : Queued(client[c], w) \/ Served(client[c], w)
      <4>1. Fits(c) /\ Alone
        BY <1>1, AloneLemma DEF IInv, Records
      <4>2. listener.slot = c => listener.pc \in {"filling", "dispatch"}
        BY <1>1, Apart DEF IInv, Places, Typed, TypeOK
      <4>3. \A j \in Jobs : caller[j].slot = c =>
              /\ caller[j].pc \in {"filling", "dispatch"}
              /\ caller[j].worker \in Workers
        BY <1>1, Apart DEF IInv, Places, Typed, TypeOK
      <4> QED
        BY <4>1, <4>2, <4>3 DEF Fits, Alone
    <3>2. client[c].type \in {"coming", "active"}
      BY <1>1 DEF Typed, TypeOK, ConnClient
    <3> QED
      BY <3>1, <3>2, Apart DEF Clean, Queued, Served
  <2>2. ASSUME NEW w \in Workers, NEW c \in Slots
        PROVE  /\ c \in InPipe(w) =>
                    IF client[c].type = "active"
                    THEN client[c].write_buffer = w /\ client[c].read_buffer = w
                    ELSE /\ client[c].write_buffer = Null
                         /\ client[c].read_buffer = Null
               /\ c \in AtWorker(w) =>
                    /\ client[c].write_buffer \in {w, Null}
                    /\ client[c].read_buffer \in {w, Heap, Null}
                    /\ LacksNothingElse(client[c])
    <3>1. client[c].type \in {"coming", "active"}
      BY <1>1 DEF Typed, TypeOK, ConnClient
    <3> QED
      BY <1>1, <3>1, Apart DEF IInv, Records, Fits, Queued, Served, LInv, Sound
  <2> QED
    BY <2>1, <2>2 DEF BuffersFollowSlot, InPipe, AtWorker
<1>2. Init => LInv
  BY DEF Init, LInv, AtWorker, Holding
<1>3. Typed /\ IInv /\ LInv /\ [Next]_vars => LInv'
  BY NextLInv
<1>4. Typed /\ IInv /\ LInv => BuffersFollowSlot
  BY <1>1
<1> QED
  BY <1>2, <1>3, <1>4, PoolInvariant, PTL DEF Spec
=============================================================================
