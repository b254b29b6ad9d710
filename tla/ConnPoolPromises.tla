-------------------------- MODULE ConnPoolPromises --------------------------
(***************************************************************************)
(* What the invariant of the pool gives to those who use it: a slot is     *)
(* leased as SlotLease says, and a job has one outcome.                    *)
(***************************************************************************)
EXTENDS ConnPoolProofs

(* A slot is where its holder is                                           *)
Leased ==
  \A c \in Slots :
    /\ client[c].conn_time = "zero" => LeaseOf(c) = "free"
    /\ \A w \in Workers :
         /\ c \in InPipe(w) => LeaseOf(c) = "queued" /\ WorkerOf(c) = w
         /\ c \in AtWorker(w) => LeaseOf(c) = "served" /\ WorkerOf(c) = w
    /\ listener.slot = c \/ (\E j \in Jobs : caller[j].slot = c) =>
         LeaseOf(c) = "taken"
    /\ LeaseOf(c) \in {"free", "taken"} => WorkerOf(c) = Null

LEMMA HolderLeased == OneHolder => Leased
<1> SUFFICES ASSUME OneHolder, NEW c \in Slots
             PROVE  /\ client[c].conn_time = "zero" => LeaseOf(c) = "free"
                    /\ \A w \in Workers :
                         /\ c \in InPipe(w) =>
                              LeaseOf(c) = "queued" /\ WorkerOf(c) = w
                         /\ c \in AtWorker(w) =>
                              LeaseOf(c) = "served" /\ WorkerOf(c) = w
                    /\ listener.slot = c \/ (\E j \in Jobs : caller[j].slot = c)
                         => LeaseOf(c) = "taken"
                    /\ LeaseOf(c) \in {"free", "taken"} => WorkerOf(c) = Null
  BY DEF Leased
<1>1. Alone
  BY AloneLemma
<1>2. LeaseOf(c) = IF client[c].conn_time = "zero" THEN "free"
                   ELSE IF \E w \in Workers : c \in InPipe(w) THEN "queued"
                   ELSE IF \E w \in Workers : c \in AtWorker(w) THEN "served"
                   ELSE "taken"
  <2>1. /\ client[c].conn_time = "zero" =>
             \A w \in Workers : c \notin InPipe(w) /\ c \notin AtWorker(w)
        /\ \A v, w \in Workers : ~(c \in InPipe(w) /\ c \in AtWorker(v))
    BY <1>1 DEF Alone
  <2>2. LeaseOf(c) = CASE client[c].conn_time = "zero" -> "free"
                       [] \E w \in Workers : c \in InPipe(w) -> "queued"
                       [] \E w \in Workers : c \in AtWorker(w) -> "served"
                       [] OTHER -> "taken"
    BY DEF LeaseOf, InPipe, AtWorker
  <2> QED
    BY <2>1, <2>2
<1>3. ASSUME NEW w \in Workers, c \in InPipe(w) \/ c \in AtWorker(w),
             LeaseOf(c) \in {"queued", "served"}
      PROVE  WorkerOf(c) = w
  <2>1. \A v \in Workers : c \in InPipe(v) \cup AtWorker(v) <=> v = w
    BY <1>1, <1>3 DEF Alone
  <2>2. WorkerOf(c) = CHOOSE v \in Workers : c \in InPipe(v) \cup AtWorker(v)
    BY <1>3 DEF WorkerOf, InPipe, AtWorker
  <2> QED
    BY <2>1, <2>2
<1> QED
  BY <1>1, <1>2, <1>3 DEF Alone, WorkerOf

LEMMA LeasedLemma == OneHolder /\ OneHolder' => Leased /\ Leased'
BY HolderLeased, PTL

-----------------------------------------------------------------------------
(* Steps of the lease.                                                     *)

(* Slot d is with whom it was with                                         *)
Stays(d) ==
  /\ listener'.slot = d <=> listener.slot = d
  /\ \A j \in Jobs : caller'[j].slot = d <=> caller[j].slot = d
  /\ \A w \in Workers : /\ d \in InPipe(w)' <=> d \in InPipe(w)
                        /\ d \in AtWorker(w)' <=> d \in AtWorker(w)

LEMMA StaysLeased ==
  ASSUME OneHolder, OneHolder', NEW d \in Slots, Stays(d)
  PROVE  LeaseOf(d)' = LeaseOf(d) /\ WorkerOf(d)' = WorkerOf(d)
<1>1. Alone /\ Alone' /\ Leased /\ Leased'
  BY AloneLemma, LeasedLemma
<1>2. client'[d].conn_time = "zero" <=> client[d].conn_time = "zero"
  BY <1>1 DEF Alone, Stays
<1>3. CASE client[d].conn_time = "zero"
  BY <1>1, <1>2, <1>3 DEF Leased
<1>4. CASE listener.slot = d \/ \E j \in Jobs : caller[j].slot = d
  BY <1>1, <1>4 DEF Leased, Stays
<1>5. ASSUME NEW w \in Workers, d \in InPipe(w) \/ d \in AtWorker(w)
      PROVE  LeaseOf(d)' = LeaseOf(d) /\ WorkerOf(d)' = WorkerOf(d)
  BY <1>1, <1>5 DEF Leased, Stays
<1> QED
  BY <1>1, <1>3, <1>4, <1>5 DEF Alone

LEMMA LeaseStays ==
  ASSUME OneHolder, OneHolder', \A d \in Slots : Stays(d)
  PROVE  UNCHANGED Lease!leaseVars
BY StaysLeased DEF Lease!leaseVars

LEMMA LeaseMoves ==
  ASSUME OneHolder, OneHolder', NEW c \in Slots,
         \A d \in Slots \ {c} : Stays(d),
         NEW to, NEW w, LeaseOf(c)' = to, WorkerOf(c)' = w
  PROVE  Lease!Move(c, LeaseOf(c), to, w)
BY StaysLeased DEF Lease!Move

(* Nobody has c any more                                                   *)
LEMMA LeaseEnds ==
  ASSUME OneHolder', NEW c \in Slots,
         listener'.slot # c, \A j \in Jobs : caller'[j].slot # c,
         \A w \in Workers : c \notin InPipe(w)' /\ c \notin AtWorker(w)'
  PROVE  LeaseOf(c)' = "free" /\ WorkerOf(c)' = Null
<1>1. Alone' /\ Leased'
  BY HolderAlone, HolderLeased, PTL
<1> QED
  BY <1>1 DEF Alone, Leased

(* A slot that is in no pipe is put into one                               *)
LEMMA EnqueuedLemma ==
  ASSUME Typed, OneHolder, NEW w \in Workers, NEW c \in Slots,
         \A v \in Workers : c \notin InPipe(v),
         pipe' = [pipe EXCEPT ![w] = Append(@, c)]
  PROVE  /\ c \in InPipe(w)'
         /\ \A d \in Slots \ {c}, v \in Workers :
              d \in InPipe(v)' <=> d \in InPipe(v)
<1>1. /\ pipe'[w] = Append(pipe[w], c) /\ pipe[w] \in Seq(Slots)
      /\ \A v \in Workers \ {w} : pipe'[v] = pipe[v]
  BY DEF Typed, TypeOK
<1>2. Once(pipe[w]) /\ InPipe(w) = In(pipe[w])
  BY PipeOnce
<1>3. InPipe(w)' = In(pipe'[w])
  BY HeldLemma DEF HeldIs, In
<1>4. InPipe(w)' = InPipe(w) \cup {c}
  BY <1>1, <1>2, <1>3, AppendLemma
<1> QED
  BY <1>1, <1>4, HeldSame DEF InPipe

LeaseStep == [Lease!LeaseNext]_(Lease!leaseVars)

LEMMA ListeningLease ==
  ASSUME Typed, IInv, IInv', Listening
  PROVE  LeaseStep
<1>1. /\ Alone /\ Alone' /\ Leased /\ Leased' /\ OneHolder /\ OneHolder'
      /\ NoSlot \notin Slots
  BY AloneLemma, LeasedLemma, Apart DEF IInv
<1>2. CASE Accept
  <2>1. PICK c : c = NextFree
    OBVIOUS
  <2>2. /\ c \in FreeSlots /\ c \in Slots
        /\ listener'.slot = c /\ listener.slot = NoSlot
        /\ UNCHANGED <<caller, pipe, conn_set, sweep>>
    BY <1>2, <2>1, NextFreeLemma DEF Accept, Typed, TypeOK, FreeSlots, IInv,
       Places
  <2>3. \A d \in Slots \ {c} : Stays(d)
    BY <1>1, <2>2, HeldSame DEF Stays, InPipe, AtWorker
  <2>4. LeaseOf(c) = "free" /\ LeaseOf(c)' = "taken" /\ WorkerOf(c)' = Null
    BY <1>1, <2>2 DEF Leased, FreeSlots
  <2>5. Lease!Take(c)
    BY <1>1, <2>2, <2>3, <2>4, LeaseMoves DEF Lease!Take
  <2> QED
    BY <2>2, <2>5 DEF LeaseStep, Lease!LeaseNext
<1>3. CASE AcceptRefuse \/ AcceptFill
  <2>1. /\ listener'.slot = listener.slot
        /\ UNCHANGED <<caller, pipe, conn_set, sweep>>
    BY <1>3 DEF AcceptRefuse, AcceptFill, Typed, TypeOK
  <2>2. \A d \in Slots : Stays(d)
    BY <2>1, HeldSame DEF Stays, InPipe, AtWorker
  <2> QED
    BY <1>1, <2>2, LeaseStays DEF LeaseStep
<1>4. CASE AcceptFail
  <2>1. PICK c : c = listener.slot
    OBVIOUS
  <2>2. /\ c \in Slots /\ listener'.slot = NoSlot
        /\ UNCHANGED <<caller, pipe, conn_set, sweep>>
    BY <1>4, <2>1 DEF AcceptFail, ListenerIdle, Typed, TypeOK, SlotsAtHand
  <2>3. \A d \in Slots \ {c} : Stays(d)
    BY <1>1, <2>1, <2>2, HeldSame DEF Stays, InPipe, AtWorker
  <2>4. /\ \A j \in Jobs : caller'[j].slot # c
        /\ \A w \in Workers : c \notin InPipe(w)' /\ c \notin AtWorker(w)'
    BY <1>1, <2>1, <2>2, HeldSame DEF Alone, InPipe, AtWorker
  <2>5. LeaseOf(c) = "taken" /\ LeaseOf(c)' = "free" /\ WorkerOf(c)' = Null
    BY <1>1, <2>1, <2>2, <2>4, LeaseEnds DEF Leased
  <2>6. Lease!GiveBack(c)
    BY <1>1, <2>2, <2>3, <2>5, LeaseMoves DEF Lease!GiveBack
  <2> QED
    BY <2>2, <2>6 DEF LeaseStep, Lease!LeaseNext
<1>5. CASE AcceptDispatch
  <2>1. PICK c : c = listener.slot
    OBVIOUS
  <2>2. PICK w : w = listener.worker
    OBVIOUS
  <2>3. /\ c \in Slots /\ w \in Workers /\ listener'.slot = NoSlot
        /\ pipe' = [pipe EXCEPT ![w] = Append(@, c)]
        /\ UNCHANGED <<caller, conn_set, sweep>>
    BY <1>5, <2>1, <2>2 DEF AcceptDispatch, ListenerIdle, Typed, TypeOK,
       SlotsAtHand
  <2>4. /\ \A d \in Slots \ {c}, v \in Workers : d \in InPipe(v)' <=> d \in InPipe(v)
        /\ c \in InPipe(w)'
    BY <1>1, <2>1, <2>3, EnqueuedLemma DEF Alone
  <2>5. \A d \in Slots \ {c} : Stays(d)
    BY <1>1, <2>1, <2>3, <2>4, HeldSame DEF Stays, AtWorker
  <2>6. LeaseOf(c) = "taken" /\ LeaseOf(c)' = "queued" /\ WorkerOf(c)' = w
    BY <1>1, <2>1, <2>3, <2>4 DEF Leased
  <2>7. Lease!Enqueue(c, w)
    BY <1>1, <2>3, <2>5, <2>6, LeaseMoves DEF Lease!Enqueue
  <2> QED
    BY <2>3, <2>7 DEF LeaseStep, Lease!LeaseNext
<1> QED
  BY <1>2, <1>3, <1>4, <1>5 DEF Listening

LEMMA CallingLease ==
  ASSUME Typed, IInv, IInv', NEW j \in Jobs, Calling(j)
  PROVE  LeaseStep
<1>1. /\ Alone /\ Alone' /\ Leased /\ Leased' /\ OneHolder /\ OneHolder'
      /\ NoSlot \notin Slots
  BY AloneLemma, LeasedLemma, Apart DEF IInv
<1>2. CASE Connect(j)
  <2>1. PICK c : c = NextFree
    OBVIOUS
  <2>2. /\ c \in FreeSlots /\ c \in Slots
        /\ caller'[j].slot = c /\ caller[j].slot = NoSlot
        /\ \A k \in Jobs \ {j} : caller'[k] = caller[k]
        /\ UNCHANGED <<listener, pipe, conn_set, sweep>>
    BY <1>2, <2>1, NextFreeLemma DEF Connect, Typed, TypeOK, FreeSlots, IInv,
       Places
  <2>3. \A d \in Slots \ {c} : Stays(d)
    BY <1>1, <2>2, HeldSame DEF Stays, InPipe, AtWorker
  <2>4. LeaseOf(c) = "free" /\ LeaseOf(c)' = "taken" /\ WorkerOf(c)' = Null
    BY <1>1, <2>2 DEF Leased, FreeSlots
  <2>5. Lease!Take(c)
    BY <1>1, <2>2, <2>3, <2>4, LeaseMoves DEF Lease!Take
  <2> QED
    BY <2>2, <2>5 DEF LeaseStep, Lease!LeaseNext
<1>3. CASE ConnectRefused(j) \/ ConnectFill(j)
  <2>1. /\ \A k \in Jobs : caller'[k].slot = caller[k].slot
        /\ UNCHANGED <<listener, pipe, conn_set, sweep>>
    <3>1. caller \in [Jobs -> [pc : {"idle", "filling", "dispatch", "accepted",
                                    "refused"},
                              slot : Slots \cup {NoSlot}, worker : Workers]]
      BY DEF Typed, TypeOK
    <3>2. \/ caller' = [caller EXCEPT ![j].pc = "refused"]
          \/ caller' = [caller EXCEPT ![j].pc = "dispatch",
                                      ![j].worker = NextWorker]
      BY <1>3 DEF ConnectRefused, ConnectFill
    <3>3. UNCHANGED <<listener, pipe, conn_set, sweep>>
      BY <1>3 DEF ConnectRefused, ConnectFill
    <3> QED
      BY <3>1, <3>2, <3>3
  <2>2. \A d \in Slots : Stays(d)
    BY <2>1, HeldSame DEF Stays, InPipe, AtWorker
  <2> QED
    BY <1>1, <2>2, LeaseStays DEF LeaseStep
<1>4. CASE ConnectDispatch(j)
  <2>1. PICK c : c = caller[j].slot
    OBVIOUS
  <2>2. PICK w : w = caller[j].worker
    OBVIOUS
  <2>3. /\ c \in Slots /\ w \in Workers /\ caller'[j].slot = NoSlot
        /\ \A k \in Jobs \ {j} : caller'[k] = caller[k]
        /\ pipe' = [pipe EXCEPT ![w] = Append(@, c)]
        /\ UNCHANGED <<listener, conn_set, sweep>>
    BY <1>4, <2>1, <2>2 DEF ConnectDispatch, Typed, TypeOK, SlotsAtHand
  <2>4. /\ \A d \in Slots \ {c}, v \in Workers : d \in InPipe(v)' <=> d \in InPipe(v)
        /\ c \in InPipe(w)'
    <3>1. \A v \in Workers : c \notin InPipe(v)
      BY <1>1, <2>1, <2>3 DEF Alone
    <3> QED
      BY <1>1, <2>3, <3>1, EnqueuedLemma
  <2>5. \A d \in Slots \ {c} : Stays(d)
    BY <1>1, <2>1, <2>3, <2>4, HeldSame DEF Stays, AtWorker
  <2>6. LeaseOf(c) = "taken" /\ LeaseOf(c)' = "queued" /\ WorkerOf(c)' = w
    BY <1>1, <2>1, <2>3, <2>4 DEF Leased
  <2>7. Lease!Enqueue(c, w)
    BY <1>1, <2>3, <2>5, <2>6, LeaseMoves DEF Lease!Enqueue
  <2> QED
    BY <2>3, <2>7 DEF LeaseStep, Lease!LeaseNext
<1> QED
  BY <1>2, <1>3, <1>4 DEF Calling

(* Steps that move no slot                                                 *)
LEMMA StillLease ==
  ASSUME IInv, IInv', UNCHANGED <<listener, caller, pipe, conn_set>>,
         \A w \in Workers : sweep'[w].freed = sweep[w].freed
  PROVE  LeaseStep
<1>1. OneHolder /\ OneHolder'
  BY DEF IInv
<1>2. \A w \in Workers : /\ AtWorker(w) = conn_set[w] \ sweep[w].freed
                         /\ AtWorker(w)' = conn_set'[w] \ sweep'[w].freed
  BY HeldLemma DEF HeldIs
<1>3. \A d \in Slots : Stays(d)
  BY <1>2, HeldSame DEF Stays, InPipe
<1> QED
  BY <1>1, <1>3, LeaseStays DEF LeaseStep

(* A worker gives slot c up                                                *)
LEMMA ReleasedLease ==
  ASSUME IInv, IInv', NEW w \in Workers, NEW c \in AtWorker(w), c \in Slots,
         AtWorker(w)' = AtWorker(w) \ {c},
         \A v \in Workers \ {w} : AtWorker(v)' = AtWorker(v),
         UNCHANGED <<listener, caller, pipe>>
  PROVE  LeaseStep
<1>1. /\ Alone /\ Alone' /\ Leased /\ Leased' /\ OneHolder /\ OneHolder'
  BY AloneLemma, LeasedLemma DEF IInv
<1>2. \A d \in Slots \ {c} : Stays(d)
  BY HeldSame DEF Stays, InPipe
<1>3. /\ listener'.slot # c /\ \A j \in Jobs : caller'[j].slot # c
      /\ \A v \in Workers : c \notin InPipe(v)' /\ c \notin AtWorker(v)'
  <2>1. /\ listener.slot # c /\ \A j \in Jobs : caller[j].slot # c
        /\ \A v \in Workers : c \notin InPipe(v)
        /\ \A v \in Workers \ {w} : c \notin AtWorker(v)
    BY <1>1 DEF Alone
  <2>2. \A v \in Workers : InPipe(v)' = InPipe(v)
    BY HeldSame DEF InPipe
  <2> QED
    BY <2>1, <2>2
<1>4. LeaseOf(c) = "served" /\ LeaseOf(c)' = "free" /\ WorkerOf(c)' = Null
  BY <1>1, <1>3, LeaseEnds DEF Leased
<1>5. Lease!Release(c)
  BY <1>1, <1>2, <1>4, LeaseMoves DEF Lease!Release
<1> QED
  BY <1>5 DEF LeaseStep, Lease!LeaseNext

LEMMA ProcessLease ==
  ASSUME Typed, IInv, IInv', NEW w \in Workers, Process(w)
  PROVE  LeaseStep
<1>1. /\ Alone /\ Alone' /\ Leased /\ Leased' /\ OneHolder /\ OneHolder'
  BY AloneLemma, LeasedLemma DEF IInv
<1>2. PICK c : c = Head(pipe[w])
  OBVIOUS
<1>3. /\ pipe[w] \in Seq(Slots) /\ pipe[w] # <<>>
      /\ sweep[w] = NoSweep
      /\ pipe'[w] = Tail(pipe[w]) /\ conn_set'[w] = conn_set[w] \cup {c}
      /\ \A v \in Workers \ {w} : pipe'[v] = pipe[v] /\ conn_set'[v] = conn_set[v]
      /\ UNCHANGED <<listener, caller, sweep>>
  BY <1>2 DEF Process, InLoop, threads, Typed, TypeOK, IInv, Places, Busy
<1>4. /\ In(Tail(pipe[w])) = In(pipe[w]) \ {c}
      /\ c \in InPipe(w) /\ c \in Slots /\ InPipe(w) = In(pipe[w])
  BY <1>1, <1>2, <1>3, PipeOnce, TailLemma
<1>5. InPipe(w)' = InPipe(w) \ {c}
  <2>1. InPipe(w)' = In(pipe'[w])
    BY HeldLemma DEF HeldIs, In
  <2> QED
    BY <1>3, <1>4, <2>1
<1>6. AtWorker(w)' = AtWorker(w) \cup {c}
  <2>1. /\ AtWorker(w) = conn_set[w] \ sweep[w].freed
        /\ AtWorker(w)' = conn_set'[w] \ sweep'[w].freed
    BY HeldLemma DEF HeldIs
  <2> QED
    BY <1>3, <2>1 DEF NoSweep
<1>7. \A d \in Slots \ {c} : Stays(d)
  BY <1>3, <1>5, <1>6, HeldSame DEF Stays, InPipe, AtWorker
<1>8. /\ LeaseOf(c) = "queued" /\ WorkerOf(c) = w
      /\ LeaseOf(c)' = "served" /\ WorkerOf(c)' = w
  BY <1>1, <1>4, <1>6 DEF Leased
<1>9. Lease!Serve(c)
  BY <1>1, <1>4, <1>7, <1>8, LeaseMoves DEF Lease!Serve
<1> QED
  BY <1>4, <1>9 DEF LeaseStep, Lease!LeaseNext

LEMMA MachineLease ==
  ASSUME Typed, IInv, IInv', NEW w \in Workers, Machine(w)
  PROVE  LeaseStep
<1>1. UNCHANGED <<listener, caller, pipe, sweep>>
  BY MovedSteps DEF threads
<1>2. CASE Closing(w)
  <2>1. PICK c : c = ctl[w].slot
    OBVIOUS
  <2>2. /\ c \in AtWorker(w) /\ c \in Slots /\ client[c].worker_id = w
        /\ sweep[w] = NoSweep
    BY <1>2, <2>1, AtMachine DEF Closing, At, Conn, Served
  <2>3. /\ conn_set'[w] = conn_set[w] \ {c}
        /\ \A v \in Workers \ {w} : conn_set'[v] = conn_set[v]
    BY <1>2, <2>1, <2>2 DEF Closing, Typed, TypeOK
  <2>4. /\ AtWorker(w) = conn_set[w] \ sweep[w].freed
        /\ AtWorker(w)' = conn_set'[w] \ sweep'[w].freed
    BY HeldLemma DEF HeldIs
  <2>5. AtWorker(w)' = AtWorker(w) \ {c}
    BY <1>1, <2>3, <2>4
  <2>6. \A v \in Workers \ {w} : AtWorker(v)' = AtWorker(v)
    BY <1>1, <2>3, HeldSame DEF AtWorker
  <2> QED
    BY <1>1, <2>2, <2>5, <2>6, ReleasedLease
<1>3. CASE ~Closing(w)
  <2>1. UNCHANGED conn_set
    BY <1>3 DEF Machine, Waiting, ReadNothing, ReadMore, ReadAll, ReadFail,
       ParseHeader, ParseComing, ParseActive, Write, WriteFail, Renew,
       Connecting, Resolve, ResolveAtOnce, WatchChannel
  <2> QED
    BY <1>1, <2>1, StillLease
<1> QED
  BY <1>2, <1>3

LEMMA SweepingLease ==
  ASSUME Typed, IInv, IInv', NEW w \in Workers, Sweeping(w)
  PROVE  LeaseStep
<1>1. /\ AtWorker(w) = conn_set[w] \ sweep[w].freed
      /\ AtWorker(w)' = conn_set'[w] \ sweep'[w].freed
  BY HeldLemma DEF HeldIs
<1>2. /\ UNCHANGED <<listener, caller, pipe>>
      /\ \A v \in Workers \ {w} : sweep'[v] = sweep[v] /\ conn_set'[v] = conn_set[v]
  BY DEF Sweeping, SweepBegin, SweepConn, SweepEnd, threads, Typed, TypeOK
<1>3. \A v \in Workers \ {w} : AtWorker(v)' = AtWorker(v)
  BY <1>2, HeldSame DEF AtWorker
<1>4. CASE AtWorker(w)' = AtWorker(w)
  <2>1. \A d \in Slots : Stays(d)
    BY <1>2, <1>3, <1>4, HeldSame DEF Stays, InPipe
  <2> QED
    BY <2>1, LeaseStays DEF LeaseStep, IInv
<1>5. CASE SweepBegin(w)
  BY <1>1, <1>4, <1>5 DEF SweepBegin, Typed, TypeOK
<1>6. CASE SweepEnd(w)
  BY <1>1, <1>4, <1>6 DEF SweepEnd, Remaining, NoSweep, Typed, TypeOK
<1>7. CASE SweepConn(w)
  <2>1. PICK c : c = CHOOSE i \in sweep[w].todo : \A k \in sweep[w].todo : i <= k
    OBVIOUS
  <2>2. c \in sweep[w].todo /\ c \in Slots /\ c \in AtWorker(w)
    <3>1. /\ sweep[w].todo # {} /\ sweep[w].todo \subseteq Slots
          /\ sweep[w].todo \subseteq AtWorker(w)
      BY <1>7 DEF SweepConn, Typed, TypeOK, IInv, Places, Busy
    <3> QED
      BY <2>1, <3>1, SweepNextLemma
  <2>3. /\ conn_set' = conn_set
        /\ sweep'[w].freed = sweep[w].freed
           \/ sweep'[w].freed = sweep[w].freed \cup {c}
    BY <1>7, <2>1 DEF SweepConn, Typed, TypeOK
  <2>4. AtWorker(w)' = AtWorker(w) \/ AtWorker(w)' = AtWorker(w) \ {c}
    BY <1>1, <2>3
  <2> QED
    BY <1>2, <1>3, <1>4, <2>2, <2>4, ReleasedLease
<1> QED
  BY <1>5, <1>6, <1>7 DEF Sweeping

LEMMA NextLease ==
  ASSUME Typed, IInv, IInv', [Next]_vars
  PROVE  LeaseStep
<1>1. CASE UNCHANGED vars
  BY <1>1, StillLease DEF vars
<1>2. CASE Listening
  BY <1>2, ListeningLease
<1>3. ASSUME NEW j \in Jobs, Calling(j)
      PROVE  LeaseStep
  BY <1>3, CallingLease
<1>4. ASSUME NEW w \in Workers, Process(w) \/ Machine(w) \/ Sweeping(w)
      PROVE  LeaseStep
  BY <1>4, ProcessLease, MachineLease, SweepingLease
<1>5. ASSUME NEW w \in Workers, NEW c \in Slots, Event(w, c) \/ DnsEvent(w, c)
      PROVE  LeaseStep
  BY <1>5, StillLease DEF Event, DnsEvent, threads
<1>6. ASSUME NEW q \in queries, QueryLost(q)
      PROVE  LeaseStep
  BY <1>6, StillLease DEF QueryLost, threads
<1>7. ASSUME NEW c \in Slots, Age(c)
      PROVE  LeaseStep
  BY <1>7, StillLease DEF Age, threads
<1> QED
  BY <1>1, <1>2, <1>3, <1>4, <1>5, <1>6, <1>7 DEF Next

LEMMA InitLease ==
  ASSUME Init
  PROVE  Lease!LeaseInit
<1>1. Leased /\ OneHolder
  BY InitIInv, HolderLeased DEF IInv
<1>2. \A c \in Slots : client[c].conn_time = "zero"
  BY DEF Init, EmptyClient
<1>3. \A c \in Slots : LeaseOf(c) = "free" /\ WorkerOf(c) = Null
  BY <1>1, <1>2 DEF Leased
<1> QED
  BY <1>3 DEF Lease!LeaseInit

(* Each connection is dispatched to one worker, served by that worker and  *)
(* by no other, and its slot is leased again only after that.              *)
THEOREM PoolImplementsLease ==
  ASSUME SafeEnv
  PROVE  Spec => ImplementsLease
<1>1. Init => Lease!LeaseInit
  BY InitLease
<1>2. Typed /\ IInv /\ IInv' /\ [Next]_vars
        => [Lease!LeaseNext]_(Lease!leaseVars)
  BY NextLease DEF LeaseStep
<1>3. Spec => [](Typed /\ IInv)
  BY PoolInvariant
<1> QED
  BY <1>1, <1>2, <1>3, PTL DEF Spec, ImplementsLease, Lease!LeaseSpec

-----------------------------------------------------------------------------
(* Outcomes of jobs.  A connection lives for its job from the moment the   *)
(* caller has filled the slot until the machine closes it or the sweep     *)
(* frees it; only then the job is answered or reported.                    *)

Live(c) ==
  /\ client[c].type = "active"
  /\ \/ \E j \in Jobs : caller[j].pc = "dispatch" /\ caller[j].slot = c
     \/ \E w \in Workers : c \in InPipe(w)
     \/ client[c].state # "closing" /\ \E w \in Workers : c \in AtWorker(w)

LiveFor(c, j) == Live(c) /\ client[c].task_id = j

Started(j) == caller[j].pc \in {"dispatch", "accepted"}

Outcomes ==
  /\ \A j \in Jobs :
       /\ caller[j].pc = "dispatch" => client[caller[j].slot].task_id = j
       /\ reports[j] + answered[j] <= 1
       /\ ~Started(j) => reports[j] = 0 /\ answered[j] = 0
  /\ \A c \in Slots, j \in Jobs :
       LiveFor(c, j) => Started(j) /\ reports[j] = 0 /\ answered[j] = 0
  /\ \A c, d \in Slots, j \in Jobs : LiveFor(c, j) /\ LiveFor(d, j) => c = d

(* Job j ends with its connection                                          *)
Ended(j) ==
  \E c \in Slots :
    /\ LiveFor(c, j) /\ ~LiveFor(c, j)'
    /\ \/ reports'[j] = reports[j] + 1 /\ answered'[j] = answered[j]
       \/ reports'[j] = reports[j] /\ answered'[j] = answered[j] + 1

SameOutcome(j) == reports'[j] = reports[j] /\ answered'[j] = answered[j]

LEMMA OutcomesStep ==
  ASSUME Typed, Outcomes,
         \A j \in Jobs : Started(j)' <=> Started(j),
         \A j \in Jobs : caller'[j].pc = "dispatch" =>
                           client'[caller'[j].slot].task_id = j,
         \A c \in Slots, j \in Jobs : LiveFor(c, j)' => LiveFor(c, j),
         \A j \in Jobs : SameOutcome(j) \/ Ended(j)
  PROVE  Outcomes'
<1>1. \A j \in Jobs : reports[j] \in Int /\ answered[j] \in Int
  BY DEF Typed, TypeOK
<1>2. ASSUME NEW j \in Jobs
      PROVE  /\ reports'[j] + answered'[j] <= 1
             /\ ~Started(j)' => reports'[j] = 0 /\ answered'[j] = 0
             /\ \A c \in Slots : LiveFor(c, j)' =>
                  Started(j)' /\ reports'[j] = 0 /\ answered'[j] = 0
  <2>1. CASE SameOutcome(j)
    BY <1>1, <2>1 DEF Outcomes, SameOutcome
  <2>2. CASE Ended(j)
    <3>1. PICK c \in Slots :
            /\ LiveFor(c, j) /\ ~LiveFor(c, j)'
            /\ \/ reports'[j] = reports[j] + 1 /\ answered'[j] = answered[j]
               \/ reports'[j] = reports[j] /\ answered'[j] = answered[j] + 1
      BY <2>2 DEF Ended
    <3>2. Started(j) /\ reports[j] = 0 /\ answered[j] = 0
      BY <3>1 DEF Outcomes
    <3>3. \A d \in Slots : ~LiveFor(d, j)'
      BY <3>1 DEF Outcomes
    <3> QED
      BY <3>1, <3>2, <3>3
  <2> QED
    BY <2>1, <2>2
<1>3. \A c, d \in Slots, j \in Jobs : LiveFor(c, j)' /\ LiveFor(d, j)' => c = d
  BY DEF Outcomes
<1> HIDE DEF LiveFor, Started
<1> QED
  BY <1>2, <1>3 DEF Outcomes

(* What changes no state and hands no slot on                              *)
LEMMA StillOutcomes ==
  ASSUME Typed, Outcomes, UNCHANGED <<reports, answered, pipe>>,
         \A j \in Jobs : \/ /\ caller'[j].slot = caller[j].slot
                            /\ caller'[j].pc = caller[j].pc
                         \/ {caller[j].pc, caller'[j].pc}
                              \subseteq {"idle", "filling", "refused"},
         \A w \in Workers : AtWorker(w)' = AtWorker(w),
         \A c \in Slots : /\ client'[c].type = client[c].type
                          /\ client'[c].task_id = client[c].task_id
                          /\ client'[c].state = client[c].state
  PROVE  Outcomes'
<1>1. \A w \in Workers : InPipe(w)' = InPipe(w)
  BY HeldSame DEF InPipe
<1>2. \A j \in Jobs : (caller'[j].pc = "dispatch" <=> caller[j].pc = "dispatch")
                      /\ (Started(j)' <=> Started(j))
  BY DEF Started
<1>3. \A c \in Slots, j \in Jobs : LiveFor(c, j)' => LiveFor(c, j)
  BY <1>1, <1>2 DEF LiveFor, Live
<1>4. \A j \in Jobs : caller'[j].pc = "dispatch" =>
                        client'[caller'[j].slot].task_id = j
  BY <1>2 DEF Outcomes, Typed, SlotsAtHand
<1>5. \A j \in Jobs : SameOutcome(j)
  BY DEF SameOutcome
<1> QED
  BY <1>2, <1>3, <1>4, <1>5, OutcomesStep

(* What a worker does with a connection of its own                         *)
LEMMA SlotOutcomes ==
  ASSUME Typed, IInv, Outcomes, NEW w \in Workers, NEW c \in AtWorker(w),
         c \in Slots,
         \A d \in Slots \ {c} : client'[d] = client[d],
         UNCHANGED <<caller, pipe>>,
         \A v \in Workers : AtWorker(v)' \subseteq AtWorker(v),
         c \in AtWorker(w)' =>
           /\ client'[c].type = client[c].type
           /\ client'[c].task_id \in {client[c].task_id, NoTask}
           /\ client'[c].state = "closing" \/ client[c].state # "closing",
         \A j \in Jobs : SameOutcome(j) \/ Ended(j)
  PROVE  Outcomes'
<1>1. /\ \A j \in Jobs : caller[j].slot # c
      /\ \A v \in Workers : c \notin InPipe(v)
      /\ \A v \in Workers \ {w} : c \notin AtWorker(v)
  BY AloneLemma DEF IInv, Alone
<1>2. \A v \in Workers : InPipe(v)' = InPipe(v)
  BY HeldSame DEF InPipe
<1>3. \A d \in Slots \ {c}, j \in Jobs : LiveFor(d, j)' => LiveFor(d, j)
  BY <1>2 DEF LiveFor, Live
<1>4. NoTask \notin Jobs
  BY PoolAssumption DEF NoTask
<1>5. \A j \in Jobs : LiveFor(c, j)' => LiveFor(c, j)
  <2>1. ASSUME NEW j \in Jobs, LiveFor(c, j)'
        PROVE  LiveFor(c, j)
    <3>1. c \in AtWorker(w)' /\ client'[c].state # "closing"
      BY <1>1, <1>2, <2>1 DEF LiveFor, Live
    <3> QED
      BY <1>4, <2>1, <3>1 DEF LiveFor, Live
  <2> QED
    BY <2>1
<1>6. \A j \in Jobs : caller'[j].pc = "dispatch" =>
                        client'[caller'[j].slot].task_id = j
  BY <1>1 DEF Outcomes, Typed, SlotsAtHand
<1>7. \A j \in Jobs : Started(j)' <=> Started(j)
  BY DEF Started
<1> QED
  BY <1>3, <1>5, <1>6, <1>7, OutcomesStep

(* The report of a connection that is no longer served afterwards, or is   *)
(* closing                                                                 *)
LEMMA ReportedOutcome ==
  ASSUME Typed, IInv, NEW w \in Workers, NEW c \in AtWorker(w), c \in Slots,
         client[c].state # "closing",
         UNCHANGED <<caller, pipe, answered>>,
         c \in AtWorker(w)' => client'[c].state = "closing",
         \A v \in Workers \ {w} : AtWorker(v)' \subseteq AtWorker(v),
         reports' = reports \/ Reported(client[c])
  PROVE  \A j \in Jobs : SameOutcome(j) \/ Ended(j)
<1>1. CASE reports' = reports
  BY <1>1 DEF SameOutcome
<1>2. CASE Reported(client[c])
  <2>1. PICK j \in Jobs : j = client[c].task_id
    BY <1>2 DEF Reported
  <2>2. /\ reports'[j] = reports[j] + 1
        /\ \A k \in Jobs \ {j} : reports'[k] = reports[k]
    BY <1>2, <2>1 DEF Reported, Typed, TypeOK
  <2>3. LiveFor(c, j)
    BY <1>2, <2>1 DEF LiveFor, Live, Reported
  <2>4. /\ \A k \in Jobs : caller[k].slot # c
        /\ \A v \in Workers : c \notin InPipe(v)
        /\ \A v \in Workers \ {w} : c \notin AtWorker(v)
    BY AloneLemma DEF IInv, Alone
  <2>5. \A v \in Workers : InPipe(v)' = InPipe(v)
    BY HeldSame DEF InPipe
  <2>6. ~LiveFor(c, j)'
    BY <2>4, <2>5 DEF LiveFor, Live
  <2> QED
    BY <2>1, <2>2, <2>3, <2>6 DEF SameOutcome, Ended
<1> QED
  BY <1>1, <1>2

LEMMA ServingOutcomes ==
  ASSUME Typed, IInv, Outcomes, NEW w \in Workers, Machine(w),
         \/ Waiting(w) \/ ReadNothing(w) \/ ReadMore(w) \/ ReadAll(w)
         \/ ReadFail(w) \/ ParseHeader(w) \/ ParseComing(w) \/ ParseActive(w)
         \/ Write(w) \/ WriteFail(w) \/ Renew(w) \/ Resolve(w)
         \/ ResolveAtOnce(w)
  PROVE  Outcomes'
<1>1. PICK c : c = ctl[w].slot
  OBVIOUS
<1>2. /\ ctl[w].pc = "machine" /\ Conn(w).state # "closing"
      /\ UNCHANGED conn_set
  BY DEF At, Waiting, ReadNothing, ReadMore, ReadAll, ReadFail, ParseHeader,
     ParseComing, ParseActive, Write, WriteFail, Renew, Resolve, ResolveAtOnce
<1>3. /\ c \in AtWorker(w) /\ c \in Slots /\ Conn(w) = client[c]
      /\ client[c] \in ConnClient
  BY <1>1, <1>2, AtMachine DEF Conn
<1>4. /\ UNCHANGED <<caller, pipe, sweep>>
      /\ \A v \in Workers : AtWorker(v)' = AtWorker(v)
  BY <1>2, MovedSteps, HeldSame DEF threads, AtWorker
<1>5. PICK t : /\ Continues(client[c], t)
               /\ client' = [client EXCEPT ![c] = t]
               /\ reports' = reports
                  \/ (t.state = "closing" /\ Reported(client[c]))
  BY <1>1, <1>3, ServingSteps DEF Serving
<1>6. client'[c] = t /\ \A d \in Slots \ {c} : client'[d] = client[d]
  BY <1>3, <1>5 DEF Typed, TypeOK
<1>7. \A j \in Jobs : SameOutcome(j) \/ Ended(j)
  <2>1. CASE UNCHANGED answered
    <3>1. CASE reports' = reports
      BY <2>1, <3>1 DEF SameOutcome
    <3>2. CASE t.state = "closing" /\ Reported(client[c])
      BY <1>2, <1>3, <1>4, <1>6, <2>1, <3>2, ReportedOutcome
    <3> QED
      BY <1>5, <3>1, <3>2
  <2>2. CASE ParseActive(w)
    <3>1. PICK r : r = [client[c] EXCEPT !.err_no = "INVILID"]
      OBVIOUS
    <3>2. r.err_no = "INVILID" /\ r \in ConnClient
      BY <1>3, <3>1 DEF ConnClient
    <3>3. SetState(c, r, "closing")
      BY <1>1, <1>3, <2>2, <3>1 DEF ParseActive, Goto
    <3>4. reports' = reports /\ client'[c].state = "closing"
      <4>1. client'[c] = [r EXCEPT !.state = "closing"]
        BY <1>3, <3>3 DEF SetState, Typed, TypeOK
      <4> QED
        BY <3>2, <3>3, <4>1 DEF SetState, MustReport, NoReport, ConnClient
    <3>5. PICK k : k = client[c].task_id
      OBVIOUS
    <3>6. CASE UNCHANGED answered
      BY <3>4, <3>6 DEF SameOutcome
    <3>7. CASE k \in Jobs /\ answered' = [answered EXCEPT ![k] = @ + 1]
      <4>1. /\ answered'[k] = answered[k] + 1
            /\ \A j \in Jobs \ {k} : answered'[j] = answered[j]
        BY <3>7 DEF Typed, TypeOK
      <4>2. LiveFor(c, k)
        BY <1>2, <1>3, <2>2, <3>5 DEF LiveFor, Live, ParseActive
      <4>3. ~LiveFor(c, k)'
        <5>1. /\ \A j \in Jobs : caller[j].slot # c
              /\ \A v \in Workers : c \notin InPipe(v)
          BY <1>3, AloneLemma DEF IInv, Alone
        <5>2. \A v \in Workers : InPipe(v)' = InPipe(v)
          BY <1>4, HeldSame DEF InPipe
        <5> QED
          BY <1>4, <3>4, <5>1, <5>2 DEF LiveFor, Live
      <4> QED
        BY <1>3, <3>4, <4>1, <4>2, <4>3 DEF SameOutcome, Ended
    <3> QED
      BY <1>3, <2>2, <3>5, <3>6, <3>7 DEF ParseActive
  <2> QED
    BY <2>1, <2>2 DEF Waiting, ReadNothing, ReadMore, ReadAll, ReadFail,
       ParseHeader, ParseComing, Write, WriteFail, Renew, Resolve, ResolveAtOnce
<1>8. /\ client'[c].type = client[c].type
      /\ client'[c].task_id \in {client[c].task_id, NoTask}
  BY <1>5, <1>6 DEF Continues
<1> QED
  BY <1>2, <1>3, <1>4, <1>6, <1>7, <1>8, SlotOutcomes

LEMMA MachineOutcomes ==
  ASSUME Typed, IInv, IInv', Outcomes, NEW w \in Workers, Machine(w)
  PROVE  Outcomes'
<1>1. PICK c : c = ctl[w].slot
  OBVIOUS
<1>2. UNCHANGED <<caller, pipe, sweep>>
  BY MovedSteps DEF threads
<1>3. CASE Connecting(w)
  <2>1. /\ ctl[w].pc = "machine" /\ Conn(w).state = "connecting"
        /\ UNCHANGED <<conn_set, answered>>
    BY <1>3 DEF Connecting, At
  <2>2. /\ c \in AtWorker(w) /\ c \in Slots /\ Conn(w) = client[c]
        /\ client[c] \in ConnClient
    BY <1>1, <2>1, AtMachine DEF Conn
  <2>3. \A v \in Workers : AtWorker(v)' = AtWorker(v)
    BY <1>2, <2>1, HeldSame DEF AtWorker
  <2>4. \E r, s : /\ SetState(c, r, s) /\ s \in {"write", "closing"}
                  /\ r \in ConnClient
                  /\ r.type = client[c].type /\ r.task_id = client[c].task_id
    <3>1. ASSUME NEW e \in AddedEvents("W"), FdLeft
          PROVE  LET r == [client[c] EXCEPT !.client_fd = NewFd, !.event = e]
                 IN  /\ r \in ConnClient /\ r.type = client[c].type
                     /\ r.task_id = client[c].task_id
      <4>1. NewFd \in Fds /\ e \in {"none", "W"}
        BY <3>1, NewFdLemma DEF AddedEvents
      <4> QED
        BY <2>2, <4>1 DEF ConnClient
    <3>2. LET r == [client[c] EXCEPT !.client_fd = FD_BEFORE_CONNECT,
                                     !.err_no = "ERROR"]
          IN  /\ r \in ConnClient /\ r.type = client[c].type
              /\ r.task_id = client[c].task_id
      BY <2>2 DEF ConnClient
    <3> QED
      BY <1>1, <1>3, <2>2, <3>1, <3>2 DEF Connecting, Goto
  <2>5. PICK r, s : /\ SetState(c, r, s) /\ s \in {"write", "closing"}
                    /\ r \in ConnClient
                    /\ r.type = client[c].type /\ r.task_id = client[c].task_id
    BY <2>4
  <2>6. /\ client' = [client EXCEPT ![c] = [r EXCEPT !.state = s]]
        /\ reports' = reports \/ (s = "closing" /\ Reported(r))
    BY <2>2, <2>5, SetStateLemma DEF Typed, States
  <2>7. /\ \A d \in Slots \ {c} : client'[d] = client[d]
        /\ client'[c].state = s /\ client'[c].type = client[c].type
        /\ client'[c].task_id = client[c].task_id
    <3>1. client'[c] = [r EXCEPT !.state = s]
      BY <2>2, <2>6 DEF Typed, TypeOK
    <3> QED
      BY <2>2, <2>5, <2>6, <3>1 DEF Typed, TypeOK, ConnClient
  <2>8. \A j \in Jobs : SameOutcome(j) \/ Ended(j)
    <3>1. CASE reports' = reports
      BY <2>1, <3>1 DEF SameOutcome
    <3>2. CASE s = "closing" /\ Reported(r)
      <4>1. Reported(client[c])
        BY <2>5, <3>2, Zenon DEF Reported
      <4> QED
        BY <1>2, <2>1, <2>2, <2>3, <2>7, <3>2, <4>1, ReportedOutcome
    <3> QED
      BY <2>6, <3>1, <3>2
  <2> QED
    BY <1>2, <2>1, <2>2, <2>3, <2>7, <2>8, SlotOutcomes
<1>4. CASE Closing(w)
  <2>1. /\ c \in AtWorker(w) /\ c \in Slots /\ client[c].worker_id = w
        /\ sweep[w] = NoSweep
        /\ UNCHANGED <<reports, answered>>
    BY <1>1, <1>4, AtMachine DEF Closing, At, Conn, Served, jobs
  <2>2. /\ \A d \in Slots \ {c} : client'[d] = client[d]
        /\ conn_set'[w] = conn_set[w] \ {c}
        /\ \A v \in Workers \ {w} : conn_set'[v] = conn_set[v]
    BY <1>1, <1>4, <2>1 DEF Closing, Typed, TypeOK
  <2>3. AtWorker(w)' = AtWorker(w) \ {c}
    <3>1. /\ AtWorker(w) = conn_set[w] \ sweep[w].freed
          /\ AtWorker(w)' = conn_set'[w] \ sweep'[w].freed
      BY HeldLemma DEF HeldIs
    <3> QED
      BY <1>2, <2>2, <3>1
  <2>4. \A v \in Workers \ {w} : AtWorker(v)' = AtWorker(v)
    BY <1>2, <2>2, HeldSame DEF AtWorker
  <2>5. \A j \in Jobs : SameOutcome(j)
    BY <2>1 DEF SameOutcome
  <2> QED
    BY <1>2, <2>1, <2>2, <2>3, <2>4, <2>5, SlotOutcomes
<1>5. CASE WatchChannel(w)
  <2>1. /\ c \in Slots /\ UNCHANGED <<conn_set, reports, answered>>
    BY <1>1, <1>5 DEF WatchChannel, jobs, Typed, SlotsAtHand
  <2>2. \A d \in Slots :
          /\ client'[d].type = client[d].type
          /\ client'[d].task_id = client[d].task_id
          /\ client'[d].state = client[d].state
    <3>1. PICK e : client' = [client EXCEPT ![c].ev_dns = e]
      BY <1>1, <1>5 DEF WatchChannel
    <3> QED
      BY <2>1, <3>1 DEF Typed, TypeOK, ConnClient
  <2> QED
    BY <1>2, <2>1, <2>2, HeldSame, StillOutcomes DEF AtWorker
<1> QED
  BY <1>3, <1>4, <1>5, ServingOutcomes DEF Machine

LEMMA SweepConnOutcomes ==
  ASSUME Typed, IInv, Outcomes, NEW w \in Workers, SweepConn(w)
  PROVE  Outcomes'
<1>1. PICK c : c = CHOOSE i \in sweep[w].todo : \A k \in sweep[w].todo : i <= k
  OBVIOUS
<1>2. c \in sweep[w].todo /\ c \in Slots /\ c \in AtWorker(w)
  <2>1. /\ sweep[w].todo # {} /\ sweep[w].todo \subseteq Slots
        /\ sweep[w].todo \subseteq AtWorker(w)
    BY DEF SweepConn, Typed, TypeOK, IInv, Places, Busy
  <2> QED
    BY <1>1, <2>1, SweepNextLemma
<1>3. /\ UNCHANGED <<caller, pipe, conn_set, answered>>
      /\ \A v \in Workers \ {w} : sweep'[v] = sweep[v]
  BY DEF SweepConn, threads, Typed, TypeOK
<1>4. /\ AtWorker(w) = conn_set[w] \ sweep[w].freed
      /\ AtWorker(w)' = conn_set'[w] \ sweep'[w].freed
  BY HeldLemma DEF HeldIs
<1>5. \A v \in Workers \ {w} : AtWorker(v)' = AtWorker(v)
  BY <1>3, HeldSame DEF AtWorker
<1>6. CASE /\ sweep' = [sweep EXCEPT ![w].todo = @ \ {c}]
           /\ UNCHANGED <<client, reports>>
  <2>1. sweep'[w].freed = sweep[w].freed
    BY <1>6 DEF Typed, TypeOK
  <2>2. \A v \in Workers : AtWorker(v)' = AtWorker(v)
    BY <1>3, <1>4, <1>5, <2>1
  <2> QED
    BY <1>3, <1>6, <2>2, StillOutcomes
<1>7. CASE /\ Sweepable(client[c])
           /\ sweep' = [sweep EXCEPT ![w].todo = @ \ {c},
                                     ![w].freed = @ \cup {c}]
           /\ client' = [client EXCEPT ![c] = Freed(Expired(client[c]))]
           /\ IF client[c].type = "active" THEN Report(client[c]) ELSE NoReport
  <2>1. sweep'[w].freed = sweep[w].freed \cup {c}
    BY <1>7 DEF Typed, TypeOK
  <2>2. AtWorker(w)' = AtWorker(w) \ {c}
    BY <1>3, <1>4, <2>1
  <2>3. \A d \in Slots \ {c} : client'[d] = client[d]
    BY <1>2, <1>7 DEF Typed, TypeOK
  <2>4. client[c].state # "closing"
    BY <1>7 DEF Sweepable
  <2>5. reports' = reports \/ Reported(client[c])
    BY <1>7, Zenon DEF Report, NoReport, Reported
  <2>6. \A j \in Jobs : SameOutcome(j) \/ Ended(j)
    BY <1>2, <1>3, <1>5, <2>2, <2>4, <2>5, ReportedOutcome
  <2> QED
    BY <1>2, <1>3, <1>5, <2>2, <2>3, <2>6, SlotOutcomes
<1> QED
  BY <1>1, <1>6, <1>7 DEF SweepConn

LEMMA DnsEventOutcomes ==
  ASSUME Typed, IInv, Outcomes, NEW w \in Workers, NEW c \in Slots,
         DnsEvent(w, c)
  PROVE  Outcomes'
<1>1. /\ UNCHANGED <<caller, pipe, conn_set, sweep, answered>>
      /\ \A v \in Workers : AtWorker(v)' = AtWorker(v)
  BY HeldSame DEF DnsEvent, threads, AtWorker
<1>2. CASE /\ client' = [client EXCEPT ![c].ev_dns = Null]
           /\ UNCHANGED reports
  <2>1. \A d \in Slots : /\ client'[d].type = client[d].type
                         /\ client'[d].task_id = client[d].task_id
                         /\ client'[d].state = client[d].state
    BY <1>2 DEF Typed, TypeOK, ConnClient
  <2> QED
    BY <1>1, <1>2, <2>1, StillOutcomes
<1>3. ASSUME NEW q \in queries, NEW ok \in BOOLEAN,
             q.worker = w, DnsCallback(q.slot, ok)
      PROVE  Outcomes'
  <2>1. PICK d : d = q.slot
    OBVIOUS
  <2>2. /\ d \in Slots /\ d \in AtWorker(w) /\ client[d].state = "resolving"
        /\ client[d] \in ConnClient
    BY <1>3, <2>1 DEF IInv, Queries, Typed, TypeOK
  <2>3. \E r, s : /\ SetState(d, r, s) /\ s \in {"connecting", "closing"}
                  /\ r \in ConnClient
                  /\ r.type = client[d].type /\ r.task_id = client[d].task_id
    <3>1. PICK r : r = [client[d] EXCEPT !.ev_dns = Null]
      OBVIOUS
    <3>2. r \in ConnClient /\ r.type = client[d].type
          /\ r.task_id = client[d].task_id
      BY <2>2, <3>1 DEF ConnClient
    <3>3. /\ Unresolved(r) \in ConnClient /\ Unresolved(r).type = r.type
          /\ Unresolved(r).task_id = r.task_id
      BY <3>2 DEF Unresolved, ConnClient
    <3> QED
      BY <1>3, <2>1, <3>1, <3>2, <3>3 DEF DnsCallback
  <2>4. PICK r, s : /\ SetState(d, r, s) /\ s \in {"connecting", "closing"}
                    /\ r \in ConnClient
                    /\ r.type = client[d].type /\ r.task_id = client[d].task_id
    BY <2>3
  <2>5. /\ client' = [client EXCEPT ![d] = [r EXCEPT !.state = s]]
        /\ reports' = reports \/ (s = "closing" /\ Reported(r))
    BY <2>2, <2>4, SetStateLemma DEF Typed, States
  <2>6. /\ \A e \in Slots \ {d} : client'[e] = client[e]
        /\ client'[d].state = s /\ client'[d].type = client[d].type
        /\ client'[d].task_id = client[d].task_id
    <3>1. client'[d] = [r EXCEPT !.state = s]
      BY <2>2, <2>5 DEF Typed, TypeOK
    <3> QED
      BY <2>2, <2>4, <2>5, <3>1 DEF Typed, TypeOK, ConnClient
  <2>7. \A j \in Jobs : SameOutcome(j) \/ Ended(j)
    <3>1. CASE reports' = reports
      BY <1>1, <3>1 DEF SameOutcome
    <3>2. CASE s = "closing" /\ Reported(r)
      <4>1. Reported(client[d])
        BY <2>4, <3>2, Zenon DEF Reported
      <4> QED
        BY <1>1, <2>2, <2>6, <3>2, <4>1, ReportedOutcome
    <3> QED
      BY <2>5, <3>1, <3>2
  <2> QED
    BY <1>1, <2>2, <2>6, <2>7, SlotOutcomes
<1> QED
  BY <1>2, <1>3 DEF DnsEvent

LEMMA ProcessOutcomes ==
  ASSUME Typed, IInv, Outcomes, NEW w \in Workers, Process(w)
  PROVE  Outcomes'
<1>1. PICK c : c = Head(pipe[w])
  OBVIOUS
<1>2. /\ pipe[w] \in Seq(Slots) /\ pipe[w] # <<>>
      /\ pipe'[w] = Tail(pipe[w]) /\ conn_set'[w] = conn_set[w] \cup {c}
      /\ \A v \in Workers \ {w} : pipe'[v] = pipe[v] /\ conn_set'[v] = conn_set[v]
      /\ UNCHANGED <<caller, sweep, reports, answered>>
  BY <1>1 DEF Process, threads, jobs, Typed, TypeOK
<1>3. /\ In(Tail(pipe[w])) = In(pipe[w]) \ {c}
      /\ c \in InPipe(w) /\ c \in Slots /\ InPipe(w) = In(pipe[w])
  BY <1>1, <1>2, PipeOnce, TailLemma DEF IInv
<1>4. \A v \in Workers : InPipe(v)' \subseteq InPipe(v)
  <2>1. InPipe(w)' = In(pipe'[w])
    BY HeldLemma DEF HeldIs, In
  <2> QED
    BY <1>2, <1>3, <2>1, HeldSame DEF InPipe
<1>5. \A v \in Workers : AtWorker(v)' \subseteq AtWorker(v) \cup {c}
  <2>1. \A v \in Workers : /\ AtWorker(v) = conn_set[v] \ sweep[v].freed
                           /\ AtWorker(v)' = conn_set'[v] \ sweep'[v].freed
    BY HeldLemma DEF HeldIs
  <2>2. \A v \in Workers : conn_set'[v] \subseteq conn_set[v] \cup {c}
    BY <1>2
  <2>3. \A v \in Workers : sweep'[v].freed = sweep[v].freed
    BY <1>2
  <2> QED
    BY <2>1, <2>2, <2>3
<1>6. /\ \A d \in Slots \ {c} : client'[d] = client[d]
      /\ client'[c].type = client[c].type
      /\ client'[c].task_id = client[c].task_id
  <2>1. PICK r : r = [client[c] EXCEPT !.worker_id = w]
    OBVIOUS
  <2>2. /\ r \in ConnClient /\ r.type = client[c].type
        /\ r.task_id = client[c].task_id
    <3>1. client[c] \in ConnClient
      BY <1>3 DEF Typed, TypeOK
    <3> QED
      BY <1>3, <2>1, <3>1, RecordChange DEF ConnClient
  <2>3. PICK b : b = BufferInit(r, w)
    OBVIOUS
  <2>4. b \in ConnClient /\ b.type = r.type /\ b.task_id = r.task_id
    BY <2>2, <2>3, BufferInitLemma
  <2>5. \/ \E e : client' = [client EXCEPT ![c] =
                               [b EXCEPT !.state = "waiting", !.event = e]]
        \/ client' = [client EXCEPT ![c] = [r EXCEPT !.state = "dns_cache"]]
    BY <1>1, <2>1, <2>3 DEF Process
  <2>6. client \in [Slots -> ConnClient]
    BY DEF Typed, TypeOK
  <2>7. \E t : /\ client' = [client EXCEPT ![c] = t]
               /\ t.type = client[c].type /\ t.task_id = client[c].task_id
    <3>1. \A e : LET t == [b EXCEPT !.state = "waiting", !.event = e]
                 IN  t.type = b.type /\ t.task_id = b.task_id
      BY <2>4 DEF ConnClient
    <3>2. LET t == [r EXCEPT !.state = "dns_cache"]
          IN  t.type = r.type /\ t.task_id = r.task_id
      BY <2>2 DEF ConnClient
    <3>3. ASSUME NEW e, client' = [client EXCEPT ![c] =
                            [b EXCEPT !.state = "waiting", !.event = e]]
          PROVE  \E t : /\ client' = [client EXCEPT ![c] = t]
                        /\ t.type = client[c].type
                        /\ t.task_id = client[c].task_id
      <4>1. PICK t : t = [b EXCEPT !.state = "waiting", !.event = e]
        OBVIOUS
      <4> QED
        BY <2>2, <2>4, <3>1, <3>3, <4>1
    <3>4. PICK t : t = [r EXCEPT !.state = "dns_cache"]
      OBVIOUS
    <3> QED
      BY <2>2, <2>5, <3>2, <3>3, <3>4
  <2> QED
    BY <1>3, <2>6, <2>7
<1>7. \A d \in Slots, j \in Jobs : LiveFor(d, j)' => LiveFor(d, j)
  BY <1>2, <1>3, <1>4, <1>5, <1>6 DEF LiveFor, Live
<1>8. \A j \in Jobs : caller'[j].pc = "dispatch" =>
                        client'[caller'[j].slot].task_id = j
  BY <1>2, <1>6 DEF Outcomes, Typed, SlotsAtHand
<1>9. \A j \in Jobs : SameOutcome(j) /\ (Started(j)' <=> Started(j))
  BY <1>2 DEF SameOutcome, Started
<1> QED
  BY <1>7, <1>8, <1>9, OutcomesStep

(* Taking a slot changes nothing that a job's connection is known by       *)
LEMMA TakenOutcomes ==
  ASSUME Typed, Outcomes, NEW c \in FreeSlots,
         client' = [client EXCEPT ![c] = Taken(c)],
         UNCHANGED <<pipe, conn_set, sweep, reports, answered>>,
         \A j \in Jobs : \/ caller'[j] = caller[j]
                         \/ {caller[j].pc, caller'[j].pc}
                              \subseteq {"idle", "filling"}
  PROVE  Outcomes'
<1>1. c \in Slots /\ client[c] \in ConnClient
  BY DEF Typed, TypeOK, FreeSlots
<1>2. /\ Taken(c).type = client[c].type /\ Taken(c).task_id = client[c].task_id
      /\ Taken(c).state = client[c].state
  BY <1>1 DEF Taken, Cleared, ConnClient
<1>3. \A d \in Slots : /\ client'[d].type = client[d].type
                       /\ client'[d].task_id = client[d].task_id
                       /\ client'[d].state = client[d].state
  BY <1>1, <1>2 DEF Typed, TypeOK
<1> QED
  BY <1>3, HeldSame, StillOutcomes DEF AtWorker

LEMMA ListeningOutcomes ==
  ASSUME Typed, IInv, IInv', Outcomes, Listening
  PROVE  Outcomes'
<1>1. /\ UNCHANGED <<caller, conn_set, sweep, reports, answered>>
      /\ \A v \in Workers : AtWorker(v)' = AtWorker(v)
  BY HeldSame DEF Listening, Accept, AcceptRefuse, AcceptFill, AcceptFail,
     AcceptDispatch, jobs, AtWorker
<1>2. CASE Accept
  <2>1. NextFree \in FreeSlots
    BY <1>2, NextFreeLemma DEF Accept, Typed, TypeOK
  <2> QED
    BY <1>1, <1>2, <2>1, TakenOutcomes DEF Accept
<1>3. CASE AcceptRefuse
  BY <1>1, <1>3, StillOutcomes DEF AcceptRefuse
<1>4. ASSUME NEW c \in Slots, c = listener.slot, listener.pc # "idle",
             \A d \in Slots \ {c} : client'[d] = client[d],
             \A d \in Slots \ {c}, v \in Workers :
               d \in InPipe(v)' => d \in InPipe(v),
             client'[c].type = "coming" \/ \A v \in Workers : c \notin InPipe(v)'
      PROVE  Outcomes'
  <2>1. /\ \A j \in Jobs : caller[j].slot # c
        /\ \A v \in Workers : c \notin AtWorker(v)
    BY <1>4, AloneLemma DEF IInv, Alone
  <2>2. \A j \in Jobs : ~LiveFor(c, j)'
    BY <1>1, <1>4, <2>1 DEF LiveFor, Live
  <2>3. \A d \in Slots \ {c}, j \in Jobs : LiveFor(d, j)' => LiveFor(d, j)
    BY <1>1, <1>4 DEF LiveFor, Live
  <2>4. \A j \in Jobs : caller'[j].pc = "dispatch" =>
                          client'[caller'[j].slot].task_id = j
    BY <1>1, <1>4, <2>1 DEF Outcomes, Typed, SlotsAtHand
  <2>5. \A j \in Jobs : SameOutcome(j) /\ (Started(j)' <=> Started(j))
    BY <1>1 DEF SameOutcome, Started
  <2> QED
    BY <2>2, <2>3, <2>4, <2>5, OutcomesStep
<1>5. PICK c : c = listener.slot
  OBVIOUS
<1>6. CASE AcceptFill
  <2>1. /\ c \in Slots /\ listener.pc # "idle" /\ UNCHANGED pipe
        /\ client[c] \in ConnClient
    BY <1>5, <1>6 DEF AcceptFill, Typed, TypeOK, SlotsAtHand
  <2>2. PICK t : t = [client[c] EXCEPT !.client_fd = listener.fd,
                                       !.type = "coming"]
    OBVIOUS
  <2>3. t.type = "coming"
    BY <2>1, <2>2 DEF ConnClient
  <2>4. client' = [client EXCEPT ![c] = t]
    BY <1>5, <1>6, <2>1, <2>2 DEF AcceptFill, Typed, TypeOK
  <2>5. /\ client'[c].type = "coming"
        /\ \A d \in Slots \ {c} : client'[d] = client[d]
    BY <2>1, <2>3, <2>4 DEF Typed, TypeOK
  <2> QED
    BY <1>4, <1>5, <2>1, <2>5, HeldSame DEF InPipe
<1>7. CASE AcceptFail
  <2>1. /\ c \in Slots /\ listener.pc # "idle" /\ UNCHANGED pipe
        /\ \A d \in Slots \ {c} : client'[d] = client[d]
    BY <1>5, <1>7 DEF AcceptFail, Typed, TypeOK, SlotsAtHand
  <2>2. \A v \in Workers : c \notin InPipe(v)
    BY <1>5, <2>1, AloneLemma DEF IInv, Alone
  <2> QED
    BY <1>4, <1>5, <2>1, <2>2, HeldSame DEF InPipe
<1>8. CASE AcceptDispatch
  <2>1. PICK w : w = listener.worker
    OBVIOUS
  <2>2. /\ c \in Slots /\ listener.pc = "dispatch" /\ w \in Workers
        /\ pipe' = [pipe EXCEPT ![w] = Append(@, c)] /\ UNCHANGED client
    BY <1>5, <1>8, <2>1 DEF AcceptDispatch, pool, Typed, TypeOK, SlotsAtHand
  <2>3. /\ client[c].type = "coming"
        /\ \A v \in Workers : c \notin InPipe(v)
    BY <1>5, <2>2, AloneLemma DEF IInv, Records, Fits, Alone
  <2>4. \A d \in Slots \ {c}, v \in Workers : d \in InPipe(v)' <=> d \in InPipe(v)
    BY <2>2, <2>3, EnqueuedLemma DEF IInv
  <2> QED
    BY <1>4, <1>5, <2>2, <2>3, <2>4
<1> QED
  BY <1>2, <1>3, <1>6, <1>7, <1>8 DEF Listening

LEMMA CallingOutcomes ==
  ASSUME Typed, IInv, Outcomes, NEW j \in Jobs, Calling(j)
  PROVE  Outcomes'
<1>1. /\ UNCHANGED <<conn_set, sweep, reports, answered>>
      /\ \A v \in Workers : AtWorker(v)' = AtWorker(v)
      /\ \A k \in Jobs \ {j} : caller'[k] = caller[k]
  BY HeldSame DEF Calling, Connect, ConnectRefused, ConnectFill,
     ConnectDispatch, jobs, AtWorker, Typed, TypeOK
<1>2. CASE Connect(j)
  <2>1. NextFree \in FreeSlots
    BY <1>2, NextFreeLemma DEF Connect, Typed, TypeOK
  <2>2. {caller[j].pc, caller'[j].pc} \subseteq {"idle", "filling"}
    BY <1>2 DEF Connect, Typed, TypeOK
  <2> QED
    BY <1>1, <1>2, <2>1, <2>2, TakenOutcomes DEF Connect
<1>3. CASE ConnectRefused(j)
  <2>1. /\ {caller[j].pc, caller'[j].pc} \subseteq {"idle", "refused"}
        /\ UNCHANGED <<client, pipe>>
    BY <1>3 DEF ConnectRefused, Typed, TypeOK
  <2> QED
    BY <1>1, <2>1, StillOutcomes
<1>4. PICK c : c = caller[j].slot
  OBVIOUS
<1>5. \A k \in Jobs : SameOutcome(k)
  BY <1>1 DEF SameOutcome
<1>6. CASE ConnectFill(j)
  <2>1. /\ c \in Slots /\ caller[j].pc = "filling" /\ caller'[j].pc = "dispatch"
        /\ caller'[j].slot = c /\ UNCHANGED pipe /\ client[c] \in ConnClient
    BY <1>4, <1>6 DEF ConnectFill, Typed, TypeOK, SlotsAtHand
  <2>2. /\ client'[c].type = "active" /\ client'[c].task_id = j
        /\ \A d \in Slots \ {c} : client'[d] = client[d]
    <3>1. PICK b : b = BufferInit(client[c], NextWorker)
      OBVIOUS
    <3>2. b \in ConnClient
      BY <2>1, <3>1, NextWorkerLemma, BufferInitLemma DEF Typed, TypeOK
    <3>3. client' = [client EXCEPT ![c] =
                       [b EXCEPT !.client_fd = FD_BEFORE_CONNECT,
                                 !.worker_id = NextWorker,
                                 !.type = "active", !.task_id = j]]
      BY <1>4, <1>6, <3>1 DEF ConnectFill
    <3>4. PICK t : t = [b EXCEPT !.client_fd = FD_BEFORE_CONNECT,
                                 !.worker_id = NextWorker,
                                 !.type = "active", !.task_id = j]
      OBVIOUS
    <3>5. t.type = "active" /\ t.task_id = j
      BY <3>2, <3>4 DEF ConnClient
    <3>6. client \in [Slots -> ConnClient]
      BY DEF Typed, TypeOK
    <3> QED
      BY <2>1, <3>3, <3>4, <3>5, <3>6
  <2>3. reports[j] = 0 /\ answered[j] = 0 /\ \A d \in Slots : ~LiveFor(d, j)
    BY <2>1 DEF Outcomes, Started
  <2>4. /\ \A k \in Jobs \ {j} : caller[k].slot # c
        /\ \A v \in Workers : InPipe(v)' = InPipe(v)
    BY <1>4, <2>1, AloneLemma, HeldSame DEF IInv, Alone, InPipe
  <2>5. \A d \in Slots \ {c}, k \in Jobs : LiveFor(d, k)' => LiveFor(d, k)
    BY <1>1, <2>1, <2>2, <2>4 DEF LiveFor, Live
  <2>6. \A k \in Jobs : LiveFor(c, k)' => k = j
    BY <2>2 DEF LiveFor
  <2>7. /\ Started(j)' /\ \A k \in Jobs \ {j} : Started(k)' <=> Started(k)
    BY <1>1, <2>1 DEF Started
  <2>8. \A k \in Jobs : caller'[k].pc = "dispatch" =>
                          client'[caller'[k].slot].task_id = k
    BY <1>1, <2>1, <2>2, <2>4 DEF Outcomes, Typed, SlotsAtHand
  <2>9. \A k \in Jobs : reports'[k] = reports[k] /\ answered'[k] = answered[k]
    BY <1>5 DEF SameOutcome
  <2> HIDE DEF LiveFor, Started
  <2> QED
    BY <2>3, <2>5, <2>6, <2>7, <2>8, <2>9 DEF Outcomes
<1>7. CASE ConnectDispatch(j)
  <2>1. PICK w : w = caller[j].worker
    OBVIOUS
  <2>2. /\ c \in Slots /\ caller[j].pc = "dispatch" /\ w \in Workers
        /\ caller'[j].pc = "accepted"
        /\ pipe' = [pipe EXCEPT ![w] = Append(@, c)] /\ UNCHANGED client
    BY <1>4, <1>7, <2>1 DEF ConnectDispatch, pool, Typed, TypeOK, SlotsAtHand
  <2>3. \A v \in Workers : c \notin InPipe(v)
    BY <1>4, <2>2, AloneLemma DEF IInv, Alone
  <2>4. \A d \in Slots \ {c}, v \in Workers : d \in InPipe(v)' <=> d \in InPipe(v)
    BY <2>2, <2>3, EnqueuedLemma DEF IInv
  <2>5. \A d \in Slots, k \in Jobs : LiveFor(d, k)' => LiveFor(d, k)
    BY <1>1, <1>4, <2>2, <2>4 DEF LiveFor, Live
  <2>6. \A k \in Jobs : Started(k)' <=> Started(k)
    BY <1>1, <2>2 DEF Started
  <2>7. \A k \in Jobs : caller'[k].pc = "dispatch" =>
                          client'[caller'[k].slot].task_id = k
    BY <1>1, <2>2 DEF Outcomes
  <2> QED
    BY <1>5, <2>5, <2>6, <2>7, OutcomesStep
<1> QED
  BY <1>2, <1>3, <1>6, <1>7 DEF Calling

LEMMA NextOutcomes ==
  ASSUME Typed, IInv, IInv', Outcomes, [Next]_vars
  PROVE  Outcomes'
<1>1. CASE UNCHANGED vars
  BY <1>1, HeldSame, StillOutcomes DEF vars, AtWorker
<1>2. CASE Listening
  BY <1>2, ListeningOutcomes
<1>3. ASSUME NEW j \in Jobs, Calling(j)
      PROVE  Outcomes'
  BY <1>3, CallingOutcomes
<1>4. ASSUME NEW w \in Workers, SweepBegin(w) \/ SweepEnd(w)
      PROVE  Outcomes'
  <2>1. \A v \in Workers : AtWorker(v)' = AtWorker(v)
    <3>1. /\ AtWorker(w) = conn_set[w] \ sweep[w].freed
          /\ AtWorker(w)' = conn_set'[w] \ sweep'[w].freed
      BY HeldLemma DEF HeldIs
    <3>2. CASE SweepBegin(w)
      <4>1. sweep'[w].freed = sweep[w].freed /\ conn_set' = conn_set
        BY <3>2 DEF SweepBegin, Typed, TypeOK
      <4>2. \A v \in Workers \ {w} : sweep'[v] = sweep[v]
        BY <3>2 DEF SweepBegin, Typed, TypeOK
      <4> QED
        BY <3>1, <4>1, <4>2, HeldSame DEF AtWorker
    <3>3. CASE SweepEnd(w)
      <4>1. /\ sweep'[w] = NoSweep
            /\ conn_set'[w] = conn_set[w] \ sweep[w].freed
        BY <3>3 DEF SweepEnd, Remaining, Typed, TypeOK
      <4>2. sweep'[w].freed = {}
        BY <4>1 DEF NoSweep
      <4>3. \A v \in Workers \ {w} : /\ sweep'[v] = sweep[v]
                                      /\ conn_set'[v] = conn_set[v]
        BY <3>3 DEF SweepEnd, Typed, TypeOK
      <4>4. AtWorker(w)' = AtWorker(w)
        BY <3>1, <4>1, <4>2
      <4> QED
        BY <4>3, <4>4, HeldSame DEF AtWorker
    <3> QED
      BY <1>4, <3>2, <3>3
  <2> QED
    BY <1>4, <2>1, StillOutcomes DEF SweepBegin, SweepEnd, threads, jobs
<1>5. ASSUME NEW w \in Workers, Process(w) \/ Machine(w) \/ Sweeping(w)
      PROVE  Outcomes'
  BY <1>4, <1>5, ProcessOutcomes, MachineOutcomes, SweepConnOutcomes
     DEF Sweeping
<1>6. ASSUME NEW w \in Workers, NEW c \in Slots, Event(w, c)
      PROVE  Outcomes'
  BY <1>6, HeldSame, StillOutcomes DEF Event, threads, jobs, AtWorker
<1>7. ASSUME NEW q \in queries, QueryLost(q)
      PROVE  Outcomes'
  BY <1>7, HeldSame, StillOutcomes DEF QueryLost, threads, jobs, AtWorker
<1>8. ASSUME NEW c \in Slots, Age(c)
      PROVE  Outcomes'
  <2>1. \A d \in Slots : /\ client'[d].type = client[d].type
                         /\ client'[d].task_id = client[d].task_id
                         /\ client'[d].state = client[d].state
    BY <1>8 DEF Age, Typed, TypeOK, ConnClient
  <2> QED
    BY <1>8, <2>1, HeldSame, StillOutcomes DEF Age, threads, jobs, AtWorker
<1> QED
  BY <1>1, <1>2, <1>3, <1>5, <1>6, <1>7, <1>8, DnsEventOutcomes DEF Next

LEMMA InitOutcomes ==
  ASSUME Init
  PROVE  Outcomes
BY DEF Init, Outcomes, LiveFor, Live, Started, EmptyClient

(* A job that make_active_connect was given has at most one outcome, a     *)
(* report to reportHandler or a reply to on_data_callback, whatever became *)
(* of the slots it went through.                                           *)
THEOREM PoolOneOutcome ==
  ASSUME SafeEnv
  PROVE  Spec => []OneOutcome
<1>1. Init => Outcomes
  BY InitOutcomes
<1>2. Typed /\ IInv /\ IInv' /\ Outcomes /\ [Next]_vars => Outcomes'
  BY NextOutcomes
<1>3. Outcomes => OneOutcome
  BY DEF Outcomes, OneOutcome
<1>4. Spec => [](Typed /\ IInv)
  BY PoolInvariant
<1> QED
  BY <1>1, <1>2, <1>3, <1>4, PTL DEF Spec
=============================================================================
