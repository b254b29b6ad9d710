-------------------------- MODULE ChatClientProofs --------------------------
(***************************************************************************)
(* The synchronous client leaves no socket behind, sends no command whole  *)
(* twice and stays in step with a peer that gives it no trouble, for       *)
(* commands, replies and buffers of every length.                          *)
(***************************************************************************)
EXTENDS ChatClient, SequenceTheorems, TLAPS

(* DescriptorKept is inductive once it is known that connect_host is only  *)
(* called without a descriptor and sendall only with one; DeliveredOnce,   *)
(* once it is known that a call that is still to send has not delivered    *)
(* its command, which needs that sendall's loop ends with the last unit.   *)
IInv ==
  /\ fd \in {NoFd, Sock} /\ open \in Int
  /\ sz \in {0, CmdLen} /\ counter \in 0 .. sz
  /\ DescriptorKept
  /\ pc = "connect" => fd = NoFd /\ counter = 0
  /\ pc = "send" => fd = Sock /\ (counter < sz \/ sz = 0)
  /\ delivered \in 0 .. 1
  /\ pc \in {"connect", "send"} => delivered = 0

LEMMA InitIInv == Init => IInv
BY ChatAssumption DEF Init, IInv, DescriptorKept, keep, NoFd

LEMMA CallIInv ==
  ASSUME IInv, NEW len \in {0, CmdLen}, Call(len)
  PROVE  IInv'
BY ChatAssumption DEF IInv, Call, DescriptorKept, keep, NoFd, Sock

(* A return closes the socket of a client that does not keep it.           *)
LEMMA ReturnIInv ==
  ASSUME IInv, NEW r, Return(r),
         UNCHANGED <<api, sz, counter, delivered>>
  PROVE  IInv'
BY DEF IInv, Return, DescriptorKept, keep, NoFd, Sock

LEMMA ConnectIInv ==
  ASSUME IInv, Connect \/ ConnectFails
  PROVE  IInv'
<1>1. CASE Connect
  BY <1>1, ChatAssumption DEF IInv, Connect, call, DescriptorKept, keep, NoFd, Sock
<1>2. CASE ConnectFails
  BY <1>2 DEF IInv, ConnectFails, LeftOpen, TryAgain, DescriptorKept, keep, NoFd, Sock
<1> QED
  BY <1>1, <1>2

(* The turn of sendall's loop that sends the last unit is its last, so     *)
(* nothing can fail, and be tried again, after it.                         *)
LEMMA SendSomeIInv ==
  ASSUME IInv, SendSome
  PROVE  IInv'
<1>1. PICK n \in counter .. sz :
        /\ n > counter \/ counter = sz
        /\ counter' = n
        /\ delivered' = IF link.peer = "up" /\ n = sz /\ n > counter
                           /\ delivered < 2
                        THEN delivered + 1 ELSE delivered
        /\ \/ n < sz /\ UNCHANGED <<pc, fd, open>>
           \/ Return("ok")
           \/ pc' = "head" /\ UNCHANGED <<fd, open>>
  BY ChatAssumption DEF SendSome, AllSent, IInv
<1>2. /\ pc = "send" /\ sz > 0 /\ sz \in Int /\ counter \in Int
      /\ UNCHANGED <<api, sz>>
  BY ChatAssumption DEF SendSome, IInv
<1>3. delivered' \in 0 .. 1 /\ counter' \in 0 .. sz
  BY <1>1, <1>2 DEF IInv
<1>4. CASE n < sz /\ UNCHANGED <<pc, fd, open>>
  BY <1>1, <1>2, <1>3, <1>4 DEF IInv, DescriptorKept, keep, NoFd, Sock
<1>5. CASE Return("ok")
  BY <1>2, <1>3, <1>5 DEF IInv, Return, DescriptorKept, keep, NoFd, Sock
<1>6. CASE pc' = "head" /\ UNCHANGED <<fd, open>>
  BY <1>2, <1>3, <1>6 DEF IInv, DescriptorKept, keep, NoFd, Sock
<1> QED
  BY <1>1, <1>4, <1>5, <1>6

LEMMA SendFailsIInv ==
  ASSUME IInv, pc = "send", SendFails
  PROVE  IInv'
BY DEF IInv, SendFails, FdAfterSend, TryAgain, DescriptorKept, keep, NoFd, Sock

LEMMA SendIInv ==
  ASSUME IInv,
         \/ SendSome \/ SendRefused \/ SendError
         \/ SendNothing \/ SendTooShort
  PROVE  IInv'
<1>1. CASE SendSome
  BY <1>1, SendSomeIInv
<1>2. CASE SendRefused \/ SendError
  BY <1>2, SendFailsIInv DEF SendRefused, SendError
<1>3. CASE SendNothing
  BY <1>3 DEF IInv, SendNothing, call, DescriptorKept, keep, NoFd, Sock
<1>4. CASE SendTooShort
  BY <1>4, ReturnIInv DEF SendTooShort, call
<1> QED
  BY <1>1, <1>2, <1>3, <1>4

(* Within a reply nothing changes that the invariant speaks of.            *)
LEMMA ReadOnIInv ==
  ASSUME IInv, pc' = "body", UNCHANGED <<api, sz, counter, delivered, fd, open>>
  PROVE  IInv'
BY DEF IInv, DescriptorKept, keep

LEMMA ReadIInv ==
  ASSUME IInv, ReadHead \/ ReadBody \/ ReadEnd \/ ReadTimeout
  PROVE  IInv'
<1>1. UNCHANGED <<api, sz, counter, delivered>>
  BY DEF ReadHead, ReadBody, ReadEnd, ReadTimeout, ReadFails, call
<1>2. \/ Return("fail") \/ Return("ok")
      \/ pc' = "body" /\ UNCHANGED <<fd, open>>
  BY DEF ReadHead, ReadBody, ReadEnd, ReadTimeout, ReadFails
<1>3. CASE Return("fail")
  BY <1>1, <1>3, ReturnIInv
<1>4. CASE Return("ok")
  BY <1>1, <1>4, ReturnIInv
<1>5. CASE pc' = "body" /\ UNCHANGED <<fd, open>>
  BY <1>1, <1>5, ReadOnIInv
<1> QED
  BY <1>2, <1>3, <1>4, <1>5

(* What the peer and the network do touches nothing of the client.         *)
LEMMA OutsideIInv ==
  ASSUME IInv, UNCHANGED <<api, pc, call, fd, open, delivered>>
  PROVE  IInv'
BY DEF IInv, call, DescriptorKept, keep

LEMMA StepIInv == IInv /\ [Next]_vars => IInv'
<1> SUFFICES ASSUME IInv, [Next]_vars PROVE IInv'
  OBVIOUS
<1>1. CASE Call(CmdLen) \/ CallEmpty
  BY <1>1, CallIInv DEF CallEmpty
<1>2. CASE Connect \/ ConnectFails
  BY <1>2, ConnectIInv
<1>3. CASE Sending \/ SendError
  BY <1>3, SendIInv DEF Sending
<1>4. CASE Reading \/ ReadTimeout
  BY <1>4, ReadIInv DEF Reading
<1>5. CASE Answer \/ PeerClose \/ Reset
  <2>1. UNCHANGED <<api, pc, call, fd, open, delivered>>
    BY <1>5 DEF Answer, PeerClose, Reset
  <2> QED
    BY <2>1, OutsideIInv
<1>6. CASE UNCHANGED vars
  BY <1>6, OutsideIInv DEF vars
<1> QED
  BY <1>1, <1>2, <1>3, <1>4, <1>5, <1>6 DEF Next

(* The inductive invariant holds in every reachable state.                 *)
THEOREM ChatInvariant == Spec => []IInv
BY InitIInv, StepIInv, PTL DEF Spec

(* The synchronous calls leave no socket open but the one chat_fd keeps    *)
(* in *fd.                                                                 *)
THEOREM ChatDescriptorKept == Spec => []DescriptorKept
BY ChatInvariant, PTL DEF IInv

(* The second attempt of chat_fd never delivers a command whose first      *)
(* attempt was delivered whole.                                            *)
THEOREM ChatDeliveredOnce == Spec => []DeliveredOnce
<1>1. IInv => DeliveredOnce
  BY DEF IInv, DeliveredOnce
<1> QED
  BY <1>1, ChatInvariant, PTL

-----------------------------------------------------------------------------
(* The connection, and what is on its way.                                 *)

Flags == BOOLEAN

Lengths == Nat \cup {NoNumber}

Units == [own : BOOLEAN, kind : {"head", "body"}, len : Lengths]

Links == [peer : {"up", "closed", "hit", "reset"},
          pending : Seq(BOOLEAN), back : Seq(Units)]

Linked ==
  link \in Links /\ Len(link.pending) <= MaxPending /\ Len(link.back) <= MaxBack

(* The units of a reply: a head, and all of them the reply's               *)
IsReply(b, mine, len, n) ==
  /\ b \in Seq(Units) /\ Len(b) = n + 1
  /\ b[1].kind = "head" /\ b[1].len = len
  /\ \A i \in 1 .. n + 1 : b[i].own = mine

LEMMA ReplyLemma ==
  ASSUME NEW mine \in Flags, NEW len \in Lengths, NEW n \in Nat
  PROVE  IsReply(Reply(mine, len, n), mine, len, n)
<1> DEFINE h == [own |-> mine, kind |-> "head", len |-> len]
           b == [i \in 1 .. n |-> [own |-> mine, kind |-> "body", len |-> 0]]
<1>1. h \in Units
  BY DEF Units, Flags
<1>2. \A i \in 1 .. n : b[i] \in Units /\ b[i].own = mine
  BY DEF Units, Lengths, Flags
<1>3. b \in [1 .. n -> Units]
  BY DEF Units, Lengths, Flags
<1>4. b \in Seq(Units) /\ Len(b) = n
  BY <1>3, SeqDef
<1>5. <<h>> \in Seq(Units) /\ Len(<<h>>) = 1 /\ <<h>>[1] = h
  BY <1>1
<1>6. Reply(mine, len, n) = <<h>> \o b
  BY DEF Reply
<1>7. h.own = mine
  OBVIOUS
<1> HIDE DEF h, b
<1>8. /\ <<h>> \o b \in Seq(Units) /\ Len(<<h>> \o b) = 1 + n
      /\ \A i \in 1 .. 1 + n :
           (<<h>> \o b)[i] = IF i <= 1 THEN <<h>>[i] ELSE b[i - 1]
  BY <1>4, <1>5, ConcatProperties
<1>9. \A i \in 1 .. n + 1 : Reply(mine, len, n)[i].own = mine
  BY <1>2, <1>5, <1>6, <1>7, <1>8
<1> QED
  BY <1>5, <1>6, <1>8, <1>9 DEF h, IsReply

(* What is left over of a connection is as long as it was                  *)
LEMMA LeftOverLemma ==
  ASSUME Linked
  PROVE  /\ LeftOver(link) \in Links
         /\ Len(LeftOver(link).pending) = Len(link.pending)
         /\ Len(LeftOver(link).back) = Len(link.back)
<1>1. /\ Len(link.pending) \in Nat /\ DOMAIN link.pending = 1 .. Len(link.pending)
      /\ Len(link.back) \in Nat /\ DOMAIN link.back = 1 .. Len(link.back)
      /\ \A i \in DOMAIN link.back : link.back[i] \in Units
  <2>1. link.pending \in Seq(BOOLEAN) /\ link.back \in Seq(Units)
    BY DEF Linked, Links
  <2> QED
    BY <2>1, LenProperties, ElementOfSeq
<1>2. PICK p : p = [i \in 1 .. Len(link.pending) |-> FALSE]
  OBVIOUS
<1>3. PICK b : b = [i \in 1 .. Len(link.back) |->
                      [link.back[i] EXCEPT !.own = FALSE]]
  OBVIOUS
<1>4. p \in [1 .. Len(link.pending) -> BOOLEAN]
  BY <1>2
<1>5. b \in [1 .. Len(link.back) -> Units]
  BY <1>1, <1>3 DEF Units
<1>6. p \in Seq(BOOLEAN) /\ Len(p) = Len(link.pending)
  BY <1>1, <1>4, SeqDef
<1>7. b \in Seq(Units) /\ Len(b) = Len(link.back)
  BY <1>1, <1>5, SeqDef
<1>8. LeftOver(link) = [link EXCEPT !.pending = p, !.back = b]
  BY <1>1, <1>2, <1>3 DEF LeftOver, Linked, Links
<1>9. /\ [link EXCEPT !.pending = p, !.back = b].pending = p
      /\ [link EXCEPT !.pending = p, !.back = b].back = b
      /\ [link EXCEPT !.pending = p, !.back = b] \in Links
  BY <1>6, <1>7 DEF Linked, Links
<1> QED
  BY <1>6, <1>7, <1>8, <1>9

(* A reply has as many units in its body as its head says, or a head that  *)
(* says nothing                                                            *)
LEMMA AnswerLemma ==
  ASSUME Answer
  PROVE  \E n \in Nat, l \in Lengths :
           /\ l = n \/ l = NoNumber
           /\ Len(link.back) + 1 + n <= MaxBack
           /\ link' = [link EXCEPT
                !.pending = Tail(@),
                !.back = @ \o Reply(Head(link.pending), l, n)]
<1>1. \A n \in BodyLens : n \in Nat /\ n \in Lengths
  BY ChatAssumption DEF Lengths
<1>2. NoNumber \in Lengths
  BY DEF Lengths
<1> QED
  BY <1>1, <1>2, Zenon DEF Answer

LEMMA SumLemma ==
  ASSUME NEW a \in Nat, NEW n \in Nat, NEW m \in Nat, NEW c,
         c = a + (n + 1), a + 1 + n <= m
  PROVE  c <= m
OBVIOUS

LEMMA LinkedStep ==
  ASSUME IInv, Linked, [Next]_vars
  PROVE  Linked'
<1>1. CASE Call(CmdLen) \/ CallEmpty
  <2>1. link' = LeftOver(link)
    BY <1>1 DEF Call, CallEmpty
  <2> QED
    BY <2>1, LeftOverLemma DEF Linked
<1>2. CASE Connect
  <2>1. NewLink \in Links /\ Len(NewLink.pending) = 0 /\ Len(NewLink.back) = 0
    BY DEF NewLink, Links
  <2> QED
    BY <1>2, <2>1, ChatAssumption DEF Connect, Linked
<1>3. CASE SendSome
  <2>1. PICK n : link' = Carried(n)
    BY <1>3 DEF SendSome
  <2>2. CASE link.peer = "closed"
    BY <2>1, <2>2 DEF Carried, Linked, Links
  <2>3. CASE link.peer = "up" /\ n = sz /\ n > counter
    <3>1. Len(link.pending) < MaxPending /\ link.pending \in Seq(BOOLEAN)
      BY <1>3, <2>3 DEF SendSome, Room, Linked, Links
    <3>2. PICK p : p = Append(link.pending, TRUE)
      OBVIOUS
    <3>3. p \in Seq(BOOLEAN) /\ Len(p) = Len(link.pending) + 1
      BY <3>1, <3>2, AppendProperties
    <3>4. link' = [link EXCEPT !.pending = p]
      BY <2>1, <2>3, <3>2 DEF Carried
    <3>5. Len(p) <= MaxPending
      BY <3>1, <3>3, ChatAssumption, LenProperties
    <3> QED
      BY <3>3, <3>4, <3>5 DEF Linked, Links
  <2>4. CASE /\ link.peer # "closed"
             /\ ~(link.peer = "up" /\ n = sz /\ n > counter)
    BY <2>1, <2>4 DEF Carried, Linked
  <2> QED
    BY <2>2, <2>3, <2>4
<1>4. CASE ReadHead \/ ReadBody
  <2>1. link.back \in Seq(Units) /\ link.back # <<>>
    BY <1>4 DEF ReadHead, ReadBody, Readable, Linked, Links
  <2>2. PICK b : b = Tail(link.back)
    OBVIOUS
  <2>3. b \in Seq(Units) /\ Len(b) = Len(link.back) - 1 /\ Len(link.back) \in Nat
    BY <2>1, <2>2, HeadTailProperties, LenProperties
  <2>4. link' = [link EXCEPT !.back = b]
    BY <1>4, <2>2 DEF ReadHead, ReadBody, Take
  <2>5. Len(b) <= MaxBack
    BY <2>3, ChatAssumption DEF Linked
  <2> QED
    BY <2>3, <2>4, <2>5 DEF Linked, Links
<1>5. CASE Answer
  <2>1. PICK n \in Nat, l \in Lengths :
          /\ Len(link.back) + 1 + n <= MaxBack
          /\ link' = [link EXCEPT
               !.pending = Tail(@),
               !.back = @ \o Reply(Head(link.pending), l, n)]
    BY <1>5, AnswerLemma
  <2>2. Len(link.back) + 1 + n <= MaxBack
    BY <2>1
  <2>3. PICK r : r = Reply(Head(link.pending), l, n)
    OBVIOUS
  <2>4. link.pending \in Seq(BOOLEAN) /\ link.pending # <<>>
    BY <1>5 DEF Answer, Linked, Links
  <2>5. /\ Head(link.pending) \in BOOLEAN /\ Tail(link.pending) \in Seq(BOOLEAN)
        /\ Len(Tail(link.pending)) = Len(link.pending) - 1
        /\ Len(link.pending) \in Nat
    BY <2>4, HeadTailProperties, LenProperties
  <2>6. n \in Nat /\ l \in Lengths
    OBVIOUS
  <2>7. r \in Seq(Units) /\ Len(r) = n + 1
    <3>1. PICK m : m = Head(link.pending)
      OBVIOUS
    <3>2. m \in Flags /\ r = Reply(m, l, n)
      BY <2>3, <2>5, <3>1 DEF Flags
    <3> QED
      BY <2>6, <3>2, ReplyLemma DEF IsReply
  <2>8. link.back \in Seq(Units) /\ Len(link.back) \in Nat
    BY LenProperties DEF Linked, Links
  <2>9. PICK b : b = link.back \o r
    OBVIOUS
  <2>10. b \in Seq(Units) /\ Len(b) = Len(link.back) + (n + 1)
    <3>1. b \in Seq(Units) /\ Len(b) = Len(link.back) + Len(r)
      BY <2>7, <2>8, <2>9, ConcatProperties, Zenon
    <3> QED
      BY <2>7, <3>1
  <2>11. PICK p : p = Tail(link.pending)
    OBVIOUS
  <2>12. link' = [link EXCEPT !.pending = p, !.back = b]
    BY <2>1, <2>3, <2>9, <2>11
  <2>13. Len(b) <= MaxBack /\ Len(p) <= MaxPending
    <3>2. /\ Len(link.pending) <= MaxPending
          /\ MaxPending \in Nat /\ MaxBack \in Nat
      BY ChatAssumption DEF Linked
    <3>3. Len(p) = Len(link.pending) - 1 /\ Len(link.pending) \in Nat
      BY <2>5, <2>11
    <3>4. Len(b) <= MaxBack
      BY <2>2, <2>6, <2>8, <2>10, <3>2, SumLemma, Zenon
    <3> QED
      BY <3>2, <3>3, <3>4
  <2> QED
    BY <2>5, <2>10, <2>11, <2>12, <2>13 DEF Linked, Links
<1>6. CASE PeerClose
  <2>1. PICK n \in 0 .. Len(link.back) :
          link' = [peer |-> "closed", pending |-> <<>>,
                   back |-> SubSeq(link.back, 1, n)]
    BY <1>6 DEF PeerClose
  <2>2. link.back \in Seq(Units) /\ Len(link.back) \in Nat
    BY LenProperties DEF Linked, Links
  <2>3. \A i \in 1 .. n : link.back[i] \in Units
    BY <2>2, ElementOfSeq
  <2>4. PICK b : b = SubSeq(link.back, 1, n)
    OBVIOUS
  <2>5. b \in Seq(Units) /\ Len(b) <= Len(link.back)
    BY <2>2, <2>3, <2>4, SubSeqProperties
  <2>6. link' = [peer |-> "closed", pending |-> <<>>, back |-> b]
    BY <2>1, <2>4
  <2>7. Len(b) <= MaxBack
    <3>1. Len(b) \in Nat
      BY <2>5, LenProperties
    <3> QED
      BY <2>2, <2>5, <3>1, ChatAssumption DEF Linked
  <2> QED
    BY <2>5, <2>6, <2>7, ChatAssumption DEF Linked, Links
<1>7. CASE Reset
  <2>1. PICK b : b = <<>>
    OBVIOUS
  <2>2. b \in Seq(Units) /\ Len(b) = 0
    BY <2>1
  <2>3. link' = [link EXCEPT !.peer = "reset", !.back = b]
    BY <1>7, <2>1 DEF Reset
  <2>4. link \in Links /\ Len(link.pending) <= MaxPending
    BY DEF Linked
  <2>5. link'.pending = link.pending /\ link'.back = b
    BY <2>3, <2>4 DEF Links
  <2>6. link' \in Links
    BY <2>2, <2>3, <2>4 DEF Links
  <2> QED
    BY <2>2, <2>4, <2>5, <2>6, ChatAssumption DEF Linked
<1>8. CASE UNCHANGED link
  BY <1>8 DEF Linked
<1> QED
  BY <1>1, <1>2, <1>3, <1>4, <1>5, <1>6, <1>7, <1>8
     DEF Next, Sending, Reading, ConnectFails, SendRefused, SendError,
         SendFails, SendNothing, SendTooShort, ReadEnd, ReadTimeout, ReadFails,
         call, vars

-----------------------------------------------------------------------------
(* The client's variables.                                                 *)

Client ==
  /\ api \in Apis /\ pc \in {"idle", "connect", "send", "head", "body"}
  /\ retries \in 0 .. 1 /\ need \in Lengths
  /\ pc = "body" => need > 0
  /\ own \in BOOLEAN /\ proper \in BOOLEAN /\ faulted \in BOOLEAN
  /\ result \in {"none", "ok", "fail"}

LEMMA HeadUnit ==
  ASSUME Linked, Readable
  PROVE  /\ Unit \in Units /\ Unit = link.back[1]
         /\ MsgLen \in Lengths
         /\ MsgLen # NoNumber => MsgLen = Unit.len
         /\ Unit.own \in BOOLEAN
<1>1. link.back \in Seq(Units) /\ link.back # <<>>
  BY DEF Linked, Links, Readable
<1>2. Unit \in Units /\ Unit = link.back[1]
  BY <1>1, HeadTailProperties DEF Unit
<1> QED
  BY <1>2 DEF Units, MsgLen, Lengths, NoNumber

LEMMA TryAgainClient ==
  ASSUME Client, TryAgain, UNCHANGED <<api, need, own, proper, faulted>>
  PROVE  Client'
BY DEF Client, TryAgain

LEMMA ClientStep ==
  ASSUME Client, Linked, [Next]_vars
  PROVE  Client'
<1>1. CASE Call(CmdLen) \/ CallEmpty
  <2>1. /\ pc' \in {"connect", "send"} /\ retries' \in 0 .. 1 /\ need' = 0
        /\ result' = "none" /\ UNCHANGED <<api, faulted>>
    BY <1>1 DEF Call, CallEmpty
  <2>2. own' \in BOOLEAN /\ proper' \in BOOLEAN
    BY <1>1, Zenon DEF Call, CallEmpty
  <2> QED
    BY <2>1, <2>2 DEF Client, Lengths
<1>2. CASE Connect
  BY <1>2 DEF Client, Connect, call
<1>3. CASE ConnectFails \/ SendRefused \/ SendError
  BY <1>3, TryAgainClient DEF ConnectFails, SendRefused, SendError, SendFails
<1>4. CASE SendSome
  <2>1. PICK n : \/ UNCHANGED <<pc, result>>
                 \/ Return("ok")
                 \/ pc' = "head" /\ UNCHANGED result
    BY <1>4 DEF SendSome
  <2>2. UNCHANGED <<api, retries, need, own, proper, faulted>>
    BY <1>4 DEF SendSome
  <2> QED
    BY <2>1, <2>2 DEF Client, Return
<1>5. CASE SendNothing \/ SendTooShort
  BY <1>5 DEF Client, SendNothing, SendTooShort, Return, call
<1>6. CASE ReadHead
  <2>1. /\ MsgLen \in Lengths /\ Unit.own \in BOOLEAN
    BY <1>6, HeadUnit DEF ReadHead
  <2>2. own' \in BOOLEAN /\ proper' \in BOOLEAN /\ faulted' \in BOOLEAN
    BY <1>6, <2>1, Zenon DEF ReadHead, Client
  <2>3. need' \in Lengths /\ api' = api /\ retries' = retries
    BY <1>6, <2>1 DEF ReadHead, BodyOf
  <2>4. \/ Return("fail") \/ Return("ok")
        \/ need' > 0 /\ pc' = "body" /\ UNCHANGED result
    BY <1>6 DEF ReadHead
  <2> QED
    BY <2>2, <2>3, <2>4 DEF Client, Return
<1>7. CASE ReadBody
  <2>1. Unit.own \in BOOLEAN
    BY <1>7, HeadUnit DEF ReadBody
  <2>2. own' \in BOOLEAN
    BY <1>7, <2>1, Zenon DEF ReadBody, Client
  <2>3. need \in Nat /\ need > 0 /\ need' = need - 1
    BY <1>7 DEF ReadBody, Client, Lengths, NoNumber
  <2>4. UNCHANGED <<api, retries, proper, faulted>>
    BY <1>7 DEF ReadBody
  <2>5. \/ Return("ok")
        \/ need # 1 /\ pc' = pc /\ UNCHANGED result
    BY <1>7 DEF ReadBody
  <2> QED
    BY <2>2, <2>3, <2>4, <2>5 DEF Client, Return, Lengths
<1>8. CASE ReadEnd \/ ReadTimeout
  BY <1>8 DEF Client, ReadEnd, ReadTimeout, ReadFails, Return, call
<1>9. CASE Answer \/ PeerClose \/ Reset \/ UNCHANGED vars
  BY <1>9 DEF Client, Answer, PeerClose, Reset, call, vars
<1> QED
  BY <1>1, <1>2, <1>3, <1>4, <1>5, <1>6, <1>7, <1>8, <1>9
     DEF Next, Sending, Reading

Typed == Client /\ Linked

LEMMA InitTyped ==
  ASSUME Init
  PROVE  Typed
<1>1. NewLink \in Links /\ Len(NewLink.pending) = 0 /\ Len(NewLink.back) = 0
  BY DEF NewLink, Links
<1>2. own \in BOOLEAN /\ proper \in BOOLEAN /\ faulted \in BOOLEAN
  BY Zenon DEF Init
<1> QED
  BY <1>1, <1>2, ChatAssumption DEF Init, Typed, Client, Linked, Lengths

LEMMA TypedOK ==
  ASSUME Typed, IInv
  PROVE  TypeOK
<1>1. counter \in 0 .. CmdLen /\ open \in Nat /\ delivered \in 0 .. 2
  BY ChatAssumption DEF IInv, DescriptorKept
<1>2. /\ link.peer \in {"up", "closed", "hit", "reset"}
      /\ link.pending \in Seq(BOOLEAN)
      /\ Len(link.pending) <= MaxPending /\ Len(link.back) <= MaxBack
  BY DEF Typed, Linked, Links
<1> QED
  BY <1>1, <1>2 DEF Typed, Client, Lengths, IInv, TypeOK

(* The inductive invariant, with the types.                                *)
THEOREM ChatTyped == Spec => [](Typed /\ IInv)
<1>1. Typed /\ IInv /\ [Next]_vars => Typed'
  BY LinkedStep, ClientStep DEF Typed
<1>2. Init => Typed
  BY InitTyped
<1> QED
  BY <1>1, <1>2, ChatInvariant, PTL DEF Spec

(* Every variable keeps its type, and the sockets hold no more than they   *)
(* can.                                                                    *)
THEOREM ChatTypeOK == Spec => []TypeOK
<1>1. Typed /\ IInv => TypeOK
  BY TypedOK
<1> QED
  BY <1>1, ChatTyped, PTL

-----------------------------------------------------------------------------
(* In step.                                                                *)

(* Units that can be the reply to the call, the rest of it cut off perhaps *)
OwnReply(b) ==
  b # <<>> =>
    /\ \A i \in 1 .. Len(b) : b[i].own
    /\ b[1].kind = "head"
    /\ b[1].len # NoNumber => Len(b) <= 1 + b[1].len

(* While no reply was late, cut, garbled or too long, nothing is left      *)
(* over between calls, and what is on its way is the reply to the call.    *)
Expected ==
  /\ pc \in {"idle", "send"} => link.pending = <<>> /\ link.back = <<>>
  /\ pc = "head" => \/ link.pending = <<>> /\ OwnReply(link.back)
                    \/ link.pending = <<TRUE>> /\ link.back = <<>>
  /\ pc = "body" => /\ link.pending = <<>> /\ own /\ proper
                    /\ Len(link.back) <= need
                    /\ \A i \in 1 .. Len(link.back) : link.back[i].own

Untouched ==
  /\ pc # "idle" => result = "none"
  /\ pc \in {"connect", "send", "head"} => own /\ proper
  /\ InStepReplyIsOwn

InStep == Untouched /\ (~faulted /\ fd # NoFd => Expected)

LEMMA InitInStep ==
  ASSUME Init
  PROVE  InStep
BY DEF Init, InStep, Untouched, InStepReplyIsOwn

LEMMA CallInStep ==
  ASSUME Typed, InStep, NEW len \in {0, CmdLen}, Call(len)
  PROVE  InStep'
<1>1. link' = LeftOver(link) /\ fd' = fd /\ faulted' = faulted /\ pc = "idle"
      /\ own' = TRUE /\ proper' = TRUE /\ result' = "none"
      /\ pc' \in {"connect", "send"} /\ (pc' = "connect" => fd = NoFd)
  BY DEF Call
<1>2. ASSUME ~faulted, fd # NoFd
      PROVE  link'.pending = <<>> /\ link'.back = <<>>
  <2>1. Len(link.pending) = 0 /\ Len(link.back) = 0
    BY <1>1, <1>2 DEF InStep, Expected
  <2>2. /\ Len(link'.pending) = 0 /\ Len(link'.back) = 0
        /\ link'.pending \in Seq(BOOLEAN) /\ link'.back \in Seq(Units)
    BY <1>1, <2>1, LeftOverLemma DEF Typed, Links
  <2> QED
    BY <2>2, EmptySeq
<1>3. ~faulted' /\ fd' # NoFd => Expected'
  BY <1>1, <1>2 DEF Expected
<1> QED
  BY <1>1, <1>3, Zenon DEF InStep, Untouched, InStepReplyIsOwn

(* A step after which the client has no descriptor                         *)
LEMMA UnlinkedInStep ==
  ASSUME Typed, InStep, fd' = NoFd, UNCHANGED <<own, proper>>,
         pc # "idle",
         \/ /\ pc \in {"connect", "send"} /\ pc' \in {"connect", "send", "head"}
            /\ UNCHANGED result
         \/ pc' = "idle" /\ result' = "fail"
         \/ pc = "send" /\ pc' = "idle" /\ result' = "ok"
  PROVE  InStep'
BY DEF InStep, Untouched, InStepReplyIsOwn

LEMMA SendSomeInStep ==
  ASSUME Typed, IInv, InStep, SendSome
  PROVE  InStep'
<1>1. PICK n : /\ n \in counter .. sz /\ link' = Carried(n)
               /\ \/ n < sz /\ UNCHANGED <<pc, fd, result>>
                  \/ api = "sendcmd2host" /\ Return("ok")
                  \/ pc' = "head" /\ UNCHANGED <<fd, result>>
  BY ChatAssumption DEF SendSome, AllSent, IInv
<1>2. pc = "send" /\ fd = Sock /\ UNCHANGED <<own, proper, faulted>>
  BY DEF SendSome, IInv
<1>3. ASSUME ~faulted
      PROVE  /\ link'.back = <<>>
             /\ link'.pending = <<>> \/ link'.pending = <<TRUE>>
             /\ n < sz => link'.pending = <<>>
  <2>1. link.pending = <<>> /\ link.back = <<>> /\ link \in Links
    BY <1>2, <1>3 DEF InStep, Expected, Typed, Linked, Sock, NoFd
  <2>2. CASE link.peer = "closed"
    BY <1>1, <2>1, <2>2 DEF Carried, Links
  <2>3. CASE link.peer = "up" /\ n = sz /\ n > counter
    <3>1. link' = [link EXCEPT !.pending = <<TRUE>>]
      BY <1>1, <2>1, <2>3 DEF Carried
    <3>2. ~(n < sz)
      BY <1>1, <2>3, ChatAssumption DEF IInv
    <3> QED
      BY <2>1, <3>1, <3>2 DEF Links
  <2>4. CASE /\ link.peer # "closed"
             /\ ~(link.peer = "up" /\ n = sz /\ n > counter)
    BY <1>1, <2>1, <2>4 DEF Carried
  <2> QED
    BY <2>2, <2>3, <2>4
<1>4. CASE n < sz /\ UNCHANGED <<pc, fd, result>>
  <2>1. ~faulted' /\ fd' # NoFd => Expected'
    BY <1>2, <1>3, <1>4 DEF Expected
  <2> QED
    BY <1>2, <1>4, <2>1 DEF InStep, Untouched, InStepReplyIsOwn
<1>5. CASE api = "sendcmd2host" /\ Return("ok")
  BY <1>2, <1>5, UnlinkedInStep DEF Return, keep, Sock, NoFd
<1>6. CASE pc' = "head" /\ UNCHANGED <<fd, result>>
  <2>1. ~faulted' /\ fd' # NoFd => Expected'
    BY <1>2, <1>3, <1>6 DEF Expected, OwnReply
  <2> QED
    BY <1>2, <1>6, <2>1 DEF InStep, Untouched, InStepReplyIsOwn
<1> QED
  BY <1>1, <1>4, <1>5, <1>6

LEMMA ReadHeadInStep ==
  ASSUME Typed, IInv, InStep, ReadHead
  PROVE  InStep'
<1>1. /\ pc = "head" /\ fd = Sock /\ link.back \in Seq(Units) /\ link.back # <<>>
      /\ link \in Links /\ result = "none"
  BY DEF ReadHead, Readable, Typed, Linked, Links, IInv, InStep, Untouched
<1>2. PICK b : b = Tail(link.back)
  OBVIOUS
<1>3. /\ b \in Seq(Units) /\ Len(b) = Len(link.back) - 1
      /\ \A i \in 1 .. Len(b) : b[i] = link.back[i + 1]
      /\ Len(b) \in Nat /\ Len(link.back) \in Nat
  BY <1>1, <1>2, HeadTailProperties, LenProperties
<1>4. link'.back = b /\ link'.pending = link.pending
  BY <1>1, <1>2 DEF ReadHead, Take, Links
<1>5. /\ Unit \in Units /\ Unit = link.back[1]
      /\ MsgLen \in Lengths /\ (MsgLen # NoNumber => MsgLen = Unit.len)
  BY HeadUnit DEF ReadHead, Typed
<1>6. PICK m : m = MsgLen
  OBVIOUS
<1>7. ASSUME ~faulted'
      PROVE  /\ own' /\ proper' /\ link'.pending = <<>>
             /\ m \in 0 .. MaxBody /\ Len(b) <= m
             /\ \A i \in 1 .. Len(b) : b[i].own
  <2>1. ~faulted /\ ~(Unit.own /\ MsgLen \notin 0 .. MaxBody)
    BY <1>7, Zenon DEF ReadHead
  <2>2. link.pending = <<>> /\ OwnReply(link.back)
    <3>1. ~faulted
      BY <2>1
    <3>2. Expected
      BY <1>1, <3>1 DEF InStep, Sock, NoFd
    <3> QED
      BY <1>1, <3>2 DEF Expected
  <2>3. /\ \A i \in 1 .. Len(link.back) : link.back[i].own
        /\ link.back[1].len # NoNumber => Len(link.back) <= 1 + link.back[1].len
    BY <1>1, <2>2 DEF OwnReply
  <2>4. Unit.own
    BY <1>1, <1>3, <1>5, <2>3
  <2>5. m \in 0 .. MaxBody
    BY <1>6, <2>1, <2>4
  <2>6. m # NoNumber /\ Unit.len = m
    BY <1>5, <1>6, <2>5, ChatAssumption DEF NoNumber
  <2>7. Len(b) <= m
    <3>1. Len(link.back) <= 1 + m
      BY <1>5, <2>3, <2>6
    <3> QED
      BY <1>3, <2>5, <3>1, ChatAssumption
  <2>8. ASSUME NEW i \in 1 .. Len(b)
        PROVE  b[i].own
    <3>1. i + 1 \in 1 .. Len(link.back) /\ b[i] = link.back[i + 1]
      BY <1>3
    <3>2. link.back[i + 1].own
      BY <2>3, <3>1
    <3> QED
      BY <3>1, <3>2
  <2>9. own' /\ proper'
    BY <1>6, <2>4, <2>6, Zenon DEF ReadHead
  <2> QED
    BY <1>4, <2>2, <2>5, <2>7, <2>8, <2>9
<1>8. need' = m
  BY <1>6 DEF ReadHead, BodyOf
<1>9. CASE MsgLen > MaxBody /\ Return("fail")
  <2>1. faulted' = TRUE
    <3>1. MsgLen \notin 0 .. MaxBody
      BY <1>9, ChatAssumption
    <3>2. ~ ~faulted'
      BY <1>6, <1>7, <3>1
    <3>3. faulted' \in BOOLEAN
      BY Zenon DEF ReadHead
    <3> QED
      BY <3>2, <3>3, Zenon
  <2> QED
    BY <1>9, <2>1 DEF Return, InStep, Untouched, InStepReplyIsOwn
<1>10. CASE need' <= 0 /\ Return("ok")
  <2>1. ~faulted' => Expected'
    <3> SUFFICES ASSUME ~faulted' PROVE Expected'
      OBVIOUS
    <3>1. Len(b) <= m /\ m <= 0 /\ m \in Int
      BY <1>7, <1>8, <1>10, ChatAssumption
    <3>2. Len(b) = 0
      <4>1. Len(b) \in Nat
        BY <1>3
      <4> QED
        BY <3>1, <4>1
    <3>3. link'.back = <<>> /\ link'.pending = <<>>
      BY <1>3, <1>4, <1>7, <3>2, EmptySeq
    <3> QED
      BY <1>10, <3>3 DEF Expected, Return
  <2>2. InStepReplyIsOwn'
    BY <1>7 DEF InStepReplyIsOwn
  <2> QED
    BY <1>10, <2>1, <2>2 DEF Return, InStep, Untouched
<1>11. CASE pc' = "body" /\ UNCHANGED <<fd, open, result>>
  <2>1. ~faulted' => Expected'
    BY <1>4, <1>7, <1>8, <1>11 DEF Expected
  <2> QED
    BY <1>1, <1>11, <2>1 DEF InStep, Untouched, InStepReplyIsOwn
<1> QED
  BY <1>9, <1>10, <1>11 DEF ReadHead

LEMMA ReadBodyInStep ==
  ASSUME Typed, IInv, InStep, ReadBody
  PROVE  InStep'
<1>1. /\ pc = "body" /\ link.back \in Seq(Units) /\ link.back # <<>>
      /\ fd # NoFd /\ result = "none" /\ faulted' = faulted /\ proper' = proper
      /\ need \in Nat /\ need > 0 /\ need' = need - 1
  BY DEF ReadBody, Readable, Typed, Client, Lengths, NoNumber, Linked, Links,
         InStep, Untouched
<1>2. PICK b : b = Tail(link.back)
  OBVIOUS
<1>3. /\ b \in Seq(Units) /\ Len(b) = Len(link.back) - 1
      /\ \A i \in 1 .. Len(b) : b[i] = link.back[i + 1]
      /\ Len(b) \in Nat /\ Len(link.back) \in Nat
  BY <1>1, <1>2, HeadTailProperties, LenProperties
<1>4. link'.back = b /\ link'.pending = link.pending
  BY <1>2 DEF ReadBody, Take, Typed, Linked, Links
<1>5. ASSUME ~faulted
      PROVE  /\ own' /\ proper' /\ link'.pending = <<>>
             /\ Len(b) <= need'
             /\ \A i \in 1 .. Len(b) : b[i].own
  <2>1. /\ link.pending = <<>> /\ own /\ proper
        /\ Len(link.back) <= need
        /\ \A i \in 1 .. Len(link.back) : link.back[i].own
    BY <1>1, <1>5 DEF InStep, Expected
  <2>2. Unit.own
    <3>1. Unit = link.back[1]
      BY HeadUnit DEF ReadBody, Typed
    <3> QED
      BY <1>3, <2>1, <3>1
  <2>3. own'
    BY <2>1, <2>2, Zenon DEF ReadBody
  <2>4. Len(b) <= need'
    BY <1>1, <1>3, <2>1
  <2>5. ASSUME NEW i \in 1 .. Len(b)
        PROVE  b[i].own
    <3>1. i + 1 \in 1 .. Len(link.back) /\ b[i] = link.back[i + 1]
      BY <1>3
    <3>2. link.back[i + 1].own
      BY <2>1, <3>1
    <3> QED
      BY <3>1, <3>2
  <2> QED
    BY <1>1, <1>4, <2>1, <2>3, <2>4, <2>5
<1>6. InStepReplyIsOwn'
  BY <1>1, <1>5 DEF InStepReplyIsOwn
<1>7. CASE need = 1 /\ Return("ok")
  <2>1. ASSUME ~faulted
        PROVE  link'.back = <<>> /\ link'.pending = <<>>
    <3>1. Len(b) <= 0
      BY <1>1, <1>5, <1>7, <2>1
    <3>2. Len(b) = 0
      <4>1. Len(b) \in Nat
        BY <1>3
      <4> QED
        BY <3>1, <4>1
    <3> QED
      BY <1>3, <1>4, <1>5, <2>1, <3>2, EmptySeq
  <2> QED
    BY <1>1, <1>6, <1>7, <2>1 DEF Return, InStep, Untouched, Expected
<1>8. CASE UNCHANGED <<pc, fd, open, result>>
  <2>1. ~faulted => Expected'
    BY <1>1, <1>4, <1>5, <1>8 DEF Expected
  <2> QED
    BY <1>1, <1>6, <1>8, <2>1 DEF InStep, Untouched
<1> QED
  BY <1>7, <1>8 DEF ReadBody

LEMMA ReadInStep ==
  ASSUME Typed, IInv, InStep, ReadHead \/ ReadBody \/ ReadEnd \/ ReadTimeout
  PROVE  InStep'
<1>1. CASE ReadEnd \/ ReadTimeout
  BY <1>1 DEF ReadEnd, ReadTimeout, ReadFails, Return, InStep, Untouched,
              InStepReplyIsOwn
<1> QED
  BY <1>1, ReadHeadInStep, ReadBodyInStep

(* What is on its way changes, nothing else                                *)
LEMMA OutsideInStep ==
  ASSUME InStep, UNCHANGED <<pc, call, fd, result, faulted>>,
         ~faulted /\ fd # NoFd => Expected'
  PROVE  InStep'
BY DEF InStep, Untouched, InStepReplyIsOwn, call

LEMMA SingleLemma ==
  ASSUME NEW m
  PROVE  Tail(<<m>>) = <<>> /\ Head(<<m>>) = m
OBVIOUS

LEMMA AnswerInStep ==
  ASSUME Typed, IInv, InStep, Answer
  PROVE  InStep'
<1>1. UNCHANGED <<pc, call, fd, result, faulted>> /\ link.pending # <<>>
  BY DEF Answer
<1>2. ASSUME ~faulted, fd # NoFd
      PROVE  Expected'
  <2>1. pc = "head" /\ link.pending = <<TRUE>> /\ link.back = <<>>
    BY <1>1, <1>2 DEF InStep, Expected, Typed, Client, IInv
  <2>2. PICK n \in Nat, l \in Lengths :
          /\ l = n \/ l = NoNumber
          /\ link' = [link EXCEPT
               !.pending = Tail(@),
               !.back = @ \o Reply(Head(link.pending), l, n)]
    BY AnswerLemma
  <2>3. PICK m : m = TRUE
    OBVIOUS
  <2>4. PICK r : r = Reply(m, l, n)
    OBVIOUS
  <2>5. /\ r \in Seq(Units) /\ Len(r) = n + 1
        /\ r[1].kind = "head" /\ r[1].len = l
        /\ \A i \in 1 .. n + 1 : r[i].own = m
    <3>1. m \in Flags
      BY <2>3, Zenon DEF Flags
    <3> HIDE <2>3
    <3>2. n \in Nat /\ l \in Lengths
      OBVIOUS
    <3>3. IsReply(r, m, l, n)
      BY <2>4, <3>1, <3>2, ReplyLemma
    <3> QED
      BY <3>3 DEF IsReply
  <2>6. link' = [link EXCEPT !.pending = <<>>, !.back = r]
    <3>1. Tail(<<m>>) = <<>> /\ Head(<<m>>) = m
      BY SingleLemma
    <3>2. <<>> \o r = r
      BY <2>5, ConcatEmptySeq
    <3>3. link.pending = <<m>>
      BY <2>1, <2>3, Zenon
    <3> HIDE <2>3
    <3> QED
      BY <2>1, <2>2, <2>4, <3>1, <3>2, <3>3
  <2>7. link'.pending = <<>> /\ link'.back = r
    BY <2>6 DEF Typed, Linked, Links
  <2>8. OwnReply(r)
    <3>1. r[1].kind = "head" /\ r[1].len = l
      BY <2>5
    <3>2. l # NoNumber => Len(r) <= 1 + l
      BY <2>2, <2>5
    <3>3. \A i \in 1 .. Len(r) : r[i].own
      <4>1. ASSUME NEW i \in 1 .. Len(r)
            PROVE  r[i].own
        <5>1. r[i].own = m
          BY <2>5
        <5> QED
          BY <2>3, <5>1, Zenon
      <4> QED
        BY <4>1
    <3> QED
      BY <3>1, <3>2, <3>3 DEF OwnReply
  <2> QED
    BY <1>1, <2>1, <2>7, <2>8 DEF Expected
<1> QED
  BY <1>1, <1>2, OutsideInStep

LEMMA PeerCloseInStep ==
  ASSUME Typed, IInv, InStep, PeerClose
  PROVE  InStep'
<1>1. UNCHANGED <<pc, call, fd, result, faulted>>
  BY DEF PeerClose
<1>2. PICK n \in 0 .. Len(link.back) :
        link' = [peer |-> "closed", pending |-> <<>>,
                 back |-> SubSeq(link.back, 1, n)]
  BY DEF PeerClose
<1>3. PICK b : b = SubSeq(link.back, 1, n)
  OBVIOUS
<1>4. link'.pending = <<>> /\ link'.back = b
  BY <1>2, <1>3
<1>5. link.back \in Seq(Units) /\ Len(link.back) \in Nat
  BY LenProperties DEF Typed, Linked, Links
<1>6. \A i \in 1 .. n : link.back[i] \in Units
  BY <1>5, ElementOfSeq
<1>7. /\ b \in Seq(Units) /\ Len(b) \in Nat /\ Len(b) <= Len(link.back)
      /\ \A i \in 1 .. Len(b) : b[i] = link.back[i]
  <2>1. /\ b \in Seq(Units) /\ Len(b) = IF 1 <= n THEN n - 1 + 1 ELSE 0
        /\ \A i \in 1 .. n - 1 + 1 : b[i] = link.back[1 + i - 1]
    BY <1>3, <1>5, <1>6, SubSeqProperties
  <2>2. Len(b) = n
    BY <1>5, <2>1
  <2>3. \A i \in 1 .. n : b[i] = link.back[i]
    BY <1>5, <2>1
  <2> QED
    BY <1>5, <2>1, <2>2, <2>3
<1>8. link.back = <<>> => b = <<>>
  <2>1. link.back = <<>> => Len(b) = 0
    BY <1>5, <1>7
  <2> QED
    BY <1>7, <2>1, EmptySeq
<1>9. ASSUME OwnReply(link.back)
      PROVE  OwnReply(b)
  <2> SUFFICES ASSUME b # <<>> PROVE OwnReply(b)
    BY DEF OwnReply
  <2>1. link.back # <<>> /\ Len(b) >= 1
    BY <1>7, <1>8, EmptySeq
  <2>2. b[1] = link.back[1] /\ link.back[1] \in Units
    BY <1>5, <1>7, <2>1, ElementOfSeq
  <2>3. b[1].len # NoNumber => b[1].len \in Nat
    BY <2>2 DEF Units, Lengths
  <2>4. /\ \A i \in 1 .. Len(link.back) : link.back[i].own
        /\ link.back[1].kind = "head"
        /\ link.back[1].len # NoNumber => Len(link.back) <= 1 + link.back[1].len
    BY <1>9, <2>1 DEF OwnReply
  <2>5. \A i \in 1 .. Len(b) : b[i].own
    BY <1>5, <1>7, <2>4
  <2>6. b[1].len # NoNumber => Len(b) <= 1 + b[1].len
    BY <1>5, <1>7, <2>2, <2>3, <2>4
  <2> QED
    BY <2>2, <2>4, <2>5, <2>6 DEF OwnReply
<1>10. ASSUME ~faulted, fd # NoFd
       PROVE  Expected'
  <2>1. Expected
    BY <1>10 DEF InStep
  <2>2. CASE pc \in {"idle", "send"}
    BY <1>1, <1>4, <1>8, <2>1, <2>2 DEF Expected
  <2>3. CASE pc = "head"
    <3>1. OwnReply(link.back)
      BY <2>1, <2>3 DEF Expected, OwnReply
    <3> QED
      BY <1>1, <1>4, <1>9, <2>3, <3>1 DEF Expected
  <2>4. CASE pc = "body"
    <3>1. /\ own /\ proper /\ Len(link.back) <= need
          /\ \A i \in 1 .. Len(link.back) : link.back[i].own
      BY <2>1, <2>4 DEF Expected
    <3>2. \A i \in 1 .. Len(b) : b[i].own
      BY <1>5, <1>7, <3>1
    <3>3. need \in Int
      BY DEF Typed, Client, Lengths, NoNumber
    <3>4. Len(b) <= need
      BY <1>5, <1>7, <3>1, <3>3
    <3> QED
      BY <1>1, <1>4, <2>4, <3>1, <3>2, <3>4 DEF Expected, call
  <2>5. pc # "connect"
    BY <1>10 DEF IInv
  <2> QED
    BY <2>2, <2>3, <2>4, <2>5 DEF Typed, Client
<1> QED
  BY <1>1, <1>10, OutsideInStep

LEMMA StepInStep ==
  ASSUME Typed, IInv, InStep, [Next]_vars
  PROVE  InStep'
<1>1. CASE Call(CmdLen) \/ CallEmpty
  BY <1>1, CallInStep DEF CallEmpty
<1>2. CASE Connect
  <2>1. /\ pc = "connect" /\ pc' = "send" /\ link' = NewLink
        /\ UNCHANGED <<own, proper, result>>
    BY <1>2 DEF Connect, call
  <2>2. Expected'
    BY <2>1 DEF Expected, NewLink
  <2> QED
    BY <2>1, <2>2 DEF InStep, Untouched, InStepReplyIsOwn
<1>3. CASE ConnectFails \/ SendRefused \/ SendError
  BY <1>3, UnlinkedInStep
     DEF ConnectFails, SendRefused, SendError, SendFails, FdAfterSend, TryAgain
<1>4. CASE SendNothing \/ SendTooShort
  BY <1>4, UnlinkedInStep DEF SendNothing, SendTooShort, Return, keep, call
<1>5. CASE Reading \/ ReadTimeout
  BY <1>5, ReadInStep DEF Reading
<1>6. CASE Reset
  <2>1. /\ UNCHANGED <<pc, call, fd, result, faulted>>
        /\ link'.pending = link.pending /\ link'.back = <<>>
    BY <1>6 DEF Reset, Typed, Linked, Links
  <2>2. ~faulted /\ fd # NoFd => Expected'
    <3> SUFFICES ASSUME ~faulted, fd # NoFd PROVE Expected'
      OBVIOUS
    <3>1. Expected
      BY DEF InStep
    <3>2. pc = "body" => 0 <= need
      BY DEF Typed, Client, Lengths, NoNumber
    <3> QED
      <4>1. PICK b : b = <<>>
        OBVIOUS
      <4>2. link'.back = b /\ Len(b) = 0 /\ b = <<>>
        BY <2>1, <4>1
      <4>3. pc = "body" => Len(link'.back) <= need
        BY <3>2, <4>2
      <4>4. \A i \in 1 .. Len(link'.back) : link'.back[i].own
        BY <4>2
      <4>5. OwnReply(link'.back)
        BY <4>2 DEF OwnReply
      <4> QED
        BY <2>1, <3>1, <4>2, <4>3, <4>4, <4>5 DEF Expected, call
  <2> QED
    BY <2>1, <2>2, OutsideInStep
<1>7. CASE UNCHANGED vars
  BY <1>7 DEF InStep, Untouched, InStepReplyIsOwn, Expected, vars, call
<1> QED
  BY <1>1, <1>2, <1>3, <1>4, <1>5, <1>6, <1>7, SendSomeInStep, AnswerInStep,
     PeerCloseInStep DEF Next, Sending

(* Calls in a row stay in step with the replies of their connection until  *)
(* one of them is late, cut, garbled or too long, for commands and replies *)
(* of every length.                                                        *)
THEOREM ChatInStepReplyIsOwn == Spec => []InStepReplyIsOwn
<1>1. Init => InStep
  BY InitInStep
<1>2. Typed /\ IInv /\ InStep /\ [Next]_vars => InStep'
  BY StepInStep
<1>3. InStep => InStepReplyIsOwn
  BY DEF InStep, Untouched
<1> QED
  BY <1>1, <1>2, <1>3, ChatTyped, PTL DEF Spec
=============================================================================
