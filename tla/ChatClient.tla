----------------------------- MODULE ChatClient -----------------------------
(***************************************************************************)
(* The synchronous client of gingko_base.cpp.  chat_fd keeps its           *)
(* descriptor from call to call, chat_with_host connects anew for each;    *)
(* either sends a command and reads one reply, head and body, from a peer  *)
(* that answers in order, late or never, badly or well, and may close at   *)
(* any moment.  sendcmd2host connects, sends, and reads nothing.           *)
(*                                                                         *)
(* Bytes come in units of a head.  Whose reply a unit belongs to is told   *)
(* only from the call under way: own, or left over from an earlier one.    *)
(***************************************************************************)
EXTENDS Integers, Sequences

CONSTANTS
  CmdLen,     (* units of a command                                        *)
  BodyLens,   (* units the body of a reply may have                        *)
  MaxBody,    (* units the caller's response buffer holds                  *)
  MaxPending, (* commands the sockets hold between client and peer         *)
  MaxBack,    (* units they hold on the way back                           *)
  Env         (* what else may go wrong in this instance                   *)

EnvKinds == {"late",        \* a reply does not come within the time-out
             "garbled",     \* a head is not a row of digits
             "close",       \* the peer closes a connection
             "no_host",     \* connect_host fails
             "send_error",  \* the network fails a send
             "empty_cmd"}   \* a call has no command, cmd_len = 0

ASSUME ChatAssumption ==
  /\ CmdLen \in Nat \ {0}
  /\ BodyLens \subseteq Nat /\ MaxBody \in Nat
  /\ MaxPending \in Nat \ {0}
  /\ MaxBack \in Nat /\ \A n \in BodyLens : n < MaxBack
  /\ Env \subseteq EnvKinds

NoFd == -1
Sock == 3          \* the descriptor, when there is one
NoNumber == -1     \* parse_cmd_head: not a row of digits

VARIABLES
  api,       (* the function the client calls                              *)
  pc,        (* where the call under way is                                *)
  retries,   (* i of chat_fd: how often it will still send again           *)
  sz,        (* units of the command to send                               *)
  counter,   (* send_counter of sendall                                    *)
  fd,        (* *fd, or the local sock of chat_with_host                   *)
  open,      (* sockets the client has open                                *)
  link,      (* the connection behind fd                                   *)
  need,      (* units of the body readcmd is still to read                 *)
  own,       (* every unit the call has read is of its own reply           *)
  proper,    (* it began with a head                                       *)
  result,    (* what the call returned                                     *)
  delivered, (* how often its command reached a peer whole, up to 2        *)
  faulted    (* a reply of this connection was late, cut, garbled or too   *)
             (* long for its caller                                        *)

call == <<retries, sz, counter, need, own, proper>>
vars == <<api, pc, call, fd, open, link, result, delivered, faulted>>

Apis == {"chat_fd", "chat_with_host", "sendcmd2host"}

keep == api = "chat_fd"     \* the descriptor outlives the call

NewLink == [peer |-> "up", pending |-> <<>>, back |-> <<>>]

-----------------------------------------------------------------------------
(* Wrong on purpose: definitions below with a bug that could be made in    *)
(* their code, each of which must break a property.                        *)

(* connect_host without the close() at CONNECT_END                         *)
LeftOpenUnclosed == open + 1

(* sendall that loops while (send_counter <= sz)                           *)
AllSentLate(n) == n > sz

(* readcmd that takes the head for part of the length it gives             *)
BodyOfHeadIn(n) == n - 1

(* send2host_fd that leaves *fd as it is when sendall fails                *)
FdAfterSendStale == fd

-----------------------------------------------------------------------------
Init ==
  /\ api \in Apis
  /\ pc = "idle" /\ retries = 0 /\ sz = 0 /\ counter = 0
  /\ fd = NoFd /\ open = 0 /\ link = NewLink
  /\ need = 0 /\ own = TRUE /\ proper = TRUE
  /\ result = "none" /\ delivered = 0 /\ faulted = FALSE

(* What was own is left over once another call begins                      *)
LeftOver(l) ==
  [l EXCEPT !.pending = [i \in DOMAIN @ |-> FALSE],
            !.back = [i \in DOMAIN @ |-> [@[i] EXCEPT !.own = FALSE]]]

(* A call: chat_fd on a descriptor it has goes straight to sendall         *)
Call(len) ==
  /\ pc = "idle"
  /\ pc' = IF fd = NoFd THEN "connect" ELSE "send"
  /\ retries' = IF keep THEN 1 ELSE 0
  /\ sz' = len /\ counter' = 0
  /\ need' = 0 /\ own' = TRUE /\ proper' = TRUE
  /\ result' = "none" /\ delivered' = 0
  /\ link' = LeftOver(link)
  /\ UNCHANGED <<api, fd, open, faulted>>

(* The call returns.  All but chat_fd close their socket first.            *)
Return(r) ==
  /\ pc' = "idle" /\ result' = r
  /\ IF keep \/ fd = NoFd THEN UNCHANGED <<fd, open>>
     ELSE fd' = NoFd /\ open' = open - 1

(* send2host_fd, or the connect of chat_with_host, has failed: once more,  *)
(* or -1                                                                   *)
TryAgain ==
  IF retries > 0
  THEN /\ retries' = retries - 1 /\ counter' = 0
       /\ pc' = IF fd' = NoFd THEN "connect" ELSE "send"
       /\ UNCHANGED result
  ELSE pc' = "idle" /\ result' = "fail" /\ UNCHANGED <<retries, counter>>

Connect ==
  /\ pc = "connect"
  /\ fd' = Sock /\ open' = open + 1 /\ link' = NewLink
  /\ faulted' = FALSE
  /\ pc' = "send"
  /\ UNCHANGED <<api, call, result, delivered>>

(* A connect_host that fails closes the socket it has made                 *)
LeftOpen == open

ConnectFails ==
  /\ pc = "connect" /\ "no_host" \in Env
  /\ fd' = NoFd /\ open' = LeftOpen
  /\ TryAgain
  /\ UNCHANGED <<api, sz, need, own, proper, link, delivered, faulted>>

-----------------------------------------------------------------------------
(* sendall                                                                 *)

AllSent(n) == n >= sz

(* What send() does to the other end when the n-th unit goes: the last one *)
(* makes the command whole, and one sent to a closed end brings a reset    *)
Carried(n) ==
  CASE link.peer = "closed" -> [link EXCEPT !.peer = "hit"]
    [] link.peer = "up" /\ n = sz /\ n > counter ->
         [link EXCEPT !.pending = Append(@, TRUE)]
    [] OTHER -> link

Room == link.peer # "up" \/ Len(link.pending) < MaxPending

(* One turn of its loop                                                    *)
SendSome ==
  /\ pc = "send" /\ sz > 0 /\ Room /\ link.peer # "reset"
  /\ \E n \in counter .. sz :
       /\ n > counter \/ counter = sz
       /\ counter' = n
       /\ link' = Carried(n)
       /\ delivered' = IF link.peer = "up" /\ n = sz /\ n > counter
                          /\ delivered < 2
                       THEN delivered + 1 ELSE delivered
       /\ \/ ~AllSent(n) /\ UNCHANGED <<pc, fd, open, result>>
          \/ AllSent(n) /\ api = "sendcmd2host" /\ Return("ok")
          \/ /\ AllSent(n) /\ api # "sendcmd2host"
             /\ pc' = "head" /\ UNCHANGED <<fd, open, result>>
  /\ UNCHANGED <<api, retries, sz, need, own, proper, faulted>>

(* After a sendall that returned 0 or less: close_socket, *fd = -1         *)
FdAfterSend == NoFd

SendFails ==
  /\ fd' = FdAfterSend
  /\ open' = IF fd' = NoFd THEN open - 1 ELSE open
  /\ TryAgain
  /\ UNCHANGED <<api, sz, need, own, proper, link, delivered, faulted>>

(* A full socket times out, a reset one fails                              *)
Refusing == ~Room \/ link.peer \in {"hit", "reset"}

SendRefused ==
  /\ pc = "send" /\ sz > 0 /\ Refusing
  /\ SendFails

SendError ==
  /\ pc = "send" /\ sz > 0 /\ ~Refusing /\ "send_error" \in Env
  /\ SendFails

(* sendall returns 0 for nothing: send2host_fd closes, but chat_fd goes on *)
(* to read from descriptor -1                                              *)
SendNothing ==
  /\ pc = "send" /\ sz = 0 /\ keep
  /\ fd' = NoFd /\ open' = open - 1
  /\ pc' = "head"
  /\ UNCHANGED <<api, call, link, result, delivered, faulted>>

(* The others, once connected, take a text no longer than PREFIX_CMD for   *)
(* an error of snprintf, and send nothing                                  *)
SendTooShort ==
  /\ pc = "send" /\ sz = 0 /\ ~keep
  /\ Return("fail")
  /\ UNCHANGED <<api, call, link, delivered, faulted>>

-----------------------------------------------------------------------------
(* readcmd                                                                 *)

Unit == Head(link.back)

Take == link' = [link EXCEPT !.back = Tail(@)]

Readable == fd # NoFd /\ link.peer # "reset" /\ link.back # <<>>

(* What parse_cmd_head makes of a unit: a body is no number                *)
MsgLen == IF Unit.kind = "head" THEN Unit.len ELSE NoNumber

BodyOf(n) == n

(* The head.  One that is no number passes the test against max_len, and a *)
(* body of no length is read at once: 0 is returned for both.              *)
ReadHead ==
  /\ pc = "head" /\ Readable /\ Take
  /\ own' = Unit.own /\ proper' = (MsgLen # NoNumber)
  /\ need' = BodyOf(MsgLen)
  /\ faulted' = (faulted \/ (Unit.own /\ MsgLen \notin 0 .. MaxBody))
  /\ \/ MsgLen > MaxBody /\ Return("fail")
     \/ MsgLen <= MaxBody /\ need' <= 0 /\ Return("ok")
     \/ /\ MsgLen <= MaxBody /\ need' > 0
        /\ pc' = "body" /\ UNCHANGED <<fd, open, result>>
  /\ UNCHANGED <<api, retries, sz, counter, delivered>>

ReadBody ==
  /\ pc = "body" /\ Readable /\ Take
  /\ own' = (own /\ Unit.own)
  /\ need' = need - 1
  /\ IF need = 1 THEN Return("ok") ELSE UNCHANGED <<pc, fd, open, result>>
  /\ UNCHANGED <<api, retries, sz, counter, proper, delivered, faulted>>

(* readall failed: chat_fd returns -1 and keeps the descriptor             *)
ReadFails ==
  /\ pc \in {"head", "body"}
  /\ Return("fail")
  /\ faulted' = TRUE
  /\ UNCHANGED <<api, call, link, delivered>>

(* recv() returns 0 or an error, poll() of descriptor -1 times out         *)
Ended ==
  \/ fd = NoFd \/ link.peer = "reset"
  \/ link.peer # "up" /\ link.back = <<>>

ReadEnd == Ended /\ ReadFails

ReadTimeout == ~Ended /\ "late" \in Env /\ ReadFails

-----------------------------------------------------------------------------
(* The peer, and the network.                                              *)

Reply(mine, len, n) ==
  <<[own |-> mine, kind |-> "head", len |-> len]>>
  \o [i \in 1 .. n |-> [own |-> mine, kind |-> "body", len |-> 0]]

Answer ==
  /\ fd # NoFd /\ link.peer = "up" /\ link.pending # <<>>
  /\ \E n \in BodyLens, garbled \in {FALSE} \cup {"garbled" \in Env} :
       /\ Len(link.back) + 1 + n <= MaxBack
       /\ link' = [link EXCEPT
            !.pending = Tail(@),
            !.back = @ \o Reply(Head(link.pending),
                                IF garbled THEN NoNumber ELSE n, n)]
  /\ UNCHANGED <<api, pc, call, fd, open, result, delivered, faulted>>

(* The peer closes, in the midst of a reply perhaps                        *)
PeerClose ==
  /\ fd # NoFd /\ link.peer = "up" /\ "close" \in Env
  /\ \E n \in 0 .. Len(link.back) :
       link' = [peer |-> "closed", pending |-> <<>>,
                back |-> SubSeq(link.back, 1, n)]
  /\ UNCHANGED <<api, pc, call, fd, open, result, delivered, faulted>>

(* The reset for what was sent to a closed end arrives                     *)
Reset ==
  /\ fd # NoFd /\ link.peer = "hit"
  /\ link' = [link EXCEPT !.peer = "reset", !.back = <<>>]
  /\ UNCHANGED <<api, pc, call, fd, open, result, delivered, faulted>>

Sending == SendSome \/ SendRefused \/ SendNothing \/ SendTooShort

Reading == ReadHead \/ ReadBody \/ ReadEnd

CallEmpty == "empty_cmd" \in Env /\ Call(0)

Next ==
  \/ Call(CmdLen) \/ CallEmpty
  \/ Connect \/ ConnectFails
  \/ Sending \/ SendError
  \/ Reading \/ ReadTimeout
  \/ Answer \/ PeerClose \/ Reset

Spec == Init /\ [][Next]_vars

(* The client runs and calls again and again; the peer answers and the     *)
(* network carries what it has been given.                                 *)
FairSpec ==
  /\ Spec
  /\ WF_vars(Call(CmdLen) \/ CallEmpty)
  /\ WF_vars(Connect \/ ConnectFails)
  /\ WF_vars(Sending \/ SendError) /\ WF_vars(Reading \/ ReadTimeout)
  /\ WF_vars(Answer) /\ WF_vars(Reset)

-----------------------------------------------------------------------------
TypeOK ==
  /\ api \in Apis
  /\ pc \in {"idle", "connect", "send", "head", "body"}
  /\ retries \in 0 .. 1 /\ sz \in {0, CmdLen} /\ counter \in 0 .. CmdLen
  /\ fd \in {NoFd, Sock} /\ open \in Nat
  /\ link.peer \in {"up", "closed", "hit", "reset"}
  /\ link.pending \in Seq(BOOLEAN) /\ Len(link.pending) <= MaxPending
  /\ Len(link.back) <= MaxBack
  /\ need \in Nat \cup {NoNumber}
  /\ own \in BOOLEAN /\ proper \in BOOLEAN /\ faulted \in BOOLEAN
  /\ result \in {"none", "ok", "fail"} /\ delivered \in 0 .. 2

(* No socket is left behind: the client has one open exactly when it has   *)
(* its descriptor, and only chat_fd has one between calls.                 *)
DescriptorKept ==
  /\ open = IF fd = NoFd THEN 0 ELSE 1
  /\ ~keep /\ pc = "idle" => fd = NoFd

(* Sending again after a failed sendall never executes a command twice: a  *)
(* command that reached the peer whole is not sent again by its call.      *)
DeliveredOnce == delivered <= 1

(* As long as every reply of a connection came in time, was well formed    *)
(* and short enough, a call that succeeds has read its own reply: calls in *)
(* a row do not put one out of step.                                       *)
InStepReplyIsOwn == result = "ok" /\ ~faulted => own /\ proper

(* "send cmd msg to host, read response": a call that returns no error has *)
(* read the response to its command.                                       *)
ReplyIsOwn == result = "ok" => own /\ proper

(* The faults of the environment, and those of the caller: nothing to      *)
(* send, or too little room for the reply                                  *)
Fault ==
  \/ ConnectFails \/ SendError \/ ReadTimeout \/ PeerClose \/ CallEmpty
  \/ ReadHead /\ MsgLen > MaxBody

(* A client whose environment stops failing gets answers again, whatever   *)
(* state its connection is in: it never holds on to a dead descriptor.     *)
Recovers == []<><<Fault>>_vars \/ []<>(result = "ok")
=============================================================================
