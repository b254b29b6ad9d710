----------------------------- MODULE RateLimit ------------------------------
(***************************************************************************)
(* The limiters of limit.cpp: a caller says how many bytes it has moved    *)
(* and is held back until the window they fall into has lasted as long as  *)
(* they take at the rate allowed.  There are five, for the network down    *)
(* and up, the disk written and read, and the making of seeds, with one    *)
(* text: they differ in the names of their statics and of their mutex, and *)
(* share nothing.  A behaviour is about one of them, fn.                   *)
(*                                                                         *)
(* What is read of a clock is the wall clock, which may be set; what       *)
(* nanosleep waits for is real time.  A tick is the unit of both.          *)
(***************************************************************************)
EXTENDS Integers

CONSTANTS
  Callers,      (* threads that call the limiter                           *)
  NoCaller,
  Amounts,      (* bytes a call may be about                               *)
  Rate,         (* limit_rate: bytes per second; 0 would mean no limit     *)
  Second,       (* ticks of a second: 1000000                              *)
  ShortWait,    (* a wait too short to be worth its system call: 100       *)
  Thresh0, ThreshMin, ThreshMax,    (* 16384, 2048 and 32768 bytes         *)
  Wall0,        (* what the wall clock reads at first                      *)
  ClockSteps,   (* by how much the wall clock may be set forth or back     *)
  MaxSteps,     (* how often it is set                                     *)
  MaxCalls,     (* calls of a behaviour                                    *)
  MaxIdle       (* ticks during which nobody sleeps                        *)

ASSUME LimitAssumption ==
  /\ NoCaller \notin Callers
  /\ Amounts \subseteq Nat
  /\ Rate \in Nat \ {0} /\ Second \in Nat \ {0} /\ ShortWait \in Nat
  /\ Thresh0 \in Nat /\ ThreshMin \in Nat /\ ThreshMax \in Nat
  /\ ThreshMin <= Thresh0 /\ Thresh0 <= ThreshMax
  /\ Wall0 \in Nat \ {0} /\ ClockSteps \subseteq Int
  /\ MaxSteps \in Nat /\ MaxCalls \in Nat /\ MaxIdle \in Nat

Limiters == {"bw_down", "bw_up", "disk_w", "disk_r", "mk_seed"}

NotSet == 0    \* a timeval that is not set: the start before the first call

VARIABLES
  fn,       (* which limiter                                               *)
  start, lamt, thresh,   (* its statics                                    *)
  holder,   (* who holds its mutex and sleeps                              *)
  left,     (* ticks nanosleep has left                                    *)
  pc,       (* where each caller is                                        *)
  amount,   (* bytes its call is about                                     *)
  wall,     (* what gettimeofday reads                                     *)
  real,     (* ticks gone by                                               *)
  steps, calls, idle,    (* counters for MaxSteps, MaxCalls and MaxIdle    *)
  passed,   (* history: bytes counted in windows                           *)
  closed,   (*   of these, in windows that are over                        *)
  windows,  (*   how many windows are over                                 *)
  opened,   (*   when the first window began, in real time                 *)
  since,    (*   when the present one began, in real time                  *)
  forth, back  (*  ticks by which the clock has been set forth, and back   *)

statics == <<start, lamt, thresh>>
bounds == <<steps, calls, idle>>
history == <<passed, closed, windows, opened, since, forth, back>>
vars == <<fn, statics, holder, left, pc, amount, wall, real, bounds, history>>

-----------------------------------------------------------------------------
(* Wrong on purpose: definitions below with a bug that could be made in    *)
(* their code, each of which must break a property.                        *)

(* no lower bound on the threshold                                         *)
HalvedForEver(x) == x \div 2

(* a nanosleep that a signal has cut short is not gone on with             *)
SleptEnough == TRUE

(* down_lamt is not set to 0 with the new window                           *)
BytesKept == lamt

(* an early return that forgets the mutex                                  *)
ReturnLocked(t) ==
  /\ holder' = t /\ left' = 0
  /\ pc' = [pc EXCEPT ![t] = "idle"] /\ amount' = [amount EXCEPT ![t] = 0]

-----------------------------------------------------------------------------
Init ==
  /\ fn \in Limiters
  /\ start = NotSet /\ lamt = 0 /\ thresh = Thresh0
  /\ holder = NoCaller /\ left = 0
  /\ pc = [t \in Callers |-> "idle"] /\ amount = [t \in Callers |-> 0]
  /\ wall = Wall0 /\ real = 0
  /\ steps = 0 /\ calls = 0 /\ idle = 0
  /\ passed = 0 /\ closed = 0 /\ windows = 0 /\ opened = 0 /\ since = 0
  /\ forth = 0 /\ back = 0

(* A call, up to the lock.  One about nothing returns at once.             *)
Call(t, f) ==
  /\ fn = f /\ pc[t] = "idle" /\ calls < MaxCalls
  /\ calls' = calls + 1
  /\ \E n \in Amounts :
       IF n <= 0 THEN UNCHANGED <<pc, amount>>
       ELSE /\ pc' = [pc EXCEPT ![t] = "lock"]
            /\ amount' = [amount EXCEPT ![t] = n]
  /\ UNCHANGED <<fn, statics, holder, left, wall, real, steps, idle, history>>

bw_down_limit(t) == Call(t, "bw_down")
bw_up_limit(t) == Call(t, "bw_up")
disk_w_limit(t) == Call(t, "disk_w")
disk_r_limit(t) == Call(t, "disk_r")
mk_seed_limit(t) == Call(t, "mk_seed")

Locks(t) == pc[t] = "lock" /\ holder = NoCaller

Return(t) ==
  /\ holder' = NoCaller /\ left' = 0
  /\ pc' = [pc EXCEPT ![t] = "idle"] /\ amount' = [amount EXCEPT ![t] = 0]

(* The first call only opens a window; its bytes are not counted           *)
Open(t) ==
  /\ Locks(t) /\ start = NotSet
  /\ start' = wall /\ opened' = real /\ since' = real
  /\ Return(t)
  /\ UNCHANGED <<fn, lamt, thresh, wall, real, bounds>>
  /\ UNCHANGED <<passed, closed, windows, forth, back>>

Counted(t) == lamt + amount[t]

elapsed == wall - start

(* How long n bytes take                                                   *)
WaitLen(n) == (Second * n) \div Rate

(* Too few bytes to look at the clock, or the clock has not moved          *)
CountOnly(t) ==
  /\ Locks(t) /\ start # NotSet
  /\ Counted(t) < thresh \/ elapsed = 0
  /\ lamt' = Counted(t) /\ passed' = passed + amount[t]
  /\ Return(t)
  /\ UNCHANGED <<fn, start, thresh, wall, real, bounds>>
  /\ UNCHANGED <<closed, windows, opened, since, forth, back>>

Halved(x) == IF x \div 2 < ThreshMin THEN ThreshMin ELSE x \div 2
Doubled(x) == IF 2 * x > ThreshMax THEN ThreshMax ELSE 2 * x

(* Fewer looks at the clock when waits are short, more when they are long  *)
Adjusted(wait) ==
  IF wait \div Second # 0 THEN Halved(thresh)
  ELSE IF wait % Second < ShortWait THEN Doubled(thresh) ELSE thresh

Due(t) ==
  Locks(t) /\ start # NotSet /\ Counted(t) >= thresh /\ elapsed # 0

Forgotten == 0     \* what is left of down_lamt in a new window

(* The window ends and the next begins                                     *)
NewWindow ==
  /\ lamt' = Forgotten /\ start' = wall
  /\ closed' = passed' /\ windows' = windows + 1 /\ since' = real
  /\ UNCHANGED <<opened, forth, back>>

(* The bytes have taken at least as long as they may                       *)
InTime(t) ==
  /\ Due(t) /\ WaitLen(Counted(t)) <= elapsed
  /\ passed' = passed + amount[t]
  /\ NewWindow
  /\ Return(t)
  /\ UNCHANGED <<fn, thresh, wall, real, bounds>>

(* They have not: the caller sleeps, and keeps the mutex                   *)
Sleep(t) ==
  /\ Due(t) /\ WaitLen(Counted(t)) > elapsed
  /\ LET wait == WaitLen(Counted(t)) - elapsed
     IN thresh' = Adjusted(wait) /\ left' = wait
  /\ holder' = t /\ pc' = [pc EXCEPT ![t] = "asleep"]
  /\ lamt' = Counted(t) /\ passed' = passed + amount[t]
  /\ UNCHANGED <<fn, start, amount, wall, real, bounds>>
  /\ UNCHANGED <<closed, windows, opened, since, forth, back>>

(* nanosleep is called again with the rest after a signal                  *)
Slept == left = 0

Wake(t) ==
  /\ pc[t] = "asleep" /\ Slept
  /\ UNCHANGED passed /\ NewWindow
  /\ Return(t)
  /\ UNCHANGED <<fn, thresh, wall, real, bounds>>

-----------------------------------------------------------------------------
Tick ==
  /\ real' = real + 1 /\ wall' = wall + 1
  /\ IF holder # NoCaller THEN left > 0 /\ left' = left - 1 /\ UNCHANGED idle
     ELSE idle < MaxIdle /\ idle' = idle + 1 /\ UNCHANGED left
  /\ UNCHANGED <<fn, statics, holder, pc, amount, steps, calls, history>>

(* The administrator, or a time server, sets the wall clock                *)
SetClock ==
  /\ steps < MaxSteps /\ steps' = steps + 1
  /\ \E d \in ClockSteps :
       /\ wall' = wall + d /\ wall' > 0
       /\ IF d > 0 THEN forth' = forth + d /\ UNCHANGED back
          ELSE back' = back - d /\ UNCHANGED forth
  /\ UNCHANGED <<fn, statics, holder, left, pc, amount, real, calls, idle>>
  /\ UNCHANGED <<passed, closed, windows, opened, since>>

Calls(t) ==
  \/ bw_down_limit(t) \/ bw_up_limit(t) \/ disk_w_limit(t)
  \/ disk_r_limit(t) \/ mk_seed_limit(t)

Locked(t) == Open(t) \/ CountOnly(t) \/ InTime(t) \/ Sleep(t)

Next ==
  \/ \E t \in Callers : Calls(t) \/ Locked(t) \/ Wake(t)
  \/ Tick \/ SetClock

Spec == Init /\ [][Next]_vars

(* Threads go on, time passes.  A mutex that is free infinitely often is   *)
(* got; since calls are bounded, weak fairness says as much.               *)
FairSpec ==
  /\ Spec
  /\ WF_vars(Tick)
  /\ \A t \in Callers : WF_vars(Locked(t)) /\ WF_vars(Wake(t))

-----------------------------------------------------------------------------
TypeOK ==
  /\ fn \in Limiters
  /\ start \in Nat /\ lamt \in Nat
  /\ thresh \in ThreshMin .. ThreshMax
  /\ holder \in Callers \cup {NoCaller} /\ left \in Nat
  /\ pc \in [Callers -> {"idle", "lock", "asleep"}]
  /\ amount \in [Callers -> Nat]
  /\ wall \in Nat \ {0} /\ real \in Nat
  /\ steps \in Nat /\ calls \in Nat /\ idle \in Nat
  /\ passed \in Nat /\ closed \in Nat /\ windows \in Nat
  /\ opened \in Nat /\ since \in Nat /\ forth \in Nat /\ back \in Nat

(* The rate is kept: what has gone through in windows that are over took   *)
(* at least as long, in real time, as it may at the rate allowed, but for  *)
(* a tick a window that rounding gives away and the time by which the      *)
(* clock was set forth.                                                    *)
Paced == Second * closed <= Rate * (since - opened + windows + forth)

(* Nobody is held back for bytes of an earlier window, nor longer than the *)
(* bytes of this one take, but for the time by which the clock was set     *)
(* back: that is added to a wait during which all other callers wait.      *)
WaitIsOwed == left <= WaitLen(passed - closed) + back

(* Every call returns, although the mutex is held during the sleep and     *)
(* whichever way the clock is set.                                         *)
CallReturns == \A t \in Callers : pc[t] # "idle" ~> pc[t] = "idle"
=============================================================================
