-------------------------- MODULE RateLimitProofs ---------------------------
(***************************************************************************)
(* A limiter keeps its rate and holds nobody back for longer than his      *)
(* window's bytes take, for any rate, any threads and amounts, and         *)
(* whatever is done to the wall clock.                                     *)
(***************************************************************************)
EXTENDS RateLimit, TLAPS

(* Who sleeps has the mutex, and without a sleeper nothing is left.        *)
Sleeper ==
  /\ \A t \in Callers : pc[t] = "asleep" => holder = t
  /\ holder # NoCaller => pc[holder] = "asleep"
  /\ holder = NoCaller => left = 0

(* down_lamt counts the present window                                     *)
Balance == lamt = passed - closed /\ closed <= passed

Untouched == start = NotSet => closed = 0 /\ passed = 0 /\ holder = NoCaller

(* The two clocks, for a window before which the wall clock had been set   *)
(* forth by f and back by b, the rate of the windows before it, and how    *)
(* far the sleeper has come                                                *)
Window(f, b) ==
  /\ 0 <= f /\ f <= forth /\ 0 <= b /\ b <= back
  /\ start # NotSet => start = Wall0 + since + f - b
  /\ Second * closed <= Rate * (since - opened + windows + f)
  /\ holder # NoCaller => WaitLen(lamt) <= real - since + (forth - f) + left

Clocks ==
  /\ wall = Wall0 + real + forth - back
  /\ opened <= since /\ since <= real
  /\ \E f, b \in Nat : Window(f, b)

(* Paced needs that each window is right by itself and that no step of the *)
(* clock is counted for two of them: so Window remembers what the clock    *)
(* had been set by when it began.                                          *)
IInv == TypeOK /\ Sleeper /\ Balance /\ Untouched /\ Clocks /\ WaitIsOwed

-----------------------------------------------------------------------------
(* Arithmetic the steps rest on.                                           *)

LEMMA DivLemma ==
  ASSUME NEW a \in Nat, NEW b \in Nat \ {0}
  PROVE  a \div b \in Nat /\ a < b * ((a \div b) + 1) /\ b * (a \div b) <= a
BY Z3

LEMMA Distribute ==
  ASSUME NEW r \in Int, NEW x \in Int, NEW y \in Int
  PROVE  r * (x + y) = r * x + r * y
BY Z3

LEMMA Monotone ==
  ASSUME NEW r \in Nat, NEW x \in Int, NEW y \in Int, x <= y
  PROVE  r * x <= r * y
<1>1. PICK d \in Nat : y = x + d
  BY SMT
<1>2. r * y = r * x + r * d
  BY <1>1, Distribute
<1>3. r * d >= 0 /\ r * d \in Int /\ r * x \in Int
  BY Z3
<1> QED
  BY <1>2, <1>3

(* n bytes take longer than WaitLen(n), but less than a tick more          *)
LEMMA WaitLenLemma ==
  ASSUME NEW n \in Nat
  PROVE  /\ WaitLen(n) \in Nat
         /\ Second * n <= Rate * (WaitLen(n) + 1)
<1>1. Second * n \in Nat
  BY LimitAssumption, Z3
<1> QED
  BY <1>1, DivLemma, LimitAssumption DEF WaitLen

(* A window of n bytes that has taken as long as they may ends: what the   *)
(* rate of all windows was before, it is after.                            *)
LEMMA WindowEnds ==
  ASSUME NEW c \in Nat, NEW n \in Nat, NEW base \in Int, NEW w \in Int,
         Second * c <= Rate * base,
         WaitLen(n) <= w
  PROVE  Second * (c + n) <= Rate * (base + w + 1)
<1>1. Second * (c + n) = Second * c + Second * n
  BY Distribute, LimitAssumption
<1>2. Second * n <= Rate * (WaitLen(n) + 1) /\ WaitLen(n) \in Nat
  BY WaitLenLemma
<1>3. Rate * (WaitLen(n) + 1) <= Rate * (w + 1)
  BY <1>2, Monotone, LimitAssumption
<1>4. Rate * (base + (w + 1)) = Rate * base + Rate * (w + 1)
  BY Distribute, LimitAssumption
<1>5. base + (w + 1) = base + w + 1
  OBVIOUS
<1>6. /\ Second * c \in Int /\ Second * n \in Int /\ Rate * base \in Int
      /\ Rate * (w + 1) \in Int /\ Rate * (WaitLen(n) + 1) \in Int
  BY <1>2, LimitAssumption, Z3
<1> QED
  BY <1>1, <1>2, <1>3, <1>4, <1>5, <1>6

-----------------------------------------------------------------------------
LEMMA InitIInv == Init => IInv
<1> SUFFICES ASSUME Init PROVE IInv
  OBVIOUS
<1> USE LimitAssumption
<1>1. TypeOK
  BY DEF Init, TypeOK, NotSet, Limiters
<1>2. Sleeper /\ Balance /\ Untouched
  BY DEF Init, Sleeper, Balance, Untouched
<1>3. WaitLen(0) \in Nat
  BY WaitLenLemma
<1>4. Second * 0 <= Rate * 0
  BY Z3
<1>5. Window(0, 0)
  BY <1>4 DEF Init, Window
<1>6. Clocks
  BY <1>5 DEF Init, Clocks
<1> QED
  BY <1>1, <1>2, <1>3, <1>6 DEF IInv, WaitIsOwed, Init

LEMMA CallIInv ==
  ASSUME IInv, NEW t \in Callers, NEW f \in Limiters, Call(t, f)
  PROVE  IInv'
<1> USE LimitAssumption DEF IInv
<1>1. UNCHANGED <<fn, statics, holder, left, wall, real, steps, idle, history>>
  BY DEF Call
<1>2. PICK n \in Amounts :
        \/ UNCHANGED <<pc, amount>>
        \/ /\ pc' = [pc EXCEPT ![t] = "lock"]
           /\ amount' = [amount EXCEPT ![t] = n]
  BY DEF Call
<1>3. pc[t] = "idle" /\ calls' = calls + 1
  BY DEF Call
<1>4. TypeOK'
  BY <1>1, <1>2, <1>3 DEF TypeOK, statics, history
<1>5. Sleeper'
  BY <1>1, <1>2, <1>3 DEF Sleeper, TypeOK
<1>6. (Balance /\ Untouched /\ WaitIsOwed)'
  BY <1>1 DEF Balance, Untouched, WaitIsOwed, WaitLen, statics, history
<1>7. Clocks'
  BY <1>1 DEF Clocks, Window, WaitLen, statics, history
<1> QED
  BY <1>4, <1>5, <1>6, <1>7

(* A caller who returns without having slept: the others are where they    *)
(* were, and nobody has the mutex.                                         *)
LEMMA ReturnSleeper ==
  ASSUME TypeOK, Sleeper, NEW t \in Callers, Return(t),
         holder = NoCaller \/ holder = t
  PROVE  /\ Sleeper'
         /\ holder' = NoCaller /\ left' = 0
         /\ pc' \in [Callers -> {"idle", "lock", "asleep"}]
         /\ amount' \in [Callers -> Nat]
BY LimitAssumption DEF TypeOK, Sleeper, Return

LEMMA OpenIInv ==
  ASSUME IInv, NEW t \in Callers, Open(t)
  PROVE  IInv'
<1> USE LimitAssumption DEF IInv
<1>1. /\ start = NotSet /\ holder = NoCaller
      /\ start' = wall /\ opened' = real /\ since' = real
      /\ UNCHANGED <<fn, lamt, thresh, wall, real, bounds>>
      /\ UNCHANGED <<passed, closed, windows, forth, back>>
  BY DEF Open, Locks
<1>2. /\ Sleeper' /\ holder' = NoCaller /\ left' = 0
      /\ pc' \in [Callers -> {"idle", "lock", "asleep"}]
      /\ amount' \in [Callers -> Nat]
  BY <1>1, ReturnSleeper DEF Open
<1>3. TypeOK'
  BY <1>1, <1>2 DEF TypeOK, bounds
<1>4. closed = 0 /\ passed = 0 /\ lamt = 0
  BY <1>1 DEF Untouched, Balance, TypeOK
<1>5. (Balance /\ Untouched)'
  BY <1>1, <1>4 DEF Balance, Untouched, TypeOK, NotSet
<1>6. WaitIsOwed'
  BY <1>1, <1>2, <1>4, WaitLenLemma DEF WaitIsOwed, WaitLen, TypeOK
<1>7. Second * 0 = 0 /\ Rate * (windows + forth) >= 0
  <2>1. Rate * 0 <= Rate * (windows + forth)
    BY Monotone DEF TypeOK
  <2>2. Rate * 0 = 0 /\ Second * 0 = 0
    BY Z3
  <2> QED
    BY <2>1, <2>2
<1>8. Window(forth, back)'
  <2>1. real - real + windows + forth = windows + forth
    BY DEF TypeOK
  <2> QED
    BY <1>1, <1>2, <1>4, <1>7, <2>1 DEF Window, Clocks, TypeOK
<1>9. Clocks'
  BY <1>1, <1>8 DEF Clocks, TypeOK
<1> QED
  BY <1>2, <1>3, <1>5, <1>6, <1>9

LEMMA CountOnlyIInv ==
  ASSUME IInv, NEW t \in Callers, CountOnly(t)
  PROVE  IInv'
<1> USE LimitAssumption DEF IInv
<1>1. /\ holder = NoCaller /\ start # NotSet
      /\ lamt' = lamt + amount[t] /\ passed' = passed + amount[t]
      /\ UNCHANGED <<fn, start, thresh, wall, real, bounds>>
      /\ UNCHANGED <<closed, windows, opened, since, forth, back>>
  BY DEF CountOnly, Locks, Counted
<1>2. /\ Sleeper' /\ holder' = NoCaller /\ left' = 0
      /\ pc' \in [Callers -> {"idle", "lock", "asleep"}]
      /\ amount' \in [Callers -> Nat]
  BY <1>1, ReturnSleeper DEF CountOnly
<1>3. amount[t] \in Nat
  BY DEF TypeOK
<1>4. TypeOK'
  BY <1>1, <1>2, <1>3 DEF TypeOK, bounds
<1>5. (Balance /\ Untouched)'
  BY <1>1, <1>3 DEF Balance, Untouched, TypeOK
<1>6. WaitIsOwed'
  <2>1. (passed - closed)' \in Nat
    BY <1>4, <1>5 DEF TypeOK, Balance
  <2>2. WaitLen((passed - closed)') \in Nat
    BY <2>1, WaitLenLemma
  <2> QED
    BY <1>1, <1>2, <2>2 DEF WaitIsOwed, WaitLen, TypeOK
<1>7. Clocks'
  BY <1>1, <1>2 DEF Clocks, Window
<1> QED
  BY <1>2, <1>4, <1>5, <1>6, <1>7

(* A window ends after as long as its bytes may take, by the clock or by   *)
(* what nanosleep has added to it.                                         *)
LEMMA NewWindowIInv ==
  ASSUME IInv, NEW t \in Callers, NewWindow, Return(t),
         holder = NoCaller \/ holder = t,
         start # NotSet,
         NEW p \in Nat, passed' = p, p >= closed,
         NEW f \in Nat, NEW b \in Nat, Window(f, b),
         WaitLen(p - closed) <= real - since + (forth - f),
         UNCHANGED <<fn, thresh, wall, real, bounds>>
  PROVE  IInv'
<1> USE LimitAssumption DEF IInv
<1>1. /\ lamt' = 0 /\ start' = wall
      /\ closed' = p /\ passed' = p /\ windows' = windows + 1 /\ since' = real
      /\ UNCHANGED <<opened, forth, back>>
      /\ UNCHANGED <<fn, thresh, wall, real, bounds>>
  BY Zenon DEF NewWindow, Forgotten
<1>2. /\ Sleeper' /\ holder' = NoCaller /\ left' = 0
      /\ pc' \in [Callers -> {"idle", "lock", "asleep"}]
      /\ amount' \in [Callers -> Nat]
  BY ReturnSleeper
<1>3. TypeOK'
  BY <1>1, <1>2 DEF TypeOK, bounds
<1>4. (Balance /\ Untouched)'
  BY <1>1 DEF Balance, Untouched, TypeOK, NotSet
<1>5. WaitIsOwed'
  <2>1. (passed - closed)' = 0 /\ WaitLen(0) \in Nat
    BY <1>1, WaitLenLemma
  <2> QED
    BY <1>1, <1>2, <2>1 DEF WaitIsOwed, WaitLen, TypeOK
<1>6. Second * closed' <= Rate * (since' - opened' + windows' + forth')
  <2> DEFINE n == p - closed
             base == since - opened + windows + f
             w == real - since + (forth - f)
  <2>1. n \in Nat /\ base \in Int /\ w \in Int /\ closed \in Nat
    BY DEF TypeOK
  <2>2. Second * closed <= Rate * base /\ WaitLen(n) <= w
    BY DEF Window
  <2> HIDE DEF n, base, w
  <2>3. Second * (closed + n) <= Rate * (base + w + 1)
    BY <2>1, <2>2, WindowEnds
  <2>4. /\ closed + n = closed'
        /\ base + w + 1 = since' - opened' + windows' + forth'
    BY <1>1 DEF TypeOK, n, base, w
  <2> QED
    BY <2>3, <2>4
<1>7. Window(forth, back)'
  <2>1. start' = Wall0 + since' + forth' - back'
    BY <1>1 DEF Clocks, TypeOK
  <2>2. 0 <= forth' /\ forth' <= forth' /\ 0 <= back' /\ back' <= back'
    BY <1>1 DEF TypeOK
  <2> QED
    BY <1>2, <1>6, <2>1, <2>2 DEF Window
<1>8. Clocks'
  BY <1>1, <1>7, <1>3 DEF Clocks, TypeOK
<1> QED
  BY <1>2, <1>3, <1>4, <1>5, <1>8

LEMMA InTimeIInv ==
  ASSUME IInv, NEW t \in Callers, InTime(t)
  PROVE  IInv'
<1> USE LimitAssumption DEF IInv
<1>1. /\ holder = NoCaller /\ start # NotSet
      /\ WaitLen(lamt + amount[t]) <= wall - start
      /\ passed' = passed + amount[t] /\ NewWindow /\ Return(t)
      /\ UNCHANGED <<fn, thresh, wall, real, bounds>>
  BY DEF InTime, Due, Locks, Counted, elapsed
<1>2. PICK f \in Nat, b \in Nat : Window(f, b)
  BY DEF Clocks
<1> DEFINE p == passed + amount[t]
<1>3. /\ p \in Nat /\ p >= closed
      /\ p - closed = lamt + amount[t] /\ lamt + amount[t] \in Nat
  BY DEF Balance, TypeOK
<1>4. wall - start <= real - since + (forth - f)
  BY <1>1, <1>2 DEF Window, Clocks, TypeOK
<1>5. WaitLen(lamt + amount[t]) \in Nat
  BY <1>3, WaitLenLemma
<1>6. WaitLen(p - closed) <= real - since + (forth - f)
  <2>1. WaitLen(p - closed) = WaitLen(lamt + amount[t])
    BY <1>3
  <2> QED
    BY <1>1, <1>4, <1>5, <2>1 DEF TypeOK
<1> QED
  BY <1>1, <1>2, <1>3, <1>6, NewWindowIInv

LEMMA WakeIInv ==
  ASSUME IInv, NEW t \in Callers, Wake(t)
  PROVE  IInv'
<1> USE LimitAssumption DEF IInv
<1>1. /\ holder = t /\ holder # NoCaller /\ left = 0
      /\ passed' = passed /\ NewWindow /\ Return(t)
      /\ UNCHANGED <<fn, thresh, wall, real, bounds>>
  BY DEF Wake, Slept, Sleeper
<1>2. PICK f \in Nat, b \in Nat : Window(f, b)
  BY DEF Clocks
<1>3. start # NotSet
  BY <1>1 DEF Untouched
<1>4. passed \in Nat /\ passed >= closed /\ passed - closed = lamt
  BY DEF Balance, TypeOK
<1>5. WaitLen(passed - closed) <= real - since + (forth - f)
  BY <1>1, <1>2, <1>4 DEF Window, TypeOK
<1> QED
  BY <1>1, <1>2, <1>3, <1>4, <1>5, NewWindowIInv

(* The threshold stays between its bounds.                                 *)
LEMMA AdjustedLemma ==
  ASSUME NEW wait \in Nat, thresh \in ThreshMin .. ThreshMax
  PROVE  Adjusted(wait) \in ThreshMin .. ThreshMax
<1>1. thresh \in Nat
  BY LimitAssumption
<1>2. thresh \div 2 \in Nat /\ thresh \div 2 <= thresh
  BY <1>1
<1>3. Halved(thresh) \in ThreshMin .. ThreshMax
  BY <1>1, <1>2, LimitAssumption DEF Halved
<1>4. Doubled(thresh) \in ThreshMin .. ThreshMax
  BY <1>1, LimitAssumption DEF Doubled
<1> QED
  BY <1>3, <1>4 DEF Adjusted

LEMMA SleepIInv ==
  ASSUME IInv, NEW t \in Callers, Sleep(t)
  PROVE  IInv'
<1> USE LimitAssumption DEF IInv
<1> DEFINE len == WaitLen(lamt + amount[t])
           wait == len - (wall - start)
<1>1. /\ holder = NoCaller /\ start # NotSet
      /\ len > wall - start
      /\ thresh' = Adjusted(wait) /\ left' = wait
      /\ holder' = t /\ pc' = [pc EXCEPT ![t] = "asleep"]
      /\ lamt' = lamt + amount[t] /\ passed' = passed + amount[t]
      /\ UNCHANGED <<fn, start, amount, wall, real, bounds>>
      /\ UNCHANGED <<closed, windows, opened, since, forth, back>>
  BY DEF Sleep, Due, Locks, Counted, elapsed
<1>2. lamt + amount[t] \in Nat
  BY DEF TypeOK
<1>3. len \in Nat
  BY <1>2, WaitLenLemma
<1>4. PICK f \in Nat, b \in Nat : Window(f, b)
  BY DEF Clocks
<1>5. wait \in Nat
  <2> HIDE DEF len
  <2> QED
    BY <1>1, <1>3 DEF TypeOK
<1>6. wall - start = real - since + (forth - f) - (back - b)
  BY <1>1, <1>4 DEF Window, Clocks, TypeOK
<1>7. left' <= len + back /\ len <= real - since + (forth - f) + left'
  <2> HIDE DEF len
  <2> QED
    BY <1>1, <1>3, <1>4, <1>6 DEF Window, Clocks, TypeOK
<1>8. TypeOK'
  <2>1. thresh' \in ThreshMin .. ThreshMax
    BY <1>1, <1>5, AdjustedLemma DEF TypeOK
  <2> HIDE DEF wait
  <2> QED
    BY <1>1, <1>5, <2>1 DEF TypeOK, bounds
<1>9. Sleeper'
  BY <1>1 DEF Sleeper, TypeOK
<1>10. (Balance /\ Untouched)'
  BY <1>1 DEF Balance, Untouched, TypeOK
<1>11. WaitLen(lamt') = len /\ WaitLen((passed - closed)') = len
  BY <1>1, <1>10 DEF Balance, WaitLen
<1>12. WaitIsOwed'
  <2> HIDE DEF len
  <2> QED
    BY <1>1, <1>7, <1>11 DEF WaitIsOwed
<1>13. Window(f, b)'
  <2> HIDE DEF len, wait
  <2> QED
    BY <1>1, <1>4, <1>7, <1>11 DEF Window
<1>14. Clocks'
  BY <1>1, <1>13 DEF Clocks
<1> QED
  BY <1>8, <1>9, <1>10, <1>12, <1>14

LEMMA TickIInv ==
  ASSUME IInv, Tick
  PROVE  IInv'
<1> USE LimitAssumption DEF IInv
<1>1. /\ real' = real + 1 /\ wall' = wall + 1
      /\ UNCHANGED <<fn, statics, holder, pc, amount, steps, calls, history>>
      /\ idle' \in Nat /\ left' \in Nat /\ left' <= left
      /\ holder # NoCaller => left' = left - 1
      /\ holder = NoCaller => left' = left
  BY DEF Tick, TypeOK
<1>2. TypeOK'
  BY <1>1 DEF TypeOK, statics, history
<1>3. (Sleeper /\ Balance /\ Untouched)'
  BY <1>1 DEF Sleeper, Balance, Untouched, statics, history
<1>4. WaitLen(passed - closed) \in Nat /\ WaitLen(lamt) \in Nat
  BY WaitLenLemma DEF TypeOK, Balance
<1>5. UNCHANGED <<WaitLen(passed - closed), WaitLen(lamt)>>
  BY <1>1 DEF WaitLen, statics, history
<1>6. WaitIsOwed'
  BY <1>1, <1>4, <1>5 DEF WaitIsOwed, TypeOK, history
<1>7. PICK f \in Nat, b \in Nat : Window(f, b)
  BY DEF Clocks
<1>8. holder # NoCaller =>
        real' - since + (forth - f) + left' = real - since + (forth - f) + left
  BY <1>1 DEF TypeOK
<1>9. Window(f, b)'
  BY <1>1, <1>5, <1>7, <1>8 DEF Window, statics, history
<1>10. (wall = Wall0 + real + forth - back /\ opened <= since /\ since <= real)'
  BY <1>1 DEF Clocks, TypeOK, history
<1> QED
  BY <1>2, <1>3, <1>6, <1>9, <1>10 DEF Clocks

LEMMA SetClockIInv ==
  ASSUME IInv, SetClock
  PROVE  IInv'
<1> USE LimitAssumption DEF IInv
<1>1. PICK d \in ClockSteps :
        /\ wall' = wall + d /\ wall' > 0
        /\ IF d > 0 THEN forth' = forth + d /\ UNCHANGED back
           ELSE back' = back - d /\ UNCHANGED forth
  BY DEF SetClock
<1>2. /\ UNCHANGED <<fn, statics, holder, left, pc, amount, real, calls, idle>>
      /\ UNCHANGED <<passed, closed, windows, opened, since>>
      /\ steps' = steps + 1
  BY DEF SetClock
<1>3. /\ forth' \in Nat /\ back' \in Nat /\ forth' >= forth /\ back' >= back
      /\ forth' - back' = forth - back + d /\ d \in Int
      /\ wall' = wall + d
  BY <1>1 DEF TypeOK
<1>4. TypeOK'
  BY <1>1, <1>2, <1>3 DEF TypeOK, statics
<1>5. (Sleeper /\ Balance /\ Untouched)'
  BY <1>2 DEF Sleeper, Balance, Untouched, statics
<1>6. WaitLen(passed - closed) \in Nat /\ WaitLen(lamt) \in Nat
  BY WaitLenLemma DEF TypeOK, Balance
<1>7. UNCHANGED <<WaitLen(passed - closed), WaitLen(lamt)>>
  BY <1>2 DEF WaitLen, statics
<1>8. WaitIsOwed'
  BY <1>2, <1>3, <1>6, <1>7 DEF WaitIsOwed, TypeOK
<1>9. PICK f \in Nat, b \in Nat : Window(f, b)
  BY DEF Clocks
<1>10. /\ f <= forth' /\ b <= back'
       /\ real - since + (forth - f) + left <= real - since + (forth' - f) + left
  <2>1. f <= forth /\ b <= back
    BY <1>9 DEF Window
  <2>2. {real, since, forth, left, back} \subseteq Nat
    BY DEF TypeOK
  <2> QED
    BY <1>3, <2>1, <2>2
<1>11. holder # NoCaller =>
         WaitLen(lamt)' <= (real - since + (forth - f) + left)'
  BY <1>2, <1>3, <1>6, <1>7, <1>9, <1>10 DEF Window, TypeOK, statics
<1>12. Window(f, b)'
  BY <1>2, <1>9, <1>10, <1>11 DEF Window, statics
<1>13. (wall = Wall0 + real + forth - back /\ opened <= since /\ since <= real)'
  <2>1. {real, since, opened, forth, back, wall} \subseteq Nat
    BY DEF TypeOK
  <2> QED
    BY <1>2, <1>3, <2>1 DEF Clocks
<1> QED
  BY <1>4, <1>5, <1>8, <1>12, <1>13 DEF Clocks

LEMMA StutterIInv ==
  ASSUME IInv, UNCHANGED vars
  PROVE  IInv'
BY DEF IInv, TypeOK, Sleeper, Balance, Untouched, Clocks, Window, WaitIsOwed,
       WaitLen, vars, statics, bounds, history

LEMMA StepIInv ==
  ASSUME IInv, [Next]_vars
  PROVE  IInv'
<1>1. ASSUME NEW t \in Callers, Calls(t) PROVE IInv'
  BY <1>1, CallIInv DEF Calls, Limiters, bw_down_limit, bw_up_limit,
     disk_w_limit, disk_r_limit, mk_seed_limit
<1>2. ASSUME NEW t \in Callers, Locked(t) PROVE IInv'
  BY <1>2, OpenIInv, CountOnlyIInv, InTimeIInv, SleepIInv DEF Locked
<1> QED
  BY <1>1, <1>2, WakeIInv, TickIInv, SetClockIInv, StutterIInv DEF Next

-----------------------------------------------------------------------------
(* In every state of every behaviour the window, its sleeper and the two   *)
(* clocks are as IInv says.                                                *)
THEOREM LimitInvariant == Spec => []IInv
<1>1. IInv /\ [Next]_vars => IInv'
  BY StepIInv
<1> QED
  BY InitIInv, <1>1, PTL DEF Spec

(* The statics keep their types, and the threshold its bounds: it is never *)
(* halved to nothing nor doubled without end.                              *)
THEOREM LimitTypeOK == Spec => []TypeOK
<1>1. IInv => TypeOK
  BY DEF IInv
<1> QED
  BY <1>1, LimitInvariant, PTL

(* The rate is kept over all windows that are over, whoever calls and      *)
(* whatever happens to the wall clock, but for what the clock was set      *)
(* forth by and a tick a window.                                           *)
THEOREM LimitPaced == Spec => []Paced
<1>1. IInv => Paced
  <2> SUFFICES ASSUME IInv PROVE Paced
    OBVIOUS
  <2> USE LimitAssumption DEF IInv
  <2>1. PICK f \in Nat, b \in Nat : Window(f, b)
    BY DEF Clocks
  <2> DEFINE x == since - opened + windows + f
             y == since - opened + windows + forth
  <2>2. x \in Int /\ y \in Int /\ x <= y /\ Second * closed <= Rate * x
    BY <2>1 DEF Window, TypeOK
  <2> HIDE DEF x, y
  <2>3. Rate * x <= Rate * y
    BY <2>2, Monotone
  <2>4. Rate * x \in Int /\ Rate * y \in Int /\ Second * closed \in Int
    BY <2>2, Z3 DEF TypeOK
  <2>5. Second * closed <= Rate * y
    BY <2>2, <2>3, <2>4
  <2> QED
    BY <2>5 DEF Paced, y
<1> QED
  BY <1>1, LimitInvariant, PTL

(* A caller is made to sleep for the bytes of its own window only, and for *)
(* what the clock was set back by.                                         *)
THEOREM LimitWaitIsOwed == Spec => []WaitIsOwed
<1>1. IInv => WaitIsOwed
  BY DEF IInv
<1> QED
  BY <1>1, LimitInvariant, PTL
=============================================================================
