-------------------------- MODULE ActorTimerProofs --------------------------
(***************************************************************************)
(* Proofs about ActorTimer for any timeouts, any width of an int, and any  *)
(* number of messages: what a TIME event tells about the clock.            *)
(***************************************************************************)
EXTENDS ActorTimer, TLAPS

USE SpanAssumption, BoundAssumption

-----------------------------------------------------------------------------
(* Arithmetic *)

(* A remainder is one. *)
LEMMA Remainder ==
    ASSUME NEW x \in Int, NEW m \in Nat, m > 0
    PROVE  x % m \in 0 .. m - 1
OBVIOUS

(* A number smaller than the divisor is its own remainder. *)
LEMMA SmallRemainder ==
    ASSUME NEW m \in Nat, m > 0, NEW x \in 0 .. m - 1
    PROVE  x % m = x
OBVIOUS

(* A whole number of periods leaves no remainder. *)
LEMMA WholePeriods ==
    ASSUME NEW n \in Nat, NEW t \in Nat, t > 0
    PROVE  (n * t) % t = 0
OBVIOUS

(* A timeout is less than Forever, and fits an int. *)
LEMMA PeriodsFit ==
    /\ Forever \in Nat
    /\ \A t \in Periods : /\ t \in Nat /\ 1 <= t /\ t < Forever
                          /\ t < IntSpan \div 2 /\ t < IntSpan
<1>1. /\ IntSpan \in Nat /\ IntSpan > 1 /\ IntSpan \div 2 \in Nat
      /\ IntSpan \div 2 < IntSpan
  OBVIOUS
<1>2. Forever \in Nat /\ IntSpan < Forever
  BY <1>1 DEF Forever
<1>3. \A t \in Periods : t \in 1 .. IntSpan \div 2 - 1
  OBVIOUS
<1> QED  BY <1>1, <1>2, <1>3

(* What an int holds is what was cast to it, if that fits. *)
LEMMA ToIntFits ==
    ASSUME NEW x \in Int, 0 <= x, x < IntSpan \div 2
    PROVE  ToInt(x) = x
<1>1. x < IntSpan /\ IntSpan \in Nat /\ IntSpan > 0
  OBVIOUS
<1>2. x \in 0 .. IntSpan - 1
  BY <1>1
<1>3. x % IntSpan = x
  BY <1>1, <1>2, SmallRemainder
<1> QED  BY <1>3 DEF ToInt

-----------------------------------------------------------------------------
(* Types *)

\* A message the poller has found is there until it is dispatched.
Found == pc \in {"returned", "catchup"} /\ which = "message" => pending > 0

(* A timeout gives time_next. *)
LEMMA DueInType ==
    ASSUME NEW t \in Timeouts
    PROVE  t \in Int /\ DueIn(t) \in Int
BY PeriodsFit DEF Timeouts, DueIn, Never

(* The types and Found hold in the beginning. *)
LEMMA TypeInit == Init => TypeOK /\ Found
<1> SUFFICES ASSUME Init PROVE TypeOK /\ Found
  OBVIOUS
<1>1. due \in Int
  BY DueInType DEF Init
<1>2. pending \in 0 .. MaxPending /\ sets \in 0 .. MaxSets
  BY DEF Init
<1>3. clock \in 0 .. IntSpan - 1 /\ timeout \in Timeouts
  BY DEF Init
<1>4. wait \in Int /\ used \in Nat
  BY DEF Init
<1> QED  BY <1>1, <1>2, <1>3, <1>4 DEF Init, TypeOK, Found

(* Catching up moves time_next, if at all, into the next period. *)
LEMMA CaughtUpDue ==
    ASSUME TypeOK, CaughtUp
    PROVE  /\ due' \in Int
           /\ ~(timeout > 0 /\ due <= 0) => due' = due
           /\ timeout > 0 /\ due <= 0 =>
                /\ due' \in 1 .. timeout
                /\ (due' - due) % timeout = 0
<1>1. timeout \in Int /\ due \in Int
  BY DueInType DEF TypeOK
<1>2. CASE timeout > 0 /\ due <= 0
  <2>1. PICK n \in 1 .. 1 - due : due' = due + n * timeout /\ due' \in 1 .. timeout
    BY <1>2 DEF CaughtUp
  <2>2. n \in Nat /\ timeout \in Nat
    BY <1>1, <1>2
  <2>3. due' - due = n * timeout
    BY <1>1, <2>1, <2>2
  <2> QED  BY <1>2, <2>1, <2>2, <2>3, WholePeriods
<1>3. CASE ~(timeout > 0 /\ due <= 0)
  BY <1>1, <1>3 DEF CaughtUp
<1> QED  BY <1>2, <1>3

(* Every step keeps the types, and a message that was found. *)
LEMMA TypeStep == TypeOK /\ Found /\ [Next]_vars => TypeOK' /\ Found'
<1> SUFFICES ASSUME TypeOK, Found, [Next]_vars PROVE TypeOK' /\ Found'
  OBVIOUS
<1>1. CASE UNCHANGED vars
  BY <1>1 DEF vars, TypeOK, Found
<1>2. CASE Tick
  <2>1. clock' \in 0 .. IntSpan - 1
    <3>1. clock + 1 \in Int /\ IntSpan \in Nat /\ IntSpan > 0
      BY DEF TypeOK
    <3> QED  BY <1>2, <3>1, Remainder DEF Tick
  <2>2. due' \in Int /\ wait' \in Int /\ used' \in Nat
    BY <1>2 DEF Tick, TypeOK
  <2> QED  BY <1>2, <2>1, <2>2 DEF Tick, TypeOK, Found
<1>3. CASE Arrive
  <2>1. pending' \in 0 .. MaxPending /\ pending' > 0
    BY <1>3 DEF Arrive, TypeOK
  <2> QED  BY <1>3, <2>1 DEF Arrive, TypeOK, Found
<1>4. CASE Begin
  BY <1>4 DEF Begin, TypeOK, Found
<1>5. CASE Compute
  <2>1. (IF due = Forever THEN -1 - clock ELSE due) \in Int
    BY DEF TypeOK
  <2>2. wait' \in Int
    <3>1. PICK x \in Int : wait' = ToInt(x)
      BY <1>5, <2>1 DEF Compute
    <3>2. x % IntSpan \in Int
      BY Remainder
    <3> QED  BY <3>1, <3>2 DEF ToInt
  <2> QED  BY <1>5, <2>2 DEF Compute, TypeOK, Found
<1>6. CASE PollMessage \/ PollExpires
  BY <1>6 DEF PollMessage, PollExpires, TypeOK, Found
<1>7. CASE Check
  BY <1>7 DEF Check, TypeOK, Found
<1>8. CASE Dispatch
  <2>1. due' \in Int
    BY <1>8, CaughtUpDue DEF Dispatch
  <2>2. pending' \in 0 .. MaxPending
    BY <1>8 DEF Dispatch, TypeOK, Found
  <2> QED  BY <1>8, <2>1, <2>2 DEF Dispatch, TypeOK, Found, Handlers
<1>9. CASE Return
  BY <1>9 DEF Return, TypeOK, Found
<1>10. ASSUME NEW t \in Timeouts, SetTimeout(t) PROVE TypeOK' /\ Found'
  <2>1. due' \in Int /\ sets' \in 0 .. MaxSets
    BY <1>10, DueInType DEF SetTimeout, TypeOK
  <2> QED  BY <1>10, <2>1 DEF SetTimeout, TypeOK, Found
<1> QED  BY <1>1, <1>2, <1>3, <1>4, <1>5, <1>6, <1>7, <1>8, <1>9, <1>10 DEF Next, RunOnce

(* The timer's variables keep their types, whatever a cast to int makes of *)
(* the time that is left: the loop takes no message that is not there.     *)
THEOREM TypeCorrect == Spec => []TypeOK
<1>1. Init => TypeOK /\ Found
  BY TypeInit
<1>2. TypeOK /\ Found /\ [Next]_vars => (TypeOK /\ Found)'
  BY TypeStep
<1> QED  BY <1>1, <1>2, PTL DEF Spec

-----------------------------------------------------------------------------
(* The fixed interval *)

\* What the actor knows about time_next at each point of its turn, if the
\* clock does not tick between two reads that belong together.
Punctual ==
    /\ timeout = Never => due = Forever
    /\ timeout # Never => due <= timeout
    /\ pc = "compute" => due >= 0
    /\ pc = "poll" /\ timeout # Never =>
        wait >= 0 /\ (wait = due \/ (wait = 0 /\ due < 0))
    /\ pc \in {"returned", "catchup"} /\ which = "NULL" /\ timeout # Never => due <= 0
    /\ pc = "catchup" => skipped = (due <= 0)

(* The timer is punctual in the beginning. *)
LEMMA PunctualInit == Init => Punctual
<1> SUFFICES ASSUME Init PROVE Punctual
  OBVIOUS
<1>1. timeout \in Int /\ due = DueIn(timeout)
  BY DueInType DEF Init
<1> QED  BY <1>1 DEF Init, Punctual, DueIn

(* A timeout lies before Forever. *)
LEMMA TimeoutFits ==
    ASSUME TypeOK
    PROVE  /\ timeout \in Int /\ due \in Int /\ Forever \in Nat
           /\ timeout # Never => /\ 0 < timeout /\ timeout < Forever
                                /\ timeout < IntSpan \div 2
BY PeriodsFit DEF TypeOK, Timeouts, Never

(* Every step keeps the timer punctual. *)
LEMMA PunctualStep ==
    ASSUME ~Preempted, TypeOK, Punctual, [Next]_vars
    PROVE  Punctual'
<1>0. TypeOK /\ wait \in Int
  BY DEF TypeOK
<1>1. CASE UNCHANGED vars
  BY <1>1 DEF vars, Punctual
<1>2. CASE Tick
  <2>1. pc \notin {"compute", "catchup"} /\ UNCHANGED <<pc, timeout, which, skipped>>
    BY <1>2 DEF Tick
  <2>2. timeout = Never => due' = Forever
    BY <1>2 DEF Tick, Punctual
  <2>3. timeout # Never => due' = due - 1
    BY <1>2, TimeoutFits DEF Tick, Punctual
  <2>4. CASE pc = "poll"
    <3>1. wait # 0 /\ wait' = IF wait > 0 THEN wait - 1 ELSE wait
      BY <1>2, <2>4 DEF Tick
    <3>2. timeout # Never =>
            wait' >= 0 /\ (wait' = due' \/ (wait' = 0 /\ due' < 0))
      BY <1>0, <2>3, <2>4, <3>1, TimeoutFits DEF Punctual
    <3> QED  BY <2>1, <2>2, <2>3, <2>4, <3>2, TimeoutFits DEF Punctual
  <2>5. CASE pc # "poll"
    BY <2>1, <2>2, <2>3, <2>5, TimeoutFits DEF Punctual
  <2> QED  BY <2>4, <2>5
<1>3. CASE Arrive
  BY <1>3 DEF Arrive, Punctual
<1>4. CASE Begin
  BY <1>4, TimeoutFits DEF Begin, Punctual
<1>5. CASE Compute
  <2>1. timeout # Never => wait' = due
    <3>1. ASSUME timeout # Never PROVE wait' = due
      <4>1. due # Forever /\ 0 <= due /\ due < IntSpan \div 2 /\ due \in Int
        BY <1>5, <3>1, TimeoutFits DEF Compute, Punctual
      <4>2. ToInt(due) = due
        BY <4>1, ToIntFits
      <4> QED  BY <1>5, <4>1, <4>2 DEF Compute
    <3> QED  BY <3>1
  <2> QED  BY <1>5, <2>1 DEF Compute, Punctual
<1>6. CASE PollMessage
  BY <1>6 DEF PollMessage, Punctual
<1>7. CASE PollExpires
  BY <1>7, TimeoutFits DEF PollExpires, Punctual
<1>8. CASE Check
  BY <1>8 DEF Check, Punctual
<1>9. CASE Dispatch
  <2>1. CaughtUp /\ pc' \in {"time", "message"} /\ UNCHANGED timeout
    BY <1>9 DEF Dispatch
  <2>2. timeout = Never => due' = due
    BY <2>1, CaughtUpDue DEF Never
  <2>3. timeout # Never => due' <= timeout
    BY <2>1, CaughtUpDue, TimeoutFits DEF Punctual
  <2> QED  BY <2>1, <2>2, <2>3 DEF Punctual
<1>10. CASE Return
  BY <1>10 DEF Return, Handlers, Punctual
<1>11. ASSUME NEW t \in Timeouts, SetTimeout(t) PROVE Punctual'
  <2>1. pc' \in {"time", "message"} /\ timeout' = t /\ due' = DueIn(t) /\ t \in Int
    BY <1>11, DueInType DEF SetTimeout, Handlers
  <2> QED  BY <2>1 DEF Punctual, DueIn
<1> QED  BY <1>1, <1>2, <1>3, <1>4, <1>5, <1>6, <1>7, <1>8, <1>9, <1>10, <1>11 DEF Next, RunOnce

(* A handler is called by Dispatch only, and then as the property says. *)
LEMMA DispatchesOnTime ==
    ASSUME TypeOK, Punctual, [Next]_vars,
           pc = "catchup", pc' \in Handlers, timeout # Never
    PROVE  IF pc' = "time"
           THEN due <= 0 /\ due' \in 1 .. timeout /\ (due' - due) % timeout = 0
           ELSE due > 0 /\ due' = due
<1>1. Dispatch
  BY DEF Next, RunOnce, Tick, Arrive, Begin, Compute, PollMessage, PollExpires, Check,
         Return, SetTimeout, Handlers, vars
<1>2. pc' = "time" <=> which = "NULL" \/ skipped
  BY <1>1 DEF Dispatch
<1>3. pc' = "time" <=> due <= 0
  BY <1>2 DEF Punctual, TypeOK
<1>4. CaughtUp /\ timeout > 0 /\ due \in Int
  BY <1>1, TimeoutFits DEF Dispatch
<1> QED  BY <1>3, <1>4, CaughtUpDue

(* With a timeout a TIME event is never early, the next one lies in the    *)
(* future a whole number of periods later, and a message is handled only   *)
(* while none is due: for every period that fits an int, however long the  *)
(* handlers take and whatever arrives, as long as the clock does not tick  *)
(* between the reads of the clock that belong together.                    *)
THEOREM IntervalFixed ==
    ASSUME ~Preempted
    PROVE  Spec => FixedInterval
<1>1. Init => TypeOK /\ Found /\ Punctual
  BY TypeInit, PunctualInit
<1>2. (TypeOK /\ Found /\ Punctual) /\ [Next]_vars => (TypeOK /\ Found /\ Punctual)'
  BY TypeStep, PunctualStep
<1>3. (TypeOK /\ Found /\ Punctual) /\ [Next]_vars =>
        [pc = "catchup" /\ pc' \in Handlers /\ timeout # Never =>
          IF pc' = "time"
          THEN due <= 0 /\ due' \in 1 .. timeout /\ (due' - due) % timeout = 0
          ELSE due > 0 /\ due' = due]_vars
  BY DispatchesOnTime
<1> QED  BY <1>1, <1>2, <1>3, PTL DEF Spec, FixedInterval

=============================================================================
