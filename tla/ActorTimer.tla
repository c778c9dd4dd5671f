----------------------------- MODULE ActorTimer -----------------------------
(***************************************************************************)
(* The timing of sphactor_actor_run_once: when a TIME event is delivered,  *)
(* when a message is, and what the clock may do in between.                *)
(*                                                                         *)
(* The code keeps time_next, the instant of the next TIME event, as an     *)
(* int64_t.  Here `due' is time_next - zclock_mono(), so a tick of the     *)
(* clock takes one from it; INT64_MAX is Forever.  The clock is read five  *)
(* times in a turn of the loop and may tick between any two reads.         *)
(*                                                                         *)
(* time_next - zclock_mono() is cast to int for zpoller_wait.  To see what *)
(* the cast does to INT64_MAX the low bits of the clock are kept too, with *)
(* IntSpan in the place of 2^32.                                           *)
(***************************************************************************)
EXTENDS Integers

CONSTANTS
    Periods,     \* timeouts a handler sets, in ticks (milliseconds)
    IntSpan,     \* number of values of an int
    MaxCost,     \* bound: ticks a handler takes
    Slack,       \* bound: ticks in a turn besides the handler's and the poll
    Preempted,   \* may the clock tick between two reads that belong together?
    MaxPending,  \* bound: messages waiting
    MaxSets      \* bound: calls of sphactor_actor_set_timeout

Never == -1   \* no timeout
Timeouts == Periods \cup {Never}
Forever == IntSpan * IntSpan   \* stands for INT64_MAX - zclock_mono()

ASSUME SpanAssumption ==
    /\ IntSpan \in Nat /\ IntSpan > 1 /\ IntSpan % 2 = 0
    /\ Periods \subseteq 1 .. IntSpan \div 2 - 1
ASSUME BoundAssumption ==
    /\ {MaxCost, Slack, MaxPending, MaxSets} \subseteq Nat
    /\ Preempted \in BOOLEAN

VARIABLES
    clock,     \* zclock_mono() modulo IntSpan
    pc,        \* where the actor's thread is
    timeout,   \* timeout
    due,       \* time_next - zclock_mono(), or Forever
    wait,      \* what is left of the poller's timeout; negative: endless
    which,     \* what the poller returned: a message or NULL
    skipped,   \* skipped: the TIME event was already due
    pending,   \* messages in the pipe and the sockets
    used,      \* ticks since the turn, or the handler, began
    sets       \* calls of sphactor_actor_set_timeout so far

vars == <<clock, pc, timeout, due, wait, which, skipped, pending, used, sets>>

Handlers == {"time", "message"}

TypeOK ==
    /\ clock \in 0 .. IntSpan - 1
    /\ pc \in {"begin", "compute", "poll", "returned", "catchup"} \cup Handlers
    /\ timeout \in Timeouts
    /\ due \in Int
    /\ wait \in Int
    /\ which \in {"message", "NULL"}
    /\ skipped \in BOOLEAN
    /\ pending \in 0 .. MaxPending
    /\ used \in Nat
    /\ sets \in 0 .. MaxSets

\* time_next for a timeout set now.
DueIn(t) == IF t = Never THEN Forever ELSE t

(* sphactor_actor_start has run the INIT handler, which may have set a     *)
(* timeout, and has set time_next.                                         *)
Init ==
    /\ clock \in 0 .. IntSpan - 1
    /\ pc = "begin"
    /\ timeout \in Timeouts
    /\ due = DueIn(timeout)
    /\ wait = 0 /\ which = "NULL" /\ skipped = FALSE
    /\ pending = 0 /\ used = 0 /\ sets = 0

-----------------------------------------------------------------------------
(* The world *)

(* A millisecond passes.  The poller returns as soon as it can; anything   *)
(* else takes a bounded time.                                              *)
Tick ==
    /\ \/ pc = "poll" /\ pending = 0 /\ wait # 0 /\ UNCHANGED used
       \/ /\ pc # "poll"
          /\ used < (IF pc \in Handlers THEN MaxCost ELSE Slack)
          /\ pc \in {"compute", "catchup"} => Preempted
          /\ used' = used + 1
    /\ clock' = (clock + 1) % IntSpan
    /\ due' = IF due = Forever THEN due ELSE due - 1
    /\ wait' = IF pc = "poll" /\ wait > 0 THEN wait - 1 ELSE wait
    /\ UNCHANGED <<pc, timeout, which, skipped, pending, sets>>

(* A message arrives. *)
Arrive ==
    /\ pending < MaxPending
    /\ pending' = pending + 1
    /\ UNCHANGED <<clock, pc, timeout, due, wait, which, skipped, used, sets>>

-----------------------------------------------------------------------------
(* sphactor_actor_run_once *)

\* The conversion of an integer to int.
ToInt(x) ==
    LET m == x % IntSpan IN IF m < IntSpan \div 2 THEN m ELSE m - IntSpan

(* First read of the clock: past time_next the poller is not to wait. *)
Begin ==
    /\ pc = "begin"
    /\ IF due < 0 THEN pc' = "poll" /\ wait' = 0
                  ELSE pc' = "compute" /\ UNCHANGED wait
    /\ UNCHANGED <<clock, timeout, due, which, skipped, pending, used, sets>>

(* Second read: how long until time_next, cast to int. *)
Compute ==
    /\ pc = "compute"
    /\ wait' = ToInt(IF due = Forever THEN -1 - clock ELSE due)
    /\ pc' = "poll"
    /\ UNCHANGED <<clock, timeout, due, which, skipped, pending, used, sets>>

(* zpoller_wait returns a socket that has a message, *)
PollMessage ==
    /\ pc = "poll" /\ pending > 0
    /\ which' = "message"
    /\ pc' = "returned"
    /\ UNCHANGED <<clock, timeout, due, wait, skipped, pending, used, sets>>

(* or NULL when its time is up. *)
PollExpires ==
    /\ pc = "poll" /\ pending = 0 /\ wait = 0
    /\ which' = "NULL"
    /\ pc' = "returned"
    /\ UNCHANGED <<clock, timeout, due, wait, skipped, pending, used, sets>>

(* Mutant: time_next is set anew instead of moved along. *)
CaughtUpFromNow ==
    IF timeout > 0 /\ due <= 0 THEN due' = timeout ELSE UNCHANGED due

(* while (time_next <= zclock_mono()) time_next += timeout *)
CaughtUp ==
    IF timeout > 0 /\ due <= 0
    THEN \E n \in 1 .. 1 - due :
            /\ due' = due + n * timeout
            /\ due' \in 1 .. timeout
    ELSE UNCHANGED due

(* Mutant: skipped is not reset from turn to turn. *)
CheckSticky ==
    /\ pc = "returned"
    /\ skipped' = (skipped \/ due <= 0)
    /\ pc' = "catchup"
    /\ UNCHANGED <<clock, timeout, due, wait, which, pending, used, sets>>

(* The poller has returned; third read. *)
Check ==
    /\ pc = "returned"
    /\ skipped' = (due <= 0)
    /\ pc' = "catchup"
    /\ UNCHANGED <<clock, timeout, due, wait, which, pending, used, sets>>

(* Mutant: a message is preferred to an overdue timer. *)
DispatchMessageFirst ==
    /\ pc = "catchup"
    /\ CaughtUp
    /\ IF which = "NULL"
       THEN pc' = "time" /\ UNCHANGED pending
       ELSE pc' = "message" /\ pending' = pending - 1
    /\ used' = 0
    /\ UNCHANGED <<clock, timeout, wait, which, skipped, sets>>

(* Mutant: a message is received twice. *)
DispatchTwice ==
    /\ pc = "catchup"
    /\ CaughtUp
    /\ IF which = "NULL" \/ skipped
       THEN pc' = "time" /\ UNCHANGED pending
       ELSE pc' = "message" /\ pending' = pending - 2
    /\ used' = 0
    /\ UNCHANGED <<clock, timeout, wait, which, skipped, sets>>

(* Catching up, with the fourth read, and the choice of the event.  A      *)
(* message the poller found stays where it is when a TIME event is overdue. *)
Dispatch ==
    /\ pc = "catchup"
    /\ CaughtUp
    /\ IF which = "NULL" \/ skipped
       THEN pc' = "time" /\ UNCHANGED pending
       ELSE pc' = "message" /\ pending' = pending - 1
    /\ used' = 0
    /\ UNCHANGED <<clock, timeout, wait, which, skipped, sets>>

(* A handler, or a SET TIMEOUT command, calls sphactor_actor_set_timeout. *)
SetTimeout(t) ==
    /\ pc \in Handlers
    /\ sets < MaxSets
    /\ sets' = sets + 1
    /\ timeout' = t
    /\ due' = DueIn(t)
    /\ UNCHANGED <<clock, pc, wait, which, skipped, pending, used>>

(* The handler returns and the turn ends. *)
Return ==
    /\ pc \in Handlers
    /\ pc' = "begin"
    /\ used' = 0
    /\ UNCHANGED <<clock, timeout, due, wait, which, skipped, pending, sets>>

RunOnce ==
    \/ Begin \/ Compute \/ PollMessage \/ PollExpires \/ Check
    \/ Dispatch \/ Return

Next ==
    \/ Tick \/ Arrive \/ RunOnce
    \/ \E t \in Timeouts : SetTimeout(t)

(* Time passes, be it a little at a time in handlers that take next to     *)
(* none, and the thread is scheduled.                                      *)
Spec == Init /\ [][Next]_vars /\ SF_vars(Tick) /\ WF_vars(RunOnce)

-----------------------------------------------------------------------------
(* Properties *)

(* With a timeout a TIME event is never early, and after it the next one   *)
(* lies in the future, a whole number of periods later: however late the   *)
(* actor is, its events neither drift nor pile up.  Nothing but a TIME     *)
(* event moves the next one, and messages, however many, are handled only  *)
(* while none is due.                                                      *)
FixedInterval ==
    [][pc = "catchup" /\ pc' \in Handlers /\ timeout # Never =>
          IF pc' = "time"
          THEN due <= 0 /\ due' \in 1 .. timeout /\ (due' - due) % timeout = 0
          ELSE due > 0 /\ due' = due]_vars

(* An actor with a timeout keeps getting TIME events ("so the sphactor     *)
(* actor is looped for a fixed interval", sphactor.h).                     *)
KeepsTicking == []<>(pc = "time" \/ timeout = Never)

(* A timer does not starve the messages as long as the handler and the     *)
(* loop take less than its period.                                         *)
MessagesHandled == pending > 0 ~> pc = "message"

(* "By default the timeout is -1 implying it never timeouts" (sphactor.h). *)
NeverTimesOut ==
    [][pc' = "time" /\ pc # "time" => timeout # Never]_vars
=============================================================================
