------------------------------ MODULE Handlers ------------------------------
(***************************************************************************)
(* Who frees a message: the events of sphactor_actor_run_once, the stock   *)
(* handlers they are given to, and the way of a message from one actor's   *)
(* publish socket to the next actor.                                       *)
(*                                                                         *)
(* Each actor is a thread.  What the threads share is the heap zmsg_t's    *)
(* come from, the queues between their sockets, and the static counter of  *)
(* the Count handler.                                                      *)
(*                                                                         *)
(* Abstracted: which free block malloc returns (the first one, so that a   *)
(* block that was just freed is soon another thread's); frames and OSC;    *)
(* commands that the loop handles by itself, whose request is freed in the *)
(* same turn; filters (SubFilters) and when timers fire (ActorTimer).      *)
(***************************************************************************)
EXTENDS Naturals, Sequences, FiniteSets

CONSTANTS
    Actors,
    Kind,      \* "Pulse", "Count", "Log" or "Custom" (a client's own handler)
    Sources,   \* for each actor, those whose publish socket it is connected to
    NumBlocks, \* bound: zmsg_t's that fit the heap
    HWM,       \* messages that fit the queue of a subscribe socket
    PipeHWM,   \* messages that fit an actor's pipe to its client
    NULL,
    MaxEvents  \* bound: events from outside

Blocks == 1 .. NumBlocks
\* Data on its way bears its publisher, and its number among what that published.
Message == [op : {"DATA", "API", "TERM", "TRIGGER"}, n : Nat, from : Actors \cup {NULL}]

ASSUME HandlersAssumption ==
    /\ Kind \in [Actors -> {"Pulse", "Count", "Log", "Custom"}]
    /\ Sources \in [Actors -> SUBSET Actors]
    /\ NumBlocks \in Nat /\ HWM \in Nat \ {0}
    /\ PipeHWM \in Nat \ {0} /\ MaxEvents \in Nat
    /\ NULL \notin Blocks \cup Message \cup Actors

VARIABLES
    heap,     \* what each block holds, NULL if it is free
    pc,       \* where each actor's thread is
    event,    \* the type of the event it handles
    msg,      \* the event's message
    ret,      \* what the handler returned
    request,  \* the request of a TRIGGER
    queue,    \* what has arrived at its subscribe socket
    piped,    \* how many messages wait in its pipe for its client to read
    counter,  \* sph_stock_count_actor_count
    seen,     \* the counter as a Count actor has read it
    report,   \* the counter in its custom report
    ended,    \* did a failed assertion end the program?
    \* history
    events,   \* events from outside so far
    published, \* messages each actor has published
    printed,  \* what each Log actor has printed
    received, \* SOCK events Count actors were given
    refused,  \* $TERM messages from other actors
    tainted   \* was a TRIGGER given to a handler that does not bear it?

memory == <<heap, msg, ret, request>>
sockets == <<queue, piped>>
counting == <<counter, seen, report, received>>
history == <<events, published, printed, refused, tainted>>
vars == <<memory, pc, event, sockets, counting, ended, history>>

Data(n, a) == [op |-> "DATA", n |-> n, from |-> a]
Bare(op) == [op |-> op, n |-> 0, from |-> NULL]

\* What reaches the handler of an actor as a SOCK event.
IsSock(e) == e \in {"SOCK", "TRIGGER"}
\* What handlers return is published after these events; after the others
\* it is sent on the pipe (API) or destroyed.
PublishedAfter == {"TIME", "SOCK", "FDSOCK", "TRIGGER"}

Points == {"idle", "starting", "handling", "counting", "reporting", "returned", "again", "gone"}
EventTypes ==
    {"NONE", "INIT", "TIME", "SOCK", "FDSOCK", "API", "PEER", "TRIGGER", "STOP", "DESTROY"}

TypeOK ==
    /\ heap \in [Blocks -> Message \cup {NULL}]
    /\ pc \in [Actors -> Points] /\ event \in [Actors -> EventTypes]
    /\ msg \in [Actors -> Blocks \cup {NULL}]
    /\ ret \in [Actors -> Blocks \cup {NULL}]
    /\ request \in [Actors -> Blocks \cup {NULL}]
    /\ queue \in [Actors -> Seq(Message)]
    /\ \A a \in Actors : Len(queue[a]) <= HWM
    /\ piped \in [Actors -> 0 .. PipeHWM]
    /\ counter \in Nat /\ received \in Nat /\ refused \in Nat
    /\ published \in [Actors -> Nat]
    /\ seen \in [Actors -> Nat] /\ report \in [Actors -> Nat]
    /\ events \in 0 .. MaxEvents
    /\ printed \in [Actors -> Seq(Message)]
    /\ {ended, tainted} \subseteq BOOLEAN

(* The actors are in their loops. *)
Init ==
    /\ heap = [b \in Blocks |-> NULL]
    /\ pc = [a \in Actors |-> "idle"] /\ event = [a \in Actors |-> "NONE"]
    /\ msg = [a \in Actors |-> NULL] /\ ret = msg /\ request = msg
    /\ queue = [a \in Actors |-> <<>>] /\ piped = [a \in Actors |-> 0]
    /\ counter = 0 /\ seen = [a \in Actors |-> 0] /\ report = seen
    /\ ended = FALSE /\ tainted = FALSE
    /\ events = 0 /\ received = 0 /\ refused = 0
    /\ published = [a \in Actors |-> 0]
    /\ printed = [a \in Actors |-> <<>>]

-----------------------------------------------------------------------------
(* The heap and the sockets *)

Free(h, b) == [c \in Blocks |-> IF c = b THEN NULL ELSE h[c]]

\* Block b is taken from heap h for message m.
Allocated(h, b, m) ==
    /\ h[b] = NULL /\ \A c \in 1 .. b - 1 : h[c] # NULL
    /\ heap' = [h EXCEPT ![b] = m]

(* Mutant: a full queue takes it all the same. *)
PublishesUnbounded(a) ==
    /\ published' = [published EXCEPT ![a] = @ + 1]
    /\ queue' = [s \in Actors |->
        IF a \in Sources[s] /\ pc[s] # "gone"
        THEN Append(queue[s], Data(published[a] + 1, a)) ELSE queue[s]]
    /\ UNCHANGED piped

(* Mutant: the message is sent, and a copy of it. *)
PublishesCopy(a) ==
    LET d == Data(published[a] + 1, a) IN
    /\ published' = [published EXCEPT ![a] = @ + 1]
    /\ queue' = [s \in Actors |->
        IF a \in Sources[s] /\ Len(queue[s]) < HWM /\ pc[s] # "gone"
        THEN queue[s] \o (IF Len(queue[s]) + 1 < HWM THEN <<d, d>> ELSE <<d>>) ELSE queue[s]]
    /\ UNCHANGED piped

\* s_publish_msg: actor a publishes data.  A full queue, and one whose owner
\* is gone, drops it.
Publishes(a) ==
    /\ published' = [published EXCEPT ![a] = @ + 1]
    /\ queue' = [s \in Actors |->
        IF a \in Sources[s] /\ Len(queue[s]) < HWM /\ pc[s] # "gone"
        THEN Append(queue[s], Data(published[a] + 1, a)) ELSE queue[s]]
    /\ UNCHANGED piped

\* Actor a sends a message on its pipe, which waits for room.
Answers(a) == piped[a] < PipeHWM /\ piped' = [piped EXCEPT ![a] = @ + 1]

\* A pointer to a message that has been destroyed.
Dangles(p) == p # NULL /\ heap[p] = NULL

-----------------------------------------------------------------------------
(* Events *)

\* Actor a's thread is in its poller, and the program is running.
Polls(a) == pc[a] = "idle" /\ ~ended
\* Its loop calls the handler with an event e.
Calls(a, e) ==
    /\ event' = [event EXCEPT ![a] = e]
    /\ pc' = [pc EXCEPT ![a] = "handling"]
External == events < MaxEvents /\ events' = events + 1

(* A timer fires: Pulse actors have one. *)
Time(a) ==
    /\ Polls(a) /\ External
    /\ Kind[a] \in {"Pulse", "Custom"}
    /\ Calls(a, "TIME")
    /\ UNCHANGED <<memory, sockets, counting, ended, published, printed, refused, tainted>>

(* A socket the handler has added to the poller becomes readable: the      *)
(* event's message holds its address.                                      *)
FdSock(a) ==
    /\ Polls(a) /\ External
    /\ Kind[a] = "Custom"
    /\ Calls(a, "FDSOCK")
    /\ \E b \in Blocks : Allocated(heap, b, Bare("API")) /\ msg' = [msg EXCEPT ![a] = b]
    /\ UNCHANGED <<ret, request, sockets, counting, ended, published, printed, refused, tainted>>

(* A command on the pipe that the loop does not know. *)
Command(a) ==
    /\ Polls(a) /\ External
    /\ Calls(a, "API")
    /\ \E b \in Blocks : Allocated(heap, b, Bare("API")) /\ msg' = [msg EXCEPT ![a] = b]
    /\ UNCHANGED <<ret, request, sockets, counting, ended, published, printed, refused, tainted>>

(* TRIGGER: the handler gets a SOCK event without a message, and without   *)
(* the pointer to its actor.                                               *)
Trigger(a) ==
    /\ Polls(a) /\ External
    /\ Calls(a, "TRIGGER")
    /\ \E b \in Blocks :
        Allocated(heap, b, Bare("TRIGGER")) /\ request' = [request EXCEPT ![a] = b]
    /\ tainted' = (tainted \/ Kind[a] \in {"Count", "Custom"})
    /\ UNCHANGED <<msg, ret, sockets, counting, ended, published, printed, refused>>

(* SEND publishes the rest of the request; both copies of it are gone when *)
(* the turn ends.                                                          *)
Send(a) ==
    /\ Polls(a) /\ External
    /\ Publishes(a)
    /\ UNCHANGED <<memory, pc, event, counting, ended, printed, refused, tainted>>

(* An actor publishes an API message. *)
Inject(a, m) ==
    /\ ~ended /\ External
    /\ pc[a] # "gone" /\ Len(queue[a]) < HWM
    /\ queue' = [queue EXCEPT ![a] = Append(@, Bare(m))]
    /\ UNCHANGED <<memory, piped, pc, event, counting, ended, published, printed, refused, tainted>>

(* START, whoever sent it, runs sphactor_actor_start (again), *)
Start(a) ==
    /\ Polls(a) /\ External
    /\ event' = [event EXCEPT ![a] = "INIT"]
    /\ pc' = [pc EXCEPT ![a] = "starting"]
    /\ UNCHANGED <<memory, sockets, counting, ended, published, printed, refused, tainted>>

(* which signals the pipe before it gives the handler an INIT event. *)
SignalStart(a) ==
    /\ ~ended /\ pc[a] = "starting"
    /\ Answers(a)
    /\ pc' = [pc EXCEPT ![a] = "handling"]
    /\ UNCHANGED <<memory, queue, event, counting, ended, history>>

(* $TERM on the pipe, or an interrupt of the poll: STOP, then DESTROY. *)
Terminate(a) ==
    /\ Polls(a) /\ External
    /\ Calls(a, "STOP")
    /\ UNCHANGED <<memory, sockets, counting, ended, published, printed, refused, tainted>>

(* The client reads from the pipe of its actor; nothing makes it. *)
Collect(a) ==
    /\ ~ended /\ piped[a] > 0
    /\ piped' = [piped EXCEPT ![a] = @ - 1]
    /\ UNCHANGED <<memory, queue, pc, event, counting, ended, history>>

(* A message arrives on the subscribe socket: data, or another actor's API *)
(* message.                                                                *)
Receive(a) ==
    LET m == Head(queue[a]) IN
    /\ Polls(a) /\ queue[a] # <<>> /\ m.op # "TERM"
    /\ queue' = [queue EXCEPT ![a] = Tail(@)]
    /\ Calls(a, IF m.op = "API" THEN "PEER" ELSE "SOCK")
    /\ \E b \in Blocks : Allocated(heap, b, m) /\ msg' = [msg EXCEPT ![a] = b]
    /\ received' = IF Kind[a] = "Count" /\ m.op # "API" THEN received + 1 ELSE received
    /\ UNCHANGED <<ret, request, piped, counter, seen, report, ended, history>>

(* Another actor's $TERM is refused, and its message is not destroyed. *)
Refuse(a) ==
    /\ Polls(a) /\ queue[a] # <<>> /\ Head(queue[a]).op = "TERM"
    /\ queue' = [queue EXCEPT ![a] = Tail(@)]
    /\ \E b \in Blocks : Allocated(heap, b, Bare("TERM"))
    /\ refused' = refused + 1
    /\ UNCHANGED <<msg, ret, request, piped, pc, event, counting, ended, events, published,
                   printed, tainted>>

-----------------------------------------------------------------------------
(* Handlers *)

\* Actor a's handler runs, and its event's message, if any, exists.
Handles(a, kinds) ==
    /\ ~ended /\ pc[a] = "handling" /\ Kind[a] \in kinds
    /\ ~Dangles(msg[a])

\* The handler returns p, having freed or kept the event's message.
Returns(a, p) ==
    /\ pc' = [pc EXCEPT ![a] = "returned"]
    /\ ret' = [ret EXCEPT ![a] = p]
    /\ msg' = [msg EXCEPT ![a] = NULL]
    /\ UNCHANGED <<request, event, sockets, ended>>

\* The handler returns a message of its own.
ReturnsNew(a) ==
    \E b \in Blocks :
        /\ Allocated(Free(heap, msg[a]), b, Bare("DATA"))
        /\ Returns(a, b)

(* Handlers that have no use for an event, Log and Count, return its       *)
(* message (or none); Pulse and others destroy it.                         *)
PassOn(a) ==
    /\ Handles(a, {"Log", "Count"})
    /\ ~(IsSock(event[a]) /\ (Kind[a] = "Count" \/ msg[a] # NULL))
    /\ Returns(a, msg[a])
    /\ UNCHANGED <<heap, counting, history>>

Ignore(a) ==
    /\ Handles(a, {"Pulse", "Custom"})
    /\ Kind[a] = "Pulse" => event[a] # "TIME"
    /\ heap' = Free(heap, msg[a])
    /\ Returns(a, NULL)
    /\ UNCHANGED <<counting, history>>

(* sph_stock_pulse_actor makes a message when the timer fires; a client's  *)
(* handler may at any event.                                               *)
Answer(a) ==
    /\ Handles(a, {"Pulse", "Custom"})
    /\ Kind[a] = "Pulse" => event[a] = "TIME"
    /\ ReturnsNew(a)
    /\ UNCHANGED <<counting, history>>

(* Mutant: the destroyed message is returned. *)
PrintReturning(a) ==
    /\ Handles(a, {"Log"}) /\ IsSock(event[a]) /\ msg[a] # NULL
    /\ printed' = [printed EXCEPT ![a] = Append(@, heap[msg[a]])]
    /\ heap' = Free(heap, msg[a])
    /\ Returns(a, msg[a])
    /\ UNCHANGED <<counting, events, published, refused, tainted>>

(* sph_stock_log_actor *)
PrintOut(a) ==
    /\ Handles(a, {"Log"}) /\ IsSock(event[a]) /\ msg[a] # NULL
    /\ printed' = [printed EXCEPT ![a] = Append(@, heap[msg[a]])]
    /\ heap' = Free(heap, msg[a])
    /\ Returns(a, NULL)
    /\ UNCHANGED <<counting, events, published, refused, tainted>>

(* sph_stock_count_actor increments a static variable that the threads of  *)
(* all Count actors share: it reads it, writes it,                         *)
CountRead(a) ==
    /\ Handles(a, {"Count"}) /\ IsSock(event[a])
    /\ seen' = [seen EXCEPT ![a] = counter]
    /\ pc' = [pc EXCEPT ![a] = "counting"]
    /\ UNCHANGED <<memory, event, sockets, counter, report, received, ended, history>>

(* Mutant: the message and its sender are counted. *)
CountWriteTwo(a) ==
    /\ ~ended /\ pc[a] = "counting"
    /\ counter' = seen[a] + 2 /\ seen' = [seen EXCEPT ![a] = 0]
    /\ pc' = [pc EXCEPT ![a] = "reporting"]
    /\ UNCHANGED <<memory, event, sockets, report, received, ended, history>>

CountWrite(a) ==
    /\ ~ended /\ pc[a] = "counting"
    /\ counter' = seen[a] + 1 /\ seen' = [seen EXCEPT ![a] = 0]
    /\ pc' = [pc EXCEPT ![a] = "reporting"]
    /\ UNCHANGED <<memory, event, sockets, report, received, ended, history>>

(* and reads it again for its report.                                      *)
CountReport(a) ==
    /\ ~ended /\ pc[a] = "reporting" /\ event[a] = "SOCK"
    /\ report' = [report EXCEPT ![a] = counter]
    /\ Returns(a, msg[a])
    /\ UNCHANGED <<heap, counter, seen, received, history>>

(* After TRIGGER there is no actor to set the report of. *)
CountCrashes(a) ==
    /\ ~ended /\ pc[a] = "reporting" /\ event[a] = "TRIGGER"
    /\ ended' = TRUE
    /\ UNCHANGED <<memory, pc, event, sockets, counting, history>>

-----------------------------------------------------------------------------
(* The rest of the turn *)

\* Actor a's turn is over, but for the DESTROY after a STOP.
TurnEnds(a) ==
    /\ ret' = [ret EXCEPT ![a] = NULL] /\ request' = [request EXCEPT ![a] = NULL]
    /\ pc' = [pc EXCEPT ![a] =
        CASE event[a] = "STOP" -> "handling" [] event[a] = "DESTROY" -> "gone"
          [] OTHER -> "idle"]
    /\ event' = [event EXCEPT ![a] = IF @ = "STOP" THEN "DESTROY" ELSE "NONE"]

\* What the handler returned is published, sent on the pipe, or destroyed.
Passes(a) ==
    \/ ret[a] # NULL /\ event[a] \in PublishedAfter /\ Publishes(a)
    \/ ret[a] # NULL /\ event[a] = "API" /\ Answers(a) /\ UNCHANGED <<queue, published>>
    \/ /\ ret[a] = NULL \/ event[a] \notin PublishedAfter \cup {"API"}
       /\ UNCHANGED <<sockets, published>>

(* Mutant: what is returned to another actor's API message is kept. *)
DisposeKeeping(a) ==
    /\ ~ended /\ pc[a] = "returned" /\ ~Dangles(ret[a])
    /\ event[a] # "TRIGGER" \/ ret[a] = NULL
    /\ Passes(a)
    /\ heap' = IF event[a] = "PEER" THEN heap ELSE Free(Free(heap, ret[a]), request[a])
    /\ TurnEnds(a)
    /\ UNCHANGED <<msg, counting, ended, events, printed, refused, tainted>>

(* Sending a message destroys it, here or at the client.  An actor that    *)
(* stops goes on to be destroyed.                                          *)
Dispose(a) ==
    /\ ~ended /\ pc[a] = "returned" /\ ~Dangles(ret[a])
    /\ event[a] # "TRIGGER" \/ ret[a] = NULL
    /\ Passes(a)
    /\ heap' = Free(Free(heap, ret[a]), request[a])
    /\ TurnEnds(a)
    /\ UNCHANGED <<msg, counting, ended, events, printed, refused, tainted>>

(* TRIGGER publishes what the handler returned as well, *)
PublishTriggered(a) ==
    /\ ~ended /\ pc[a] = "returned" /\ ~Dangles(ret[a])
    /\ event[a] = "TRIGGER" /\ ret[a] # NULL
    /\ Publishes(a)
    /\ heap' = Free(heap, ret[a])
    /\ pc' = [pc EXCEPT ![a] = "again"]
    /\ UNCHANGED <<msg, ret, request, event, counting, ended, events, printed, refused,
                   tainted>>

(* and destroys it again through its own pointer: that fails an assertion  *)
(* (UseDestroyed), or destroys what another thread has there by now.       *)
DestroyAgain(a) ==
    /\ ~ended /\ pc[a] = "again" /\ ~Dangles(ret[a])
    /\ heap' = Free(Free(heap, ret[a]), request[a])
    /\ TurnEnds(a)
    /\ UNCHANGED <<msg, sockets, counting, ended, history>>

(* Any use of a destroyed message fails an assertion of CZMQ. *)
UseDestroyed(a) ==
    /\ ~ended
    /\ \/ pc[a] = "handling" /\ Dangles(msg[a])
       \/ pc[a] \in {"returned", "again"} /\ Dangles(ret[a])
    /\ ended' = TRUE
    /\ UNCHANGED <<memory, pc, event, sockets, counting, history>>

Turn(a) ==
    \/ Receive(a) \/ Refuse(a) \/ SignalStart(a)
    \/ PassOn(a) \/ Ignore(a) \/ Answer(a) \/ PrintOut(a)
    \/ CountRead(a) \/ CountWrite(a) \/ CountReport(a) \/ CountCrashes(a)
    \/ Dispose(a) \/ PublishTriggered(a) \/ DestroyAgain(a) \/ UseDestroyed(a)

Outside(a) ==
    \/ Time(a) \/ FdSock(a) \/ Command(a) \/ Trigger(a) \/ Send(a)
    \/ Start(a) \/ Terminate(a) \/ Collect(a)
    \/ \E m \in {"API", "TERM"} : Inject(a, m)

Next == \E a \in Actors : Turn(a) \/ Outside(a)

Spec == Init /\ [][Next]_vars

-----------------------------------------------------------------------------
(* Properties *)

\* The messages actor a is to free.
Owned(a) == {msg[a], ret[a], request[a]} \ {NULL}

\* Unless a handler was triggered that answers, or that needs its actor, no
\* message has two owners or is used after it was destroyed, and the program
\* goes on (the event loop, s_publish_msg and the stock handlers).
Ownership ==
    tainted \/
    /\ ~ended
    /\ \A a \in Actors : \A p \in Owned(a) : heap[p] # NULL
    /\ \A a, b \in Actors : a # b => Owned(a) \cap Owned(b) = {}

\* What is allocated and nobody's is exactly the $TERM messages of other
\* actors that were refused: every path of the loop and of the stock
\* handlers frees what it received, but for that one.
NoLeak ==
    tainted \/
    Cardinality({b \in Blocks : heap[b] # NULL} \ UNION {Owned(a) : a \in Actors})
        = refused

\* What a Log actor prints was published by actors it is connected to, each
\* message at most once and in the order its publisher published them, however
\* many are dropped on the way.
InOrder ==
    tainted \/
    \A l \in Actors :
        /\ \A i \in DOMAIN printed[l] :
            /\ printed[l][i].from \in Sources[l]
            /\ printed[l][i].n <= published[printed[l][i].from]
        /\ \A i, j \in DOMAIN printed[l] :
            i < j /\ printed[l][i].from = printed[l][j].from
                => printed[l][i].n < printed[l][j].n

\* The shared counter of the Count actors loses increments but never counts
\* what was not received, nor does a report; with one Count actor it is exact
\* but for the message in hand.
Counted ==
    tainted \/
    /\ counter <= received
    /\ \A a \in Actors : report[a] <= received
    /\ \A c \in Actors :
        {a \in Actors : Kind[a] = "Count"} = {c} /\ pc[c] = "idle" =>
            counter = received /\ report[c] = received
    /\ received > 0 /\ (\A a \in Actors : pc[a] = "idle") => counter > 0

=============================================================================
