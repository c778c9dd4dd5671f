--------------------------- MODULE HandlersProofs ---------------------------
(***************************************************************************)
(* Proofs about Handlers for any actors, connections, heap, queues and     *)
(* number of events: who owns a message, in what order messages arrive,    *)
(* and what the shared counter counts.                                     *)
(***************************************************************************)
EXTENDS Handlers, FiniteSetTheorems, TLAPS

USE HandlersAssumption

-----------------------------------------------------------------------------
(* Types *)

(* What is on its way are messages. *)
LEMMA MessagesMade ==
    /\ \A op \in {"DATA", "API", "TERM", "TRIGGER"} : Bare(op) \in Message
    /\ \A n \in Nat, a \in Actors : Data(n, a) \in Message
BY DEF Bare, Data, Message

(* A block that is freed holds nothing, the others what they held. *)
LEMMA FreeBlock ==
    ASSUME NEW h \in [Blocks -> Message \cup {NULL}], NEW p
    PROVE  /\ Free(h, p) \in [Blocks -> Message \cup {NULL}]
           /\ \A c \in Blocks : Free(h, p)[c] = IF c = p THEN NULL ELSE h[c]
BY DEF Free, Blocks

(* An allocated block was free, and holds the message. *)
LEMMA AllocatedBlock ==
    ASSUME NEW h \in [Blocks -> Message \cup {NULL}], NEW b \in Blocks, NEW m \in Message,
           Allocated(h, b, m)
    PROVE  /\ heap' \in [Blocks -> Message \cup {NULL}]
           /\ h[b] = NULL /\ heap'[b] = m
           /\ \A c \in Blocks \ {b} : heap'[c] = h[c]
BY DEF Allocated

(* A message put into a queue. *)
LEMMA PutType ==
    ASSUME NEW q \in Seq(Message), NEW m \in Message
    PROVE  /\ Append(q, m) \in Seq(Message) /\ Len(q) \in Nat
           /\ Len(Append(q, m)) = Len(q) + 1
           /\ Append(q, m)[Len(q) + 1] = m
           /\ \A i \in 1 .. Len(q) : Append(q, m)[i] = q[i]
OBVIOUS

(* A publication numbers the message and keeps every queue within bounds. *)
LEMMA PublishType ==
    ASSUME TypeOK, NEW a \in Actors, Publishes(a)
    PROVE  /\ published' \in [Actors -> Nat]
           /\ queue' \in [Actors -> Seq(Message)]
           /\ \A s \in Actors : Len(queue'[s]) <= HWM
           /\ piped' = piped
<1>1. published[a] + 1 \in Nat /\ published' \in [Actors -> Nat]
  BY DEF TypeOK, Publishes
<1>2. Data(published[a] + 1, a) \in Message
  BY <1>1, MessagesMade
<1>3. ASSUME NEW s \in Actors
      PROVE  queue'[s] \in Seq(Message) /\ Len(queue'[s]) <= HWM
  <2>1. queue[s] \in Seq(Message) /\ Len(queue[s]) \in Nat /\ Len(queue[s]) <= HWM
    BY DEF TypeOK
  <2>2. \/ queue'[s] = queue[s]
        \/ Len(queue[s]) < HWM /\ queue'[s] = Append(queue[s], Data(published[a] + 1, a))
    BY DEF Publishes
  <2>3. ASSUME NEW m, m = Data(published[a] + 1, a), Len(queue[s]) < HWM,
               queue'[s] = Append(queue[s], m)
        PROVE  queue'[s] \in Seq(Message) /\ Len(queue'[s]) <= HWM
    BY <1>2, <2>1, <2>3, PutType
  <2> QED  BY <2>1, <2>2, <2>3
<1>4. queue' \in [Actors -> Seq(Message)] /\ piped' = piped
  BY <1>3 DEF Publishes
<1> QED  BY <1>1, <1>3, <1>4

(* An answer finds room in the pipe, and leaves it within its bounds. *)
LEMMA AnswersType ==
    ASSUME TypeOK, NEW a \in Actors, Answers(a)
    PROVE  piped' \in [Actors -> 0 .. PipeHWM]
<1>1. piped[a] + 1 \in 0 .. PipeHWM
  BY DEF TypeOK, Answers
<1> QED  BY <1>1 DEF TypeOK, Answers

(* What becomes of what the handler returned keeps the types. *)
LEMMA PassesType ==
    ASSUME TypeOK, NEW a \in Actors, Passes(a)
    PROVE  /\ published' \in [Actors -> Nat]
           /\ queue' \in [Actors -> Seq(Message)]
           /\ \A s \in Actors : Len(queue'[s]) <= HWM
           /\ piped' \in [Actors -> 0 .. PipeHWM]
<1>1. \/ Publishes(a)
      \/ Answers(a) /\ UNCHANGED <<queue, published>>
      \/ UNCHANGED <<queue, published, piped>>
  BY DEF Passes, sockets
<1> QED  BY <1>1, PublishType, AnswersType DEF TypeOK

(* The head of a queue is a message, and its tail a queue. *)
LEMMA QueueParts ==
    ASSUME TypeOK, NEW a \in Actors, queue[a] # <<>>
    PROVE  /\ Head(queue[a]) \in Message /\ Tail(queue[a]) \in Seq(Message)
           /\ Len(Tail(queue[a])) <= HWM
BY DEF TypeOK

(* The types hold in the beginning. *)
LEMMA TypeInit == Init => TypeOK
<1> SUFFICES ASSUME Init PROVE TypeOK
  OBVIOUS
<1>1. queue \in [Actors -> Seq(Message)] /\ \A a \in Actors : Len(queue[a]) <= HWM
  BY DEF Init
<1>2. printed \in [Actors -> Seq(Message)]
  BY DEF Init
<1>3. msg = [a \in Actors |-> NULL] /\ ret = msg /\ request = msg
  BY DEF Init
<1>4. {msg, ret, request} \subseteq [Actors -> Blocks \cup {NULL}]
  BY <1>3
<1>5. heap \in [Blocks -> Message \cup {NULL}] /\ events \in 0 .. MaxEvents
  BY DEF Init
<1>6. piped \in [Actors -> 0 .. PipeHWM]
  BY DEF Init
<1> QED  BY <1>1, <1>2, <1>4, <1>5, <1>6 DEF Init, TypeOK, Points, EventTypes

(* A handler that returns keeps the types. *)
LEMMA ReturnsType ==
    ASSUME TypeOK, NEW a \in Actors, NEW p \in Blocks \cup {NULL}, Returns(a, p)
    PROVE  /\ pc' \in [Actors -> Points]
           /\ ret' \in [Actors -> Blocks \cup {NULL}]
           /\ msg' \in [Actors -> Blocks \cup {NULL}]
           /\ UNCHANGED <<request, event, queue, piped, ended>>
BY DEF TypeOK, Returns, Points, sockets

(* A call of the handler keeps the types. *)
LEMMA CallsType ==
    ASSUME TypeOK, NEW a \in Actors, NEW e \in EventTypes, Calls(a, e)
    PROVE  pc' \in [Actors -> Points] /\ event' \in [Actors -> EventTypes]
BY DEF TypeOK, Calls, Points

(* The end of a turn keeps the types. *)
LEMMA TurnEndsType ==
    ASSUME TypeOK, NEW a \in Actors, TurnEnds(a)
    PROVE  /\ pc' \in [Actors -> Points] /\ event' \in [Actors -> EventTypes]
           /\ ret' \in [Actors -> Blocks \cup {NULL}]
           /\ request' \in [Actors -> Blocks \cup {NULL}]
BY DEF TypeOK, TurnEnds, Points, EventTypes

(* An event from outside counts. *)
LEMMA ExternalType ==
    ASSUME TypeOK, External
    PROVE  events' \in 0 .. MaxEvents
BY DEF TypeOK, External

(* What the loop does with events keeps the types. *)
LEMMA OutsideType ==
    ASSUME TypeOK, NEW a \in Actors, Outside(a)
    PROVE  TypeOK'
<1>0. events' \in 0 .. MaxEvents
  <2>1. \/ External
        \/ UNCHANGED events
    BY DEF Outside, Time, FdSock, Command, Trigger, Send, Start, Terminate, Inject,
           Collect, history
  <2> QED  BY <2>1, ExternalType DEF TypeOK
<1>1. ASSUME Time(a) \/ Start(a) \/ Terminate(a) PROVE TypeOK'
  <2>2. /\ UNCHANGED <<memory, sockets, counting, ended, published, printed, refused, tainted>>
    BY <1>1 DEF Time, Start, Terminate
  <2>3. pc' \in [Actors -> Points] /\ event' \in [Actors -> EventTypes]
    <3>1. CASE Time(a) \/ Terminate(a)
      BY <3>1, CallsType DEF Time, Terminate, EventTypes
    <3>2. CASE Start(a)
      BY <3>2 DEF TypeOK, Start, Points, EventTypes
    <3> QED  BY <1>1, <3>1, <3>2
  <2> QED  BY <1>0, <2>2, <2>3 DEF TypeOK, memory, sockets, counting
<1>2. ASSUME FdSock(a) \/ Command(a) PROVE TypeOK'
  <2>1. PICK e \in EventTypes, b \in Blocks :
            Calls(a, e) /\ Allocated(heap, b, Bare("API")) /\ msg' = [msg EXCEPT ![a] = b]
    BY <1>2 DEF FdSock, Command, EventTypes
  <2>2. /\ UNCHANGED <<ret, request, sockets, counting, ended, published, printed, refused, tainted>>
    BY <1>2 DEF FdSock, Command
  <2>3. heap' \in [Blocks -> Message \cup {NULL}]
    BY <2>1, AllocatedBlock, MessagesMade DEF TypeOK
  <2>4. msg' \in [Actors -> Blocks \cup {NULL}]
    BY <2>1 DEF TypeOK
  <2>5. /\ pc' \in [Actors -> Points] /\ event' \in [Actors -> EventTypes]
    BY <2>1, CallsType
  <2> QED  BY <1>0, <2>2, <2>3, <2>4, <2>5 DEF TypeOK, sockets, counting
<1>3. CASE Trigger(a)
  <2>1. PICK b \in Blocks :
            Allocated(heap, b, Bare("TRIGGER")) /\ request' = [request EXCEPT ![a] = b]
    BY <1>3 DEF Trigger
  <2>2. heap' \in [Blocks -> Message \cup {NULL}]
    BY <2>1, AllocatedBlock, MessagesMade DEF TypeOK
  <2>3. request' \in [Actors -> Blocks \cup {NULL}] /\ tainted' \in BOOLEAN
    BY <1>3, <2>1 DEF TypeOK, Trigger
  <2>4. pc' \in [Actors -> Points] /\ event' \in [Actors -> EventTypes]
    BY <1>3, CallsType DEF Trigger, EventTypes
  <2> QED  BY <1>0, <1>3, <2>2, <2>3, <2>4 DEF TypeOK, Trigger, sockets, counting
<1>4. CASE Send(a)
  BY <1>0, <1>4, PublishType DEF TypeOK, Send, memory, counting
<1>5. ASSUME NEW m \in {"API", "TERM"}, Inject(a, m) PROVE TypeOK'
  <2>1. Bare(m) \in Message
    BY MessagesMade
  <2>2. queue' \in [Actors -> Seq(Message)] /\ \A s \in Actors : Len(queue'[s]) <= HWM
    BY <1>5, <2>1 DEF TypeOK, Inject
  <2> QED  BY <1>0, <1>5, <2>2 DEF TypeOK, Inject, memory, counting
<1>6. CASE Collect(a)
  <2>1. piped' \in [Actors -> 0 .. PipeHWM]
    BY <1>6 DEF TypeOK, Collect
  <2> QED  BY <1>6, <2>1 DEF TypeOK, Collect, memory, counting, history
<1> QED  BY <1>1, <1>2, <1>3, <1>4, <1>5, <1>6 DEF Outside

(* So does the turn of an actor, when it signals that it starts, *)
LEMMA StartType ==
    ASSUME TypeOK, NEW a \in Actors, SignalStart(a)
    PROVE  TypeOK'
<1>1. pc' \in [Actors -> Points] /\ piped' \in [Actors -> 0 .. PipeHWM]
  BY AnswersType DEF TypeOK, SignalStart, Points
<1> QED  BY <1>1 DEF TypeOK, SignalStart, memory, counting, history

(* when it takes a message, *)
LEMMA ReceiveType ==
    ASSUME TypeOK, NEW a \in Actors, Receive(a) \/ Refuse(a)
    PROVE  TypeOK'
<1>0. /\ Head(queue[a]) \in Message
      /\ queue' = [queue EXCEPT ![a] = Tail(@)]
      /\ queue' \in [Actors -> Seq(Message)] /\ \A s \in Actors : Len(queue'[s]) <= HWM
  <2>1. queue[a] # <<>> /\ queue' = [queue EXCEPT ![a] = Tail(@)]
    BY DEF Receive, Refuse
  <2> QED  BY <2>1, QueueParts DEF TypeOK
<1>1. CASE Receive(a)
  <2>1. PICK b \in Blocks, e \in EventTypes :
            /\ Calls(a, e) /\ Allocated(heap, b, Head(queue[a]))
            /\ msg' = [msg EXCEPT ![a] = b]
    BY <1>1 DEF Receive, EventTypes
  <2>2. heap' \in [Blocks -> Message \cup {NULL}]
    BY <1>0, <2>1, AllocatedBlock DEF TypeOK
  <2>3. msg' \in [Actors -> Blocks \cup {NULL}] /\ received' \in Nat
    BY <1>1, <2>1 DEF TypeOK, Receive
  <2>4. pc' \in [Actors -> Points] /\ event' \in [Actors -> EventTypes]
    BY <2>1, CallsType
  <2> QED  BY <1>0, <1>1, <2>2, <2>3, <2>4 DEF TypeOK, Receive, history
<1>2. CASE Refuse(a)
  <2>1. PICK b \in Blocks : Allocated(heap, b, Bare("TERM"))
    BY <1>2 DEF Refuse
  <2>2. heap' \in [Blocks -> Message \cup {NULL}]
    BY <2>1, AllocatedBlock, MessagesMade DEF TypeOK
  <2>3. refused' \in Nat
    BY <1>2 DEF TypeOK, Refuse
  <2> QED  BY <1>0, <1>2, <2>2, <2>3 DEF TypeOK, Refuse, counting
<1> QED  BY <1>1, <1>2

(* in its handler, *)
LEMMA HandlerType ==
    ASSUME TypeOK, NEW a \in Actors,
           \/ PassOn(a) \/ Ignore(a) \/ Answer(a) \/ PrintOut(a)
           \/ CountRead(a) \/ CountWrite(a) \/ CountReport(a) \/ CountCrashes(a)
    PROVE  TypeOK'
<1>0. msg[a] \in Blocks \cup {NULL} /\ heap \in [Blocks -> Message \cup {NULL}]
  BY DEF TypeOK
<1>00. Free(heap, msg[a]) \in [Blocks -> Message \cup {NULL}]
  BY <1>0, FreeBlock
<1>1. ASSUME NEW p \in Blocks \cup {NULL}, Returns(a, p),
             heap' \in [Blocks -> Message \cup {NULL}], UNCHANGED <<counting, history>>
      PROVE  TypeOK'
  BY <1>1, ReturnsType DEF TypeOK, counting, history
<1>2. CASE PassOn(a)
  BY <1>0, <1>1, <1>2 DEF PassOn
<1>3. CASE Ignore(a)
  BY <1>00, <1>1, <1>3 DEF Ignore
<1>4. CASE Answer(a)
  <2>1. PICK b \in Blocks : Allocated(Free(heap, msg[a]), b, Bare("DATA")) /\ Returns(a, b)
    BY <1>4 DEF Answer, ReturnsNew
  <2>2. heap' \in [Blocks -> Message \cup {NULL}]
    BY <1>00, <2>1, AllocatedBlock, MessagesMade
  <2> QED  BY <1>1, <1>4, <2>1, <2>2 DEF Answer
<1>5. CASE PrintOut(a)
  <2>1. heap[msg[a]] \in Message
    BY <1>0, <1>5 DEF PrintOut, Handles, Dangles
  <2>2. printed' \in [Actors -> Seq(Message)]
    <3>1. printed[a] \in Seq(Message)
      BY DEF TypeOK
    <3>2. Append(printed[a], heap[msg[a]]) \in Seq(Message)
      BY <2>1, <3>1, PutType
    <3> QED  BY <1>5, <3>2 DEF TypeOK, PrintOut
  <2> QED  BY <1>00, <1>5, <2>2, ReturnsType DEF TypeOK, PrintOut, counting
<1>6. CASE CountRead(a)
  BY <1>6 DEF TypeOK, CountRead, memory, sockets, history, Points
<1>7. CASE CountWrite(a)
  <2>1. seen[a] + 1 \in Nat /\ seen' \in [Actors -> Nat] /\ pc' \in [Actors -> Points]
    BY <1>7 DEF TypeOK, CountWrite, Points
  <2> QED  BY <1>7, <2>1 DEF TypeOK, CountWrite, memory, sockets, history
<1>8. CASE CountReport(a)
  <2>1. report' \in [Actors -> Nat]
    BY <1>8 DEF TypeOK, CountReport
  <2> QED  BY <1>0, <1>8, <2>1, ReturnsType DEF TypeOK, CountReport, history
<1>9. CASE CountCrashes(a)
  BY <1>9 DEF TypeOK, CountCrashes, memory, sockets, counting, history
<1> QED  BY <1>2, <1>3, <1>4, <1>5, <1>6, <1>7, <1>8, <1>9

(* and after it. *)
LEMMA DisposeType ==
    ASSUME TypeOK, NEW a \in Actors,
           Dispose(a) \/ PublishTriggered(a) \/ DestroyAgain(a) \/ UseDestroyed(a)
    PROVE  TypeOK'
<1>0. /\ Free(heap, ret[a]) \in [Blocks -> Message \cup {NULL}]
      /\ Free(Free(heap, ret[a]), request[a]) \in [Blocks -> Message \cup {NULL}]
  <2>1. Free(heap, ret[a]) \in [Blocks -> Message \cup {NULL}]
    BY FreeBlock DEF TypeOK
  <2> QED  BY <2>1, FreeBlock
<1>1. CASE Dispose(a)
  <2>2. /\ published' \in [Actors -> Nat] /\ queue' \in [Actors -> Seq(Message)]
        /\ \A s \in Actors : Len(queue'[s]) <= HWM
        /\ piped' \in [Actors -> 0 .. PipeHWM]
    BY <1>1, PassesType DEF Dispose
  <2> QED  BY <1>0, <1>1, <2>2, TurnEndsType DEF TypeOK, Dispose, counting
<1>2. CASE PublishTriggered(a)
  <2>1. pc' \in [Actors -> Points]
    BY <1>2 DEF TypeOK, PublishTriggered, Points
  <2>2. /\ published' \in [Actors -> Nat] /\ queue' \in [Actors -> Seq(Message)]
        /\ \A s \in Actors : Len(queue'[s]) <= HWM
        /\ piped' = piped
    BY <1>2, PublishType DEF PublishTriggered
  <2> QED  BY <1>0, <1>2, <2>1, <2>2 DEF TypeOK, PublishTriggered, counting
<1>3. CASE DestroyAgain(a)
  BY <1>0, <1>3, TurnEndsType DEF TypeOK, DestroyAgain, sockets, counting, history
<1>4. CASE UseDestroyed(a)
  BY <1>4 DEF TypeOK, UseDestroyed, memory, sockets, counting, history
<1> QED  BY <1>1, <1>2, <1>3, <1>4

(* Every step keeps the types. *)
LEMMA TypeStep == TypeOK /\ [Next]_vars => TypeOK'
<1> SUFFICES ASSUME TypeOK, [Next]_vars PROVE TypeOK'
  OBVIOUS
<1>1. CASE UNCHANGED vars
  BY <1>1 DEF vars, memory, sockets, counting, history, TypeOK
<1> QED  BY <1>1, OutsideType, StartType, ReceiveType, HandlerType, DisposeType DEF Next, Turn

(* All pointers, queues and counters keep their types, for any actors and  *)
(* connections, whatever a TRIGGER does to the heap.                       *)
THEOREM TypeCorrect == Spec => []TypeOK
<1>1. TypeOK /\ [Next]_vars => TypeOK'
  BY TypeStep
<1> QED  BY TypeInit, <1>1, PTL DEF Spec

-----------------------------------------------------------------------------
(* The invariant: owners *)

\* Which of an actor's three pointers may be set at each point of its turn,
\* as long as no TRIGGER went to a handler that does not bear it.
Tidy(a) ==
    /\ pc[a] \in {"idle", "gone"} =>
        event[a] = "NONE" /\ msg[a] = NULL /\ ret[a] = NULL /\ request[a] = NULL
    /\ pc[a] \in {"starting", "handling", "counting", "reporting"} =>
        event[a] # "NONE" /\ ret[a] = NULL
    /\ pc[a] = "starting" => event[a] = "INIT" /\ msg[a] = NULL
    /\ pc[a] = "returned" => msg[a] = NULL
    /\ pc[a] # "again"
    /\ event[a] = "TRIGGER" => Kind[a] \in {"Log", "Pulse"} /\ msg[a] = NULL /\ ret[a] = NULL
    /\ event[a] # "TRIGGER" => request[a] = NULL
    /\ pc[a] \in {"counting", "reporting"} => Kind[a] = "Count" /\ event[a] = "SOCK"
AllTidy == \A a \in Actors : Tidy(a)

\* What is owned is allocated, and has one owner.
Live == \A a \in Actors : \A p \in Owned(a) : heap[p] # NULL
Apart == \A a, b \in Actors : a # b => Owned(a) \cap Owned(b) = {}

\* What is allocated and nobody's.
Unowned == {b \in Blocks : heap[b] # NULL} \ UNION {Owned(a) : a \in Actors}
Leaked == IsFiniteSet(Unowned) /\ Cardinality(Unowned) = refused

Owners == ~ended /\ AllTidy /\ Live /\ Apart /\ Leaked

\* A step of actor a that keeps the books: other actors own what they owned,
\* the heap changes only where a owns something, what a owns from now on was
\* free or its own, and what it owns no longer is free.
Balanced(a) ==
    /\ \A c \in Actors \ {a} : Owned(c)' = Owned(c)
    /\ \A p \in Blocks : heap'[p] # heap[p] => p \in Owned(a) \cup Owned(a)'
    /\ \A p \in Owned(a)' : heap'[p] # NULL /\ (p \notin Owned(a) => heap[p] = NULL)
    /\ \A p \in Owned(a) \ Owned(a)' : heap'[p] = NULL

(* An actor owns blocks. *)
LEMMA OwnedBlocks ==
    ASSUME TypeOK
    PROVE  \A a \in Actors : Owned(a) \subseteq Blocks
BY DEF TypeOK, Owned

(* A step that keeps the books leaves no message with two owners, and none *)
(* without that had one.                                                   *)
LEMMA BalancedKeeps ==
    ASSUME TypeOK, TypeOK', NEW a \in Actors, Balanced(a), Live, Apart
    PROVE  /\ Live' /\ Apart' /\ Unowned' = Unowned
           /\ \A c \in Actors \ {a} : \A p \in Owned(c) : heap'[p] = heap[p]
<1>1. \A c \in Actors : Owned(c) \subseteq Blocks /\ Owned(c)' \subseteq Blocks
  BY OwnedBlocks DEF TypeOK, Owned
<1>2. \A c \in Actors \ {a} : Owned(c)' = Owned(c) /\ Owned(c) \cap Owned(a) = {}
  BY DEF Balanced, Apart
<1>3. \A c \in Actors \ {a} : Owned(c) \cap Owned(a)' = {}
  BY <1>2 DEF Balanced, Live
<1>4. \A c \in Actors \ {a} : \A p \in Owned(c) : heap'[p] = heap[p]
  BY <1>1, <1>2, <1>3 DEF Balanced
<1>5. Live'
  BY <1>2, <1>4 DEF Balanced, Live
<1>6. Apart'
  BY <1>2, <1>3 DEF Apart
<1>7. ASSUME NEW p \in Blocks PROVE p \in Unowned <=> p \in Unowned'
  <2>1. CASE p \in Owned(a) \cup Owned(a)'
    BY <2>1, <1>2 DEF Balanced, Live, Unowned
  <2>2. CASE p \notin Owned(a) \cup Owned(a)'
    <3>1. heap'[p] = heap[p]
      BY <2>2 DEF Balanced
    <3>2. \A c \in Actors : p \in Owned(c) <=> p \in Owned(c)'
      BY <2>2, <1>2
    <3> QED  BY <3>1, <3>2 DEF Unowned
  <2> QED  BY <2>1, <2>2
<1>8. Unowned \subseteq Blocks /\ Unowned' \subseteq Blocks
  BY DEF Unowned, Blocks
<1> QED  BY <1>4, <1>5, <1>6, <1>7, <1>8

(* Other actors' pointers are left alone. *)
LEMMA OthersOwn ==
    ASSUME NEW a \in Actors,
           \A c \in Actors \ {a} :
                msg'[c] = msg[c] /\ ret'[c] = ret[c] /\ request'[c] = request[c]
    PROVE  \A c \in Actors \ {a} : Owned(c)' = Owned(c)
BY DEF Owned

(* Every event from outside keeps the books. *)
LEMMA OutsideBalanced ==
    ASSUME TypeOK, AllTidy, Live, NEW a \in Actors, Outside(a)
    PROVE  Balanced(a)
<1>0. heap \in [Blocks -> Message \cup {NULL}]
  BY DEF TypeOK
<1>1. ASSUME UNCHANGED memory PROVE Balanced(a)
  <2>1. \A c \in Actors : Owned(c)' = Owned(c)
    BY <1>1 DEF memory, Owned
  <2>2. heap' = heap
    BY <1>1 DEF memory
  <2> QED  BY <2>1, <2>2 DEF Balanced, Live
<1>2. ASSUME NEW b \in Blocks, NEW m \in Message, Allocated(heap, b, m),
             \/ msg' = [msg EXCEPT ![a] = b] /\ UNCHANGED <<ret, request>>
             \/ request' = [request EXCEPT ![a] = b] /\ UNCHANGED <<msg, ret>>,
             pc[a] = "idle"
      PROVE  Balanced(a)
  <2>1. heap[b] = NULL /\ heap'[b] # NULL /\ \A c \in Blocks \ {b} : heap'[c] = heap[c]
    BY <1>0, <1>2, AllocatedBlock
  <2>2. msg[a] = NULL /\ ret[a] = NULL /\ request[a] = NULL
    BY <1>2 DEF AllTidy, Tidy
  <2>3. Owned(a) = {} /\ Owned(a)' = {b}
    BY <1>2, <2>2 DEF Owned, TypeOK
  <2>4. \A c \in Actors \ {a} : Owned(c)' = Owned(c)
    BY <1>2 DEF Owned, TypeOK
  <2> QED  BY <2>1, <2>3, <2>4 DEF Balanced
<1>3. CASE FdSock(a) \/ Command(a) \/ Trigger(a)
  <2>1. pc[a] = "idle" /\ Bare("API") \in Message /\ Bare("TRIGGER") \in Message
    BY <1>3, MessagesMade DEF FdSock, Command, Trigger, Polls
  <2> QED  BY <1>2, <1>3, <2>1 DEF FdSock, Command, Trigger
<1> QED  BY <1>1, <1>3 DEF Outside, Time, Send, Start, Terminate, Inject, Collect

(* Unless it was triggered in vain, an actor does not use what it destroyed. *)
LEMMA NothingDangles ==
    ASSUME TypeOK, AllTidy, Live, NEW a \in Actors
    PROVE  /\ ~Dangles(msg[a]) /\ ~Dangles(ret[a])
           /\ ~UseDestroyed(a) /\ ~CountCrashes(a)
           /\ ~PublishTriggered(a) /\ ~DestroyAgain(a)
<1>1. ~Dangles(msg[a]) /\ ~Dangles(ret[a])
  BY DEF Live, Owned, Dangles
<1>2. ~UseDestroyed(a)
  BY <1>1 DEF UseDestroyed
<1> QED  BY <1>1, <1>2 DEF AllTidy, Tidy, CountCrashes, PublishTriggered, DestroyAgain

(* A handler that returns keeps the books: it has kept the message, or     *)
(* destroyed it, or destroyed it and made another.                         *)
LEMMA ReturnsBalanced ==
    ASSUME TypeOK, AllTidy, Live, NEW a \in Actors, NEW p \in Blocks \cup {NULL},
           pc[a] \in {"handling", "reporting"}, Returns(a, p),
           \/ p = msg[a] /\ heap' = heap
           \/ p = NULL /\ heap' = Free(heap, msg[a])
           \/ /\ p \in Blocks /\ event[a] # "TRIGGER"
              /\ Allocated(Free(heap, msg[a]), p, Bare("DATA"))
    PROVE  Balanced(a)
<1>0. heap \in [Blocks -> Message \cup {NULL}] /\ msg[a] \in Blocks \cup {NULL}
  BY DEF TypeOK
<1>1. \A c \in Actors \ {a} : Owned(c)' = Owned(c)
  BY DEF Returns, Owned, TypeOK
<1>2. ret[a] = NULL /\ (event[a] = "TRIGGER" => msg[a] = NULL)
      /\ (event[a] # "TRIGGER" => request[a] = NULL)
  BY DEF AllTidy, Tidy
<1>3. ret'[a] = p /\ msg'[a] = NULL /\ request'[a] = request[a]
  BY DEF Returns, TypeOK
<1>4. Owned(a) = {msg[a], request[a]} \ {NULL} /\ Owned(a)' = {p, request[a]} \ {NULL}
  BY <1>2, <1>3 DEF Owned
<1>5. msg[a] = NULL \/ request[a] = NULL
  BY <1>2
<1>6. NULL \notin Blocks
  OBVIOUS
<1>7. \A c \in Blocks : Free(heap, msg[a])[c] = IF c = msg[a] THEN NULL ELSE heap[c]
  BY <1>0, FreeBlock
<1>8. CASE p = msg[a] /\ heap' = heap
  <2>1. Owned(a)' = Owned(a)
    BY <1>4, <1>8
  <2> QED  BY <1>1, <1>8, <2>1 DEF Balanced, Live
<1>9. CASE p = NULL /\ heap' = Free(heap, msg[a])
  <2>1. Owned(a)' = {request[a]} \ {NULL}
    BY <1>4, <1>9
  <2>2. \A q \in Owned(a) : q \in Blocks /\ heap[q] # NULL
    BY OwnedBlocks DEF Live
  <2>3. \A c \in Blocks : heap'[c] = IF c = msg[a] THEN NULL ELSE heap[c]
    BY <1>7, <1>9
  <2> QED  BY <1>1, <1>4, <1>5, <1>6, <2>1, <2>2, <2>3 DEF Balanced
<1>10. CASE /\ p \in Blocks /\ event[a] # "TRIGGER"
            /\ Allocated(Free(heap, msg[a]), p, Bare("DATA"))
  <2>1. request[a] = NULL /\ Owned(a) = {msg[a]} \ {NULL} /\ Owned(a)' = {p}
    BY <1>2, <1>4, <1>6, <1>10
  <2>2. Free(heap, msg[a]) \in [Blocks -> Message \cup {NULL}] /\ Bare("DATA") \in Message
    BY <1>0, FreeBlock, MessagesMade
  <2>3. /\ Free(heap, msg[a])[p] = NULL /\ heap'[p] # NULL
        /\ \A c \in Blocks \ {p} : heap'[c] = Free(heap, msg[a])[c]
    BY <1>10, <2>2, AllocatedBlock
  <2>4. p # msg[a] => heap[p] = NULL
    BY <1>7, <1>10, <2>3
  <2>5. \A c \in Blocks \ {p} : heap'[c] = IF c = msg[a] THEN NULL ELSE heap[c]
    BY <1>7, <2>3
  <2> QED  BY <1>0, <1>1, <1>10, <2>1, <2>3, <2>4, <2>5 DEF Balanced
<1> QED  BY <1>8, <1>9, <1>10

(* The turn of an actor keeps the books, but when it refuses a message. *)
LEMMA TurnBalanced ==
    ASSUME TypeOK, AllTidy, Live, NEW a \in Actors, Turn(a), ~Refuse(a)
    PROVE  Balanced(a) /\ ended' = ended /\ UNCHANGED <<tainted, refused>>
<1>0. heap \in [Blocks -> Message \cup {NULL}] /\ msg[a] \in Blocks \cup {NULL}
  BY DEF TypeOK
<1>1. CASE Receive(a)
  <2>1. PICK b \in Blocks : Allocated(heap, b, Head(queue[a])) /\ msg' = [msg EXCEPT ![a] = b]
    BY <1>1 DEF Receive
  <2>2. Head(queue[a]) \in Message
    BY <1>1, QueueParts DEF Receive
  <2>3. heap[b] = NULL /\ heap'[b] # NULL /\ \A c \in Blocks \ {b} : heap'[c] = heap[c]
    BY <1>0, <2>1, <2>2, AllocatedBlock
  <2>4. msg[a] = NULL /\ ret[a] = NULL /\ request[a] = NULL /\ UNCHANGED <<ret, request>>
    BY <1>1 DEF Receive, Polls, AllTidy, Tidy
  <2>5. Owned(a) = {} /\ Owned(a)' = {b}
    BY <2>1, <2>4 DEF Owned, TypeOK
  <2>6. \A c \in Actors \ {a} : Owned(c)' = Owned(c)
    BY <2>1, <2>4 DEF Owned, TypeOK
  <2>7. Balanced(a)
    BY <2>3, <2>5, <2>6 DEF Balanced
  <2> QED  BY <1>1, <2>7 DEF Receive, history
<1>2. CASE PassOn(a) \/ CountReport(a)
  <2>1. /\ pc[a] \in {"handling", "reporting"} /\ Returns(a, msg[a]) /\ heap' = heap
        /\ UNCHANGED history
    BY <1>2 DEF PassOn, Handles, CountReport
  <2> QED  BY <1>0, <2>1, ReturnsBalanced DEF Returns, history
<1>3. CASE Ignore(a) \/ PrintOut(a)
  <2>1. /\ pc[a] = "handling" /\ Returns(a, NULL) /\ heap' = Free(heap, msg[a])
        /\ UNCHANGED <<tainted, refused>>
    BY <1>3 DEF Ignore, Handles, PrintOut, history
  <2> QED  BY <1>0, <2>1, ReturnsBalanced DEF Returns
<1>4. CASE Answer(a)
  <2>1. PICK b \in Blocks : Allocated(Free(heap, msg[a]), b, Bare("DATA")) /\ Returns(a, b)
    BY <1>4 DEF Answer, ReturnsNew
  <2>2. pc[a] = "handling" /\ event[a] # "TRIGGER" /\ UNCHANGED history
    BY <1>4 DEF Answer, Handles, AllTidy, Tidy
  <2> QED  BY <2>1, <2>2, ReturnsBalanced DEF Returns, history
<1>5. CASE SignalStart(a) \/ CountRead(a) \/ CountWrite(a)
  <2>1. \A c \in Actors : Owned(c)' = Owned(c)
    BY <1>5 DEF SignalStart, CountRead, CountWrite, memory, Owned
  <2>2. heap' = heap /\ UNCHANGED <<ended, tainted, refused>>
    BY <1>5 DEF SignalStart, CountRead, CountWrite, memory, history
  <2> QED  BY <2>1, <2>2 DEF Balanced, Live
<1>6. CASE Dispose(a)
  <2>1. msg[a] = NULL /\ msg' = msg /\ ret'[a] = NULL /\ request'[a] = NULL
    BY <1>6 DEF Dispose, TurnEnds, AllTidy, Tidy, TypeOK
  <2>2. Owned(a) = {ret[a], request[a]} \ {NULL} /\ Owned(a)' = {}
    BY <2>1 DEF Owned
  <2>3. \A c \in Actors \ {a} : Owned(c)' = Owned(c)
    BY <1>6 DEF Dispose, TurnEnds, Owned, TypeOK
  <2>4. Free(heap, ret[a]) \in [Blocks -> Message \cup {NULL}]
    BY <1>0, FreeBlock
  <2>5. \A c \in Blocks : heap'[c] = IF c = request[a] THEN NULL ELSE Free(heap, ret[a])[c]
    BY <1>6, <2>4, FreeBlock DEF Dispose
  <2>6. \A c \in Blocks : heap'[c] = IF c \in {request[a], ret[a]} THEN NULL ELSE heap[c]
    BY <1>0, <2>5, FreeBlock
  <2>7. Balanced(a)
    BY <2>2, <2>3, <2>6, OwnedBlocks DEF Balanced
  <2> QED  BY <1>6, <2>7 DEF Dispose
<1> QED  BY <1>1, <1>2, <1>3, <1>4, <1>5, <1>6, NothingDangles DEF Turn

(* A step of an actor leaves the others' pointers and threads alone. *)
LEMMA OthersAlone ==
    ASSUME TypeOK, NEW a \in Actors, Turn(a) \/ Outside(a), NEW c \in Actors \ {a}
    PROVE  /\ pc'[c] = pc[c] /\ event'[c] = event[c] /\ msg'[c] = msg[c]
           /\ ret'[c] = ret[c] /\ request'[c] = request[c]
<1>1. ASSUME Outside(a)
      PROVE  /\ pc'[c] = pc[c] /\ event'[c] = event[c] /\ msg'[c] = msg[c]
             /\ ret'[c] = ret[c] /\ request'[c] = request[c]
  BY <1>1 DEF Outside, Time, FdSock, Command, Trigger, Send, Start, Terminate, Inject,
              Collect, Calls, memory, TypeOK
<1>2. CASE SignalStart(a) \/ Receive(a) \/ Refuse(a) \/ CountRead(a) \/ CountWrite(a) \/ CountCrashes(a)
  BY <1>2 DEF SignalStart, Receive, Refuse, CountRead, CountWrite, CountCrashes, Calls,
              memory, TypeOK
<1>3. ASSUME NEW p, Returns(a, p)
      PROVE  /\ pc'[c] = pc[c] /\ event'[c] = event[c] /\ msg'[c] = msg[c]
             /\ ret'[c] = ret[c] /\ request'[c] = request[c]
  BY <1>3 DEF Returns, TypeOK
<1>4. CASE PassOn(a) \/ Ignore(a) \/ Answer(a) \/ PrintOut(a) \/ CountReport(a)
  BY <1>3, <1>4 DEF PassOn, Ignore, Answer, ReturnsNew, PrintOut, CountReport
<1>5. CASE Dispose(a) \/ PublishTriggered(a) \/ DestroyAgain(a) \/ UseDestroyed(a)
  BY <1>5 DEF Dispose, PublishTriggered, DestroyAgain, UseDestroyed, TurnEnds, memory, TypeOK
<1> QED  BY <1>1, <1>2, <1>4, <1>5 DEF Turn

(* An actor's pointers stay tidy, but for a TRIGGER given in vain. *)
LEMMA TidyStep ==
    ASSUME TypeOK, AllTidy, Live, NEW a \in Actors, Turn(a) \/ Outside(a), ~tainted'
    PROVE  AllTidy'
<1>1. ASSUME NEW c \in Actors \ {a} PROVE Tidy(c)'
  BY OthersAlone DEF AllTidy, Tidy
<1>2. ASSUME Outside(a) PROVE Tidy(a)'
  <2>1. CASE Time(a) \/ FdSock(a) \/ Command(a) \/ Terminate(a)
    <3>1. \E e \in EventTypes \ {"NONE", "TRIGGER"} : Calls(a, e)
      BY <2>1 DEF Time, FdSock, Command, Terminate, EventTypes
    <3>2. pc'[a] = "handling" /\ event'[a] \notin {"NONE", "TRIGGER"}
      BY <3>1 DEF Calls, TypeOK
    <3>3. ret'[a] = NULL /\ request'[a] = NULL
      BY <2>1 DEF Time, FdSock, Command, Terminate, memory, Polls, AllTidy, Tidy
    <3> QED  BY <3>2, <3>3 DEF Tidy
  <2>4. CASE Start(a)
    <3>1. pc'[a] = "starting" /\ event'[a] = "INIT"
      BY <2>4 DEF Start, TypeOK
    <3>2. msg'[a] = NULL /\ ret'[a] = NULL /\ request'[a] = NULL
      BY <2>4 DEF Start, memory, Polls, AllTidy, Tidy
    <3> QED  BY <3>1, <3>2 DEF Tidy
  <2>2. CASE Trigger(a)
    <3>1. Kind[a] \in {"Log", "Pulse"}
      BY <2>2 DEF Trigger
    <3>2. pc'[a] = "handling" /\ event'[a] = "TRIGGER"
      BY <2>2 DEF Trigger, Calls, TypeOK
    <3>3. ret'[a] = NULL /\ msg'[a] = NULL
      BY <2>2 DEF Trigger, Polls, AllTidy, Tidy
    <3> QED  BY <3>1, <3>2, <3>3 DEF Tidy
  <2>3. CASE Send(a) \/ Collect(a) \/ \E m \in {"API", "TERM"} : Inject(a, m)
    BY <2>3 DEF Send, Collect, Inject, memory, AllTidy, Tidy
  <2> QED  BY <1>2, <2>1, <2>2, <2>3, <2>4 DEF Outside
<1>3. CASE Receive(a)
  <2>1. pc'[a] = "handling" /\ event'[a] \in {"PEER", "SOCK"}
    BY <1>3 DEF Receive, Calls, TypeOK
  <2>2. ret'[a] = NULL /\ request'[a] = NULL
    BY <1>3 DEF Receive, Polls, AllTidy, Tidy
  <2>3. Tidy(a)'
    BY <2>1, <2>2 DEF Tidy
  <2> QED  BY <1>1, <2>3 DEF AllTidy
<1>4. CASE Refuse(a)
  BY <1>4 DEF Refuse, AllTidy, Tidy
<1>9. CASE SignalStart(a)
  <2>1. pc'[a] = "handling" /\ event'[a] = "INIT" /\ UNCHANGED memory
    BY <1>9 DEF SignalStart, AllTidy, Tidy, TypeOK
  <2>2. Tidy(a)'
    BY <1>9, <2>1 DEF SignalStart, memory, AllTidy, Tidy
  <2> QED  BY <1>1, <2>2 DEF AllTidy
<1>5. ASSUME NEW p, Returns(a, p), pc[a] \in {"handling", "reporting"},
             event[a] = "TRIGGER" => p = NULL
      PROVE  Tidy(a)'
  BY <1>5 DEF Returns, AllTidy, Tidy, TypeOK
<1>6. CASE PassOn(a) \/ Ignore(a) \/ Answer(a) \/ PrintOut(a) \/ CountReport(a)
  <2>1. PICK p : Returns(a, p) /\ pc[a] \in {"handling", "reporting"}
                 /\ (event[a] = "TRIGGER" => p = NULL)
    BY <1>6 DEF PassOn, Ignore, Answer, ReturnsNew, PrintOut, CountReport, Handles,
                AllTidy, Tidy
  <2>2. Tidy(a)'
    BY <1>5, <2>1
  <2> QED  BY <1>1, <2>2 DEF AllTidy
<1>7. CASE CountRead(a) \/ CountWrite(a)
  <2>1. /\ pc'[a] \in {"counting", "reporting"} /\ event' = event /\ UNCHANGED memory
        /\ pc[a] \in {"handling", "counting"}
        /\ Kind[a] = "Count" /\ event[a] = "SOCK"
    BY <1>7 DEF CountRead, CountWrite, Handles, IsSock, AllTidy, Tidy, TypeOK
  <2>2. Tidy(a)'
    BY <2>1 DEF memory, AllTidy, Tidy
  <2> QED  BY <1>1, <2>2 DEF AllTidy
<1>8. CASE Dispose(a)
  <2>1. /\ pc'[a] \in {"handling", "gone", "idle"} /\ ret'[a] = NULL /\ request'[a] = NULL
        /\ event'[a] \in {"DESTROY", "NONE"}
        /\ (pc'[a] = "handling" <=> event'[a] = "DESTROY")
    BY <1>8 DEF Dispose, TurnEnds, TypeOK, EventTypes
  <2>2. msg'[a] = NULL
    BY <1>8 DEF Dispose, AllTidy, Tidy
  <2>3. Tidy(a)'
    BY <2>1, <2>2 DEF Tidy
  <2> QED  BY <1>1, <2>3 DEF AllTidy
<1> QED  BY <1>1, <1>2, <1>3, <1>4, <1>6, <1>7, <1>8, <1>9, NothingDangles DEF Turn, AllTidy

(* A refused message is nobody's from then on. *)
LEMMA RefuseLeaks ==
    ASSUME TypeOK, Live, Apart, Leaked, NEW a \in Actors, Refuse(a)
    PROVE  /\ Live' /\ Apart' /\ Leaked' /\ ended' = ended
           /\ \A c \in Actors : \A p \in Owned(c) : heap'[p] = heap[p]
<1>1. PICK b \in Blocks : Allocated(heap, b, Bare("TERM"))
  BY DEF Refuse
<1>2. heap[b] = NULL /\ heap'[b] # NULL /\ \A c \in Blocks \ {b} : heap'[c] = heap[c]
  <2>1. heap \in [Blocks -> Message \cup {NULL}] /\ Bare("TERM") \in Message
    BY MessagesMade DEF TypeOK
  <2> QED  BY <1>1, <2>1, AllocatedBlock
<1>3. \A c \in Actors : Owned(c)' = Owned(c)
  BY DEF Refuse, Owned
<1>4. \A c \in Actors : b \notin Owned(c)
  BY <1>2 DEF Live
<1>5. Live' /\ \A c \in Actors : \A p \in Owned(c) : heap'[p] = heap[p]
  BY <1>2, <1>3, <1>4, OwnedBlocks DEF Live
<1>6. Apart'
  BY <1>3 DEF Apart
<1>7. ASSUME NEW p \in Blocks PROVE p \in Unowned' <=> p \in Unowned \cup {b}
  BY <1>2, <1>3, <1>4 DEF Unowned
<1>8. Unowned' = Unowned \cup {b} /\ b \notin Unowned
  <2>1. Unowned \subseteq Blocks /\ Unowned' \subseteq Blocks
    BY DEF Unowned, Blocks
  <2> QED  BY <1>2, <1>7, <2>1 DEF Unowned
<1>9. IsFiniteSet(Unowned') /\ Cardinality(Unowned') = refused + 1
  BY <1>8, FS_AddElement DEF Leaked
<1> QED  BY <1>5, <1>6, <1>9 DEF Leaked, Refuse

-----------------------------------------------------------------------------
(* Who owns a message *)

(* In the beginning nothing is allocated. *)
LEMMA OwnersInit == Init => Owners
<1> SUFFICES ASSUME Init PROVE Owners
  OBVIOUS
<1>1. \A a \in Actors : /\ msg[a] = NULL /\ ret[a] = NULL /\ request[a] = NULL
                        /\ pc[a] = "idle" /\ event[a] = "NONE"
  BY DEF Init
<1>2. AllTidy
  BY <1>1 DEF AllTidy, Tidy
<1>3. \A a \in Actors : Owned(a) = {}
  BY <1>1 DEF Owned
<1>4. Unowned = {}
  BY DEF Init, Unowned
<1> QED  BY <1>2, <1>3, <1>4, FS_EmptySet DEF Init, Owners, Live, Apart, Leaked

(* Once a TRIGGER was given in vain, it was. *)
LEMMA TaintStays == [Next]_vars => (tainted => tainted')
<1>1. \A a \in Actors : Turn(a) => UNCHANGED tainted
  BY DEF Turn, SignalStart, Receive, Refuse, PassOn, Ignore, Answer, PrintOut, CountRead, CountWrite,
         CountReport, CountCrashes, Dispose, PublishTriggered, DestroyAgain, UseDestroyed,
         history
<1>2. \A a \in Actors : Outside(a) => (tainted => tainted')
  BY DEF Outside, Time, FdSock, Command, Trigger, Send, Start, Terminate, Inject, Collect,
         history
<1> QED  BY <1>1, <1>2 DEF Next, vars, history

(* Every step keeps the owners, but for a TRIGGER given in vain. *)
LEMMA OwnersStep ==
    ASSUME TypeOK, tainted \/ Owners, [Next]_vars
    PROVE  tainted' \/ Owners'
<1>1. CASE UNCHANGED vars
  BY <1>1 DEF vars, memory, history, Owners, AllTidy, Tidy, Live, Apart, Leaked, Unowned, Owned
<1>2. ASSUME NEW a \in Actors, Turn(a) \/ Outside(a), ~tainted' PROVE Owners'
  <2>1. ~tainted /\ Owners /\ TypeOK'
    <3>1. tainted => tainted'
      BY TaintStays
    <3>2. Next
      BY <1>2 DEF Next
    <3> QED  BY <1>2, <3>1, <3>2, TypeStep
  <2>2. AllTidy /\ Live /\ Apart /\ Leaked /\ ~ended
    BY <2>1 DEF Owners
  <2>3. AllTidy'
    BY <1>2, <2>2, TidyStep
  <2>4. CASE Refuse(a)
    BY <2>2, <2>3, <2>4, RefuseLeaks DEF Owners
  <2>5. CASE ~Refuse(a)
    <3>1. Balanced(a) /\ ended' = ended /\ refused' = refused
      <4>1. CASE Turn(a)
        BY <2>2, <2>5, <4>1, TurnBalanced
      <4>2. CASE Outside(a)
        BY <2>2, <4>2, OutsideBalanced DEF Outside, Time, FdSock, Command, Trigger, Send,
            Start, Terminate, Inject, Collect, history
      <4> QED  BY <1>2, <4>1, <4>2
    <3>2. Live' /\ Apart' /\ Unowned' = Unowned
      BY <2>1, <2>2, <3>1, BalancedKeeps
    <3> QED  BY <2>2, <2>3, <3>1, <3>2 DEF Owners, Leaked
  <2> QED  BY <2>4, <2>5
<1> QED  BY <1>1, <1>2 DEF Next

(* The owners are known in every behaviour, until a TRIGGER is given in vain. *)
LEMMA OwnersKnown == Spec => [](TypeOK /\ (tainted \/ Owners))
<1>1. Init => TypeOK /\ (tainted \/ Owners)
  BY TypeInit, OwnersInit
<1>2. TypeOK /\ (tainted \/ Owners) /\ [Next]_vars => (TypeOK /\ (tainted \/ Owners))'
  BY TypeStep, OwnersStep
<1> QED  BY <1>1, <1>2, PTL DEF Spec

(* No message has two owners or is used after it was destroyed, and no     *)
(* assertion ends the program, for any actors and connections, unless a    *)
(* handler was triggered that does not bear it.                            *)
THEOREM OwnershipHolds == Spec => []Ownership
<1>1. TypeOK /\ (tainted \/ Owners) => Ownership
  BY DEF Owners, Live, Apart, Ownership
<1> QED  BY OwnersKnown, <1>1, PTL

(* What is allocated and nobody's is exactly the refused messages: every   *)
(* other path of the loop and of the handlers frees what it received.      *)
THEOREM NothingElseLeaks == Spec => []NoLeak
<1>1. TypeOK /\ (tainted \/ Owners) => NoLeak
  BY DEF Owners, Leaked, Unowned, NoLeak
<1> QED  BY OwnersKnown, <1>1, PTL

-----------------------------------------------------------------------------
(* In what order messages arrive *)

\* x is numbered before y, if both are data of the same publisher.
Before(x, y) == x.op = "DATA" /\ y.op = "DATA" /\ x.from = y.from => x.n < y.n
\* m is what may be in the queue of an actor connected to src, and numbered no
\* higher than what was published.
Known(m, pub, src) ==
    m.op # "TRIGGER" /\ (m.op = "DATA" => m.from \in src /\ m.n <= pub[m.from])

\* What was printed, what is in hand and what waits are in order.
OnItsWay(p, h, q, pub, src) ==
    /\ \A i, j \in 1 .. Len(p) : i < j => Before(p[i], p[j])
    /\ \A i \in 1 .. Len(p), m \in h : Before(p[i], m)
    /\ \A i \in 1 .. Len(p), j \in 1 .. Len(q) : Before(p[i], q[j])
    /\ \A m \in h, j \in 1 .. Len(q) : Before(m, q[j])
    /\ \A i, j \in 1 .. Len(q) : i < j => Before(q[i], q[j])
    /\ \A i \in 1 .. Len(p) : p[i].op = "DATA" /\ Known(p[i], pub, src)
    /\ \A m \in h : m.op = "DATA" /\ Known(m, pub, src)
    /\ \A j \in 1 .. Len(q) : Known(q[j], pub, src)

\* The data an actor has in hand.
InHand(a) == pc[a] = "handling" /\ event[a] = "SOCK"
Hand(a) == IF InHand(a) THEN {heap[msg[a]]} ELSE {}

Arriving == \A l \in Actors :
    /\ InHand(l) => msg[l] # NULL
    /\ OnItsWay(printed[l], Hand(l), queue[l], published, Sources[l])

(* What is dropped, handled or forgotten leaves the rest in order. *)
LEMMA WayDrops ==
    ASSUME NEW p, NEW h, NEW q, NEW pub, NEW src, OnItsWay(p, h, q, pub, src),
           NEW h1 \in SUBSET h
    PROVE  OnItsWay(p, h1, q, pub, src)
BY DEF OnItsWay

(* The head of the queue is taken out, into an empty hand or none. *)
LEMMA WayTakes ==
    ASSUME NEW p, NEW q \in Seq(Message), NEW pub, NEW src, q # <<>>,
           OnItsWay(p, {}, q, pub, src), NEW h,
           h = {} \/ (h = {Head(q)} /\ Head(q).op = "DATA")
    PROVE  OnItsWay(p, h, Tail(q), pub, src)
<1>1. /\ Len(q) \in Nat \ {0} /\ Len(Tail(q)) = Len(q) - 1 /\ Head(q) = q[1]
      /\ \A i \in 1 .. Len(Tail(q)) : Tail(q)[i] = q[i + 1] /\ i + 1 \in 1 .. Len(q)
  OBVIOUS
<1>2. 1 \in 1 .. Len(q)
  BY <1>1
<1>3. \A i, j \in 1 .. Len(Tail(q)) : i < j => i + 1 < j + 1
  BY <1>1
<1>4. \A i \in 1 .. Len(Tail(q)) : 1 < i + 1
  BY <1>1
<1>5. \A i, j \in 1 .. Len(Tail(q)) : i < j => Before(Tail(q)[i], Tail(q)[j])
  BY <1>1, <1>3 DEF OnItsWay
<1>6. \A j \in 1 .. Len(Tail(q)) : Before(q[1], Tail(q)[j]) /\ Known(Tail(q)[j], pub, src)
  BY <1>1, <1>2, <1>4 DEF OnItsWay
<1> QED  BY <1>1, <1>2, <1>5, <1>6 DEF OnItsWay

(* What is in hand is printed. *)
LEMMA WayPrints ==
    ASSUME NEW p \in Seq(Message), NEW m \in Message, NEW q, NEW pub, NEW src,
           OnItsWay(p, {m}, q, pub, src)
    PROVE  OnItsWay(Append(p, m), {}, q, pub, src)
<1>1. Len(p) \in Nat /\ Len(Append(p, m)) = Len(p) + 1 /\ Append(p, m)[Len(p) + 1] = m
      /\ \A i \in 1 .. Len(p) : Append(p, m)[i] = p[i]
  BY PutType
<1>2. \A i \in 1 .. Len(Append(p, m)) :
        \/ i \in 1 .. Len(p) /\ Append(p, m)[i] = p[i]
        \/ i = Len(p) + 1 /\ Append(p, m)[i] = m
  BY <1>1
<1>3. \A i, j \in 1 .. Len(Append(p, m)) : i < j => i \in 1 .. Len(p)
  BY <1>1
<1>4. \A i, j \in 1 .. Len(Append(p, m)) : i < j => Before(Append(p, m)[i], Append(p, m)[j])
  BY <1>2, <1>3 DEF OnItsWay
<1> QED  BY <1>2, <1>4 DEF OnItsWay

(* A message is put into the queue that is numbered after all before it. *)
LEMMA WayPuts ==
    ASSUME NEW p, NEW h, NEW q \in Seq(Message), NEW m \in Message,
           NEW src \in SUBSET Actors,
           NEW pub \in [Actors -> Nat], NEW pub1 \in [Actors -> Nat],
           \A c \in Actors : pub[c] <= pub1[c],
           \A i \in 1 .. Len(p) : p[i] \in Message, h \subseteq Message,
           m.op # "TRIGGER",
           m.op = "DATA" => m.from \in src /\ pub[m.from] < m.n /\ m.n <= pub1[m.from],
           OnItsWay(p, h, q, pub, src)
    PROVE  OnItsWay(p, h, q, pub1, src) /\ OnItsWay(p, h, Append(q, m), pub1, src)
<1>0. \A x \in Message : x.n \in Nat
  BY DEF Message
<1>1. ASSUME NEW x \in Message, Known(x, pub, src)
      PROVE  Known(x, pub1, src) /\ Before(x, m)
  BY <1>0, <1>1 DEF Known, Before
<1>2. Known(m, pub1, src)
  BY DEF Known
<1>3. Len(q) \in Nat /\ Len(Append(q, m)) = Len(q) + 1 /\ Append(q, m)[Len(q) + 1] = m
      /\ \A i \in 1 .. Len(q) : Append(q, m)[i] = q[i] /\ q[i] \in Message
  BY PutType
<1>4. \A i \in 1 .. Len(Append(q, m)) :
        \/ i \in 1 .. Len(q) /\ Append(q, m)[i] = q[i]
        \/ i = Len(q) + 1 /\ Append(q, m)[i] = m
  BY <1>3
<1>5. \A i, j \in 1 .. Len(Append(q, m)) : i < j => i \in 1 .. Len(q)
  BY <1>3
<1>6. OnItsWay(p, h, q, pub1, src)
  BY <1>1, <1>3 DEF OnItsWay
<1>7. /\ \A i \in 1 .. Len(p) : Before(p[i], m)
      /\ \A x \in h : Before(x, m)
      /\ \A i \in 1 .. Len(q) : Before(q[i], m)
  BY <1>1, <1>3 DEF OnItsWay
<1>8. \A i, j \in 1 .. Len(Append(q, m)) : i < j => Before(Append(q, m)[i], Append(q, m)[j])
  BY <1>4, <1>5, <1>6, <1>7 DEF OnItsWay
<1> QED  BY <1>2, <1>4, <1>6, <1>7, <1>8 DEF OnItsWay

(* Nobody touches what another actor owns. *)
LEMMA OthersKept ==
    ASSUME TypeOK, TypeOK', Owners, NEW a \in Actors, Turn(a) \/ Outside(a),
           NEW c \in Actors \ {a}, NEW p \in Owned(c)
    PROVE  heap'[p] = heap[p]
<1>1. CASE Refuse(a)
  BY <1>1, RefuseLeaks DEF Owners
<1>2. CASE ~Refuse(a)
  <2>1. Balanced(a)
    BY <1>2, TurnBalanced, OutsideBalanced DEF Owners
  <2> QED  BY <2>1, BalancedKeeps DEF Owners
<1> QED  BY <1>1, <1>2

(* So what another actor has in hand stays the same. *)
LEMMA HandsKept ==
    ASSUME TypeOK, TypeOK', Owners, NEW a \in Actors, Turn(a) \/ Outside(a),
           NEW c \in Actors \ {a}, InHand(c) => msg[c] # NULL
    PROVE  Hand(c)' = Hand(c) /\ (InHand(c)' => msg'[c] # NULL)
<1>1. pc'[c] = pc[c] /\ event'[c] = event[c] /\ msg'[c] = msg[c]
  BY OthersAlone
<1>2. InHand(c) => heap'[msg[c]] = heap[msg[c]]
  BY OthersKept DEF Owned
<1> QED  BY <1>1, <1>2 DEF Hand, InHand

(* What is in hand and printed are messages. *)
LEMMA WayType ==
    ASSUME TypeOK, Owners, NEW l \in Actors, InHand(l) => msg[l] # NULL
    PROVE  /\ Hand(l) \subseteq Message
           /\ printed[l] \in Seq(Message) /\ queue[l] \in Seq(Message)
           /\ \A i \in 1 .. Len(printed[l]) : printed[l][i] \in Message
<1>1. InHand(l) => heap[msg[l]] \in Message
  BY DEF TypeOK, Owners, Live, Owned
<1> QED  BY <1>1 DEF Hand, TypeOK

(* A publication takes its place in the queues. *)
LEMMA PublishArrives ==
    ASSUME TypeOK, Owners, Arriving, NEW a \in Actors, Publishes(a), NEW l \in Actors
    PROVE  OnItsWay(printed[l], Hand(l), queue'[l], published', Sources[l])
<1>0. /\ published \in [Actors -> Nat] /\ published' \in [Actors -> Nat]
      /\ \A c \in Actors : published[c] <= published'[c]
      /\ published'[a] = published[a] + 1 /\ published[a] + 1 \in Nat
  <2>1. published \in [Actors -> Nat] /\ published' = [published EXCEPT ![a] = @ + 1]
    BY DEF TypeOK, Publishes
  <2> QED  BY <2>1
<1>1. PICK m \in Message : m = Data(published[a] + 1, a)
  BY <1>0, MessagesMade
<1>2. m.op = "DATA" /\ m.from = a /\ m.n = published[a] + 1
  BY <1>1 DEF Data
<1>3. /\ Hand(l) \subseteq Message
      /\ queue[l] \in Seq(Message)
      /\ \A i \in 1 .. Len(printed[l]) : printed[l][i] \in Message
      /\ OnItsWay(printed[l], Hand(l), queue[l], published, Sources[l])
  BY WayType DEF Arriving
<1>4. published[m.from] < m.n /\ m.n <= published'[m.from]
  BY <1>0, <1>2
<1>5. \/ queue'[l] = queue[l]
      \/ a \in Sources[l] /\ queue'[l] = Append(queue[l], m)
  BY <1>1 DEF Publishes, TypeOK
<1>6. m.op # "TRIGGER" /\ m.from = a /\ Sources[l] \in SUBSET Actors
  BY <1>2
<1>7. a \in Sources[l] =>
        OnItsWay(printed[l], Hand(l), Append(queue[l], m), published', Sources[l])
  BY <1>0, <1>3, <1>4, <1>6, WayPuts
<1>8. OnItsWay(printed[l], Hand(l), queue[l], published', Sources[l])
  <2>1. PICK t \in Message : t.op = "TERM"
    BY MessagesMade DEF Bare
  <2> QED  BY <1>0, <1>3, <2>1, WayPuts
<1> QED  BY <1>5, <1>7, <1>8

(* What an actor receives from its queue was put there by a publication or *)
(* as a bare message.                                                      *)
LEMMA ReceiveArrives ==
    ASSUME TypeOK, TypeOK', Owners, Arriving, NEW a \in Actors, Receive(a) \/ Refuse(a)
    PROVE  Arriving'
<1> DEFINE m == Head(queue[a])
<1>1. /\ pc[a] = "idle" /\ queue[a] # <<>> /\ queue' = [queue EXCEPT ![a] = Tail(@)]
      /\ UNCHANGED <<printed, published>>
  BY DEF Receive, Refuse, Polls, history
<1>2. Hand(a) = {} /\ queue[a] \in Seq(Message) /\ Head(queue[a]) = queue[a][1]
      /\ 1 \in 1 .. Len(queue[a])
  BY <1>1 DEF Hand, InHand, TypeOK
<1>3. Known(m, published, Sources[a])
  BY <1>2 DEF Arriving, OnItsWay
<1>4. /\ OnItsWay(printed[a], Hand(a)', queue'[a], published, Sources[a])
      /\ InHand(a)' => msg'[a] # NULL
  <2>1. CASE Refuse(a)
    <3>1. Hand(a)' = {} /\ ~InHand(a)'
      BY <1>1, <2>1 DEF Refuse, Hand, InHand
    <3> QED  BY <1>1, <1>2, <3>1, WayTakes DEF Arriving, TypeOK
  <2>2. CASE Receive(a)
    <3>1. PICK b \in Blocks : Allocated(heap, b, m) /\ msg' = [msg EXCEPT ![a] = b]
      BY <2>2 DEF Receive
    <3>2. m \in Message
      BY <1>1, QueueParts
    <3>3. heap'[b] = m /\ msg'[a] = b /\ b # NULL
      <4>1. heap \in [Blocks -> Message \cup {NULL}] /\ msg'[a] = b
        BY <3>1 DEF TypeOK
      <4> QED  BY <3>1, <3>2, <4>1, AllocatedBlock
    <3>4. m.op # "API" => m.op = "DATA"
      BY <1>3, <2>2, <3>2 DEF Known, Receive, Message
    <3>5. event'[a] = "SOCK" => m.op = "DATA"
      BY <2>2, <3>4 DEF Receive, Calls, TypeOK
    <3>6. Hand(a)' = {} \/ (Hand(a)' = {m} /\ m.op = "DATA")
      BY <3>3, <3>5 DEF Hand, InHand
    <3>7. OnItsWay(printed[a], {}, queue[a], published, Sources[a]) /\ queue'[a] = Tail(queue[a])
      BY <1>1, <1>2 DEF Arriving, TypeOK
    <3> QED  BY <1>1, <1>2, <3>3, <3>6, <3>7, WayTakes
  <2> QED  BY <2>1, <2>2
<1>5. ASSUME NEW l \in Actors \ {a}
      PROVE  /\ OnItsWay(printed[l], Hand(l)', queue'[l], published, Sources[l])
             /\ InHand(l)' => msg'[l] # NULL
  <2>1. Hand(l)' = Hand(l) /\ (InHand(l)' => msg'[l] # NULL)
    BY HandsKept DEF Arriving, Turn
  <2>2. queue'[l] = queue[l]
    BY <1>1 DEF TypeOK
  <2> QED  BY <2>1, <2>2 DEF Arriving
<1> QED  BY <1>1, <1>4, <1>5 DEF Arriving

(* What an actor prints was in its hand. *)
LEMMA PrintArrives ==
    ASSUME TypeOK, TypeOK', Owners, Arriving, NEW a \in Actors, PrintOut(a)
    PROVE  Arriving'
<1>0. /\ UNCHANGED <<queue, published>> /\ pc[a] = "handling" /\ pc'[a] = "returned"
      /\ printed' = [printed EXCEPT ![a] = Append(@, heap[msg[a]])]
  BY DEF PrintOut, Handles, Returns, sockets, TypeOK
<1>1. event[a] = "SOCK" /\ msg[a] # NULL
  BY DEF PrintOut, IsSock, Owners, AllTidy, Tidy
<1>2. /\ Hand(a) = {heap[msg[a]]} /\ Hand(a)' = {} /\ ~InHand(a)'
      /\ heap[msg[a]] \in Message /\ printed[a] \in Seq(Message)
  BY <1>0, <1>1, WayType DEF Hand, InHand
<1>3. OnItsWay(printed'[a], Hand(a)', queue[a], published, Sources[a])
  <2>1. printed'[a] = Append(printed[a], heap[msg[a]])
    BY <1>0 DEF TypeOK
  <2>2. OnItsWay(printed[a], {heap[msg[a]]}, queue[a], published, Sources[a])
    BY <1>2 DEF Arriving
  <2> QED  BY <1>2, <2>1, <2>2, WayPrints
<1>4. ASSUME NEW l \in Actors \ {a}
      PROVE  /\ OnItsWay(printed'[l], Hand(l)', queue[l], published, Sources[l])
             /\ InHand(l)' => msg'[l] # NULL
  <2>1. Hand(l)' = Hand(l) /\ (InHand(l)' => msg'[l] # NULL)
    BY HandsKept DEF Arriving, Turn
  <2>2. printed'[l] = printed[l]
    BY <1>0 DEF TypeOK
  <2> QED  BY <2>1, <2>2 DEF Arriving
<1> QED  BY <1>0, <1>2, <1>3, <1>4 DEF Arriving

(* Every step leaves in order what was printed, is in hand and waits. *)
LEMMA ArrivingStep ==
    ASSUME TypeOK, TypeOK', Owners, Arriving, NEW a \in Actors, Turn(a) \/ Outside(a)
    PROVE  Arriving'
<1>1. \A l \in Actors \ {a} : Hand(l)' = Hand(l) /\ (InHand(l)' => msg'[l] # NULL)
  BY HandsKept DEF Arriving
<1>2. ASSUME Hand(a)' \in SUBSET Hand(a), InHand(a)' => msg'[a] # NULL,
             UNCHANGED <<printed, queue, published>>
      PROVE  Arriving'
  <2>1. \A l \in Actors : Hand(l)' \in SUBSET Hand(l)
    BY <1>1, <1>2
  <2> QED  BY <1>1, <1>2, <2>1, WayDrops DEF Arriving
<1>3. ASSUME Hand(a)' = Hand(a), InHand(a)' => msg'[a] # NULL,
             UNCHANGED printed, Publishes(a)
      PROVE  Arriving'
  BY <1>1, <1>3, PublishArrives DEF Arriving
<1>4. CASE \/ Time(a) \/ FdSock(a) \/ Command(a) \/ Trigger(a) \/ Start(a) \/ Terminate(a)
           \/ PassOn(a) \/ Ignore(a) \/ Answer(a)
           \/ SignalStart(a) \/ CountRead(a) \/ CountWrite(a) \/ CountReport(a)
  <2>1. ~InHand(a)'
    <3>1. CASE Time(a) \/ FdSock(a) \/ Command(a) \/ Trigger(a) \/ Start(a) \/ Terminate(a)
      BY <3>1 DEF Time, FdSock, Command, Trigger, Start, Terminate, Calls, InHand, TypeOK
    <3>4. CASE SignalStart(a)
      BY <3>4 DEF SignalStart, InHand, Owners, AllTidy, Tidy
    <3>2. CASE PassOn(a) \/ Ignore(a) \/ Answer(a) \/ CountReport(a)
      BY <3>2 DEF PassOn, Ignore, Answer, ReturnsNew, CountReport, Returns, InHand, TypeOK
    <3>3. CASE CountRead(a) \/ CountWrite(a)
      BY <3>3 DEF CountRead, CountWrite, InHand, TypeOK
    <3> QED  BY <1>4, <3>1, <3>2, <3>3, <3>4
  <2>2. UNCHANGED <<printed, queue, published>>
    BY <1>4 DEF Time, FdSock, Command, Trigger, Start, Terminate, PassOn, Ignore, Answer,
        ReturnsNew, SignalStart, CountReport, CountRead, CountWrite, Returns, sockets, history
  <2> QED  BY <1>2, <2>1, <2>2 DEF Hand
<1>5. CASE Send(a)
  <2>1. Hand(a)' = Hand(a) /\ (InHand(a)' => msg'[a] # NULL)
    BY <1>5 DEF Send, memory, Hand, InHand, Arriving
  <2> QED  BY <1>3, <1>5, <2>1 DEF Send
<1>6. CASE Dispose(a)
  <2>1. ~InHand(a) /\ ~InHand(a)'
    BY <1>6 DEF Dispose, TurnEnds, InHand, TypeOK
  <2>2. Hand(a)' = Hand(a)
    BY <2>1 DEF Hand
  <2>3. UNCHANGED printed /\ (Publishes(a) \/ UNCHANGED <<queue, published>>)
    BY <1>6 DEF Dispose, Passes, sockets
  <2> QED  BY <1>2, <1>3, <2>1, <2>2, <2>3
<1>7. ASSUME NEW op \in {"API", "TERM"}, Inject(a, op) PROVE Arriving'
  <2>1. PICK m \in Message : m = Bare(op) /\ m.op # "DATA" /\ m.op # "TRIGGER"
    BY MessagesMade DEF Bare
  <2>2. /\ UNCHANGED <<printed, published>>
        /\ \A l \in Actors : queue'[l] \in {queue[l], Append(queue[l], m)}
    BY <1>7, <2>1 DEF Inject, TypeOK
  <2>3. \A l \in Actors : Hand(l)' = Hand(l) /\ (InHand(l)' => msg'[l] # NULL)
    BY <1>7 DEF Inject, memory, Hand, InHand, Arriving
  <2>4. ASSUME NEW l \in Actors
        PROVE  OnItsWay(printed[l], Hand(l), queue'[l], published, Sources[l])
    <3>1. /\ Hand(l) \subseteq Message
          /\ queue[l] \in Seq(Message)
          /\ \A i \in 1 .. Len(printed[l]) : printed[l][i] \in Message
          /\ OnItsWay(printed[l], Hand(l), queue[l], published, Sources[l])
      BY WayType DEF Arriving
    <3>2. published \in [Actors -> Nat] /\ \A c \in Actors : published[c] <= published[c]
      <4>1. published \in [Actors -> Nat] /\ \A n \in Nat : n <= n
        BY DEF TypeOK
      <4> QED  BY <4>1
    <3>3. OnItsWay(printed[l], Hand(l), Append(queue[l], m), published, Sources[l])
      BY <2>1, <3>1, <3>2, WayPuts
    <3> QED  BY <2>2, <3>1, <3>3
  <2> QED  BY <2>2, <2>3, <2>4 DEF Arriving
<1>10. CASE Collect(a)
  <2>1. Hand(a)' = Hand(a) /\ (InHand(a)' => msg'[a] # NULL)
    BY <1>10 DEF Collect, memory, Hand, InHand, Arriving
  <2> QED  BY <1>2, <1>10, <2>1 DEF Collect, history
<1>8. CASE Receive(a) \/ Refuse(a)
  BY <1>8, ReceiveArrives
<1>9. CASE PrintOut(a)
  BY <1>9, PrintArrives
<1> QED  BY <1>4, <1>5, <1>6, <1>7, <1>8, <1>9, <1>10, NothingDangles
       DEF Turn, Outside, Owners

(* Nothing waits in the beginning. *)
LEMMA ArrivingInit == Init => Arriving
<1> SUFFICES ASSUME Init, NEW l \in Actors
             PROVE  /\ InHand(l) => msg[l] # NULL
                    /\ OnItsWay(printed[l], Hand(l), queue[l], published, Sources[l])
  BY DEF Arriving
<1>1. ~InHand(l) /\ Hand(l) = {} /\ printed[l] = <<>> /\ queue[l] = <<>>
  BY DEF Init, InHand, Hand
<1>2. 1 .. Len(<<>>) = {}
  OBVIOUS
<1> QED  BY <1>1, <1>2 DEF OnItsWay

(* A Log actor prints what actors published that it is connected to, each  *)
(* message at most once and in the order its publisher published them, for *)
(* any actors, connections and lengths of queues, unless a handler was     *)
(* triggered that does not bear it.                                        *)
THEOREM PrintedInOrder == Spec => []InOrder
<1> DEFINE Inv == TypeOK /\ (tainted \/ (Owners /\ Arriving))
<1>1. Init => Inv
  BY TypeInit, OwnersInit, ArrivingInit
<1>2. Inv /\ [Next]_vars => Inv'
  <2> SUFFICES ASSUME Inv, [Next]_vars PROVE Inv'
    OBVIOUS
  <2>1. TypeOK' /\ (tainted' \/ Owners')
    BY TypeStep, OwnersStep
  <2>2. tainted => tainted'
    BY TaintStays
  <2>3. CASE UNCHANGED vars
    <3>1. Arriving => Arriving'
      BY <2>3 DEF vars, memory, sockets, history, Arriving, Hand, InHand
    <3> QED  BY <2>1, <2>2, <3>1
  <2>4. CASE Next
    <3>1. PICK a \in Actors : Turn(a) \/ Outside(a)
      BY <2>4 DEF Next
    <3>2. Owners /\ Arriving => Arriving'
      BY <2>1, <3>1, ArrivingStep
    <3> QED  BY <2>1, <2>2, <3>2
  <2> QED  BY <2>3, <2>4
<1>3. Inv => InOrder
  <2> SUFFICES ASSUME TypeOK, Arriving, NEW l \in Actors
               PROVE  /\ \A i \in DOMAIN printed[l] :
                        /\ printed[l][i].from \in Sources[l]
                        /\ printed[l][i].n <= published[printed[l][i].from]
                      /\ \A i, j \in DOMAIN printed[l] :
                        i < j /\ printed[l][i].from = printed[l][j].from
                            => printed[l][i].n < printed[l][j].n
    BY DEF InOrder
  <2>1. DOMAIN printed[l] = 1 .. Len(printed[l])
    BY DEF TypeOK
  <2>2. OnItsWay(printed[l], Hand(l), queue[l], published, Sources[l])
    BY DEF Arriving
  <2>3. \A i \in 1 .. Len(printed[l]) :
            /\ printed[l][i].op = "DATA" /\ printed[l][i].from \in Sources[l]
            /\ printed[l][i].n <= published[printed[l][i].from]
    BY <2>2 DEF OnItsWay, Known
  <2>4. \A i, j \in 1 .. Len(printed[l]) : i < j => Before(printed[l][i], printed[l][j])
    BY <2>2 DEF OnItsWay
  <2> QED  BY <2>1, <2>3, <2>4 DEF Before
<1> QED  BY <1>1, <1>2, <1>3, PTL DEF Spec

-----------------------------------------------------------------------------
(* What the shared counter counts *)

\* Actor a was given a message that it has not counted yet.
Uncounted(a) == Kind[a] = "Count" /\ (InHand(a) \/ pc[a] = "counting")
Pending == {a \in Actors : Uncounted(a)}

\* With one Count actor the counter lacks at most the message in hand.
Exact(c) ==
    /\ Uncounted(c) => counter + 1 = received
    /\ pc[c] = "counting" => seen[c] = counter
    /\ ~Uncounted(c) => counter = received
    /\ ~Uncounted(c) /\ pc[c] # "reporting" => report[c] = received

\* The counter, and what an actor has read of it, lack every message that is
\* not counted yet.
Lacking ==
    /\ IsFiniteSet(Pending)
    /\ counter + Cardinality(Pending) <= received
    /\ \A a \in Actors : pc[a] = "counting" => seen[a] + Cardinality(Pending) <= received
    /\ \A a \in Actors : report[a] <= received
    /\ received > 0 => counter > 0 \/ Pending # {}
    /\ \A c \in Actors : {a \in Actors : Kind[a] = "Count"} = {c} => Exact(c)

(* A step that gives no actor a message to count, and counts none, keeps   *)
(* the books of the counter.                                               *)
LEMMA LackingKept ==
    ASSUME Lacking, UNCHANGED counting,
           \A c \in Actors : /\ Uncounted(c)' <=> Uncounted(c)
                             /\ pc'[c] = "counting" <=> pc[c] = "counting"
                             /\ pc'[c] = "reporting" <=> pc[c] = "reporting"
    PROVE  Lacking'
<1>1. Pending' = Pending
  BY DEF Pending
<1>2. \A c \in Actors : Exact(c) => Exact(c)'
  BY DEF Exact, counting
<1> QED  BY <1>1, <1>2 DEF Lacking, counting

(* What other actors have to count does not change. *)
LEMMA OthersUncounted ==
    ASSUME TypeOK, NEW a \in Actors, Turn(a) \/ Outside(a)
    PROVE  /\ Pending \ {a} = Pending' \ {a}
           /\ \A c \in Actors \ {a} :
                /\ Uncounted(c)' <=> Uncounted(c)
                /\ pc'[c] = "counting" <=> pc[c] = "counting"
                /\ pc'[c] = "reporting" <=> pc[c] = "reporting"
<1>1. \A c \in Actors \ {a} :
        /\ Uncounted(c)' <=> Uncounted(c)
        /\ pc'[c] = "counting" <=> pc[c] = "counting"
        /\ pc'[c] = "reporting" <=> pc[c] = "reporting"
  BY OthersAlone DEF Uncounted, InHand
<1> QED  BY <1>1 DEF Pending

(* A Count actor is given a message to count. *)
LEMMA ReceiveLacks ==
    ASSUME TypeOK, Owners, Lacking, NEW a \in Actors, Receive(a),
           Kind[a] = "Count", Head(queue[a]).op # "API"
    PROVE  Lacking'
<1>1. /\ pc[a] = "idle" /\ pc'[a] = "handling" /\ event'[a] = "SOCK"
      /\ received' = received + 1 /\ UNCHANGED <<counter, seen, report>>
  BY DEF Receive, Polls, Calls, TypeOK
<1>2. ~Uncounted(a) /\ Uncounted(a)'
  BY <1>1 DEF Uncounted, InHand
<1>3. Pending' = Pending \cup {a} /\ a \notin Pending
  BY <1>2, OthersUncounted DEF Pending, Turn
<1>4. IsFiniteSet(Pending') /\ Cardinality(Pending') = Cardinality(Pending) + 1
      /\ Cardinality(Pending) \in Nat
  BY <1>3, FS_AddElement, FS_CardinalityType DEF Lacking
<1>5. \A c \in Actors : pc'[c] = "counting" => pc[c] = "counting"
  BY <1>1, OthersUncounted DEF Turn
<1>6. counter \in Nat /\ received \in Nat /\ seen \in [Actors -> Nat]
      /\ report \in [Actors -> Nat]
  BY DEF TypeOK
<1>7. ASSUME NEW c \in Actors, {b \in Actors : Kind[b] = "Count"} = {c} PROVE Exact(c)'
  <2>1. c = a /\ Exact(a)
    BY <1>7 DEF Lacking
  <2> QED  BY <1>1, <1>2, <1>6, <2>1 DEF Exact
<1>8. counter' + Cardinality(Pending') <= received'
  BY <1>1, <1>4, <1>6 DEF Lacking
<1>9. ASSUME NEW c \in Actors
      PROVE  /\ pc'[c] = "counting" => seen'[c] + Cardinality(Pending') <= received'
             /\ report'[c] <= received'
  BY <1>1, <1>4, <1>5, <1>6 DEF Lacking
<1> QED  BY <1>3, <1>4, <1>7, <1>8, <1>9 DEF Lacking

(* It reads the counter, *)
LEMMA ReadLacks ==
    ASSUME TypeOK, Owners, Lacking, NEW a \in Actors, CountRead(a)
    PROVE  Lacking'
<1>1. /\ pc[a] = "handling" /\ pc'[a] = "counting" /\ event[a] = "SOCK"
      /\ Kind[a] = "Count" /\ seen' = [seen EXCEPT ![a] = counter]
      /\ UNCHANGED <<counter, report, received>>
  BY DEF CountRead, Handles, IsSock, Owners, AllTidy, Tidy, TypeOK
<1>2. Uncounted(a) /\ Uncounted(a)'
  BY <1>1 DEF Uncounted, InHand
<1>3. Pending' = Pending
  BY <1>2, OthersUncounted DEF Pending, Turn
<1>4. ASSUME NEW c \in Actors, pc'[c] = "counting"
      PROVE  seen'[c] + Cardinality(Pending) <= received
  <2>1. CASE c = a
    BY <1>1, <2>1 DEF TypeOK, Lacking
  <2>2. CASE c # a
    BY <1>1, <1>4, <2>2, OthersUncounted DEF TypeOK, Lacking, Turn
  <2> QED  BY <2>1, <2>2
<1>5. ASSUME NEW c \in Actors, {b \in Actors : Kind[b] = "Count"} = {c} PROVE Exact(c)'
  <2>1. c = a /\ Exact(a)
    BY <1>1, <1>5 DEF Lacking
  <2>2. seen'[a] = counter
    BY <1>1 DEF TypeOK
  <2> QED  BY <1>1, <1>2, <2>1, <2>2 DEF Exact
<1> QED  BY <1>1, <1>3, <1>4, <1>5 DEF Lacking

(* writes it, *)
LEMMA WriteLacks ==
    ASSUME TypeOK, Owners, Lacking, NEW a \in Actors, CountWrite(a)
    PROVE  Lacking'
<1>0. counter \in Nat /\ received \in Nat /\ seen \in [Actors -> Nat]
      /\ report \in [Actors -> Nat]
  BY DEF TypeOK
<1>1. /\ pc[a] = "counting" /\ pc'[a] = "reporting" /\ Kind[a] = "Count"
      /\ counter' = seen[a] + 1 /\ seen' = [seen EXCEPT ![a] = 0]
      /\ UNCHANGED <<report, received>>
  BY DEF CountWrite, Owners, AllTidy, Tidy, TypeOK
<1>2. Uncounted(a) /\ ~Uncounted(a)'
  BY <1>1 DEF Uncounted, InHand
<1>3. Pending' = Pending \ {a} /\ a \in Pending
  BY <1>2, OthersUncounted DEF Pending, Turn
<1>4. /\ IsFiniteSet(Pending') /\ Cardinality(Pending') = Cardinality(Pending) - 1
      /\ Cardinality(Pending) \in Nat
  BY <1>3, FS_RemoveElement, FS_CardinalityType DEF Lacking
<1>5. counter' + Cardinality(Pending') <= received'
  BY <1>0, <1>1, <1>4 DEF Lacking
<1>6. ASSUME NEW c \in Actors, pc'[c] = "counting"
      PROVE  seen'[c] + Cardinality(Pending') <= received'
  <2>1. c # a /\ pc[c] = "counting"
    BY <1>1, <1>6, OthersUncounted DEF Turn
  <2>2. seen'[c] = seen[c] /\ seen[c] \in Nat /\ seen[c] + Cardinality(Pending) <= received
    BY <1>0, <1>1, <2>1 DEF Lacking
  <2> QED  BY <1>0, <1>1, <1>4, <2>2
<1>7. ASSUME NEW c \in Actors, {b \in Actors : Kind[b] = "Count"} = {c} PROVE Exact(c)'
  <2>1. c = a /\ Exact(a)
    BY <1>1, <1>7 DEF Lacking
  <2> QED  BY <1>0, <1>1, <1>2, <2>1 DEF Exact
<1>8. counter' > 0
  BY <1>0, <1>1
<1> QED  BY <1>1, <1>4, <1>5, <1>6, <1>7, <1>8 DEF Lacking

(* and reports it. *)
LEMMA ReportLacks ==
    ASSUME TypeOK, Owners, Lacking, NEW a \in Actors, CountReport(a)
    PROVE  Lacking'
<1>0. /\ counter \in Nat /\ received \in Nat /\ Cardinality(Pending) \in Nat
      /\ counter + Cardinality(Pending) <= received
  BY FS_CardinalityType DEF TypeOK, Lacking
<1>1. /\ pc[a] = "reporting" /\ pc'[a] = "returned"
      /\ report' = [report EXCEPT ![a] = counter]
      /\ UNCHANGED <<counter, seen, received>>
  BY DEF CountReport, Returns, TypeOK
<1>2. ~Uncounted(a) /\ ~Uncounted(a)'
  BY <1>1 DEF Uncounted, InHand
<1>3. Pending' = Pending
  BY <1>2, OthersUncounted DEF Pending, Turn
<1>4. ASSUME NEW c \in Actors PROVE report'[c] <= received
  BY <1>0, <1>1 DEF TypeOK, Lacking
<1>5. \A c \in Actors : pc'[c] = "counting" => pc[c] = "counting"
  BY <1>1, OthersUncounted DEF Turn
<1>6. ASSUME NEW c \in Actors, {b \in Actors : Kind[b] = "Count"} = {c} PROVE Exact(c)'
  <2>1. Kind[a] = "Count"
    BY <1>1 DEF Owners, AllTidy, Tidy
  <2>2. c = a /\ Exact(a)
    BY <1>6, <2>1 DEF Lacking
  <2>3. report'[a] = counter
    BY <1>1 DEF TypeOK
  <2> QED  BY <1>1, <1>2, <2>2, <2>3 DEF Exact
<1> QED  BY <1>1, <1>3, <1>4, <1>5, <1>6 DEF Lacking

(* Every step keeps the books of the counter. *)
LEMMA LackingStep ==
    ASSUME TypeOK, Owners, Lacking, NEW a \in Actors, Turn(a) \/ Outside(a), ~tainted'
    PROVE  Lacking'
<1>1. ASSUME Uncounted(a)' <=> Uncounted(a), pc'[a] = "counting" <=> pc[a] = "counting",
             pc'[a] = "reporting" <=> pc[a] = "reporting", UNCHANGED counting
      PROVE  Lacking'
  BY <1>1, OthersUncounted, LackingKept
<1>2. CASE \/ Time(a) \/ FdSock(a) \/ Command(a) \/ Trigger(a) \/ Start(a) \/ Terminate(a)
           \/ SignalStart(a)
  <2>1. /\ pc[a] \in {"idle", "starting"} /\ pc'[a] \in {"starting", "handling"}
        /\ event'[a] # "SOCK" /\ UNCHANGED counting
    BY <1>2 DEF Time, FdSock, Command, Trigger, Start, Terminate, SignalStart, Polls, Calls,
                Owners, AllTidy, Tidy, TypeOK
  <2> QED  BY <1>1, <2>1 DEF Uncounted, InHand
<1>3. CASE Send(a) \/ Collect(a) \/ (\E m \in {"API", "TERM"} : Inject(a, m)) \/ Refuse(a)
  <2>1. UNCHANGED <<pc, event, counting>>
    BY <1>3 DEF Send, Collect, Inject, Refuse
  <2> QED  BY <1>1, <2>1 DEF Uncounted, InHand
<1>4. CASE PassOn(a) \/ Ignore(a) \/ Answer(a) \/ PrintOut(a)
  <2>1. pc[a] = "handling" /\ pc'[a] = "returned" /\ UNCHANGED counting
    BY <1>4 DEF PassOn, Ignore, Answer, ReturnsNew, PrintOut, Handles, Returns, TypeOK
  <2>2. ~(Kind[a] = "Count" /\ event[a] = "SOCK")
    BY <1>4 DEF PassOn, Ignore, Answer, PrintOut, Handles, IsSock
  <2> QED  BY <1>1, <2>1, <2>2 DEF Uncounted, InHand
<1>5. CASE Dispose(a)
  <2>1. /\ pc[a] = "returned" /\ pc'[a] \notin {"counting", "reporting"}
        /\ event'[a] # "SOCK" /\ UNCHANGED counting
    BY <1>5 DEF Dispose, TurnEnds, TypeOK
  <2> QED  BY <1>1, <2>1 DEF Uncounted, InHand
<1>6. CASE Receive(a) /\ ~(Kind[a] = "Count" /\ Head(queue[a]).op # "API")
  <2>1. /\ pc[a] = "idle" /\ pc'[a] = "handling" /\ UNCHANGED counting
        /\ Kind[a] = "Count" => event'[a] # "SOCK"
    BY <1>6 DEF Receive, Polls, Calls, TypeOK, counting
  <2> QED  BY <1>1, <2>1 DEF Uncounted, InHand
<1> QED  BY <1>2, <1>3, <1>4, <1>5, <1>6, ReceiveLacks, ReadLacks, WriteLacks, ReportLacks,
            NothingDangles DEF Turn, Outside, Owners

(* Nothing is counted in the beginning. *)
LEMMA LackingInit == Init => Lacking
<1> SUFFICES ASSUME Init PROVE Lacking
  OBVIOUS
<1>1. /\ counter = 0 /\ received = 0
      /\ \A a \in Actors : pc[a] = "idle" /\ seen[a] = 0 /\ report[a] = 0
  BY DEF Init
<1>2. Pending = {} /\ \A a \in Actors : ~Uncounted(a)
  BY <1>1 DEF Pending, Uncounted, InHand
<1>3. IsFiniteSet(Pending) /\ Cardinality(Pending) = 0
  BY <1>2, FS_EmptySet
<1> QED  BY <1>1, <1>2, <1>3 DEF Lacking, Exact

(* The shared counter loses increments but never counts what was not       *)
(* received, nor does a report; with one Count actor it is exact but for   *)
(* the message in hand; and it does not stay zero.  For any number of      *)
(* Count actors, unless a handler was triggered that does not bear it.     *)
THEOREM CountedRight == Spec => []Counted
<1> DEFINE Inv == TypeOK /\ (tainted \/ (Owners /\ Lacking))
<1>1. Init => Inv
  BY TypeInit, OwnersInit, LackingInit
<1>2. Inv /\ [Next]_vars => Inv'
  <2> SUFFICES ASSUME Inv, [Next]_vars PROVE Inv'
    OBVIOUS
  <2>1. TypeOK' /\ (tainted' \/ Owners')
    BY TypeStep, OwnersStep
  <2>2. tainted => tainted'
    BY TaintStays
  <2>3. CASE UNCHANGED vars
    <3>1. Lacking => Lacking'
      BY <2>3, LackingKept DEF vars, memory, history, Uncounted, InHand
    <3> QED  BY <2>1, <2>2, <3>1
  <2>4. CASE Next
    <3>1. PICK a \in Actors : Turn(a) \/ Outside(a)
      BY <2>4 DEF Next
    <3>2. Owners /\ Lacking /\ ~tainted' => Lacking'
      BY <3>1, LackingStep
    <3> QED  BY <2>1, <2>2, <3>2
  <2> QED  BY <2>3, <2>4
<1>3. Inv => Counted
  <2> SUFFICES ASSUME TypeOK, Lacking PROVE Counted
    BY DEF Counted
  <2>1. /\ counter \in Nat /\ received \in Nat /\ Cardinality(Pending) \in Nat
    BY FS_CardinalityType DEF TypeOK, Lacking
  <2>2. counter <= received
    BY <2>1 DEF Lacking
  <2>3. \A c \in Actors : pc[c] = "idle" => ~Uncounted(c)
    BY DEF Uncounted, InHand
  <2>4. (\A c \in Actors : pc[c] = "idle") => Pending = {}
    BY <2>3 DEF Pending
  <2>5. ASSUME NEW c \in Actors, {a \in Actors : Kind[a] = "Count"} = {c}, pc[c] = "idle"
        PROVE  counter = received /\ report[c] = received
    BY <2>3, <2>5 DEF Lacking, Exact
  <2> QED  BY <2>2, <2>4, <2>5 DEF Counted, Lacking
<1> QED  BY <1>1, <1>2, <1>3, PTL DEF Spec

=============================================================================
