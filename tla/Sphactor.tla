------------------------------ MODULE Sphactor ------------------------------
(***************************************************************************)
(* A sphactor_t and the actor thread it wraps: creation, the command pipe, *)
(* the copies the controller keeps of the actor's attributes, destruction. *)
(*                                                                         *)
(* The controller (sphactor.c) talks to the actor (sphactor_actor.c)       *)
(* through zactor's pipe.  An ask sends a command and blocks until the     *)
(* next message comes back, whatever it is; a tell only sends.  The actor  *)
(* handles one message per turn of its loop.  Messages with the same       *)
(* commands may also reach it from other actors, through its subscribe     *)
(* socket: their answers are dropped and $TERM is refused.                 *)
(*                                                                         *)
(* What disturbs the conversation is part of the model, and recorded in    *)
(* mishaps, so that a property can say what it does not survive: a handler *)
(* that returns the message of an unknown command, START, which signals    *)
(* through the pipe, peers that set or connect the actor, a client that    *)
(* writes $TERM itself, and an interrupt of the process.                   *)
(*                                                                         *)
(* Abstracted: what TRIGGER, SEND, SET VERBOSE, SET REPORTING and custom   *)
(* API calls do ("API" stands for all of them), filters (SubFilters),      *)
(* reports (ReportSlot) and the instant at which timers fire (ActorTimer). *)
(***************************************************************************)
EXTENDS Naturals, Sequences

CONSTANTS
    Values,        \* names and types the client may set
    Endpoints,     \* endpoints of other actors
    NULL,          \* an attribute that is not set, or not known
    Tells,         \* commands the client sends besides asks and setters
    PeerCommands,  \* commands that reach the subscribe socket
    Echoes,        \* does the handler return the message of an unknown command?
    Timed,         \* does the actor have a timeout?
    Interruptible, \* may a signal interrupt the process?
    PipeHWM,       \* messages the pipe holds in each direction (zsys_pipehwm)
    MaxCalls       \* bound: calls of the client

Attrs == {"NAME", "TYPE", "ENDPOINT"}
Settable == {"NAME", "TYPE"}

\* What an actor reports about an attribute that is not set: "".  A signal,
\* whose first byte is 0, reads as that, too.
Empty == "empty"
\* The name and the endpoint the actor makes from its UUID.
Default == "default"
\* Text that is the answer to something else.
Foreign == "foreign"

Attribute == Values \cup {NULL, Default}
Copy == Attribute \cup {Empty, Foreign}

Command ==
    [op : {"GET"}, of : Attrs]
        \cup [op : {"SET"}, of : Settable, value : Values]
        \cup [op : {"CONNECT", "DISCONNECT"}, dest : Endpoints]
        \cup [op : {"API", "START", "TERM"}]
NoCommand == [op |-> "NONE"]

Get(a) == [op |-> "GET", of |-> a]
Set(a, v) == [op |-> "SET", of |-> a, value |-> v]
Connect(e) == [op |-> "CONNECT", dest |-> e]
Disconnect(e) == [op |-> "DISCONNECT", dest |-> e]
Term == [op |-> "TERM"]

\* Mutant: DISCONNECT is executed but not answered.
AnsweringWithoutDisconnect == {"GET", "CONNECT"} \cup (IF Echoes THEN {"API"} ELSE {})

\* The commands whose sender waits, and those that are answered.
Asks == {"GET", "CONNECT", "DISCONNECT"}
Answering == Asks \cup (IF Echoes THEN {"API"} ELSE {})

\* A message from the actor: a signal, or the answer to a command.
Signal == [to |-> NoCommand, value |-> Empty]
Answer(c, v) == [to |-> c, value |-> v]
Message == [to : Command \cup {NoCommand}, value : Copy]

\* What the actor tells about an attribute with value v.
Shown(v) == IF v = NULL THEN Empty ELSE v

\* The connections D after command c; zsock_connect and zsock_disconnect
\* are idempotent as far as the set of endpoints goes.
Reconnected(D, c) ==
    IF c.op = "CONNECT" THEN D \cup {c.dest}
    ELSE IF c.op = "DISCONNECT" THEN D \ {c.dest} ELSE D

Mishaps == {"ECHO", "SIGNAL", "SET", "CONNECTIONS", "TERM", "INTERRUPT", "LOST"}

\* The mishaps that command c leads to, the client's own or a peer's.
MishapsOf(c, own) ==
    {m \in Mishaps :
        \/ m = "SIGNAL" /\ c.op = "START"
        \/ m = "ECHO" /\ own /\ c.op \in Answering \ Asks
        \/ m = "TERM" /\ own /\ c.op = "TERM"
        \/ m = "SET" /\ ~own /\ c.op = "SET"
        \/ m = "CONNECTIONS" /\ ~own /\ c.op \in {"CONNECT", "DISCONNECT"}}

ASSUME ValueAssumption ==
    /\ NULL \notin Values
    /\ {Empty, Default, Foreign} \cap (Values \cup {NULL}) = {}
ASSUME CommandAssumption ==
    /\ Tells \subseteq {"API", "START", "TERM"}
    /\ PeerCommands \subseteq {"GET", "SET", "CONNECT", "DISCONNECT", "API",
                             "START", "TERM"}
    /\ Echoes \in BOOLEAN /\ Timed \in BOOLEAN /\ Interruptible \in BOOLEAN
ASSUME BoundAssumption == PipeHWM \in Nat \ {0} /\ MaxCalls \in Nat

VARIABLES
    \* the pipe
    commands,     \* from the controller to the actor
    answers,      \* from the actor to the controller
    \* the controller's thread
    cpc,          \* where it is
    asked,        \* the command it sends, or whose answer it waits for
    copy,         \* its copies of the attributes
    connections,  \* subscriptions, its copy of the actor's connections
    calls,        \* number of calls so far
    \* the actor's thread
    apc,          \* where it is
    current,      \* the command it executes
    fromPipe,     \* did that command come through the pipe?
    attr,         \* its attributes
    subscribed,   \* the endpoints its subscribe socket is connected to
    \* history
    mishaps       \* what has disturbed the conversation so far

pipe == <<commands, answers>>
controller == <<cpc, asked, copy, connections, calls>>
actor == <<apc, current, fromPipe, attr, subscribed>>
vars == <<pipe, controller, actor, mishaps>>

TypeOK ==
    /\ commands \in Seq(Command)
    /\ answers \in Seq(Message)
    /\ cpc \in {"creating", "idle", "sending", "asking", "destroying", "destroyed",
                "ended"}
    /\ asked \in Command \cup {NoCommand}
    /\ cpc \in {"sending", "asking"} => asked \in Command
    /\ copy \in [Attrs -> Copy]
    /\ connections \subseteq Endpoints
    /\ calls \in 0 .. MaxCalls
    /\ apc \in {"new", "signal", "init", "poll", "event", "execute", "answer", "stop",
                "destroy", "exit", "gone", "ended"}
    /\ current \in Command \cup {NoCommand}
    /\ apc \in {"execute", "answer"} => current \in Command
    /\ fromPipe \in BOOLEAN
    /\ attr \in [Attrs -> Attribute]
    /\ subscribed \subseteq Endpoints
    /\ mishaps \subseteq Mishaps

(* sphactor_new has called zactor_new: the thread exists, and the caller   *)
(* waits for its signal.                                                   *)
Init ==
    /\ commands = <<>> /\ answers = <<>>
    /\ cpc = "creating" /\ asked = NoCommand /\ calls = 0
    /\ copy = [a \in Attrs |-> NULL]
    /\ connections = {}
    /\ apc = "new" /\ current = NoCommand /\ fromPipe = TRUE
    /\ attr = [a \in Attrs |-> NULL]
    /\ subscribed = {}
    /\ mishaps = {}

\* A failed assertion ends the process, with both threads.
Abort == cpc' = "ended" /\ apc' = "ended"

-----------------------------------------------------------------------------
(* The controller's thread *)

(* A client's call, within the bound and between two others, that sends a  *)
(* command; what a client writes to sphactor_socket itself is such a call. *)
Call(c) ==
    /\ cpc = "idle"
    /\ calls < MaxCalls
    /\ calls' = calls + 1
    /\ cpc' = "sending"
    /\ asked' = c
    /\ mishaps' = mishaps \cup MishapsOf(c, TRUE)
    /\ UNCHANGED <<pipe, connections, actor>>

(* sphactor_ask_name, _actor_type, _endpoint: an attribute is asked for    *)
(* only if there is no copy of it.                                         *)
AskAttr(a) == copy[a] = NULL /\ Call(Get(a)) /\ UNCHANGED copy

(* sphactor_ask_connect and sphactor_ask_disconnect, whether or not there  *)
(* is such a connection.                                                   *)
AskConnect(e) == Call(Connect(e)) /\ UNCHANGED copy
AskDisconnect(e) == Call(Disconnect(e)) /\ UNCHANGED copy

(* Mutant: the type is handled as the name is. *)
TellSetOnly(a, v) == Call(Set(a, v)) /\ UNCHANGED copy

(* sphactor_ask_set_name only sends; sphactor_ask_set_actor_type updates   *)
(* the copy first ("cache immediatelly").                                  *)
TellSet(a, v) ==
    /\ Call(Set(a, v))
    /\ copy' = IF a = "TYPE" THEN [copy EXCEPT ![a] = v] ELSE copy

(* Every other call that only sends a command. *)
Tell(c) == Call(c) /\ UNCHANGED copy

(* The send returns when there is room in the pipe and a thread at its     *)
(* other end; an ask goes on to wait for the answer.                       *)
Sent ==
    /\ cpc = "sending"
    /\ Len(commands) < PipeHWM /\ apc # "gone"
    /\ commands' = Append(commands, asked)
    /\ IF asked.op \in Asks
       THEN cpc' = "asking" /\ UNCHANGED asked
       ELSE cpc' = "idle" /\ asked' = NoCommand
    /\ UNCHANGED <<answers, copy, connections, calls, actor, mishaps>>

(* Is message m the answer?  sphactor_ask_connect and _disconnect assert   *)
(* that it is; the calls that read a text do not look.                     *)
Accepted(m) == asked.op = "GET" \/ m.to = asked

(* What is left of the message when an ask has read it: a call that reads  *)
(* a text takes the first frame, and a returned message may have more.     *)
Rests(m) ==
    IF asked.op = "GET" /\ m.to.op = "API" THEN {<<>>, <<m>>} ELSE {<<>>}

(* Mutant: the connections are not updated. *)
AnsweredForgetting ==
    /\ cpc = "asking" /\ answers # <<>>
    /\ Accepted(Head(answers))
    /\ \E rest \in Rests(Head(answers)) : answers' = rest \o Tail(answers)
    /\ cpc' = "idle"
    /\ asked' = NoCommand
    /\ copy' = IF asked.op = "GET"
               THEN [copy EXCEPT ![asked.of] = Head(answers).value]
               ELSE copy
    /\ UNCHANGED <<commands, connections, calls, actor, mishaps>>

(* Mutant: the copy is made of the question instead of the answer. *)
AnsweredRaw ==
    /\ cpc = "asking" /\ answers # <<>>
    /\ Accepted(Head(answers))
    /\ \E rest \in Rests(Head(answers)) : answers' = rest \o Tail(answers)
    /\ cpc' = "idle"
    /\ asked' = NoCommand
    /\ copy' = IF asked.op = "GET"
               THEN [copy EXCEPT ![asked.of] = asked.of]
               ELSE copy
    /\ connections' = Reconnected(connections, asked)
    /\ UNCHANGED <<commands, calls, actor, mishaps>>

(* The next message is taken for the answer. *)
Answered ==
    /\ cpc = "asking" /\ answers # <<>>
    /\ Accepted(Head(answers))
    /\ \E rest \in Rests(Head(answers)) : answers' = rest \o Tail(answers)
    /\ cpc' = "idle"
    /\ asked' = NoCommand
    /\ copy' = IF asked.op = "GET"
               THEN [copy EXCEPT ![asked.of] = Head(answers).value]
               ELSE copy
    /\ connections' = Reconnected(connections, asked)
    /\ UNCHANGED <<commands, calls, actor, mishaps>>

(* It is not the answer, and an assertion says so. *)
AnswerFails ==
    /\ cpc = "asking" /\ answers # <<>>
    /\ ~Accepted(Head(answers))
    /\ Abort
    /\ UNCHANGED <<pipe, asked, copy, connections, calls, current, fromPipe, attr,
                   subscribed, mishaps>>

(* Mutant: zactor_new does not wait. *)
CreatedAtOnce ==
    /\ cpc = "creating"
    /\ cpc' = "idle"
    /\ UNCHANGED <<pipe, asked, copy, connections, calls, actor, mishaps>>

(* zactor_new returns at the first signal. *)
Created ==
    /\ cpc = "creating" /\ answers # <<>>
    /\ answers' = Tail(answers)
    /\ cpc' = IF Head(answers) = Signal THEN "idle" ELSE cpc
    /\ UNCHANGED <<commands, asked, copy, connections, calls, actor, mishaps>>

(* Mutant: $TERM is sent and nothing waited for. *)
DestroyAsync ==
    /\ cpc = "idle"
    /\ Len(commands) < PipeHWM /\ apc # "gone"
    /\ commands' = Append(commands, Term)
    /\ cpc' = "destroyed"
    /\ UNCHANGED <<answers, asked, copy, connections, calls, actor, mishaps>>

(* sphactor_destroy: zactor_destroy sends $TERM without waiting for room   *)
(* in the pipe.  If it cannot be sent it does not wait for the actor       *)
(* either.                                                                 *)
Destroy ==
    /\ cpc = "idle"
    /\ IF Len(commands) < PipeHWM /\ apc # "gone"
       THEN commands' = Append(commands, Term) /\ cpc' = "destroying"
       ELSE cpc' = "destroyed" /\ UNCHANGED commands
    /\ UNCHANGED <<answers, asked, copy, connections, calls, actor, mishaps>>

(* zactor_destroy discards messages until a signal comes. *)
Destroyed ==
    /\ cpc = "destroying" /\ answers # <<>>
    /\ answers' = Tail(answers)
    /\ cpc' = IF Head(answers) = Signal THEN "destroyed" ELSE cpc
    /\ UNCHANGED <<commands, asked, copy, connections, calls, actor, mishaps>>

(* A signal reaches the process (zsys_interrupted). *)
Interrupt ==
    /\ Interruptible
    /\ "INTERRUPT" \notin mishaps
    /\ mishaps' = mishaps \cup {"INTERRUPT"}
    /\ UNCHANGED <<pipe, controller, actor>>

(* It ends a wait without a message: zsock_wait and zstr_recv return, and  *)
(* the NULL that zmsg_recv returns fails an assertion of CZMQ.             *)
WaitInterrupted ==
    /\ "INTERRUPT" \in mishaps
    /\ \/ cpc = "creating" /\ cpc' = "idle" /\ UNCHANGED <<asked, apc>>
       \/ cpc = "destroying" /\ cpc' = "destroyed" /\ UNCHANGED <<asked, apc>>
       \/ /\ cpc = "asking" /\ asked.op = "GET"
          /\ cpc' = "idle" /\ asked' = NoCommand /\ UNCHANGED apc
       \/ cpc = "asking" /\ asked.op # "GET" /\ Abort /\ UNCHANGED asked
    /\ UNCHANGED <<pipe, copy, connections, calls, current, fromPipe, attr, subscribed,
                   mishaps>>

-----------------------------------------------------------------------------
(* The actor's thread *)

Say(m) ==
    /\ Len(answers) < PipeHWM
    /\ answers' = Append(answers, m)

(* sphactor_actor_new reads the shim, which lives on the stack of          *)
(* sphactor_new.                                                           *)
New ==
    /\ apc = "new"
    /\ attr' = [attr EXCEPT !["NAME"] = Default, !["ENDPOINT"] = Default]
    /\ apc' = "signal"
    /\ UNCHANGED <<pipe, controller, current, fromPipe, subscribed, mishaps>>

(* sphactor_actor_start: it signals through the pipe, when the thread      *)
(* begins and at every START, whoever sent it, then calls the INIT         *)
(* handler.                                                                *)
SendSignal ==
    /\ apc = "signal"
    /\ Say(Signal)
    /\ apc' = "init"
    /\ UNCHANGED <<commands, controller, current, fromPipe, attr, subscribed, mishaps>>

(* The INIT handler returns. *)
EnterLoop ==
    /\ apc = "init"
    /\ apc' = "poll"
    /\ UNCHANGED <<pipe, controller, current, fromPipe, attr, subscribed, mishaps>>

(* The poller returns the pipe, its first socket. *)
TakeCommand ==
    /\ apc = "poll" /\ commands # <<>>
    /\ current' = Head(commands) /\ fromPipe' = TRUE
    /\ commands' = Tail(commands)
    /\ apc' = "execute"
    /\ UNCHANGED <<answers, controller, attr, subscribed, mishaps>>

(* Mutant: a peer's command is not told from the controller's. *)
TakePeerCommandAsOwn(c) ==
    /\ apc = "poll" /\ commands = <<>>
    /\ c # Term
    /\ current' = c /\ fromPipe' = TRUE
    /\ apc' = "execute"
    /\ mishaps' = mishaps \cup MishapsOf(c, FALSE)
    /\ UNCHANGED <<pipe, controller, attr, subscribed>>

(* Mutant: $TERM is accepted from a peer. *)
TakeAnyPeerCommand(c) ==
    /\ apc = "poll" /\ commands = <<>>
    /\ current' = c /\ fromPipe' = FALSE
    /\ apc' = "execute"
    /\ mishaps' = mishaps \cup MishapsOf(c, FALSE)
    /\ UNCHANGED <<pipe, controller, attr, subscribed>>

(* The poller returns the subscribe socket with an API message.  $TERM is  *)
(* not accepted from there.                                                *)
TakePeerCommand(c) ==
    /\ apc = "poll" /\ commands = <<>>
    /\ c # Term
    /\ current' = c /\ fromPipe' = FALSE
    /\ apc' = "execute"
    /\ mishaps' = mishaps \cup MishapsOf(c, FALSE)
    /\ UNCHANGED <<pipe, controller, attr, subscribed>>

(* A timer is due: run_once handles it before anything else. *)
TakeTimer ==
    /\ Timed /\ "INTERRUPT" \notin mishaps
    /\ apc = "poll"
    /\ apc' = "event"
    /\ UNCHANGED <<pipe, controller, current, fromPipe, attr, subscribed, mishaps>>

(* The poller or a receive returns nothing, or a timer is due, after an    *)
(* interrupt: the loop is left.                                            *)
LeaveLoop ==
    /\ "INTERRUPT" \in mishaps
    /\ apc = "poll"
    /\ apc' = "stop"
    /\ UNCHANGED <<pipe, controller, current, fromPipe, attr, subscribed, mishaps>>

(* The handler returns from a TIME event. *)
RunEvent ==
    /\ apc = "event"
    /\ apc' = "poll"
    /\ UNCHANGED <<pipe, controller, current, fromPipe, attr, subscribed, mishaps>>

(* sphactor_actor_recv_api, and run_once_end when there is no answer. *)
Execute ==
    /\ apc = "execute"
    /\ current.op = "DISCONNECT" => current.dest \in subscribed
    /\ attr' = IF current.op = "SET"
               THEN [attr EXCEPT ![current.of] = current.value]
               ELSE attr
    /\ subscribed' = Reconnected(subscribed, current)
    /\ apc' = IF current.op = "TERM" THEN "stop"
              ELSE IF current.op = "START" THEN "signal"
              ELSE IF fromPipe /\ current.op \in Answering THEN "answer" ELSE "poll"
    /\ current' = IF apc' = "answer" THEN current ELSE NoCommand
    /\ fromPipe' = TRUE
    /\ UNCHANGED <<pipe, controller, mishaps>>

(* zsock_disconnect fails, and with it an assertion, unless there is a     *)
(* connection.                                                             *)
ExecuteFails ==
    /\ apc = "execute"
    /\ current.op = "DISCONNECT" /\ current.dest \notin subscribed
    /\ Abort
    /\ UNCHANGED <<pipe, asked, copy, connections, calls, current, fromPipe, attr,
                   subscribed, mishaps>>

(* zmsg_send (&answer, self->pipe), which waits for room. *)
SendAnswer ==
    /\ apc = "answer"
    /\ Say(Answer(current, IF current.op = "GET" THEN Shown(attr[current.of])
                                                 ELSE Foreign))
    /\ apc' = "poll"
    /\ current' = NoCommand
    /\ UNCHANGED <<commands, controller, fromPipe, attr, subscribed, mishaps>>

(* sphactor_actor_stop: the STOP handler returns. *)
Stop ==
    /\ apc = "stop"
    /\ apc' = "destroy"
    /\ UNCHANGED <<pipe, controller, current, fromPipe, attr, subscribed, mishaps>>

(* sphactor_actor_destroy: the DESTROY handler returns and all is freed. *)
DestroySelf ==
    /\ apc = "destroy"
    /\ attr' = [a \in Attrs |-> NULL]
    /\ subscribed' = {}
    /\ apc' = "exit"
    /\ UNCHANGED <<pipe, controller, current, fromPipe, mishaps>>

(* Mutant: the thread ends without a signal. *)
ExitSilently ==
    /\ apc = "exit"
    /\ apc' = "gone"
    /\ UNCHANGED <<pipe, controller, current, fromPipe, attr, subscribed, mishaps>>

(* The thread's shim in zactor signals, without waiting for room, and      *)
(* closes its end of the pipe.                                             *)
Exit ==
    /\ apc = "exit"
    /\ IF Len(answers) < PipeHWM
       THEN answers' = Append(answers, Signal) /\ UNCHANGED mishaps
       ELSE mishaps' = mishaps \cup {"LOST"} /\ UNCHANGED answers
    /\ apc' = "gone"
    /\ UNCHANGED <<commands, controller, current, fromPipe, attr, subscribed>>

(* The two wait for each other, or the controller for a thread that is     *)
(* gone.                                                                   *)
Stuck ==
    \/ cpc = "sending" /\ apc = "gone"
    \/ /\ cpc = "sending" /\ Len(commands) = PipeHWM
       /\ apc \in {"answer", "signal"} /\ Len(answers) = PipeHWM
    \/ cpc = "destroying" /\ apc = "gone" /\ answers = <<>>

(* The client is done with the actor, or nothing more can happen. *)
Done == (cpc \in {"destroyed", "ended"} \/ Stuck) /\ UNCHANGED vars

ControllerStep ==
    \/ \E a \in Attrs : AskAttr(a)
    \/ \E e \in Endpoints : AskConnect(e) \/ AskDisconnect(e)
    \/ \E a \in Settable, v \in Values : TellSet(a, v)
    \/ \E o \in Tells : Tell([op |-> o])
    \/ Destroy

ControllerReturn == Sent \/ Answered \/ AnswerFails \/ Created \/ Destroyed

ActorStep ==
    \/ New \/ SendSignal \/ EnterLoop \/ RunEvent \/ Execute \/ ExecuteFails
    \/ SendAnswer \/ Stop \/ DestroySelf \/ Exit

ActorInput ==
    \/ TakeCommand
    \/ \E c \in Command : c.op \in PeerCommands /\ TakePeerCommand(c)
    \/ TakeTimer
    \/ LeaveLoop

Next ==
    \/ ControllerStep \/ ControllerReturn \/ ActorStep \/ ActorInput
    \/ Interrupt \/ WaitInterrupted \/ Done

(* Both threads run whenever they can.  A timer cannot keep the actor from *)
(* its pipe forever, as long as its handler takes less than the timeout    *)
(* (ActorTimer).                                                           *)
Fairness ==
    /\ WF_vars(ControllerReturn)
    /\ WF_vars(ActorStep)
    /\ SF_vars(TakeCommand)

Spec == Init /\ [][Next]_vars /\ Fairness
-----------------------------------------------------------------------------
(* Properties *)

Without(M) == mishaps \cap M = {}

\* Nothing has put a message into the pipe that nobody asks for.
Quiet == Without({"ECHO", "SIGNAL", "TERM", "INTERRUPT"})

(* The message an ask receives is the answer to that ask, and nothing is   *)
(* left in the pipe for the next one ("I'm not sure if this is safe if     *)
(* there's already a queue on the actor's pipe???", sphactor_ask_uuid),    *)
(* until one of the four mishaps shifts the answers.                       *)
AnswersMatch ==
    Quiet =>
        /\ cpc \in {"idle", "sending"} => answers = <<>>
        /\ cpc = "asking" /\ answers # <<>> =>
              Len(answers) = 1 /\ Head(answers).to = asked

(* What attribute a will be once the actor has executed all that is on its *)
(* way to it.                                                              *)
Setting(c, a) == c.op = "SET" /\ c.of = a
Settings(a) == {i \in 1 .. Len(commands) : Setting(commands[i], a)}
Latest(S) == CHOOSE i \in S : \A j \in S : j <= i
Eventual(a) ==
    IF cpc = "sending" /\ Setting(asked, a) THEN asked.value
    ELSE IF Settings(a) # {} THEN commands[Latest(Settings(a))].value
    ELSE IF apc = "execute" /\ Setting(current, a) THEN current.value
    ELSE attr[a]

(* A copy of an attribute is what the attribute is, or is going to be, as  *)
(* long as the answers match and no peer sets it.                          *)
Coherent(a) ==
    Quiet /\ Without({"SET"}) /\ cpc \in {"idle", "sending", "asking"} /\ copy[a] # NULL =>
        copy[a] = Shown(Eventual(a))

(* The copies of the type and of the endpoint never go stale. *)
CopiesCoherent == Coherent("TYPE") /\ Coherent("ENDPOINT")

(* As long as no peer connects the actor, the client's list of connections *)
(* is the actor's between calls, and the assertion that a disconnect       *)
(* succeeds fails only if the client disconnects what it is not connected  *)
(* to.                                                                     *)
ConnectionsCoherent ==
    Quiet /\ Without({"CONNECTIONS"}) =>
        /\ cpc \in {"idle", "sending"} => connections = subscribed
        /\ cpc = "ended" => asked.op = "DISCONNECT" /\ asked.dest \notin connections

(* The shim sphactor_actor_new reads is a local variable of sphactor_new,  *)
(* which has not returned, unless a signal ended its wait.                 *)
ShimAlive == apc = "new" => cpc = "creating" \/ "INTERRUPT" \in mishaps

Ending == {"stop", "destroy", "exit", "gone"}

(* No message of a peer ends an actor: sphactor_destroy does, or a client  *)
(* that writes $TERM to sphactor_socket, or an interrupt.                  *)
NoPeerTerminates ==
    apc \in Ending =>
        cpc \in {"destroying", "destroyed"} \/ ~Without({"TERM", "INTERRUPT"})

(* When sphactor_destroy returns, the actor has executed every command the *)
(* client ever sent and its thread has ended; unless the pipe was full,    *)
(* and then the actor is abandoned, the client had ended it itself, or a   *)
(* signal of another origin was taken for the thread's last.               *)
DestroyJoins ==
    [][cpc # "destroyed" /\ cpc' = "destroyed" /\ Without({"SIGNAL", "INTERRUPT"}) =>
          \/ apc = "gone" /\ (commands = <<>> \/ "TERM" \in mishaps)
          \/ Len(commands) = PipeHWM]_vars

(* Every ask is answered, or ends the program. *)
AskReturns == cpc = "asking" ~> cpc # "asking"

(* A call that sends returns, unless the actor is gone, or waits in turn   *)
(* for the controller to read what nobody had asked for.                   *)
SendReturns ==
    cpc = "sending" ~>
        \/ cpc # "sending"
        \/ apc = "gone"
        \/ Len(answers) = PipeHWM /\ ~Without({"ECHO", "SIGNAL", "INTERRUPT"})

(* sphactor_destroy returns, unless the thread's last signal was lost.     *)
DestroyReturns ==
    cpc = "destroying" ~> cpc # "destroying" \/ "LOST" \in mishaps

-----------------------------------------------------------------------------
(* The inductive invariant behind the safety properties (SphactorProofs).  *)

\* The commands that make the actor say something.
Speaking == Answering \cup {"START"}

Silent(q) == \A i \in 1 .. Len(q) : q[i].op \notin Speaking

\* The actor works on a command, or a start, that makes it say something.
Working ==
    \/ apc \in {"answer", "signal"}
    \/ apc = "execute" /\ fromPipe /\ current.op \in Speaking

(* The command asked is on its way, being worked on, or answered. *)
AskOnItsWay ==
    /\ commands # <<>> /\ commands[Len(commands)] = asked
    /\ \A i \in 1 .. Len(commands) - 1 : commands[i].op \notin Speaking
    /\ ~Working /\ answers = <<>>
AskWorkedOn ==
    Silent(commands) /\ Working /\ apc # "signal" /\ current = asked /\ answers = <<>>
AskAnswered ==
    Silent(commands) /\ ~Working /\ Len(answers) = 1 /\ answers[1].to = asked

(* What the two threads are in the middle of. *)
Conversing ==
    /\ apc \in {"new", "signal"} => cpc = "creating"
    /\ cpc = "creating" =>
          answers = IF apc \in {"new", "signal"} THEN <<>> ELSE <<Signal>>
    /\ cpc \in {"idle", "sending"} => answers = <<>>
    /\ cpc = "sending" => asked.op \in Asks \/ asked.op \notin Speaking
    /\ cpc \notin {"asking", "ended"} =>
          Silent(commands) /\ (Working => apc = "signal")
    /\ cpc = "asking" => asked.op \in Asks /\ (AskOnItsWay \/ AskWorkedOn \/ AskAnswered)
    /\ apc = "execute" => current.op # "START"
    /\ cpc = "ended" => apc = "ended"
Conversation == Quiet => Conversing

(* Nothing ends the actor but the $TERM of sphactor_destroy, unless the    *)
(* client sends its own or a signal comes.                                 *)
Lasting ==
    Without({"TERM", "INTERRUPT"}) =>
        /\ cpc \notin {"destroying", "destroyed", "ended"} =>
              /\ \A i \in 1 .. Len(commands) : commands[i].op # "TERM"
              /\ asked.op # "TERM"
              /\ apc \notin Ending
              /\ apc = "execute" => current.op # "TERM"
        /\ cpc = "ended" => apc = "ended"

(* The client's list of connections is the actor's, but for the command    *)
(* that has been executed and whose answer is still to come; and the       *)
(* assertion has failed only on the client's own mistake.                  *)
Tally ==
    /\ cpc \in {"creating", "idle", "sending"} => connections = subscribed
    /\ cpc = "asking" =>
          subscribed = IF apc = "answer" \/ answers # <<>>
                       THEN Reconnected(connections, asked) ELSE connections
    /\ cpc = "ended" => asked.op = "DISCONNECT" /\ asked.dest \notin connections
    /\ apc = "execute" /\ ~fromPipe => current.op \notin {"CONNECT", "DISCONNECT"}
Tallied == Quiet /\ Without({"CONNECTIONS"}) => Tally

IInv == TypeOK /\ Conversation /\ Lasting /\ Tallied
=============================================================================
