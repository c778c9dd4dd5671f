--------------------------- MODULE SphactorProofs ---------------------------
(***************************************************************************)
(* Proofs about Sphactor for any values, endpoints, size of the pipe and   *)
(* number of calls, whatever the client sends, the handler returns and     *)
(* peers send, and with or without interrupts: what a property does not    *)
(* survive it names itself, by the mishaps that have happened.             *)
(***************************************************************************)
EXTENDS Sphactor, SequenceTheorems, TLAPS

USE ValueAssumption, CommandAssumption, BoundAssumption

-----------------------------------------------------------------------------
(* Types *)

(* The commands the controller sends are commands. *)
LEMMA CommandsSent ==
    /\ \A a \in Attrs : Get(a) \in Command
    /\ \A a \in Settable, v \in Values : Set(a, v) \in Command
    /\ \A e \in Endpoints : Connect(e) \in Command /\ Disconnect(e) \in Command
    /\ \A o \in Tells : [op |-> o] \in Command
    /\ Term \in Command
BY DEF Command, Get, Set, Connect, Disconnect, Term

(* What a command carries, by its operation. *)
LEMMA CommandParts ==
    ASSUME NEW c \in Command
    PROVE  /\ c.op \in {"GET", "SET", "CONNECT", "DISCONNECT", "API", "START", "TERM"}
           /\ c.op = "GET" => c.of \in Attrs
           /\ c.op = "SET" => c.of \in Settable /\ c.value \in Values
           /\ c.op \in {"CONNECT", "DISCONNECT"} => c.dest \in Endpoints
           /\ c.op = "TERM" => c = Term
<1>1. CASE c \in [op : {"GET"}, of : Attrs]
  BY <1>1
<1>2. CASE c \in [op : {"SET"}, of : Settable, value : Values]
  BY <1>2
<1>3. CASE c \in [op : {"CONNECT", "DISCONNECT"}, dest : Endpoints]
  BY <1>3
<1>4. CASE c \in [op : {"API", "START", "TERM"}]
  BY <1>4 DEF Term
<1> QED  BY <1>1, <1>2, <1>3, <1>4 DEF Command

(* The values that travel are attributes or copies of them. *)
LEMMA ValuesCarried ==
    /\ \A v \in Attribute : Shown(v) \in Copy
    /\ NULL \in Copy /\ NULL \in Attribute /\ Default \in Attribute /\ Foreign \in Copy
    /\ Signal \in Message
    /\ \A c \in Command, v \in Copy : Answer(c, v) \in Message
    /\ \A m \in Message : m.value \in Copy
BY DEF Attribute, Copy, Shown, Signal, Message, Answer

(* A call keeps the types. *)
LEMMA CallType ==
    ASSUME TypeOK, NEW c \in Command, Call(c), copy' \in [Attrs -> Copy]
    PROVE  TypeOK'
BY DEF Call, TypeOK, pipe, actor, MishapsOf

(* The connections after a command are endpoints. *)
LEMMA ReconnectedType ==
    ASSUME NEW c \in Command \cup {NoCommand}, NEW D \in SUBSET Endpoints
    PROVE  Reconnected(D, c) \subseteq Endpoints
BY CommandParts DEF Reconnected, NoCommand

(* What an ask leaves of its message, before the rest of the pipe. *)
LEMMA RestParts ==
    ASSUME NEW q \in Seq(Message), q # <<>>, NEW rest \in Rests(Head(q))
    PROVE  /\ rest = <<>> \/ rest = <<Head(q)>>
           /\ rest \o Tail(q) \in Seq(Message)
           /\ rest = <<>> => rest \o Tail(q) = Tail(q)
           /\ rest = <<Head(q)>> => rest \o Tail(q) = q
<1>1. Head(q) \in Message /\ Tail(q) \in Seq(Message)
  OBVIOUS
<1>2. rest = <<>> \/ rest = <<Head(q)>>
  BY DEF Rests
<1>3. CASE rest = <<>>
  BY <1>1, <1>3
<1>4. CASE rest = <<Head(q)>>
  BY <1>1, <1>4
<1> QED  BY <1>2, <1>3, <1>4

(* The types hold when the thread has been created. *)
LEMMA TypeInit == Init => TypeOK
BY ValuesCarried DEF Init, TypeOK

(* The client's calls keep the types. *)
LEMMA TypeCalls ==
    ASSUME TypeOK, ControllerStep
    PROVE  TypeOK'
<1>1. ASSUME NEW c \in Command, Call(c), UNCHANGED copy PROVE TypeOK'
  BY <1>1, CallType DEF TypeOK
<1>2. ASSUME NEW a \in Attrs, AskAttr(a) PROVE TypeOK'
  BY <1>1, <1>2, CommandsSent DEF AskAttr
<1>3. ASSUME NEW e \in Endpoints, AskConnect(e) \/ AskDisconnect(e) PROVE TypeOK'
  BY <1>1, <1>3, CommandsSent DEF AskConnect, AskDisconnect
<1>4. ASSUME NEW a \in Settable, NEW v \in Values, TellSet(a, v) PROVE TypeOK'
  <2>1. v \in Copy /\ a \in Attrs
    BY DEF Copy, Attribute, Settable, Attrs
  <2>2. copy' \in [Attrs -> Copy]
    BY <1>4, <2>1 DEF TellSet, TypeOK
  <2> QED  BY <1>4, <2>2, CommandsSent, CallType DEF TellSet
<1>5. ASSUME NEW o \in Tells, Tell([op |-> o]) PROVE TypeOK'
  BY <1>1, <1>5, CommandsSent DEF Tell
<1>6. CASE Destroy
  <2> USE DEF TypeOK
  <2>1. commands' = Append(commands, Term) \/ commands' = commands
    BY <1>6 DEF Destroy
  <2>2. Term \in Command
    BY CommandsSent
  <2>3. commands' \in Seq(Command)
    BY <2>1, <2>2
  <2> QED  BY <1>6, <2>3 DEF Destroy, actor
<1> QED  BY <1>2, <1>3, <1>4, <1>5, <1>6 DEF ControllerStep

(* The returns of its calls do. *)
LEMMA TypeReturns ==
    ASSUME TypeOK, ControllerReturn \/ WaitInterrupted
    PROVE  TypeOK'
<1> USE DEF TypeOK
<1>1. CASE Sent
  <2>1. commands' \in Seq(Command)
    BY <1>1 DEF Sent
  <2> QED  BY <1>1, <2>1 DEF Sent, actor
<1>2. CASE Answered
  <2>1. Head(answers) \in Message
    BY <1>2 DEF Answered
  <2>2. Head(answers).value \in Copy
    BY <2>1, ValuesCarried
  <2>3. asked.op = "GET" => asked.of \in Attrs
    BY CommandParts DEF NoCommand
  <2>4. copy' \in [Attrs -> Copy]
    BY <1>2, <2>2, <2>3 DEF Answered
  <2>5. connections' \subseteq Endpoints
    BY <1>2, ReconnectedType DEF Answered
  <2>6. answers' \in Seq(Message)
    BY <1>2, RestParts DEF Answered
  <2> QED  BY <1>2, <2>4, <2>5, <2>6 DEF Answered, actor
<1>3. CASE AnswerFails
  BY <1>3 DEF AnswerFails, Abort, pipe
<1>4. CASE Created
  BY <1>4 DEF Created, actor
<1>5. CASE Destroyed
  BY <1>5 DEF Destroyed, actor
<1>6. CASE WaitInterrupted
  BY <1>6 DEF WaitInterrupted, Abort, pipe
<1> QED  BY <1>1, <1>2, <1>3, <1>4, <1>5, <1>6 DEF ControllerReturn

(* So do the actor's steps. *)
LEMMA TypeActor ==
    ASSUME TypeOK, ActorStep \/ ActorInput
    PROVE  TypeOK'
<1> USE DEF TypeOK
<1>1. CASE New
  BY <1>1, ValuesCarried DEF New, controller, pipe
<1>2. CASE SendSignal
  <2>1. answers' \in Seq(Message)
    BY <1>2, ValuesCarried DEF SendSignal, Say
  <2> QED  BY <1>2, <2>1 DEF SendSignal, controller
<1>3. CASE EnterLoop \/ RunEvent \/ TakeTimer \/ LeaveLoop \/ Stop
  BY <1>3 DEF EnterLoop, RunEvent, TakeTimer, LeaveLoop, Stop, pipe, controller
<1>4. CASE Execute
  <2>1. attr' \in [Attrs -> Attribute]
    BY <1>4, CommandParts DEF Execute, Attribute, Settable, Attrs, NoCommand
  <2>2. subscribed' \subseteq Endpoints
    BY <1>4, ReconnectedType DEF Execute
  <2>3. apc' \in {"stop", "signal", "answer", "poll"}
    BY <1>4 DEF Execute
  <2> QED  BY <1>4, <2>1, <2>2, <2>3 DEF Execute, pipe, controller
<1>5. CASE ExecuteFails
  BY <1>5 DEF ExecuteFails, Abort, pipe
<1>6. CASE SendAnswer
  <2> DEFINE v == IF current.op = "GET" THEN Shown(attr[current.of]) ELSE Foreign
  <2>1. current \in Command
    BY <1>6 DEF SendAnswer
  <2>2. v \in Copy
    BY <2>1, CommandParts, ValuesCarried
  <2>3. Answer(current, v) \in Message
    BY <2>1, <2>2, ValuesCarried
  <2>4. answers' = Append(answers, Answer(current, v))
    BY <1>6 DEF SendAnswer, Say
  <2>5. ASSUME NEW m \in Message, answers' = Append(answers, m)
        PROVE  answers' \in Seq(Message)
    BY <2>5
  <2>6. answers' \in Seq(Message)
    <3> HIDE DEF v
    <3> QED  BY <2>3, <2>4, <2>5
  <2> QED  BY <1>6, <2>6 DEF SendAnswer, controller
<1>7. CASE DestroySelf
  BY <1>7, ValuesCarried DEF DestroySelf, pipe, controller
<1>8. CASE Exit
  <2>1. answers' = answers \/ answers' = Append(answers, Signal)
    BY <1>8 DEF Exit
  <2>2. answers' \in Seq(Message)
    <3>1. ASSUME NEW m \in Message, answers' = Append(answers, m)
          PROVE  answers' \in Seq(Message)
      BY <3>1
    <3> QED  BY <2>1, <3>1, ValuesCarried
  <2>3. mishaps' \subseteq Mishaps
    BY <1>8 DEF Exit, Mishaps
  <2> QED  BY <1>8, <2>2, <2>3 DEF Exit, controller
<1>9. CASE TakeCommand
  BY <1>9 DEF TakeCommand, controller
<1>10. ASSUME NEW c \in Command, TakePeerCommand(c) PROVE TypeOK'
  BY <1>10 DEF TakePeerCommand, pipe, controller, MishapsOf
<1> QED
  BY <1>1, <1>2, <1>3, <1>4, <1>5, <1>6, <1>7, <1>8, <1>9, <1>10 DEF ActorStep, ActorInput

(* Every step keeps the types. *)
LEMMA TypeStep == TypeOK /\ [Next]_vars => TypeOK'
<1> SUFFICES ASSUME TypeOK, [Next]_vars PROVE TypeOK'
  OBVIOUS
<1>1. CASE Interrupt
  BY <1>1 DEF Interrupt, pipe, controller, actor, TypeOK, Mishaps
<1>2. CASE UNCHANGED vars
  BY <1>2 DEF vars, pipe, controller, actor, TypeOK
<1> QED  BY <1>1, <1>2, TypeCalls, TypeReturns, TypeActor DEF Next, Done

(* Spec keeps the types: for any client and any peer. *)
THEOREM TypeCorrect == Spec => []TypeOK
<1>1. TypeOK /\ [Next]_vars => TypeOK'
  BY TypeStep
<1> QED  BY TypeInit, <1>1, PTL DEF Spec

(* A mishap is never forgotten. *)
LEMMA MishapsStay ==
    ASSUME [Next]_vars
    PROVE  /\ mishaps \subseteq mishaps'
           /\ Quiet' => Quiet
           /\ \A M \in SUBSET Mishaps : mishaps' \cap M = {} => Without(M)
<1>1. mishaps \subseteq mishaps'
  BY DEF Next, ControllerStep, ControllerReturn, ActorStep, ActorInput, Done, Call,
     AskAttr, AskConnect, AskDisconnect, TellSet, Tell, Destroy, Sent, Answered,
     AnswerFails, Created, Destroyed, Interrupt, WaitInterrupted, New, SendSignal,
     EnterLoop, RunEvent, Execute, ExecuteFails, SendAnswer, Stop, DestroySelf, Exit,
     TakeCommand, TakePeerCommand, TakeTimer, LeaveLoop, vars
<1> QED  BY <1>1 DEF Quiet, Without

-----------------------------------------------------------------------------
(* The pipe holds no command that makes the actor speak, or one, the last *)

(* A silent command put into a silent pipe. *)
LEMMA SentKeepsSilent ==
    ASSUME TypeOK, NEW c \in Command, c.op \notin Speaking, Silent(commands),
           commands' = Append(commands, c)
    PROVE  Silent(commands')
<1> USE DEF TypeOK
<1>1. Len(commands') = Len(commands) + 1
  OBVIOUS
<1>2. ASSUME NEW i \in 1 .. Len(commands') PROVE commands'[i].op \notin Speaking
  <2>1. CASE i = Len(commands) + 1
    BY <2>1
  <2>2. CASE i \in 1 .. Len(commands)
    <3>1. commands'[i] = commands[i]
      BY <2>2
    <3> QED  BY <3>1, <2>2 DEF Silent
  <2> QED  BY <1>1, <2>1, <2>2
<1> QED  BY <1>2 DEF Silent

(* What is behind the first command of a pipe. *)
LEMMA TailParts ==
    ASSUME TypeOK, commands # <<>>, commands' = Tail(commands)
    PROVE  /\ Len(commands) \in Nat \ {0} /\ Len(commands') = Len(commands) - 1
           /\ \A i \in 1 .. Len(commands') : commands'[i] = commands[i + 1]
           /\ Head(commands) = commands[1] /\ Head(commands) \in Command
BY DEF TypeOK

(* An ask and START make the actor speak. *)
LEMMA Speakers ==
    /\ Asks \subseteq Answering /\ Answering \subseteq Speaking
    /\ "START" \in Speaking /\ "START" \notin Answering
    /\ "SET" \notin Speaking /\ "TERM" \notin Speaking
    /\ \A op \in Speaking : op \in Asks \/ op \in Answering \ Asks \/ op = "START"
    /\ "GET" \in Asks /\ "CONNECT" \in Asks /\ "DISCONNECT" \in Asks /\ "API" \notin Asks
BY DEF Asks, Answering, Speaking

-----------------------------------------------------------------------------
(* The conversation: an ask is on its way, or worked on, or answered *)

(* A call that is no mishap does not speak unless it is an ask. *)
LEMMA ConversingCall ==
    ASSUME TypeOK, Conversing, NEW c \in Command, Call(c), Quiet'
    PROVE  Conversing'
<1>1. /\ cpc = "idle" /\ cpc' = "sending" /\ asked' = c
      /\ UNCHANGED <<commands, answers, apc, current, fromPipe>>
  BY DEF Call, pipe, actor
<1>2. c.op \notin Answering \ Asks /\ c.op # "START"
  BY DEF Call, Quiet, MishapsOf, Without, Mishaps
<1>3. c.op \in Asks \/ c.op \notin Speaking
  BY <1>2, Speakers
<1> QED  BY <1>1, <1>3 DEF Conversing, Working, Silent

(* When its command is sent, an ask is on its way, or a tell forgotten.    *)
LEMMA ConversingSent ==
    ASSUME TypeOK, Conversing, Sent
    PROVE  Conversing'
<1> USE DEF TypeOK
<1>1. /\ cpc = "sending" /\ asked \in Command /\ commands' = Append(commands, asked)
      /\ UNCHANGED <<answers, apc, current, fromPipe>>
      /\ answers = <<>> /\ Silent(commands) /\ ~Working
  BY DEF Sent, actor, Conversing
<1>2. CASE asked.op \in Asks
  <2>1. cpc' = "asking" /\ asked' = asked
    BY <1>2 DEF Sent
  <2>2. Len(commands') = Len(commands) + 1 /\ commands'[Len(commands')] = asked
    BY <1>1
  <2>3. \A i \in 1 .. Len(commands) : commands'[i] = commands[i]
    BY <1>1
  <2>4. \A i \in 1 .. Len(commands') - 1 : commands'[i].op \notin Speaking
    BY <1>1, <2>2, <2>3 DEF Silent
  <2>5. commands' # <<>> /\ ~Working'
    BY <1>1 DEF Working
  <2>6. AskOnItsWay'
    BY <1>1, <2>1, <2>2, <2>4, <2>5 DEF AskOnItsWay
  <2> QED  BY <1>1, <1>2, <2>1, <2>6 DEF Conversing
<1>3. CASE asked.op \notin Asks
  <2>1. Silent(commands')
    BY <1>1, <1>3, SentKeepsSilent DEF Conversing
  <2> QED  BY <1>1, <1>3, <2>1 DEF Sent, Conversing, Working, Silent
<1> QED  BY <1>2, <1>3

(* A command taken from the pipe is worked on if it makes the actor speak. *)
LEMMA ConversingTake ==
    ASSUME TypeOK, Conversing, TakeCommand
    PROVE  Conversing'
<1> USE DEF TypeOK
<1>1. /\ Len(commands) \in Nat \ {0} /\ Len(commands') = Len(commands) - 1
      /\ \A i \in 1 .. Len(commands') : commands'[i] = commands[i + 1]
      /\ current' = commands[1] /\ apc' = "execute" /\ fromPipe' = TRUE
      /\ apc = "poll" /\ UNCHANGED <<answers, cpc, asked>>
  BY TailParts DEF TakeCommand, controller
<1>2. ~Working
  BY <1>1 DEF Working
<1>3. CASE Silent(commands)
  <2>1. Silent(commands')
    BY <1>1, <1>3 DEF Silent
  <2>2. ~Working' /\ current'.op # "START"
    BY <1>1, <1>3, Speakers DEF Silent, Working
  <2>3. cpc = "asking" => AskAnswered
    BY <1>1, <1>2, <1>3, Speakers DEF Conversing, AskOnItsWay, AskWorkedOn, Silent
  <2> QED  BY <1>1, <2>1, <2>2, <2>3 DEF Conversing, AskAnswered, Silent
<1>4. CASE cpc = "asking" /\ AskOnItsWay /\ Len(commands) = 1
  <2>1. asked.op # "START" /\ asked.op \in Speaking
    BY <1>4, Speakers DEF Conversing
  <2>2. AskWorkedOn'
    BY <1>1, <1>4, <2>1 DEF AskOnItsWay, AskWorkedOn, Silent, Working
  <2> QED  BY <1>1, <1>4, <2>1, <2>2 DEF Conversing, AskOnItsWay
<1>5. CASE cpc = "asking" /\ AskOnItsWay /\ Len(commands) # 1
  <2>1. commands[1].op \notin Speaking /\ ~Working'
    BY <1>1, <1>5 DEF AskOnItsWay, Working
  <2>2. /\ commands'[Len(commands')] = asked
        /\ \A i \in 1 .. Len(commands') - 1 : commands'[i].op \notin Speaking
    BY <1>1, <1>5 DEF AskOnItsWay
  <2>3. commands' # <<>>
    BY <1>1, <1>5
  <2>4. AskOnItsWay'
    BY <1>1, <1>5, <2>1, <2>2, <2>3 DEF AskOnItsWay
  <2> QED  BY <1>1, <1>5, <2>1, <2>4, Speakers DEF Conversing
<1>6. cpc # "ended"
  BY <1>1 DEF Conversing
<1> QED  BY <1>2, <1>3, <1>4, <1>5, <1>6 DEF Conversing, AskWorkedOn, AskAnswered

(* The answer follows the command worked on, and nothing precedes it.      *)
LEMMA ConversingAnswer ==
    ASSUME TypeOK, Conversing, SendAnswer
    PROVE  Conversing'
<1> USE DEF TypeOK
<1>1. Working /\ apc = "answer" /\ apc' = "poll" /\ UNCHANGED <<commands, cpc, asked>>
  BY DEF SendAnswer, controller, Working
<1>2. cpc = "asking" /\ AskWorkedOn
  BY <1>1 DEF Conversing, AskOnItsWay, AskAnswered
<1>3. PICK v : answers' = Append(answers, Answer(current, v))
  BY DEF SendAnswer, Say
<1>4. Len(answers') = 1 /\ answers'[1].to = asked
  BY <1>2, <1>3 DEF AskWorkedOn, Answer
<1>5. AskAnswered'
  BY <1>1, <1>2, <1>4 DEF AskAnswered, AskWorkedOn, Working, Silent
<1> QED  BY <1>1, <1>2, <1>5 DEF Conversing, AskWorkedOn, Silent

(* So does the signal of a thread that begins. *)
LEMMA ConversingSignal ==
    ASSUME TypeOK, Conversing, New \/ SendSignal \/ Created
    PROVE  Conversing'
<1> USE DEF TypeOK
<1>1. CASE New
  BY <1>1 DEF New, pipe, controller, Conversing, Working, Silent
<1>2. CASE SendSignal
  <2>1. cpc = "creating" /\ answers = <<>>
    BY <1>2 DEF SendSignal, Conversing
  <2>2. answers' = <<Signal>>
    BY <1>2, <2>1 DEF SendSignal, Say
  <2> QED  BY <1>2, <2>1, <2>2 DEF SendSignal, controller, Conversing, Working, Silent
<1>3. CASE Created
  <2>1. apc \notin {"new", "signal"} /\ answers = <<Signal>>
    BY <1>3 DEF Created, Conversing
  <2>2. answers' = <<>> /\ cpc' = "idle"
    BY <1>3, <2>1 DEF Created
  <2>3. ~Working
    BY <1>3, <2>1 DEF Created, Conversing
  <2> QED  BY <1>3, <2>1, <2>2, <2>3 DEF Created, actor, Conversing, Working, Silent
<1> QED  BY <1>1, <1>2, <1>3

(* A pipe with one message. *)
LEMMA OneMessage ==
    ASSUME NEW q \in Seq(Message), Len(q) = 1
    PROVE  Head(q) = q[1] /\ Tail(q) = <<>>
<1>1. q # <<>>
  OBVIOUS
<1>2. Head(q) = q[1] /\ Len(Tail(q)) = 0 /\ Tail(q) \in Seq(Message)
  BY <1>1
<1> QED  BY <1>2, EmptySeq

(* The answer is taken, with all of its frames. *)
LEMMA ConversingAnswered ==
    ASSUME TypeOK, Conversing, Answered
    PROVE  Conversing'
<1> USE DEF TypeOK
<1>1. cpc = "asking" /\ AskAnswered /\ asked.op \in Asks
  BY DEF Answered, Conversing, AskOnItsWay, AskWorkedOn
<1>2. Len(answers) = 1 /\ Head(answers).to = asked /\ Tail(answers) = <<>>
  <2>1. answers \in Seq(Message) /\ Len(answers) = 1 /\ answers[1].to = asked
    BY <1>1 DEF AskAnswered
  <2> QED  BY <2>1, OneMessage
<1>3. \A rest \in Rests(Head(answers)) : rest = <<>>
  BY <1>1, <1>2, Speakers DEF Rests
<1>4. answers' = <<>>
  <2>1. \E rest \in Rests(Head(answers)) : answers' = rest \o Tail(answers)
    BY DEF Answered
  <2> QED  BY <1>2, <1>3, <2>1
<1> QED  BY <1>1, <1>4 DEF Answered, actor, Conversing, AskAnswered, Working, Silent

(* The conversation survives every step that disturbs nothing. *)
LEMMA ConversationStep ==
    ASSUME TypeOK, Conversation, Lasting, [Next]_vars
    PROVE  Conversation'
<1> SUFFICES ASSUME Quiet', Quiet, Conversing PROVE Conversing'
  BY MishapsStay DEF Conversation
<1> USE DEF TypeOK
<1>0. "INTERRUPT" \notin mishaps /\ "INTERRUPT" \notin mishaps' /\ Without({"TERM", "INTERRUPT"})
  BY DEF Quiet, Without
<1>1. ASSUME NEW c \in Command, Call(c) PROVE Conversing'
  BY <1>1, ConversingCall
<1>2. CASE ControllerStep /\ ~Destroy
  BY <1>1, <1>2, CommandsSent
     DEF ControllerStep, AskAttr, AskConnect, AskDisconnect, TellSet, Tell
<1>3. CASE Destroy
  <2>1. Term \in Command /\ Term.op \notin Speaking
    BY CommandsSent, Speakers DEF Term
  <2>2. /\ cpc = "idle" /\ cpc' \in {"destroying", "destroyed"} /\ Silent(commands)
        /\ UNCHANGED <<answers, apc, current, fromPipe>>
    BY <1>3 DEF Destroy, Conversing, actor
  <2>3. Silent(commands')
    <3>1. CASE commands' = Append(commands, Term)
      BY <2>1, <2>2, <3>1, SentKeepsSilent
    <3> QED  BY <1>3, <2>2, <3>1 DEF Destroy, Silent
  <2> QED  BY <2>2, <2>3 DEF Conversing, Working
<1>4. CASE Sent
  BY <1>4, ConversingSent
<1>5. CASE Answered
  BY <1>5, ConversingAnswered
<1>6. CASE AnswerFails
  <2>1. cpc = "asking" /\ answers # <<>> /\ Head(answers) = answers[1]
    BY <1>6 DEF AnswerFails
  <2>2. AskAnswered
    BY <2>1 DEF Conversing, AskOnItsWay, AskWorkedOn
  <2> QED  BY <1>6, <2>1, <2>2 DEF AnswerFails, Accepted, AskAnswered
<1>7. CASE Destroyed
  BY <1>7 DEF Destroyed, actor, Conversing, Working, Silent
<1>8. CASE Created \/ New \/ SendSignal
  BY <1>8, ConversingSignal
<1>9. CASE Interrupt \/ WaitInterrupted \/ LeaveLoop
  BY <1>0, <1>9 DEF Interrupt, WaitInterrupted, LeaveLoop
<1>10. CASE EnterLoop \/ RunEvent \/ TakeTimer
  <2>1. /\ ~Working /\ ~Working' /\ apc \notin {"new", "signal", "ended"}
        /\ apc' \in {"poll", "event"} /\ UNCHANGED <<commands, answers, cpc, asked>>
    BY <1>10 DEF EnterLoop, RunEvent, TakeTimer, pipe, controller, Working
  <2> QED  BY <2>1 DEF Conversing, AskOnItsWay, AskWorkedOn, AskAnswered, Silent
<1>11. CASE Execute
  <2>1. /\ apc = "execute" /\ current \in Command
        /\ UNCHANGED <<commands, answers, cpc, asked>>
    BY <1>11 DEF Execute, pipe, controller
  <2>2. current.op # "START" /\ cpc # "ended"
    BY <2>1 DEF Conversing
  <2>3. /\ apc' \in {"stop", "poll", "answer"}
        /\ apc' = "answer" <=> (fromPipe /\ current.op \in Answering)
        /\ apc' = "answer" => current' = current
    BY <1>11, <2>2, Speakers DEF Execute
  <2>4. Working' <=> Working
    BY <2>1, <2>2, <2>3 DEF Working, Speaking
  <2>5. Working => current' = current
    BY <2>3, <2>4 DEF Working
  <2> QED
    BY <2>1, <2>2, <2>3, <2>4, <2>5
       DEF Conversing, AskOnItsWay, AskWorkedOn, AskAnswered, Silent
<1>12. CASE ExecuteFails
  BY <1>12 DEF ExecuteFails, Abort, pipe, Conversing, Working, Silent
<1>13. CASE SendAnswer
  BY <1>13, ConversingAnswer
<1>14. CASE Stop \/ DestroySelf \/ Exit
  <2>1. /\ apc \in Ending /\ apc' \in Ending /\ UNCHANGED <<commands, cpc, asked>>
        /\ ~Working /\ ~Working'
    BY <1>14 DEF Stop, DestroySelf, Exit, pipe, controller, Ending, Working
  <2>2. cpc \in {"destroying", "destroyed"}
    BY <1>0, <2>1 DEF Lasting, Conversing, Ending
  <2> QED  BY <2>1, <2>2 DEF Conversing, Silent, Ending
<1>15. CASE TakeCommand
  BY <1>15, ConversingTake
<1>16. ASSUME NEW c \in Command, TakePeerCommand(c) PROVE Conversing'
  <2>1. c.op # "START"
    BY <1>16 DEF TakePeerCommand, MishapsOf, Quiet, Without, Mishaps
  <2>2. /\ ~Working /\ ~Working' /\ apc = "poll" /\ apc' = "execute" /\ current'.op # "START"
        /\ UNCHANGED <<commands, answers, cpc, asked>>
    BY <1>16, <2>1 DEF TakePeerCommand, pipe, controller, Working
  <2> QED  BY <2>2 DEF Conversing, AskOnItsWay, AskWorkedOn, AskAnswered, Silent
<1>17. CASE UNCHANGED vars
  BY <1>17 DEF vars, pipe, controller, actor, Conversing, AskOnItsWay, AskWorkedOn, AskAnswered,
     Silent, Working
<1> QED
  BY <1>2, <1>3, <1>4, <1>5, <1>6, <1>7, <1>8, <1>9, <1>10, <1>11, <1>12, <1>13, <1>14,
     <1>15, <1>16, <1>17 DEF Next, ControllerReturn, ActorStep, ActorInput, Done

-----------------------------------------------------------------------------
(* Nothing but sphactor_destroy ends the actor *)

(* The client's own calls, and what it puts into the pipe. *)
LEMMA LastingClient ==
    ASSUME TypeOK, Lasting, Without({"TERM", "INTERRUPT"})', Without({"TERM", "INTERRUPT"}),
           ControllerStep \/ ControllerReturn
    PROVE  Lasting'
<1> USE DEF TypeOK
<1>1. ASSUME NEW c \in Command, Call(c) PROVE Lasting'
  <2>1. c.op # "TERM"
    BY <1>1 DEF Call, MishapsOf, Without, Mishaps
  <2> QED  BY <1>1, <2>1 DEF Call, pipe, actor, Lasting, Without
<1>2. CASE ControllerStep /\ ~Destroy
  BY <1>1, <1>2, CommandsSent
     DEF ControllerStep, AskAttr, AskConnect, AskDisconnect, TellSet, Tell
<1>3. CASE Destroy
  BY <1>3 DEF Destroy, Lasting
<1>4. CASE Sent
  <2>1. /\ cpc = "sending" /\ cpc' \in {"asking", "idle"} /\ asked \in Command
        /\ commands' = Append(commands, asked) /\ UNCHANGED <<apc, current, mishaps>>
        /\ asked' \in {asked, NoCommand}
    BY <1>4 DEF Sent, actor
  <2>2. /\ \A i \in 1 .. Len(commands) : commands[i].op # "TERM"
        /\ asked.op # "TERM" /\ apc \notin Ending /\ (apc = "execute" => current.op # "TERM")
    BY <2>1 DEF Lasting
  <2>3. ASSUME NEW i \in 1 .. Len(commands') PROVE commands'[i].op # "TERM"
    <3>1. CASE i = Len(commands) + 1
      BY <2>1, <2>2, <3>1
    <3>2. CASE i \in 1 .. Len(commands)
      <4>1. commands'[i] = commands[i]
        BY <2>1, <3>2
      <4> QED  BY <2>2, <3>2, <4>1
    <3> QED  BY <2>1, <3>1, <3>2
  <2> QED  BY <2>1, <2>2, <2>3 DEF Lasting, NoCommand
<1>5. CASE Answered \/ Created
  <2>1. /\ cpc \in {"asking", "creating"} /\ UNCHANGED <<commands, apc, current, mishaps>>
        /\ asked' \in {asked, NoCommand} /\ cpc' \in {"idle", "creating"}
    BY <1>5 DEF Answered, Created, actor
  <2> QED  BY <2>1 DEF Lasting, NoCommand
<1>6. CASE AnswerFails
  BY <1>6 DEF AnswerFails, Abort, pipe, Lasting, Ending
<1>7. CASE Destroyed
  BY <1>7 DEF Destroyed, Lasting
<1> QED  BY <1>2, <1>3, <1>4, <1>5, <1>6, <1>7 DEF ControllerReturn

(* The actor ends only on $TERM. *)
LEMMA LastingActor ==
    ASSUME TypeOK, Lasting, Without({"TERM", "INTERRUPT"})', Without({"TERM", "INTERRUPT"}),
           ActorStep \/ ActorInput
    PROVE  Lasting'
<1> USE DEF TypeOK
<1>1. CASE New \/ SendSignal \/ EnterLoop \/ RunEvent \/ TakeTimer \/ SendAnswer
  <2>1. /\ apc # "ended" /\ apc' \in {"signal", "init", "poll", "event"}
        /\ UNCHANGED <<commands, cpc, asked>>
    BY <1>1 DEF New, SendSignal, EnterLoop, RunEvent, TakeTimer, SendAnswer, pipe, controller
  <2> QED  BY <2>1 DEF Lasting, Ending
<1>2. CASE Execute
  <2>1. /\ apc = "execute" /\ UNCHANGED <<commands, cpc, asked>> /\ apc' # "execute"
        /\ apc' = "stop" <=> current.op = "TERM"
        /\ apc' \notin {"destroy", "exit", "gone"}
    BY <1>2 DEF Execute, pipe, controller
  <2> QED  BY <2>1 DEF Lasting, Ending
<1>3. CASE ExecuteFails
  BY <1>3 DEF ExecuteFails, Abort, pipe, Lasting, Ending
<1>4. CASE Stop \/ DestroySelf \/ Exit
  BY <1>4 DEF Stop, DestroySelf, Exit, pipe, controller, Lasting, Ending
<1>5. CASE TakeCommand
  <2>1. /\ Len(commands) \in Nat \ {0} /\ Len(commands') = Len(commands) - 1
        /\ \A i \in 1 .. Len(commands') : commands'[i] = commands[i + 1]
        /\ current' = commands[1] /\ apc' = "execute" /\ UNCHANGED <<cpc, asked>>
        /\ apc = "poll"
    BY <1>5, TailParts DEF TakeCommand, controller
  <2> QED  BY <2>1 DEF Lasting, Ending
<1>6. ASSUME NEW c \in Command, TakePeerCommand(c) PROVE Lasting'
  <2>1. c.op # "TERM"
    BY <1>6, CommandParts DEF TakePeerCommand
  <2> QED  BY <1>6, <2>1 DEF TakePeerCommand, pipe, controller, Lasting, Ending
<1>7. CASE LeaveLoop
  BY <1>7 DEF LeaveLoop, Without
<1> QED  BY <1>1, <1>2, <1>3, <1>4, <1>5, <1>6, <1>7 DEF ActorStep, ActorInput

(* An actor lasts through every step. *)
LEMMA LastingStep ==
    ASSUME TypeOK, Lasting, [Next]_vars
    PROVE  Lasting'
<1> SUFFICES ASSUME Without({"TERM", "INTERRUPT"})' PROVE Lasting'
  BY DEF Lasting
<1>1. Without({"TERM", "INTERRUPT"})
  BY MishapsStay DEF Without
<1>2. CASE Interrupt \/ WaitInterrupted
  BY <1>1, <1>2 DEF Interrupt, WaitInterrupted, Without
<1>3. CASE UNCHANGED vars
  BY <1>3 DEF vars, pipe, controller, actor, Lasting, Without
<1> QED  BY <1>1, <1>2, <1>3, LastingClient, LastingActor DEF Next, Done

(* No message of a peer ends an actor: for any peers, clients, handlers    *)
(* and size of the pipe, it is sphactor_destroy, or a $TERM the client     *)
(* wrote, or an interrupt.                                                 *)
THEOREM ActorLasts == Spec => []NoPeerTerminates
<1>1. Init => TypeOK /\ Lasting
  BY TypeInit DEF Init, Lasting, Ending, NoCommand
<1>2. TypeOK /\ Lasting /\ [Next]_vars => (TypeOK /\ Lasting)'
  BY TypeStep, LastingStep
<1>3. TypeOK /\ Lasting => NoPeerTerminates
  BY DEF NoPeerTerminates, Lasting, Ending
<1> QED  BY <1>1, <1>2, <1>3, PTL DEF Spec

-----------------------------------------------------------------------------
(* The list of connections *)

(* The list is the actor's after each step that no peer disturbs. *)
LEMMA TalliedStep ==
    ASSUME TypeOK, Conversation, Lasting, Tallied, [Next]_vars
    PROVE  Tallied'
<1> SUFFICES ASSUME Quiet', Without({"CONNECTIONS"})', Quiet, Conversing, Tally
             PROVE  Tally'
  BY MishapsStay DEF Tallied, Conversation, Without, Mishaps
<1> USE DEF TypeOK
<1>0. "INTERRUPT" \notin mishaps /\ "INTERRUPT" \notin mishaps'
  BY DEF Quiet, Without
<1>1. CASE ControllerStep /\ ~Destroy
  <2>1. /\ cpc = "idle" /\ cpc' = "sending"
        /\ UNCHANGED <<connections, apc, current, fromPipe, subscribed>>
    BY <1>1 DEF ControllerStep, AskAttr, AskConnect, AskDisconnect, TellSet, Tell, Call, actor
  <2> QED  BY <2>1 DEF Tally
<1>2. CASE Destroy \/ Destroyed
  BY <1>2 DEF Destroy, Destroyed, actor, Tally
<1>3. CASE Sent
  <2>1. answers = <<>> /\ ~Working
    BY <1>3 DEF Sent, Conversing
  <2> QED  BY <1>3, <2>1 DEF Sent, actor, Tally, Working
<1>4. CASE Answered
  <2>1. cpc = "asking" /\ answers # <<>> /\ connections' = Reconnected(connections, asked)
        /\ cpc' = "idle" /\ UNCHANGED actor
    BY <1>4 DEF Answered
  <2> QED  BY <2>1 DEF Tally, actor
<1>5. CASE AnswerFails
  <2>1. cpc = "asking" /\ answers # <<>> /\ Head(answers) = answers[1]
    BY <1>5 DEF AnswerFails
  <2>2. AskAnswered
    BY <2>1 DEF Conversing, AskOnItsWay, AskWorkedOn
  <2> QED  BY <1>5, <2>1, <2>2 DEF AnswerFails, Accepted, AskAnswered
<1>6. CASE Created
  BY <1>6 DEF Created, actor, Tally
<1>7. CASE Interrupt \/ WaitInterrupted \/ LeaveLoop
  BY <1>0, <1>7 DEF Interrupt, WaitInterrupted, LeaveLoop
<1>8. CASE New \/ SendSignal
  <2>1. cpc = "creating" /\ UNCHANGED <<cpc, connections, subscribed>> /\ apc' # "execute"
    BY <1>8 DEF New, SendSignal, controller, Conversing
  <2> QED  BY <2>1 DEF Tally
<1>9. CASE EnterLoop \/ RunEvent \/ TakeTimer
  <2>1. /\ apc \in {"init", "poll", "event"} /\ apc' \in {"poll", "event"}
        /\ UNCHANGED <<answers, cpc, asked, connections, subscribed>>
    BY <1>9 DEF EnterLoop, RunEvent, TakeTimer, pipe, controller
  <2> QED  BY <2>1 DEF Tally
<1>10. CASE Execute
  <2>1. /\ apc = "execute" /\ current \in Command
        /\ subscribed' = Reconnected(subscribed, current)
        /\ UNCHANGED <<answers, cpc, asked, connections>>
        /\ apc' = "answer" => fromPipe /\ current.op \in Answering
        /\ fromPipe /\ current.op \in Asks => apc' = "answer"
        /\ apc' # "execute"
    BY <1>10, Speakers DEF Execute, pipe, controller
  <2>2. CASE fromPipe /\ current.op \in Speaking
    <3>1. Working /\ cpc = "asking"
      BY <2>1, <2>2 DEF Working, Conversing
    <3>2. current = asked /\ answers = <<>> /\ asked.op \in Asks
      BY <3>1 DEF Conversing, AskOnItsWay, AskWorkedOn, AskAnswered
    <3> QED  BY <2>1, <2>2, <3>1, <3>2 DEF Tally
  <2>3. CASE ~(fromPipe /\ current.op \in Speaking)
    <3>1. current.op \notin {"CONNECT", "DISCONNECT"}
      BY <2>1, <2>3, Speakers DEF Tally
    <3>2. subscribed' = subscribed /\ apc' # "answer"
      BY <2>1, <2>3, <3>1, Speakers DEF Reconnected
    <3> QED  BY <2>1, <3>2 DEF Tally
  <2> QED  BY <2>2, <2>3
<1>11. CASE ExecuteFails
  <2>1. /\ apc = "execute" /\ current.op = "DISCONNECT" /\ current.dest \notin subscribed
        /\ cpc' = "ended" /\ apc' = "ended" /\ UNCHANGED <<asked, connections>>
    BY <1>11 DEF ExecuteFails, Abort
  <2>2. Working /\ cpc # "ended"
    BY <2>1, Speakers DEF Tally, Working, Conversing
  <2>3. cpc = "asking" /\ current = asked /\ answers = <<>>
    BY <2>1, <2>2 DEF Conversing, AskOnItsWay, AskWorkedOn, AskAnswered
  <2> QED  BY <2>1, <2>3 DEF Tally
<1>12. CASE SendAnswer
  <2>1. /\ apc = "answer" /\ apc' = "poll" /\ answers' # <<>>
        /\ UNCHANGED <<cpc, asked, connections, subscribed>>
    BY <1>12, AppendProperties, ValuesCarried DEF SendAnswer, Say, controller, Answer
  <2>2. cpc = "asking"
    BY <2>1 DEF Conversing, Working
  <2> QED  BY <2>1, <2>2 DEF Tally
<1>13. CASE Stop \/ DestroySelf \/ Exit
  <2>1. apc \in Ending /\ apc' \in Ending /\ UNCHANGED cpc /\ Without({"TERM", "INTERRUPT"})
    BY <1>13 DEF Stop, DestroySelf, Exit, controller, Ending, Quiet, Without
  <2>2. cpc \in {"destroying", "destroyed"}
    BY <2>1 DEF Lasting, Ending
  <2> QED  BY <2>1, <2>2 DEF Tally, Ending
<1>14. CASE TakeCommand
  <2>1. /\ apc = "poll" /\ apc' = "execute" /\ fromPipe'
        /\ UNCHANGED <<answers, cpc, asked, connections, subscribed>>
    BY <1>14 DEF TakeCommand, controller
  <2> QED  BY <2>1 DEF Tally
<1>15. ASSUME NEW c \in Command, TakePeerCommand(c) PROVE Tally'
  <2>1. c.op \notin {"CONNECT", "DISCONNECT"}
    BY <1>15 DEF TakePeerCommand, MishapsOf, Without, Mishaps
  <2>2. /\ apc = "poll" /\ apc' = "execute" /\ current' = c
        /\ UNCHANGED <<answers, cpc, asked, connections, subscribed>>
    BY <1>15 DEF TakePeerCommand, pipe, controller
  <2> QED  BY <2>1, <2>2 DEF Tally
<1>16. CASE UNCHANGED vars
  BY <1>16 DEF vars, pipe, controller, actor, Tally
<1> QED
  BY <1>1, <1>2, <1>3, <1>4, <1>5, <1>6, <1>7, <1>8, <1>9, <1>10, <1>11, <1>12, <1>13, <1>14,
     <1>15, <1>16 DEF Next, ControllerReturn, ActorStep, ActorInput, Done

-----------------------------------------------------------------------------
(* The invariant, and what follows *)

(* Initially the pipe is silent and nothing is connected. *)
LEMMA InvInit == Init => IInv
<1> SUFFICES ASSUME Init PROVE IInv
  OBVIOUS
<1>1. TypeOK
  BY TypeInit
<1>2. Conversing
  BY DEF Init, Conversing, Silent, Working
<1>3. Lasting /\ Tally
  BY DEF Init, Lasting, Tally, Ending, NoCommand
<1> QED  BY <1>1, <1>2, <1>3 DEF IInv, Conversation, Tallied

(* The invariant of the run holds of every client, handler, peer, size of  *)
(* the pipe and set of values: the conversation, until a message nobody    *)
(* asked for enters the pipe; that nothing but sphactor_destroy ends the   *)
(* actor, until the client or a signal does; and the list of connections.  *)
THEOREM Invariance == Spec => []IInv
<1>1. IInv /\ [Next]_vars => IInv'
  BY TypeStep, ConversationStep, LastingStep, TalliedStep DEF IInv
<1> QED  BY InvInit, <1>1, PTL DEF Spec

(* An ask gets the answer to that ask and leaves none behind, however many *)
(* commands are in the pipe, until START, an interrupt, a $TERM of the     *)
(* client, or a handler that returns a command's message shifts them.      *)
THEOREM AnswersAreMatched == Spec => []AnswersMatch
<1>1. IInv => AnswersMatch
  <2> SUFFICES ASSUME IInv, Quiet
               PROVE  /\ cpc \in {"idle", "sending"} => answers = <<>>
                      /\ cpc = "asking" /\ answers # <<>> =>
                            Len(answers) = 1 /\ Head(answers).to = asked
    BY DEF AnswersMatch
  <2>1. Conversing /\ TypeOK
    BY DEF IInv, Conversation
  <2>2. ASSUME cpc = "asking", answers # <<>>
        PROVE  Len(answers) = 1 /\ Head(answers).to = asked
    <3>1. AskAnswered
      BY <2>1, <2>2 DEF Conversing, AskOnItsWay, AskWorkedOn
    <3> QED  BY <2>1, <3>1, OneMessage DEF AskAnswered, TypeOK
  <2> QED  BY <2>1, <2>2 DEF Conversing
<1> QED  BY Invariance, <1>1, PTL

(* Between calls the client's list of connections is the actor's, and the  *)
(* actor's assertion fails only if the client disconnects what is not on   *)
(* the list, as long as the answers match and no peer connects the actor.  *)
THEOREM ConnectionsAreKnown == Spec => []ConnectionsCoherent
<1>1. IInv => ConnectionsCoherent
  BY DEF IInv, Tallied, Tally, ConnectionsCoherent
<1> QED  BY Invariance, <1>1, PTL

(* The shim that sphactor_actor_new reads exists while it does, whatever   *)
(* the client and peers send, unless a signal ended sphactor_new's wait.   *)
THEOREM ShimLives == Spec => []ShimAlive
<1> DEFINE Unsaid == apc = "new" => answers = <<>>
           Inv == TypeOK /\ Unsaid /\ ShimAlive
<1>1. Init => Inv
  BY TypeInit DEF Init, ShimAlive
<1>2. ASSUME Inv, [Next]_vars PROVE Inv'
  <2>1. TypeOK' /\ mishaps \subseteq mishaps'
    BY <1>2, TypeStep, MishapsStay
  <2>2. CASE apc' # "new"
    BY <2>1, <2>2 DEF ShimAlive
  <2>3. CASE apc' = "new"
    <3>1. apc = "new"
      BY <1>2, <2>3 DEF Next, ControllerStep, ControllerReturn, ActorStep, ActorInput, Done,
         Call, AskAttr, AskConnect, AskDisconnect, TellSet, Tell, Destroy, Sent, Answered,
         AnswerFails, Created, Destroyed, Interrupt, WaitInterrupted, New, SendSignal,
         EnterLoop, RunEvent, Execute, ExecuteFails, SendAnswer, Stop, DestroySelf, Exit,
         TakeCommand, TakePeerCommand, TakeTimer, LeaveLoop, Abort, vars, actor
    <3>2. answers = <<>> /\ (cpc = "creating" \/ "INTERRUPT" \in mishaps)
      BY <1>2, <3>1 DEF ShimAlive
    <3>3. answers' = <<>> /\ (cpc' = "creating" \/ "INTERRUPT" \in mishaps')
      BY <1>2, <2>1, <2>3, <3>1, <3>2
         DEF Next, ControllerStep, ControllerReturn, ActorStep, ActorInput, Done,
         Call, AskAttr, AskConnect, AskDisconnect, TellSet, Tell, Destroy, Sent, Answered,
         AnswerFails, Created, Destroyed, Interrupt, WaitInterrupted, New, SendSignal,
         EnterLoop, RunEvent, Execute, ExecuteFails, SendAnswer, Stop, DestroySelf, Exit,
         TakeCommand, TakePeerCommand, TakeTimer, LeaveLoop, Abort, vars, actor, pipe,
         controller
    <3> QED  BY <2>1, <3>3 DEF ShimAlive
  <2> QED  BY <2>2, <2>3
<1> QED  BY <1>1, <1>2, PTL DEF Spec

=============================================================================
