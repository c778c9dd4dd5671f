------------------------ MODULE SphactorClientProofs ------------------------
(***************************************************************************)
(* Proofs about what the client of a Sphactor can rely on, for any values, *)
(* endpoints, size of the pipe and number of calls, whatever its handler   *)
(* and its peers do: that sphactor_destroy has waited for the actor, and   *)
(* that the copies of the attributes are what the actor will have.         *)
(***************************************************************************)
EXTENDS SphactorProofs

USE ValueAssumption, CommandAssumption, BoundAssumption

-----------------------------------------------------------------------------
(* Signals *)

Unsignalled == \A i \in 1 .. Len(answers) : answers[i].to # NoCommand

\* Until someone sends START, the thread signals once when it begins, which
\* sphactor_new waits for, and once when it has ended.
Signalling ==
    Without({"SIGNAL", "INTERRUPT"}) =>
        /\ \A i \in 1 .. Len(commands) : commands[i].op # "START"
        /\ asked.op # "START"
        /\ apc = "execute" => current.op # "START"
        /\ apc \in {"new", "signal"} => cpc = "creating"
        /\ cpc = "creating" =>
              /\ commands = <<>>
              /\ apc \in {"new", "signal", "init", "poll", "event", "execute"}
              /\ apc = "execute" => ~fromPipe /\ current.op # "TERM"
              /\ answers = IF apc \in {"new", "signal"} THEN <<>> ELSE <<Signal>>
        /\ cpc \notin {"creating", "ended"} /\ apc # "gone" => Unsignalled
        /\ cpc = "ended" => apc = "ended"

(* A command in the pipe is not START if the client has not sent one.      *)
LEMMA SentNoStart ==
    ASSUME TypeOK, NEW c \in Command, c.op # "START", commands' = Append(commands, c),
           \A i \in 1 .. Len(commands) : commands[i].op # "START"
    PROVE  \A i \in 1 .. Len(commands') : commands'[i].op # "START"
<1> USE DEF TypeOK
<1>1. Len(commands') = Len(commands) + 1
  OBVIOUS
<1>2. ASSUME NEW i \in 1 .. Len(commands') PROVE commands'[i].op # "START"
  <2>1. CASE i = Len(commands) + 1
    BY <2>1
  <2>2. CASE i \in 1 .. Len(commands)
    BY <2>2
  <2> QED  BY <1>1, <2>1, <2>2
<1> QED  BY <1>2

(* What the client reads leaves no signal behind that was not there.       *)
LEMMA ReadUnsignalled ==
    ASSUME TypeOK, Unsignalled, answers # <<>>, NEW rest \in Rests(Head(answers)),
           answers' = rest \o Tail(answers)
    PROVE  Unsignalled'
<1>1. answers \in Seq(Message)
  BY DEF TypeOK
<1>2. CASE rest = <<>>
  <2>1. answers' = Tail(answers)
    BY <1>1, <1>2, RestParts
  <2> QED  BY <1>1, <2>1 DEF Unsignalled
<1>3. CASE rest = <<Head(answers)>>
  <2>1. answers' = answers
    BY <1>1, <1>3, RestParts
  <2> QED  BY <2>1 DEF Unsignalled
<1> QED  BY <1>1, <1>2, <1>3, RestParts

(* The client's steps keep the signals counted. *)
LEMMA SignallingClient ==
    ASSUME TypeOK, Signalling, Without({"SIGNAL", "INTERRUPT"}),
           Without({"SIGNAL", "INTERRUPT"})', ControllerStep \/ ControllerReturn
    PROVE  Signalling'
<1> USE DEF TypeOK
<1>1. ASSUME NEW c \in Command, Call(c) PROVE Signalling'
  <2>1. c.op # "START"
    BY <1>1 DEF Call, MishapsOf, Without, Mishaps
  <2> QED  BY <1>1, <2>1 DEF Call, pipe, actor, Signalling, Unsignalled
<1>2. CASE ControllerStep /\ ~Destroy
  BY <1>1, <1>2, CommandsSent
     DEF ControllerStep, AskAttr, AskConnect, AskDisconnect, TellSet, Tell
<1>3. CASE Destroy
  <2>1. /\ cpc = "idle" /\ cpc' \in {"destroying", "destroyed"}
        /\ UNCHANGED <<answers, asked, apc, current, fromPipe>>
    BY <1>3 DEF Destroy, actor
  <2>2. \A i \in 1 .. Len(commands') : commands'[i].op # "START"
    <3>1. Term \in Command /\ Term.op # "START"
      BY CommandsSent DEF Term
    <3>2. commands' = commands \/ commands' = Append(commands, Term)
      BY <1>3 DEF Destroy
    <3> QED  BY <3>1, <3>2, SentNoStart DEF Signalling
  <2> QED  BY <2>1, <2>2 DEF Signalling, Unsignalled
<1>4. CASE Sent
  <2>1. /\ cpc = "sending" /\ cpc' \in {"asking", "idle"} /\ asked \in Command
        /\ commands' = Append(commands, asked) /\ asked' \in {asked, NoCommand}
        /\ UNCHANGED <<answers, apc, current, fromPipe>>
    BY <1>4 DEF Sent, actor
  <2>2. \A i \in 1 .. Len(commands') : commands'[i].op # "START"
    BY <2>1, SentNoStart DEF Signalling
  <2> QED  BY <2>1, <2>2 DEF Signalling, Unsignalled, NoCommand
<1>5. CASE Answered
  <2>1. /\ cpc = "asking" /\ cpc' = "idle" /\ asked' = NoCommand
        /\ UNCHANGED <<commands, apc, current, fromPipe>>
    BY <1>5 DEF Answered, actor
  <2>2. Unsignalled => Unsignalled'
    <3>1. /\ answers # <<>>
          /\ \E rest \in Rests(Head(answers)) : answers' = rest \o Tail(answers)
      BY <1>5 DEF Answered
    <3> QED  BY <3>1, ReadUnsignalled
  <2> QED  BY <2>1, <2>2 DEF Signalling, NoCommand
<1>6. CASE AnswerFails
  BY <1>6 DEF AnswerFails, Abort, pipe, Signalling
<1>7. CASE Created
  <2>1. /\ cpc = "creating" /\ answers = <<Signal>>
        /\ apc \in {"init", "poll", "event", "execute"}
    BY <1>7 DEF Created, Signalling
  <2>2. answers' = <<>> /\ cpc' = "idle" /\ UNCHANGED <<commands, asked, apc, current>>
    BY <1>7, <2>1 DEF Created, actor
  <2> QED  BY <2>1, <2>2 DEF Signalling, Unsignalled
<1>8. CASE Destroyed
  <2>1. /\ cpc = "destroying" /\ cpc' \in {"destroying", "destroyed"}
        /\ answers # <<>> /\ answers' = Tail(answers)
        /\ UNCHANGED <<commands, asked, apc, current, fromPipe>>
    BY <1>8 DEF Destroyed, actor
  <2>2. Unsignalled => Unsignalled'
    BY <2>1 DEF Unsignalled
  <2> QED  BY <2>1, <2>2 DEF Signalling
<1> QED  BY <1>2, <1>3, <1>4, <1>5, <1>6, <1>7, <1>8 DEF ControllerReturn

(* So do the actor's. *)
LEMMA SignallingActor ==
    ASSUME TypeOK, Signalling, Without({"SIGNAL", "INTERRUPT"}),
           Without({"SIGNAL", "INTERRUPT"})', ActorStep \/ ActorInput
    PROVE  Signalling'
<1> USE DEF TypeOK
<1>1. CASE New
  BY <1>1 DEF New, pipe, controller, Signalling, Unsignalled
<1>2. CASE SendSignal
  <2>1. cpc = "creating" /\ answers = <<>>
    BY <1>2 DEF SendSignal, Signalling
  <2>2. answers' = <<Signal>>
    BY <1>2, <2>1 DEF SendSignal, Say
  <2> QED  BY <1>2, <2>1, <2>2 DEF SendSignal, controller, Signalling
<1>3. CASE EnterLoop \/ RunEvent \/ TakeTimer
  <2>1. /\ apc \in {"init", "poll", "event"} /\ apc' \in {"poll", "event"}
        /\ UNCHANGED <<commands, answers, cpc, asked>>
    BY <1>3 DEF EnterLoop, RunEvent, TakeTimer, pipe, controller
  <2> QED  BY <2>1 DEF Signalling, Unsignalled
<1>4. CASE Execute
  <2>1. /\ apc = "execute" /\ UNCHANGED <<commands, answers, cpc, asked>>
        /\ current.op # "START"
    BY <1>4 DEF Execute, pipe, controller, Signalling
  <2>2. /\ apc' \in {"stop", "answer", "poll"}
        /\ ~fromPipe /\ current.op # "TERM" => apc' = "poll"
    BY <1>4, <2>1 DEF Execute
  <2> QED  BY <2>1, <2>2 DEF Signalling, Unsignalled
<1>5. CASE ExecuteFails
  BY <1>5 DEF ExecuteFails, Abort, pipe, Signalling
<1>6. CASE SendAnswer
  <2>1. /\ apc = "answer" /\ apc' = "poll" /\ current \in Command
        /\ UNCHANGED <<commands, cpc, asked>>
    BY <1>6 DEF SendAnswer, controller
  <2>2. current # NoCommand
    BY <2>1, CommandParts DEF NoCommand
  <2>3. PICK v : answers' = Append(answers, Answer(current, v))
    BY <1>6 DEF SendAnswer, Say
  <2>4. ASSUME Unsignalled, NEW i \in 1 .. Len(answers') PROVE answers'[i].to # NoCommand
    <3>1. CASE i = Len(answers) + 1
      BY <2>2, <2>3, <3>1 DEF Answer
    <3>2. CASE i \in 1 .. Len(answers)
      <4>1. answers'[i] = answers[i]
        BY <2>3, <3>2
      <4> QED  BY <2>4, <3>2, <4>1 DEF Unsignalled
    <3>3. Len(answers') = Len(answers) + 1
      BY <2>3
    <3> QED  BY <3>1, <3>2, <3>3
  <2> QED  BY <2>1, <2>4 DEF Signalling, Unsignalled
<1>7. CASE Stop \/ DestroySelf
  <2>1. /\ apc \in {"stop", "destroy"} /\ apc' \in {"destroy", "exit"}
        /\ UNCHANGED <<commands, answers, cpc, asked>>
    BY <1>7 DEF Stop, DestroySelf, pipe, controller
  <2> QED  BY <2>1 DEF Signalling, Unsignalled
<1>8. CASE Exit
  BY <1>8 DEF Exit, controller, Signalling
<1>9. CASE TakeCommand
  <2>1. /\ Len(commands) \in Nat \ {0} /\ Len(commands') = Len(commands) - 1
        /\ \A i \in 1 .. Len(commands') : commands'[i] = commands[i + 1]
        /\ current' = commands[1] /\ apc' = "execute" /\ UNCHANGED <<answers, cpc, asked>>
        /\ apc = "poll" /\ commands # <<>>
    BY <1>9, TailParts DEF TakeCommand, controller
  <2>2. cpc # "creating"
    BY <2>1 DEF Signalling
  <2> QED  BY <2>1, <2>2 DEF Signalling, Unsignalled
<1>10. ASSUME NEW c \in Command, TakePeerCommand(c) PROVE Signalling'
  <2>1. c.op # "START" /\ c.op # "TERM"
    BY <1>10, CommandParts DEF TakePeerCommand, MishapsOf, Without, Mishaps
  <2> QED  BY <1>10, <2>1 DEF TakePeerCommand, pipe, controller, Signalling, Unsignalled
<1>11. CASE LeaveLoop
  BY <1>11 DEF LeaveLoop, Without
<1> QED
  BY <1>1, <1>2, <1>3, <1>4, <1>5, <1>6, <1>7, <1>8, <1>9, <1>10, <1>11
     DEF ActorStep, ActorInput

(* So does every step. *)
LEMMA SignallingStep ==
    ASSUME TypeOK, Signalling, [Next]_vars
    PROVE  Signalling'
<1> SUFFICES ASSUME Without({"SIGNAL", "INTERRUPT"})' PROVE Signalling'
  BY DEF Signalling
<1>1. Without({"SIGNAL", "INTERRUPT"})
  BY MishapsStay DEF Without
<1>2. CASE Interrupt \/ WaitInterrupted
  BY <1>1, <1>2 DEF Interrupt, WaitInterrupted, Without
<1>3. CASE UNCHANGED vars
  BY <1>3 DEF vars, pipe, controller, actor, Signalling, Unsignalled, Without
<1> QED  BY <1>1, <1>2, <1>3, SignallingClient, SignallingActor DEF Next, Done

-----------------------------------------------------------------------------
(* sphactor_destroy *)

\* The actor executes $TERM, or has.
Closing == apc \in Ending \/ (apc = "execute" /\ current.op = "TERM")

\* While sphactor_destroy waits, $TERM is the last command, or the actor has
\* taken it and nothing is left.
TermOnItsWay ==
    /\ ~Closing /\ commands # <<>>
    /\ commands[Len(commands)].op = "TERM"
    /\ \A i \in 1 .. Len(commands) - 1 : commands[i].op # "TERM"
TermTaken == Closing /\ commands = <<>>
Joining ==
    /\ Len(commands) <= PipeHWM
    /\ Without({"TERM", "INTERRUPT"}) /\ cpc = "destroying" =>
          TermOnItsWay \/ TermTaken

(* A command put into the pipe, within its size. *)
LEMMA PutParts ==
    ASSUME TypeOK, NEW c \in Command, Len(commands) < PipeHWM,
           commands' = Append(commands, c)
    PROVE  /\ Len(commands) \in Nat /\ commands' # <<>> /\ Len(commands') <= PipeHWM
           /\ Len(commands') = Len(commands) + 1 /\ commands'[Len(commands')] = c
           /\ \A i \in 1 .. Len(commands) : commands'[i] = commands[i]
BY DEF TypeOK

(* sphactor_destroy puts $TERM behind all other commands. *)
LEMMA JoiningDestroy ==
    ASSUME TypeOK, Lasting, Joining, Destroy
    PROVE  Joining'
<1>1. CASE Len(commands) < PipeHWM /\ apc # "gone"
  <2>1. commands' = Append(commands, Term) /\ Term \in Command /\ Term.op = "TERM"
    BY <1>1, CommandsSent DEF Destroy, Term
  <2>2. /\ Len(commands) \in Nat /\ commands' # <<>> /\ Len(commands') <= PipeHWM
        /\ Len(commands') = Len(commands) + 1 /\ commands'[Len(commands')] = Term
        /\ \A i \in 1 .. Len(commands) : commands'[i] = commands[i]
    BY <1>1, <2>1, PutParts
  <2>3. ASSUME Without({"TERM", "INTERRUPT"})' PROVE TermOnItsWay'
    <3>1. cpc = "idle" /\ UNCHANGED <<apc, current>> /\ Without({"TERM", "INTERRUPT"})
      BY <2>3 DEF Destroy, actor, Without
    <3>2. ~Closing' /\ \A i \in 1 .. Len(commands) : commands[i].op # "TERM"
      BY <3>1 DEF Lasting, Closing
    <3> QED  BY <2>1, <2>2, <3>2 DEF TermOnItsWay
  <2> QED  BY <2>2, <2>3 DEF Joining
<1>2. CASE ~(Len(commands) < PipeHWM /\ apc # "gone")
  BY <1>2 DEF Destroy, Joining
<1> QED  BY <1>1, <1>2

(* The actor takes $TERM as the last command. *)
LEMMA JoiningTake ==
    ASSUME TypeOK, Joining, TakeCommand
    PROVE  Joining'
<1>1. /\ Len(commands) \in Nat \ {0} /\ Len(commands') = Len(commands) - 1
      /\ \A i \in 1 .. Len(commands') : commands'[i] = commands[i + 1]
      /\ current' = commands[1] /\ apc' = "execute" /\ apc = "poll"
      /\ commands' \in Seq(Command) /\ UNCHANGED <<cpc, mishaps>>
  BY TailParts DEF TakeCommand, controller, TypeOK
<1>2. Len(commands') <= PipeHWM
  BY <1>1 DEF Joining
<1>3. CASE cpc = "destroying" /\ Without({"TERM", "INTERRUPT"})
  <2>1. TermOnItsWay
    BY <1>1, <1>3 DEF Joining, TermTaken, Closing, Ending
  <2>2. CASE Len(commands) = 1
    <3>1. commands' = <<>> /\ current'.op = "TERM"
      BY <1>1, <2>1, <2>2, EmptySeq DEF TermOnItsWay
    <3> QED  BY <1>1, <1>2, <3>1 DEF Joining, TermTaken, Closing
  <2>3. CASE Len(commands) # 1
    <3>1. commands' # <<>> /\ current'.op # "TERM"
      BY <1>1, <2>1, <2>3 DEF TermOnItsWay
    <3>2. /\ commands'[Len(commands')].op = "TERM"
          /\ \A i \in 1 .. Len(commands') - 1 : commands'[i].op # "TERM"
      BY <1>1, <2>1, <2>3 DEF TermOnItsWay
    <3> QED  BY <1>1, <1>2, <3>1, <3>2 DEF Joining, TermOnItsWay, Closing, Ending
  <2> QED  BY <2>2, <2>3
<1>4. CASE ~(cpc = "destroying" /\ Without({"TERM", "INTERRUPT"}))
  BY <1>1, <1>2, <1>4 DEF Joining, Without
<1> QED  BY <1>3, <1>4

(* Every step keeps sphactor_destroy and the actor together. *)
LEMMA JoiningStep ==
    ASSUME TypeOK, Lasting, Joining, [Next]_vars
    PROVE  Joining'
<1>0. Without({"TERM", "INTERRUPT"})' => Without({"TERM", "INTERRUPT"})
  BY MishapsStay DEF Without
<1>1. CASE ControllerStep /\ ~Destroy
  <2>1. cpc' = "sending" /\ UNCHANGED commands
    BY <1>1 DEF ControllerStep, AskAttr, AskConnect, AskDisconnect, TellSet, Tell, Call, pipe
  <2> QED  BY <2>1 DEF Joining
<1>2. CASE Destroy
  BY <1>2, JoiningDestroy
<1>3. CASE Sent
  <2>1. /\ cpc' \in {"asking", "idle"} /\ asked \in Command /\ Len(commands) < PipeHWM
        /\ commands' = Append(commands, asked)
    BY <1>3 DEF Sent, TypeOK
  <2> QED  BY <2>1, PutParts DEF Joining
<1>4. CASE Answered \/ AnswerFails \/ Created \/ Interrupt \/ WaitInterrupted
  <2>1. /\ UNCHANGED commands
        /\ \/ cpc' # "destroying"
           \/ "INTERRUPT" \in mishaps'
    BY <1>4 DEF Answered, AnswerFails, Created, Abort, Interrupt, WaitInterrupted, pipe
  <2> QED  BY <2>1 DEF Joining, Without
<1>5. CASE Destroyed
  BY <1>0, <1>5 DEF Destroyed, actor, Joining, TermOnItsWay, TermTaken, Closing
<1>6. CASE New \/ SendSignal \/ EnterLoop \/ RunEvent \/ TakeTimer \/ SendAnswer
  <2>1. ~Closing /\ ~Closing' /\ UNCHANGED <<commands, cpc>>
    BY <1>6 DEF New, SendSignal, EnterLoop, RunEvent, TakeTimer, SendAnswer, Closing, Ending,
       pipe, controller
  <2> QED  BY <1>0, <2>1 DEF Joining, TermOnItsWay, TermTaken
<1>7. CASE Execute
  <2>1. (Closing /\ Closing') \/ (~Closing /\ ~Closing')
    BY <1>7 DEF Execute, Closing, Ending
  <2> QED  BY <1>0, <1>7, <2>1 DEF Execute, pipe, controller, Joining, TermOnItsWay, TermTaken
<1>8. CASE ExecuteFails
  BY <1>8 DEF ExecuteFails, Abort, pipe, Joining
<1>9. CASE Stop \/ DestroySelf \/ Exit
  <2>1. Closing /\ Closing' /\ UNCHANGED <<commands, cpc>>
    BY <1>9 DEF Stop, DestroySelf, Exit, Closing, Ending, pipe, controller
  <2> QED  BY <1>0, <2>1 DEF Joining, TermOnItsWay, TermTaken
<1>10. CASE TakeCommand
  BY <1>10, JoiningTake
<1>11. ASSUME NEW c \in Command, TakePeerCommand(c) PROVE Joining'
  <2>1. ~Closing /\ ~Closing' /\ UNCHANGED <<commands, cpc>>
    BY <1>11, CommandParts DEF TakePeerCommand, Closing, Ending, pipe, controller
  <2> QED  BY <1>0, <2>1 DEF Joining, TermOnItsWay, TermTaken
<1>12. CASE LeaveLoop
  BY <1>12 DEF LeaveLoop, pipe, Joining, Without
<1>13. CASE UNCHANGED vars
  BY <1>13 DEF vars, pipe, controller, actor, Joining, TermOnItsWay, TermTaken, Closing, Without
<1> QED
  BY <1>1, <1>2, <1>3, <1>4, <1>5, <1>6, <1>7, <1>8, <1>9, <1>10, <1>11, <1>12, <1>13
     DEF Next, ControllerReturn, ActorStep, ActorInput, Done

(* A step that ends sphactor_destroy has seen the actor's thread end, or   *)
(* finds the pipe full, or the client's own $TERM has ended the actor.     *)
LEMMA JoinedThen ==
    ASSUME TypeOK, Signalling, Lasting, Joining, [Next]_vars,
           cpc # "destroyed", cpc' = "destroyed", Without({"SIGNAL", "INTERRUPT"})
    PROVE  \/ apc = "gone" /\ (commands = <<>> \/ "TERM" \in mishaps)
           \/ Len(commands) = PipeHWM
<1>0. "TERM" \in mishaps \/ Without({"TERM", "INTERRUPT"})
  BY DEF Without
<1>1. Destroy \/ Destroyed
  BY DEF Next, ControllerStep, ControllerReturn, ActorStep, ActorInput, Done,
     AskAttr, AskConnect, AskDisconnect, Call, TellSet, Tell, Sent, Answered, AnswerFails,
     Abort, Created, Interrupt, WaitInterrupted, New, SendSignal, EnterLoop, RunEvent, Execute,
     ExecuteFails, SendAnswer, Stop, DestroySelf, Exit, TakeCommand, TakePeerCommand,
     TakeTimer, LeaveLoop, vars, controller, Without
<1>2. CASE Destroy
  <2>1. Len(commands) \in Nat /\ cpc = "idle"
        /\ (~(Len(commands) < PipeHWM) \/ apc = "gone")
    BY <1>2 DEF Destroy, TypeOK
  <2> QED  BY <1>0, <2>1 DEF Joining, Lasting, Ending
<1>3. CASE Destroyed
  <2>1. cpc = "destroying" /\ answers # <<>> /\ Head(answers) = Signal
    BY <1>3 DEF Destroyed
  <2>2. ~Unsignalled
    BY <2>1 DEF Unsignalled, Signal, TypeOK
  <2>3. apc = "gone"
    BY <2>1, <2>2 DEF Signalling
  <2>4. Without({"TERM", "INTERRUPT"}) => commands = <<>>
    BY <2>1, <2>3 DEF Joining, TermOnItsWay, TermTaken, Closing, Ending
  <2> QED  BY <1>0, <2>3, <2>4
<1> QED  BY <1>1, <1>2, <1>3

(* When sphactor_destroy returns, the actor has executed every command the *)
(* client ever sent and its thread has ended, or the pipe was full and the *)
(* actor is abandoned: for a pipe of any size and whatever the handler and *)
(* peers do, until a START or an interrupt is taken for the end.           *)
THEOREM DestroyHasJoined == Spec => DestroyJoins
<1> DEFINE Inv == TypeOK /\ Signalling /\ Lasting /\ Joining
<1>1. Init => Inv
  BY TypeInit
     DEF Init, Signalling, Unsignalled, Lasting, Ending, Joining, NoCommand
<1>2. Inv /\ [Next]_vars => Inv'
  BY TypeStep, SignallingStep, LastingStep, JoiningStep
<1>3. Inv /\ [Next]_vars =>
        [cpc # "destroyed" /\ cpc' = "destroyed" /\ Without({"SIGNAL", "INTERRUPT"}) =>
          \/ apc = "gone" /\ (commands = <<>> \/ "TERM" \in mishaps)
          \/ Len(commands) = PipeHWM]_vars
  BY JoinedThen
<1> QED  BY <1>1, <1>2, <1>3, PTL DEF Spec, DestroyJoins

-----------------------------------------------------------------------------
(* The copies of the type and of the endpoint *)

\* An attribute will be w once the actor has executed what is on its way:
\* the last command that sets it says so, or else the actor has it.
LastSays(a, w) ==
    \E i \in 1 .. Len(commands) :
        /\ Setting(commands[i], a) /\ commands[i].value = w
        /\ \A j \in 1 .. Len(commands) : Setting(commands[j], a) => j <= i
NoneSays(a) == \A i \in 1 .. Len(commands) : ~Setting(commands[i], a)
ActorWill(a, w) ==
    \/ LastSays(a, w)
    \/ /\ NoneSays(a)
       /\ IF apc = "execute" /\ Setting(current, a) THEN current.value = w
                                                     ELSE Shown(attr[a]) = w

\* Or it will be w because the client is about to say so.
WillBe(a, w) ==
    IF cpc = "sending" /\ Setting(asked, a) THEN asked.value = w ELSE ActorWill(a, w)

Copied == {"TYPE", "ENDPOINT"}

Faithful ==
    /\ cpc = "creating" => \A a \in Attrs : copy[a] = NULL
    /\ cpc \in {"idle", "sending", "asking"} =>
          \A a \in Copied : copy[a] # NULL => WillBe(a, copy[a])
    \* While the actor works on an ask, or has answered it, nothing is behind it.
    /\ cpc = "asking" /\ (Working \/ answers # <<>>) =>
          commands = <<>> /\ ~(apc = "execute" /\ current.op = "SET")
    /\ cpc = "asking" /\ answers # <<>> /\ asked.op = "GET" =>
          answers[1].value = Shown(attr[asked.of])

\* That is so until the answers are shifted or a peer sets the actor.
Trusted == Quiet /\ Without({"SET"}) => Faithful

(* Then that is what the attribute is going to be. *)
LEMMA WillBeEventual ==
    ASSUME TypeOK, NEW a \in Attrs, NEW w, WillBe(a, w)
    PROVE  w = Shown(Eventual(a))
<1>1. \A v \in Values : Shown(v) = v
  BY DEF Shown
<1>2. CASE cpc = "sending" /\ Setting(asked, a)
  <2>1. asked \in Command /\ asked.op = "SET" /\ asked.value = w
    BY <1>2 DEF Setting, TypeOK, WillBe
  <2> QED  BY <1>1, <1>2, <2>1, CommandParts DEF Eventual
<1>3. ASSUME ~(cpc = "sending" /\ Setting(asked, a)), LastSays(a, w)
      PROVE  w = Shown(Eventual(a))
  <2>1. PICK i \in 1 .. Len(commands) :
            /\ Setting(commands[i], a) /\ commands[i].value = w
            /\ \A j \in 1 .. Len(commands) : Setting(commands[j], a) => j <= i
    BY <1>3 DEF LastSays
  <2>2. i \in Settings(a) /\ \A j \in Settings(a) : j <= i
    BY <2>1 DEF Settings
  <2>3. Latest(Settings(a)) \in Settings(a) /\ \A j \in Settings(a) : j <= Latest(Settings(a))
    BY <2>2 DEF Latest
  <2>4. \A j \in Settings(a) : j \in Nat
    BY DEF Settings
  <2>5. Latest(Settings(a)) = i
    <3> DEFINE k == Latest(Settings(a))
    <3>1. k \in Nat /\ i \in Nat /\ k <= i /\ i <= k
      BY <2>2, <2>3, <2>4
    <3> HIDE DEF k
    <3>2. k = i
      BY <3>1
    <3> QED  BY <3>2 DEF k
  <2>6. commands[i] \in Command /\ commands[i].op = "SET"
    BY <2>1 DEF Setting, TypeOK
  <2>7. w \in Values
    BY <2>1, <2>6, CommandParts
  <2> QED  BY <1>1, <1>3, <2>1, <2>2, <2>5, <2>7 DEF Eventual
<1>4. ASSUME ~(cpc = "sending" /\ Setting(asked, a)), ~LastSays(a, w)
      PROVE  w = Shown(Eventual(a))
  <2>1. Settings(a) = {} /\ NoneSays(a)
    BY <1>4 DEF WillBe, ActorWill, NoneSays, Settings
  <2>2. CASE apc = "execute" /\ Setting(current, a)
    <3>1. current.value = w /\ Eventual(a) = current.value
      BY <1>4, <2>1, <2>2 DEF WillBe, ActorWill, Eventual
    <3>2. current \in Command /\ current.op = "SET"
      BY <2>2 DEF TypeOK, Setting
    <3> QED  BY <1>1, <3>1, <3>2, CommandParts
  <2>3. CASE ~(apc = "execute" /\ Setting(current, a))
    BY <1>4, <2>1, <2>3 DEF WillBe, ActorWill, Eventual
  <2> QED  BY <2>2, <2>3
<1> QED  BY <1>2, <1>3, <1>4

(* A command put into the pipe that does not set the attribute. *)
LEMMA ActorWillPut ==
    ASSUME TypeOK, NEW a \in Attrs, NEW w, ActorWill(a, w), NEW c \in Command,
           commands' = Append(commands, c), ~Setting(c, a), UNCHANGED actor
    PROVE  ActorWill(a, w)'
<1>1. /\ Len(commands) \in Nat /\ Len(commands') = Len(commands) + 1
      /\ commands'[Len(commands')] = c
      /\ \A i \in 1 .. Len(commands) : commands'[i] = commands[i]
  BY DEF TypeOK
<1>2. \A i \in 1 .. Len(commands') : i \in 1 .. Len(commands) \/ commands'[i] = c
  BY <1>1
<1>3. \A i \in 1 .. Len(commands) : i \in 1 .. Len(commands')
  BY <1>1
<1>4. LastSays(a, w) => LastSays(a, w)'
  BY <1>1, <1>2, <1>3 DEF LastSays, Setting
<1>5. NoneSays(a) => NoneSays(a)'
  BY <1>1, <1>2 DEF NoneSays, Setting
<1> QED  BY <1>4, <1>5 DEF ActorWill, Setting, actor

(* One that does says what it will be. *)
LEMMA ActorWillSet ==
    ASSUME TypeOK, NEW a \in Settable, NEW v \in Values,
           commands' = Append(commands, Set(a, v))
    PROVE  ActorWill(a, v)'
<1>1. /\ Len(commands) \in Nat /\ Len(commands') = Len(commands) + 1
      /\ commands'[Len(commands')] = Set(a, v)
  BY CommandsSent DEF TypeOK
<1>2. Setting(Set(a, v), a) /\ Set(a, v).value = v
  BY DEF Setting, Set
<1>3. Len(commands') \in 1 .. Len(commands')
  BY <1>1
<1>4. LastSays(a, v)'
  BY <1>1, <1>2, <1>3 DEF LastSays, Setting
<1> QED  BY <1>4 DEF ActorWill

(* What the actor takes from the pipe will be executed all the same. *)
LEMMA ActorWillTaken ==
    ASSUME TypeOK, NEW a \in Attrs, NEW w, ActorWill(a, w), TakeCommand
    PROVE  ActorWill(a, w)'
<1>1. /\ Len(commands) \in Nat \ {0} /\ Len(commands') = Len(commands) - 1
      /\ \A i \in 1 .. Len(commands') : commands'[i] = commands[i + 1]
      /\ current' = commands[1] /\ apc' = "execute" /\ apc = "poll" /\ attr' = attr
  BY TailParts DEF TakeCommand
<1>2. \A i \in 1 .. Len(commands') : i + 1 \in 1 .. Len(commands)
  BY <1>1
<1>3. 1 \in 1 .. Len(commands)
  BY <1>1
<1>4. CASE NoneSays(a)
  <2>1. NoneSays(a)'
    BY <1>1, <1>2, <1>4 DEF NoneSays, Setting
  <2>2. ~Setting(current', a)
    BY <1>1, <1>3, <1>4 DEF NoneSays
  <2>3. Shown(attr[a]) = w
    BY <1>1, <1>3, <1>4 DEF ActorWill, LastSays, NoneSays
  <2>4. Shown(attr'[a]) = w
    BY <1>1, <2>3
  <2> QED  BY <2>1, <2>2, <2>4 DEF ActorWill, Setting
<1>5. CASE ~NoneSays(a)
  <2>1. PICK i \in 1 .. Len(commands) :
            /\ Setting(commands[i], a) /\ commands[i].value = w
            /\ \A j \in 1 .. Len(commands) : Setting(commands[j], a) => j <= i
    BY <1>5 DEF ActorWill, LastSays
  <2>2. CASE i = 1
    <3>1. \A j \in 1 .. Len(commands') : ~Setting(commands'[j], a)
      BY <1>1, <1>2, <2>1, <2>2
    <3>2. NoneSays(a)'
      BY <3>1 DEF NoneSays, Setting
    <3> QED  BY <1>1, <2>1, <2>2, <3>2 DEF ActorWill, Setting
  <2>3. CASE i # 1
    <3>1. i - 1 \in 1 .. Len(commands') /\ commands'[i - 1] = commands[i]
      BY <1>1, <2>3
    <3>2. \A j \in 1 .. Len(commands') : Setting(commands'[j], a) => j <= i - 1
      BY <1>1, <1>2, <2>1
    <3>3. LastSays(a, w)'
      BY <2>1, <3>1, <3>2 DEF LastSays, Setting
    <3> QED  BY <3>3 DEF ActorWill
  <2> QED  BY <2>2, <2>3
<1> QED  BY <1>4, <1>5

(* Executing a command makes the attribute what it said. *)
LEMMA ActorWillExecuted ==
    ASSUME TypeOK, NEW a \in Attrs, NEW w, ActorWill(a, w), Execute
    PROVE  ActorWill(a, w)'
<1>1. UNCHANGED commands /\ apc = "execute" /\ apc' # "execute"
  BY DEF Execute, pipe
<1>2. (LastSays(a, w) => LastSays(a, w)') /\ (NoneSays(a) => NoneSays(a)')
  BY <1>1 DEF LastSays, NoneSays
<1>3. CASE Setting(current, a)
  <2>1. current \in Command /\ current.op = "SET" /\ current.of = a
    BY <1>1, <1>3 DEF Setting, TypeOK
  <2>2. attr'[a] = current.value /\ Shown(current.value) = current.value
    BY <2>1, CommandParts DEF Execute, TypeOK, Shown
  <2>3. NoneSays(a) /\ ~LastSays(a, w) => Shown(attr'[a]) = w
    BY <1>1, <1>3, <2>2 DEF ActorWill
  <2> QED  BY <1>1, <1>2, <2>3 DEF ActorWill
<1>4. CASE ~Setting(current, a)
  <2>1. attr'[a] = attr[a]
    BY <1>4 DEF Execute, TypeOK, Setting
  <2> QED  BY <1>1, <1>2, <1>4, <2>1 DEF ActorWill
<1> QED  BY <1>3, <1>4

(* A step that sends nothing and sets nothing leaves alone what will be. *)
LEMMA ActorWillKept ==
    ASSUME NEW a \in Attrs, NEW w, ActorWill(a, w), UNCHANGED <<commands, attr>>,
           ~(apc = "execute" /\ Setting(current, a)),
           ~(apc' = "execute" /\ Setting(current', a))
    PROVE  ActorWill(a, w)'
BY DEF ActorWill, LastSays, NoneSays, Setting

(* A copy that is as before, of an attribute that will be as before, and   *)
(* that nobody is about to set.                                            *)
LEMMA CopiesKept ==
    ASSUME Faithful, cpc \in {"idle", "sending", "asking"}, TypeOK,
           \A a \in Copied : copy'[a] = copy[a],
           \A a \in Copied, w \in Copy : WillBe(a, w) => WillBe(a, w)'
    PROVE  \A a \in Copied : copy'[a] # NULL => WillBe(a, copy[a])'
<1> SUFFICES ASSUME NEW a \in Copied, copy'[a] # NULL PROVE WillBe(a, copy[a])'
  OBVIOUS
<1>1. PICK w \in Copy : w = copy[a]
  BY DEF TypeOK, Copied, Attrs
<1>2. WillBe(a, w)' /\ copy'[a] = w
  BY <1>1 DEF Faithful
<1> QED  BY <1>2 DEF WillBe, ActorWill, LastSays

(* The calls of a client keep the copies faithful. *)
LEMMA FaithfulCall ==
    ASSUME TypeOK, Conversing, Faithful, ControllerStep
    PROVE  Faithful'
<1>0. Copied \subseteq Attrs
  BY DEF Copied, Attrs
<1>1. ASSUME NEW c \in Command, Call(c)
      PROVE  /\ cpc = "idle" /\ cpc' = "sending" /\ asked' = c
             /\ UNCHANGED <<commands, apc, current, attr>>
             /\ \A a \in Copied, w \in Copy :
                   ~Setting(c, a) /\ WillBe(a, w) => WillBe(a, w)'
  BY <1>1 DEF Call, pipe, actor, WillBe, ActorWill, LastSays, NoneSays, Setting
<1>2. ASSUME NEW c \in Command, c.op # "SET", Call(c), UNCHANGED copy PROVE Faithful'
  <2>1. \A a \in Copied, w \in Copy : WillBe(a, w) => WillBe(a, w)'
    BY <1>1, <1>2 DEF Setting
  <2>2. \A a \in Copied : copy'[a] # NULL => WillBe(a, copy[a])'
    BY <1>1, <1>2, <2>1, CopiesKept
  <2> QED  BY <1>1, <1>2, <2>2 DEF Faithful
<1>3. ASSUME NEW a \in Attrs, AskAttr(a) PROVE Faithful'
  BY <1>2, <1>3, CommandsSent DEF AskAttr, Get
<1>4. ASSUME NEW e \in Endpoints, AskConnect(e) \/ AskDisconnect(e) PROVE Faithful'
  BY <1>2, <1>4, CommandsSent DEF AskConnect, AskDisconnect, Connect, Disconnect
<1>5. ASSUME NEW o \in Tells, Tell([op |-> o]) PROVE Faithful'
  <2>1. [op |-> o] \in Command /\ [op |-> o].op # "SET"
    BY CommandsSent
  <2> QED  BY <1>2, <1>5, <2>1 DEF Tell
<1>6. ASSUME NEW b \in Settable, NEW v \in Values, TellSet(b, v) PROVE Faithful'
  <2>1. Set(b, v) \in Command /\ Call(Set(b, v))
    BY <1>6, CommandsSent DEF TellSet
  <2>2. ASSUME NEW a \in Copied, copy'[a] # NULL PROVE WillBe(a, copy[a])'
    <3>1. CASE a = b
      <4>1. a = "TYPE" /\ copy'[a] = v
        BY <1>0, <1>6, <3>1 DEF TellSet, TypeOK, Copied, Settable
      <4>2. cpc' = "sending" /\ Setting(asked', a) /\ asked'.value = v
        BY <1>1, <2>1, <3>1 DEF Setting, Set
      <4> QED  BY <4>1, <4>2 DEF WillBe, Setting
    <3>2. CASE a # b
      <4>1. ~Setting(Set(b, v), a)
        BY <3>2 DEF Setting, Set
      <4>2. copy'[a] = copy[a]
        BY <1>0, <1>6, <3>2 DEF TellSet, TypeOK
      <4>3. PICK w \in Copy : w = copy[a]
        BY <1>0 DEF TypeOK
      <4>4. WillBe(a, w)
        BY <1>1, <2>1, <2>2, <4>2, <4>3 DEF Faithful
      <4>5. WillBe(a, w)' /\ copy'[a] = w
        BY <1>1, <2>1, <4>1, <4>2, <4>3, <4>4
      <4> QED  BY <4>5 DEF WillBe, ActorWill, LastSays
    <3> QED  BY <3>1, <3>2
  <2> QED  BY <1>1, <2>1, <2>2 DEF Faithful
<1>7. CASE Destroy
  BY <1>7 DEF Destroy, Faithful
<1> QED  BY <1>3, <1>4, <1>5, <1>6, <1>7 DEF ControllerStep

(* What was about to be said is in the pipe. *)
LEMMA FaithfulSent ==
    ASSUME TypeOK, Conversing, Faithful, Sent
    PROVE  Faithful'
<1>1. /\ cpc = "sending" /\ cpc' \in {"idle", "asking"} /\ asked \in Command
      /\ commands' = Append(commands, asked) /\ UNCHANGED <<answers, copy, actor>>
      /\ answers = <<>> /\ ~Working
  BY DEF Sent, TypeOK, Conversing
<1>2. ASSUME NEW a \in Copied, NEW w \in Copy, WillBe(a, w) PROVE WillBe(a, w)'
  <2>0. a \in Attrs
    BY DEF Copied, Attrs
  <2>1. CASE Setting(asked, a)
    <3>1. asked.op = "SET" /\ asked.of = a /\ asked.value = w
      BY <1>1, <1>2, <2>1 DEF WillBe, Setting
    <3>2. a \in Settable /\ w \in Values /\ asked = Set(a, w)
      <4>1. asked \in [op : {"SET"}, of : Settable, value : Values]
        BY <1>1, <3>1 DEF Command
      <4> QED  BY <3>1, <4>1 DEF Set
    <3>3. ActorWill(a, w)'
      BY <1>1, <3>2, ActorWillSet
    <3> QED  BY <1>1, <3>3 DEF WillBe
  <2>2. CASE ~Setting(asked, a)
    <3>1. ActorWill(a, w)
      BY <1>2, <2>2 DEF WillBe
    <3>2. ActorWill(a, w)'
      BY <1>1, <2>0, <2>2, <3>1, ActorWillPut
    <3> QED  BY <1>1, <3>2 DEF WillBe
  <2> QED  BY <2>1, <2>2
<1>3. \A a \in Copied : copy'[a] # NULL => WillBe(a, copy[a])'
  BY <1>1, <1>2, CopiesKept
<1>4. answers' = <<>> /\ ~Working'
  BY <1>1 DEF Working, actor
<1> QED  BY <1>1, <1>3, <1>4 DEF Faithful

(* The answer to an ask is what the attribute is, with nothing behind it   *)
(* that would change it.                                                   *)
LEMMA FaithfulAnswered ==
    ASSUME TypeOK, Conversing, Faithful, Answered
    PROVE  Faithful'
<1>0. /\ Copied \subseteq Attrs /\ cpc = "asking" /\ cpc' = "idle"
      /\ UNCHANGED <<commands, actor>> /\ answers # <<>> /\ answers \in Seq(Message)
  BY DEF Copied, Attrs, Answered, TypeOK
<1>1. commands = <<>> /\ ~(apc = "execute" /\ current.op = "SET")
  BY <1>0 DEF Faithful
<1>2. \A a \in Copied, w \in Copy : WillBe(a, w) => WillBe(a, w)'
  BY <1>0 DEF WillBe, ActorWill, LastSays, NoneSays, Setting, actor
<1>3. ASSUME NEW a \in Copied, copy'[a] # NULL PROVE WillBe(a, copy[a])'
  <2>1. CASE asked.op = "GET" /\ asked.of = a
    <3>1. answers[1].value = Shown(attr[a]) /\ Head(answers) = answers[1]
      BY <1>0, <2>1 DEF Faithful
    <3>2. copy'[a] = Shown(attr'[a])
      BY <1>0, <2>1, <3>1 DEF Answered, TypeOK, actor
    <3>3. NoneSays(a)'
      BY <1>0, <1>1 DEF NoneSays
    <3>4. ~(apc' = "execute" /\ Setting(current', a))
      BY <1>0, <1>1 DEF Setting, actor
    <3> QED  BY <1>0, <3>2, <3>3, <3>4 DEF WillBe, ActorWill, Setting
  <2>2. CASE ~(asked.op = "GET" /\ asked.of = a)
    <3>1. copy'[a] = copy[a]
      BY <1>0, <2>2 DEF Answered, TypeOK
    <3>2. PICK w \in Copy : w = copy[a]
      BY <1>0 DEF TypeOK
    <3>3. WillBe(a, w)' /\ copy'[a] = w
      BY <1>0, <1>2, <1>3, <3>1, <3>2 DEF Faithful
    <3> QED  BY <3>3 DEF WillBe, ActorWill, LastSays
  <2> QED  BY <2>1, <2>2
<1> QED  BY <1>0, <1>3 DEF Faithful

(* The actor's steps leave the copies what they will be. *)
LEMMA FaithfulActor ==
    ASSUME TypeOK, Conversing, Lasting, Faithful, Quiet, Quiet', Without({"SET"})',
           ActorStep \/ ActorInput
    PROVE  Faithful'
<1>0. Copied \subseteq Attrs
  BY DEF Copied, Attrs
<1>1. ASSUME UNCHANGED <<cpc, asked, copy>>,
             \A a \in Copied, w \in Copy : ActorWill(a, w) => ActorWill(a, w)',
             cpc = "asking" /\ (Working' \/ answers' # <<>>) =>
                commands' = <<>> /\ ~(apc' = "execute" /\ current'.op = "SET"),
             cpc = "asking" /\ answers' # <<>> /\ asked.op = "GET" =>
                answers'[1].value = Shown(attr'[asked.of])
      PROVE  Faithful'
  <2>1. \A a \in Copied, w \in Copy : WillBe(a, w) => WillBe(a, w)'
    BY <1>1 DEF WillBe, Setting
  <2>2. cpc \in {"idle", "sending", "asking"} =>
          \A a \in Copied : copy'[a] # NULL => WillBe(a, copy[a])'
    BY <1>1, <2>1, CopiesKept
  <2> QED  BY <1>1, <2>2 DEF Faithful
<1>2. ASSUME cpc \notin {"idle", "sending", "asking"}, UNCHANGED <<cpc, copy>>
      PROVE  Faithful'
  BY <1>2 DEF Faithful
<1>3. CASE New \/ SendSignal
  <2>1. cpc = "creating" /\ UNCHANGED <<cpc, copy>>
    BY <1>3 DEF New, SendSignal, Conversing, controller
  <2> QED  BY <1>2, <2>1
<1>4. CASE Stop \/ DestroySelf \/ Exit
  <2>1. apc \in Ending /\ UNCHANGED <<cpc, copy>> /\ Without({"TERM", "INTERRUPT"})
    BY <1>4 DEF Stop, DestroySelf, Exit, controller, Ending, Quiet, Without
  <2>2. cpc \in {"destroying", "destroyed"}
    BY <2>1 DEF Lasting, Ending
  <2> QED  BY <1>2, <2>1, <2>2
<1>5. CASE EnterLoop \/ RunEvent \/ TakeTimer
  <2>1. /\ UNCHANGED <<commands, answers, attr, cpc, asked, copy>>
        /\ apc # "execute" /\ apc' # "execute" /\ ~Working /\ ~Working'
    BY <1>5 DEF EnterLoop, RunEvent, TakeTimer, pipe, controller, Working
  <2>2. \A a \in Copied, w \in Copy : ActorWill(a, w) => ActorWill(a, w)'
    BY <1>0, <2>1, ActorWillKept
  <2> QED  BY <1>1, <2>1, <2>2 DEF Faithful
<1>6. CASE Execute
  <2>1. /\ UNCHANGED <<commands, answers, cpc, asked, copy>>
        /\ apc = "execute" /\ current.op # "START"
        /\ apc' \in {"stop", "answer", "poll"}
        /\ apc' = "answer" => fromPipe /\ current.op \in Answering
    BY <1>6 DEF Execute, pipe, controller, Conversing
  <2>2. Working' => Working
    BY <2>1, Speakers DEF Working
  <2>3. \A a \in Copied, w \in Copy : ActorWill(a, w) => ActorWill(a, w)'
    BY <1>0, <1>6, ActorWillExecuted
  <2>4. cpc = "asking" /\ answers # <<>> => attr' = attr
    BY <1>6, <2>1 DEF Execute, Faithful
  <2> QED  BY <1>1, <2>1, <2>2, <2>3, <2>4 DEF Faithful
<1>7. CASE ExecuteFails
  BY <1>7 DEF ExecuteFails, Abort, Faithful
<1>8. CASE SendAnswer
  <2>1. Working /\ apc = "answer" /\ apc' = "poll"
        /\ UNCHANGED <<commands, attr, cpc, asked, copy>>
    BY <1>8 DEF SendAnswer, controller, Working
  <2>2. cpc = "asking" /\ current = asked /\ answers = <<>> /\ commands = <<>>
    BY <2>1 DEF Conversing, AskOnItsWay, AskWorkedOn, AskAnswered, Faithful
  <2>3. \A a \in Copied, w \in Copy : ActorWill(a, w) => ActorWill(a, w)'
    BY <1>0, <2>1, ActorWillKept
  <2>4. asked.op = "GET" => answers'[1].value = Shown(attr[asked.of])
    <3>1. ASSUME asked.op = "GET", NEW v, v = Shown(attr[asked.of])
          PROVE  answers'[1].value = v
      <4>1. answers' = Append(answers, Answer(current, v))
        BY <1>8, <2>1, <2>2, <3>1 DEF SendAnswer, Say
      <4> QED  BY <2>2, <4>1 DEF Answer
    <3> QED  BY <3>1
  <2> QED  BY <1>1, <2>1, <2>2, <2>3, <2>4
<1>9. CASE TakeCommand
  <2>1. /\ Len(commands) \in Nat \ {0} /\ Len(commands') = Len(commands) - 1
        /\ current' = commands[1] /\ apc' = "execute" /\ apc = "poll"
        /\ commands' \in Seq(Command) /\ commands # <<>>
        /\ UNCHANGED <<answers, attr, cpc, asked, copy>>
    BY <1>9, TailParts DEF TakeCommand, controller, TypeOK
  <2>2. \A a \in Copied, w \in Copy : ActorWill(a, w) => ActorWill(a, w)'
    BY <1>0, <1>9, ActorWillTaken
  <2>3. cpc = "asking" => answers = <<>>
    BY <2>1 DEF Faithful
  <2>4. ASSUME cpc = "asking", Working'
        PROVE  commands' = <<>> /\ current'.op # "SET"
    <3>1. current'.op \in Speaking /\ current'.op # "SET"
      BY <2>1, <2>4, Speakers DEF Working
    <3>2. AskOnItsWay
      BY <2>1, <2>3, <2>4 DEF Conversing, AskWorkedOn, AskAnswered, Working
    <3>3. Len(commands) = 1
      BY <2>1, <3>1, <3>2 DEF AskOnItsWay
    <3> QED  BY <2>1, <3>1, <3>3, EmptySeq
  <2> QED  BY <1>1, <2>1, <2>2, <2>3, <2>4
<1>10. ASSUME NEW c \in Command, TakePeerCommand(c)
      PROVE  Faithful'
  <2>1. c.op # "SET"
    BY <1>10 DEF TakePeerCommand, MishapsOf, Without, Mishaps
  <2>2. /\ UNCHANGED <<commands, answers, attr, cpc, asked, copy>>
        /\ apc = "poll" /\ current'.op # "SET" /\ ~Working'
    BY <1>10, <2>1 DEF TakePeerCommand, pipe, controller, Working
  <2>3. \A a \in Copied, w \in Copy : ActorWill(a, w) => ActorWill(a, w)'
    BY <1>0, <2>2, ActorWillKept DEF Setting
  <2> QED  BY <1>1, <2>2, <2>3 DEF Faithful
<1>11. CASE LeaveLoop
  BY <1>11 DEF LeaveLoop, Quiet, Without
<1> QED
  BY <1>3, <1>4, <1>5, <1>6, <1>7, <1>8, <1>9, <1>10, <1>11 DEF ActorStep, ActorInput

(* Every step keeps the copies faithful, as long as they can be trusted. *)
LEMMA TrustedStep ==
    ASSUME TypeOK, Conversation, Lasting, Trusted, [Next]_vars
    PROVE  Trusted'
<1> SUFFICES ASSUME Quiet', Without({"SET"})', Quiet, Conversing, Faithful
             PROVE  Faithful'
  BY MishapsStay DEF Trusted, Conversation, Without, Mishaps
<1>1. CASE Created \/ Destroyed \/ AnswerFails
  BY <1>1 DEF Created, Destroyed, AnswerFails, Abort, Faithful, Copied, Attrs
<1>2. CASE Interrupt \/ WaitInterrupted
  BY <1>2 DEF Interrupt, WaitInterrupted, Quiet, Without
<1>3. CASE UNCHANGED vars
  BY <1>3 DEF vars, pipe, controller, actor, Faithful, WillBe, ActorWill, LastSays, NoneSays,
     Setting, Working
<1> QED
  BY <1>1, <1>2, <1>3, FaithfulCall, FaithfulSent, FaithfulAnswered, FaithfulActor
     DEF Next, ControllerReturn, Done

(* The copies of the type and of the endpoint never go stale, however the  *)
(* client mixes asks with calls that only send and whatever is on its way  *)
(* to the actor, until a peer sets it or the answers are shifted.          *)
THEOREM CopiesAreCoherent == Spec => []CopiesCoherent
<1> DEFINE Inv == TypeOK /\ Conversation /\ Lasting /\ Trusted
<1>1. Init => Inv
  BY InvInit DEF Init, IInv, Trusted, Faithful
<1>2. Inv /\ [Next]_vars => Inv'
  BY TypeStep, ConversationStep, LastingStep, TrustedStep
<1>3. Inv => CopiesCoherent
  <2> SUFFICES ASSUME TypeOK, Faithful, NEW a \in Copied,
                      cpc \in {"idle", "sending", "asking"}, copy[a] # NULL
               PROVE  copy[a] = Shown(Eventual(a))
    BY DEF CopiesCoherent, Coherent, Copied, Trusted
  <2>1. a \in Attrs /\ WillBe(a, copy[a])
    BY DEF Copied, Attrs, Faithful
  <2> QED  BY <2>1, WillBeEventual
<1> QED  BY <1>1, <1>2, <1>3, PTL DEF Spec

=============================================================================
