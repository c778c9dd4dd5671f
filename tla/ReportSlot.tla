----------------------------- MODULE ReportSlot -----------------------------
(***************************************************************************)
(* The lock-free hand-over of status reports between an actor's thread and *)
(* the thread that controls it.                                            *)
(*                                                                         *)
(* The two threads share sphactor_actor_t.atomic_report, a pointer that is *)
(* only ever exchanged.  The actor (sphactor_actor.c) allocates a report,  *)
(* exchanges it for the previous one and frees that one if nobody took it. *)
(* The controller (sphactor_report of sphactor.c) exchanges NULL for the   *)
(* current report and keeps it as latest_report, freeing the older one.    *)
(* There is one action per step the other thread can observe: an atomic    *)
(* exchange, a read of the plain field `reporting', an allocation, a free, *)
(* a command sent through the pipe.                                        *)
(*                                                                         *)
(* Abstracted: what a command does besides the reports (Sphactor),         *)
(* when timers fire (ActorTimer), receive and send times and the custom    *)
(* OSC payload of a report.                                                *)
(***************************************************************************)
EXTENDS Naturals, Sequences, FiniteSets

CONSTANTS
    Addr,            \* heap blocks a report can be allocated in
    NULL,            \* the null pointer
    Traffic,         \* events besides the pipe's that reach the poller
    Commands,        \* commands the client sends besides INSTANCE and $TERM
    PeerCommands,    \* API messages other actors publish, besides $TERM
    HandlerReads,    \* may handlers take the actor's own report?
    Interruptible,   \* may a signal (Ctrl-C) end the actor's loop?
    MaxIterations,   \* bound: no new traffic or commands after this many
    PipeCap          \* bound: commands in the pipe

Events == {"SOCK", "TIME", "FDSOCK"}
Toggles == {"REPORTING TRUE", "REPORTING FALSE"}
ClientCommands == Toggles \cup {"STOP", "OTHER"}
AllCommands == ClientCommands \cup {"INSTANCE", "$TERM"}

Status == Events \cup {"INIT", "IDLE", "API", "STOP", "DESTROY"}
Report == [status : Status, iterations : Nat]

ASSUME HeapAssumption == NULL \notin Addr /\ NULL \notin Report
ASSUME InputAssumption ==
    /\ Traffic \subseteq Events
    /\ Commands \subseteq ClientCommands
    /\ PeerCommands \subseteq ClientCommands
    /\ HandlerReads \in BOOLEAN
    /\ Interruptible \in BOOLEAN
ASSUME BoundAssumption == MaxIterations \in Nat /\ PipeCap \in Nat \ {0}

VARIABLES
    \* the heap
    mem,         \* contents of each block
    live,        \* blocks allocated and not freed
    \* the actor's structure, shared with the controller
    interrupted, \* zsys_interrupted, as the actor's thread has seen it
    slot,        \* atomic_report
    reporting,   \* reporting
    \* private to the actor's thread
    apc,         \* where the thread is
    task,        \* what it runs once the report about it is published
    looping,     \* still in the loop of sphactor_actor_run
    iterations,  \* iterations
    fresh,       \* the report just constructed
    prev,        \* the report an exchange returned
    \* the pipe
    pipe,        \* commands on their way to the actor
    reply,       \* the answer to INSTANCE is on its way back
    \* private to the controller's thread
    cpc,         \* where the thread is
    known,       \* _sph_act # NULL
    taken,       \* the report an exchange returned
    latest       \* latest_report

heap == <<mem, live>>
shared == <<interrupted, slot, reporting>>
actor == <<apc, task, looping, iterations, fresh, prev>>
link == <<pipe, reply>>
controller == <<cpc, known, taken, latest>>
vars == <<heap, shared, actor, link, controller>>

Task == Events \cup AllCommands \cup {"INIT", "IDLE", "HALT", "DESTROY"}
Pointer == Addr \cup {NULL}

(* The status a report about a task carries.  HALT is sphactor_actor_stop, *)
(* called for the STOP command and when the loop has ended.                *)
StatusOf(t) ==
    IF t \in AllCommands THEN "API" ELSE IF t = "HALT" THEN "STOP" ELSE t

(* The events that are delivered to the handler, with its actor, while the *)
(* report about them is out: a command the loop does not know is one.      *)
HandlerTasks == Events \cup {"INIT", "HALT", "DESTROY", "OTHER"}

TypeOK ==
    /\ mem \in [Addr -> Report]
    /\ live \subseteq Addr
    /\ interrupted \in BOOLEAN
    /\ slot \in Pointer
    /\ reporting \in BOOLEAN
    /\ apc \in {"run", "top", "exchange", "release", "reclaim", "discard",
                "free", "gone"}
    /\ task \in Task
    /\ looping \in BOOLEAN
    /\ iterations \in Nat
    /\ fresh \in Pointer
    /\ prev \in Pointer
    /\ pipe \in Seq(AllCommands)
    /\ reply \in BOOLEAN
    /\ cpc \in {"idle", "instance", "check", "exchange", "install", "join",
                "dead", "lost"}
    /\ known \in BOOLEAN
    /\ taken \in Pointer
    /\ latest \in Pointer

(* sphactor_actor_new has stored the INIT report and sphactor_actor_start  *)
(* has signalled the controller, which may now proceed; the INIT handler   *)
(* is about to run.                                                        *)
Init ==
    /\ mem = [a \in Addr |-> [status |-> "INIT", iterations |-> 0]]
    /\ \E a \in Addr : slot = a /\ live = {a}
    /\ interrupted = FALSE
    /\ reporting = TRUE
    /\ apc = "run" /\ task = "INIT" /\ looping = TRUE /\ iterations = 0
    /\ fresh = NULL /\ prev = NULL
    /\ pipe = <<>> /\ reply = FALSE
    /\ cpc = "idle" /\ known = FALSE /\ taken = NULL /\ latest = NULL

-----------------------------------------------------------------------------
(* Publishing a report, in the actor's thread. *)

(* Mutant: the report already counts the iteration that is under way. *)
AnnounceEarly(t) ==
    /\ task' = t
    /\ \E a \in Addr \ live :
          /\ fresh' = a
          /\ live' = live \cup {a}
          /\ mem' = [mem EXCEPT ![a] =
                [status |-> StatusOf(t), iterations |-> iterations + 1]]
    /\ apc' = "exchange"

(* sphactor_report_construct in a block of the allocator's choice, before  *)
(* the exchange.  Without `reporting' the actor goes straight to the task, *)
(* except for SOCK: there the missing braces leave only recv_time under    *)
(* the condition.                                                          *)
Announce(t) ==
    /\ task' = t
    /\ IF reporting \/ t = "SOCK"
       THEN /\ \E a \in Addr \ live :
                  /\ fresh' = a
                  /\ live' = live \cup {a}
                  /\ mem' = [mem EXCEPT ![a] =
                        [status |-> StatusOf(t), iterations |-> iterations]]
            /\ apc' = "exchange"
       ELSE /\ apc' = "run"
            /\ UNCHANGED <<heap, fresh>>

(* The exchange of sphactor_actor_atomic_set_report. *)
SetReport ==
    /\ apc = "exchange"
    /\ slot' = fresh
    /\ prev' = slot
    /\ fresh' = NULL
    /\ apc' = IF slot = NULL THEN "run" ELSE "release"
    /\ UNCHANGED <<heap, interrupted, reporting, task, looping, iterations, link,
                   controller>>

(* Mutant: the report nobody read is forgotten instead of freed. *)
ReleaseNothing ==
    /\ apc = "release"
    /\ prev' = NULL
    /\ apc' = "run"
    /\ UNCHANGED <<heap, shared, task, looping, iterations, fresh, link,
                   controller>>

(* Whoever got a report out of the slot in the actor's thread frees it. *)
Release ==
    /\ apc = "release"
    /\ live' = live \ {prev}
    /\ prev' = NULL
    /\ apc' = "run"
    /\ UNCHANGED <<mem, shared, task, looping, iterations, fresh, link,
                   controller>>

(* A handler calls sphactor_actor_atomic_report on its own actor. *)
HandlerTakesReport ==
    /\ HandlerReads
    /\ apc = "run" /\ task \in HandlerTasks
    /\ reporting /\ slot # NULL
    /\ prev' = slot
    /\ slot' = NULL
    /\ apc' = "release"
    /\ UNCHANGED <<heap, interrupted, reporting, task, looping, iterations, fresh,
                   link, controller>>

-----------------------------------------------------------------------------
(* The loop of sphactor_actor_run. *)

(* The INIT handler returns and sphactor_actor_start with it. *)
RunInit ==
    /\ apc = "run" /\ task = "INIT"
    /\ apc' = "top"
    /\ UNCHANGED <<heap, shared, task, looping, iterations, fresh, prev, link,
                   controller>>

(* sphactor_actor_run_once begins: it reports IDLE and polls.  *)
BeginIdle ==
    /\ apc = "top" /\ looping
    /\ Announce("IDLE")
    /\ UNCHANGED <<shared, looping, iterations, prev, link, controller>>

(* A timer that is overdue leaves out the IDLE report. *)
BeginLate ==
    /\ apc = "top" /\ looping /\ "TIME" \in Traffic
    /\ apc' = "run" /\ task' = "IDLE"
    /\ UNCHANGED <<heap, shared, looping, iterations, fresh, prev, link,
                   controller>>

(* The poller returns something that is not the pipe.  The pipe is the     *)
(* first socket of the poller, so it must be empty unless a timer is due.  *)
Receive(e) ==
    /\ apc = "run" /\ task = "IDLE"
    /\ iterations < MaxIterations
    /\ e # "TIME" => pipe = <<>>
    /\ Announce(e)
    /\ UNCHANGED <<shared, looping, iterations, prev, link, controller>>

(* Mutant: the command is executed without a report about it. *)
ReceiveCommandSilently ==
    /\ apc = "run" /\ task = "IDLE"
    /\ pipe # <<>>
    /\ task' = Head(pipe)
    /\ pipe' = Tail(pipe)
    /\ UNCHANGED <<heap, shared, apc, looping, iterations, fresh, prev, reply,
                   controller>>

(* The poller returns the pipe. *)
ReceiveCommand ==
    /\ apc = "run" /\ task = "IDLE"
    /\ pipe # <<>>
    /\ Announce(Head(pipe))
    /\ pipe' = Tail(pipe)
    /\ UNCHANGED <<shared, looping, iterations, prev, reply, controller>>

(* The poller returns the subscribe socket with another actor's API        *)
(* message.  It is executed as a command from the pipe would be, except    *)
(* that nothing is answered (so INSTANCE is one of the OTHER commands).    *)
ReceivePeer(c) ==
    /\ apc = "run" /\ task = "IDLE"
    /\ iterations < MaxIterations /\ pipe = <<>>
    /\ Announce(c)
    /\ UNCHANGED <<shared, looping, iterations, prev, link, controller>>

(* zsys_is_interrupted: run_once returns -1 and the loop is left. *)
Interrupt ==
    /\ Interruptible
    /\ apc = "run" /\ task = "IDLE"
    /\ interrupted' = TRUE
    /\ looping' = FALSE
    /\ Announce("HALT")
    /\ UNCHANGED <<slot, reporting, iterations, prev, link, controller>>

(* Mutant: the counter runs down. *)
EndIterationBackwards ==
    /\ iterations' = iterations - 1
    /\ apc' = "top"

(* run_once_end: the iteration is complete. *)
EndIteration ==
    /\ iterations' = iterations + 1
    /\ apc' = "top"

(* Another actor's $TERM is refused, without a report. *)
RefusePeer ==
    /\ apc = "run" /\ task = "IDLE" /\ PeerCommands # {}
    /\ iterations < MaxIterations /\ pipe = <<>>
    /\ EndIteration
    /\ UNCHANGED <<heap, shared, task, looping, fresh, prev, link, controller>>

(* The handler returns from an event. *)
RunEvent ==
    /\ apc = "run" /\ task \in Events
    /\ EndIteration
    /\ UNCHANGED <<heap, shared, task, looping, fresh, prev, link, controller>>

(* The branches of sphactor_actor_recv_api: SET REPORTING, *)
RunSetReporting ==
    /\ apc = "run"
    /\ \/ task = "REPORTING TRUE" /\ reporting' = TRUE
       \/ task = "REPORTING FALSE" /\ reporting' = FALSE
    /\ EndIteration
    /\ UNCHANGED <<heap, interrupted, slot, task, looping, fresh, prev, link,
                   controller>>

(* INSTANCE, which answers with the actor's address, *)
RunInstance ==
    /\ apc = "run" /\ task = "INSTANCE"
    /\ reply' = TRUE
    /\ EndIteration
    /\ UNCHANGED <<heap, shared, task, looping, fresh, prev, pipe, controller>>

(* $TERM, *)
RunTerm ==
    /\ apc = "run" /\ task = "$TERM"
    /\ looping' = FALSE
    /\ EndIteration
    /\ UNCHANGED <<heap, shared, task, fresh, prev, link, controller>>

(* and the commands that leave the reports and the loop alone. *)
RunOther ==
    /\ apc = "run" /\ task = "OTHER"
    /\ EndIteration
    /\ UNCHANGED <<heap, shared, task, looping, fresh, prev, link, controller>>

(* Mutant: the STOP command also ends the loop. *)
RunStopCommandForGood ==
    /\ apc = "run" /\ task = "STOP"
    /\ looping' = FALSE
    /\ Announce("HALT")
    /\ UNCHANGED <<shared, iterations, prev, link, controller>>

(* The STOP command calls sphactor_actor_stop, which reports first. *)
RunStopCommand ==
    /\ apc = "run" /\ task = "STOP"
    /\ Announce("HALT")
    /\ UNCHANGED <<shared, looping, iterations, prev, link, controller>>

(* The loop has ended: sphactor_actor_stop from sphactor_actor_run. *)
BeginStop ==
    /\ apc = "top" /\ ~looping
    /\ Announce("HALT")
    /\ UNCHANGED <<shared, looping, iterations, prev, link, controller>>

(* The STOP handler returns to a loop that goes on: it was a command. *)
ResumeLoop ==
    /\ apc = "run" /\ task = "HALT" /\ looping
    /\ EndIteration
    /\ UNCHANGED <<heap, shared, task, looping, fresh, prev, link, controller>>

(* The STOP handler returns and sphactor_actor_destroy begins. *)
BeginDestroy ==
    /\ apc = "run" /\ task = "HALT" /\ ~looping
    /\ Announce("DESTROY")
    /\ UNCHANGED <<shared, looping, iterations, prev, link, controller>>

(* The DESTROY handler returns; the sockets and lists are freed. *)
RunDestroy ==
    /\ apc = "run" /\ task = "DESTROY"
    /\ apc' = "reclaim"
    /\ UNCHANGED <<heap, shared, task, looping, iterations, fresh, prev, link,
                   controller>>

(* "free the atomic report": sphactor_actor_atomic_report, which finds     *)
(* nothing to free when reporting is off.                                  *)
Reclaim ==
    /\ apc = "reclaim"
    /\ IF reporting /\ slot # NULL
       THEN prev' = slot /\ slot' = NULL /\ apc' = "discard"
       ELSE UNCHANGED <<prev, slot>> /\ apc' = "free"
    /\ UNCHANGED <<heap, interrupted, reporting, task, looping, iterations, fresh,
                   link, controller>>

DiscardLast ==
    /\ apc = "discard"
    /\ live' = live \ {prev}
    /\ prev' = NULL
    /\ apc' = "free"
    /\ UNCHANGED <<mem, shared, task, looping, iterations, fresh, link,
                   controller>>

(* sphactor_actor_t is allocated. *)
Alive == apc # "gone"

(* free (self): the slot goes with it.  The thread ends and zactor's shim  *)
(* signals the controller.                                                 *)
FreeSelf ==
    /\ apc = "free"
    /\ slot' = NULL
    /\ apc' = "gone"
    /\ UNCHANGED <<heap, interrupted, reporting, task, looping, iterations, fresh, prev,
                   link, controller>>

-----------------------------------------------------------------------------
(* The controller's thread. *)

Send(c) ==
    /\ Len(pipe) < PipeCap
    /\ pipe' = Append(pipe, c)

(* sphactor_report is called.  The first call asks for the actor's address. *)
AskReport ==
    /\ cpc = "idle"
    /\ IF known
       THEN cpc' = "check" /\ UNCHANGED pipe
       ELSE cpc' = "instance" /\ iterations < MaxIterations /\ Send("INSTANCE")
    /\ UNCHANGED <<heap, shared, actor, reply, known, taken, latest>>

(* zsock_recv (self->actor, "p", &self->_sph_act) *)
LearnInstance ==
    /\ cpc = "instance" /\ reply
    /\ reply' = FALSE
    /\ known' = TRUE
    /\ cpc' = "check"
    /\ UNCHANGED <<heap, shared, actor, pipe, taken, latest>>

(* sphactor_actor_atomic_report reads `reporting', without a lock.  If it  *)
(* is off, sphactor_report returns latest_report.                          *)
CheckReporting ==
    /\ cpc = "check" /\ Alive
    /\ cpc' = IF reporting THEN "exchange" ELSE "idle"
    /\ UNCHANGED <<heap, shared, actor, link, known, taken, latest>>

(* Mutant: the pointer is loaded, not exchanged. *)
TakeReportByLoad ==
    /\ cpc = "exchange" /\ Alive
    /\ taken' = slot
    /\ cpc' = IF slot = NULL THEN "idle" ELSE "install"
    /\ UNCHANGED <<heap, shared, actor, link, known, latest>>

(* The exchange of sphactor_actor_atomic_report.  A NULL means there is    *)
(* nothing new, and sphactor_report returns latest_report.                 *)
TakeReport ==
    /\ cpc = "exchange" /\ Alive
    /\ taken' = slot
    /\ slot' = NULL
    /\ cpc' = IF slot = NULL THEN "idle" ELSE "install"
    /\ UNCHANGED <<heap, interrupted, reporting, actor, link, known, latest>>

(* Mutant: the wrong one of the two reports is destroyed. *)
InstallFreed ==
    /\ cpc = "install"
    /\ live' = live \ {taken}
    /\ latest' = taken
    /\ taken' = NULL
    /\ cpc' = "idle"
    /\ UNCHANGED <<mem, shared, actor, link, known>>

(* Mutant: the older latest_report is overwritten and never destroyed. *)
InstallOverwriting ==
    /\ cpc = "install"
    /\ latest' = taken
    /\ taken' = NULL
    /\ cpc' = "idle"
    /\ UNCHANGED <<heap, shared, actor, link, known>>

(* The older latest_report is destroyed and the new one kept. *)
InstallLatest ==
    /\ cpc = "install"
    /\ live' = live \ {latest}
    /\ latest' = taken
    /\ taken' = NULL
    /\ cpc' = "idle"
    /\ UNCHANGED <<mem, shared, actor, link, known>>

(* Any other call that sends a command. *)
SendCommand(c) ==
    /\ cpc = "idle" /\ iterations < MaxIterations
    /\ Send(c)
    /\ UNCHANGED <<heap, shared, actor, reply, controller>>

(* The actor's thread was interrupted behind the controller's back: the    *)
(* controller reads a structure that has been freed, or takes the shim's   *)
(* signal for the address it asked for.  The C standard says nothing about *)
(* what follows, and neither does the model.                               *)
ReadFreed ==
    /\ \/ cpc \in {"check", "exchange"} /\ ~Alive
       \/ cpc = "instance" /\ ~reply /\ apc = "gone"
    /\ cpc' = "lost"
    /\ UNCHANGED <<heap, shared, actor, link, known, taken, latest>>

(* sphactor_destroy: zactor_destroy sends $TERM and waits.  The send finds *)
(* no peer when the thread has already ended.                              *)
Destroy ==
    /\ cpc = "idle"
    /\ IF apc = "gone" THEN UNCHANGED pipe ELSE Send("$TERM")
    /\ cpc' = "join"
    /\ UNCHANGED <<heap, shared, actor, reply, known, taken, latest>>

(* The signal of the finished thread has come; the rest of sphactor_destroy. *)
Join ==
    /\ cpc = "join" /\ apc = "gone"
    /\ live' = live \ {latest}
    /\ latest' = NULL
    /\ known' = FALSE
    /\ cpc' = "dead"
    /\ UNCHANGED <<mem, shared, actor, link, taken>>

(* Both are gone, or the controller is lost. *)
Done == cpc \in {"dead", "lost"} /\ UNCHANGED vars

ActorNext ==
    \/ SetReport \/ Release \/ HandlerTakesReport
    \/ RunInit \/ BeginIdle \/ BeginLate
    \/ \E e \in Traffic : Receive(e)
    \/ \E c \in PeerCommands : ReceivePeer(c)
    \/ ReceiveCommand \/ RefusePeer \/ Interrupt \/ RunEvent \/ RunSetReporting
    \/ RunInstance \/ RunTerm \/ RunOther \/ RunStopCommand
    \/ BeginStop \/ ResumeLoop \/ BeginDestroy \/ RunDestroy
    \/ Reclaim \/ DiscardLast \/ FreeSelf

ControllerNext ==
    \/ AskReport \/ LearnInstance \/ CheckReporting \/ TakeReport
    \/ InstallLatest
    \/ \E c \in Commands : SendCommand(c)
    \/ ReadFreed \/ Destroy \/ Join

Next == ActorNext \/ ControllerNext \/ Done

Spec == Init /\ [][Next]_vars

-----------------------------------------------------------------------------
(* Properties *)

Held == {slot, fresh, prev, taken, latest} \ {NULL}

(* Every pointer the two threads hold points to an allocated report, and   *)
(* no report has two owners: nothing is freed twice, read after it was     *)
(* freed, or handed to the controller and destroyed by the actor.  This is *)
(* what "threadsafe lockfree" (sphactor_actor.h) means for the exchanges   *)
(* in sphactor_actor_atomic_set_report and sphactor_actor_atomic_report.   *)
Ownership ==
    /\ Held \subseteq live
    /\ slot # NULL => slot \notin {fresh, prev, taken, latest}
    /\ fresh # NULL => fresh \notin {prev, taken, latest}
    /\ prev # NULL => prev \notin {taken, latest}
    /\ taken # NULL => taken # latest

(* While reporting is on every allocated report has an owner, so none      *)
(* leaks: each exchange returns what it displaced to a thread that frees   *)
(* it, and the actor's destructor takes the last one back.                 *)
NoOrphanWhileReporting == reporting => live \subseteq Held

(* The same without the condition, which is what the comment "free the     *)
(* atomic report" in sphactor_actor_destroy says of the destructor.  It    *)
(* fails: sphactor_actor_atomic_report returns NULL when reporting is off  *)
(* and the report in the slot is never freed.                              *)
NoOrphan == live \subseteq Held

(* The actor's structure outlives every use the controller makes of the    *)
(* address it got from INSTANCE, unless a signal ended the actor's loop:   *)
(* sphactor_destroy clears _sph_act only after the thread has ended, and   *)
(* nothing else makes the thread end.                                      *)
ActorOutlivesController ==
    cpc \in {"instance", "check", "exchange"} /\ ~interrupted => Alive

(* The report the controller's client holds is never changed under it, and *)
(* it is only replaced by one that describes the actor after at least as   *)
(* many iterations.  The client keeps a pointer (sphactor_report returns   *)
(* latest_report), so this rests on the actor never reusing a block it     *)
(* does not own.                                                           *)
NeverBackwards ==
    [][latest # NULL /\ latest' # NULL =>
        IF latest' = latest
        THEN mem'[latest] = mem[latest]
        ELSE mem[latest].iterations <= mem'[latest'].iterations]_vars

(* The first report is read only after INSTANCE was answered, and the      *)
(* report about that command was published before its answer was sent, so  *)
(* the controller never sees the actor before its initialisation: it never *)
(* reads INIT (test in sphactor.c: "the status is either IDLE or API").    *)
NeverSeesInit ==
    /\ taken # NULL => mem[taken].status # "INIT"
    /\ latest # NULL => mem[latest].status # "INIT"

(* The heap never holds more than four reports of one actor, however fast  *)
(* it publishes and however seldom anybody looks.                          *)
FourReports == Cardinality(live) <= 4

-----------------------------------------------------------------------------
(* The inductive invariant behind them (ReportSlotProofs). *)

(* Each thread holds a block exactly where its program says so, and the    *)
(* slot stays empty once the destructor has emptied it.                    *)
Places ==
    /\ fresh # NULL <=> apc = "exchange"
    /\ prev # NULL <=> apc \in {"release", "discard"}
    /\ taken # NULL <=> cpc = "install"
    /\ apc \in {"discard", "free"} /\ reporting => slot = NULL
    /\ apc = "gone" => slot = NULL

(* A block can only be lost when the actor's structure is freed. *)
Accounted == Alive \/ reporting => live \subseteq Held

Owned == Places /\ Ownership /\ Accounted

(* The loop ends for an interrupt or for the $TERM of sphactor_destroy, and *)
(* the actor is dismantled only after its loop has ended.                   *)
Ending ==
    /\ task = "$TERM" => cpc \in {"join", "dead"}
    /\ cpc \notin {"join", "dead"} => \A i \in 1 .. Len(pipe) : pipe[i] # "$TERM"
    /\ ~looping => interrupted \/ cpc \in {"join", "dead"}
    /\ task = "DESTROY" \/ apc \in {"reclaim", "discard", "free", "gone"} => ~looping

(* The INIT report stays in the slot only until the first report about     *)
(* something else, and the address of the actor is not known before that.  *)
InitGone ==
    /\ apc = "exchange" => mem[fresh].status # "INIT"
    /\ slot # NULL /\ mem[slot].status = "INIT" =>
          /\ reporting /\ ~reply /\ ~known
          /\ cpc \notin {"check", "exchange", "install"}
          /\ \/ apc = "exchange"
             \/ apc = "run" /\ task \in {"INIT", "IDLE"}
             \/ apc = "top" /\ task \in {"INIT", "IDLE"}

(* From the oldest to the newest: latest, taken, slot, fresh. *)
InOrder ==
    /\ apc = "exchange" => mem[fresh].iterations = iterations
    /\ \A p \in {slot, taken, latest} \ {NULL} : mem[p].iterations <= iterations
    /\ slot # NULL =>
          \A p \in {taken, latest} \ {NULL} : mem[p].iterations <= mem[slot].iterations
    /\ taken # NULL /\ latest # NULL => mem[latest].iterations <= mem[taken].iterations

IInv == TypeOK /\ Owned /\ Ending /\ InitGone /\ NeverSeesInit /\ InOrder

-----------------------------------------------------------------------------
(* The slot is a mailbox: what is behind atomic_report is in the box, and  *)
(* the exchange that takes it is the moment it becomes the controller's    *)
(* view.                                                                   *)

Contents(p) == IF p = NULL THEN NULL ELSE mem[p]

Mailbox ==
    INSTANCE ReportMailbox WITH
        None <- NULL,
        box <- Contents(slot),
        view <- Contents(IF taken # NULL THEN taken ELSE latest),
        work <- iterations

MailboxSpec == Mailbox!Spec
=============================================================================
