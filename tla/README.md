# libsphactor in TLA+

libsphactor runs *actors*: a handler function in a thread of its own, with a
publish socket, a subscribe socket, an optional timer and a pipe to the object
that controls it. These modules model the parts of the library where threads
meet, where messages change owner, and where a set of actors is saved and
loaded. TLC checks them on small instances, and TLAPS proves their safety properties
and the two refinements for all values of the constants. Paths are relative to the
repository; `sphactor_actor.c` etc. are in `src/src/`.

## 1. Inventory

| component | state | operations | meets others through |
|---|---|---|---|
| **Report hand-over** (`sphactor_actor.c`, `sphactor.c`, `sphactor_report.c`) | `atomic_report`, `reporting`, `iterations` in the actor; `latest_report`, `_sph_act` in the controller | publish a report, take a report, toggle reporting, destroy | one atomic pointer that both threads exchange; the address of the actor's structure, sent once through the pipe |
| **Controller and life cycle** (`sphactor.c`, `sphactor_actor.c`) | copies of uuid, name, type, endpoint, subscriptions; the actor's attributes and connections | create, ask, set, connect, disconnect, API calls, destroy | zactor's pipe, two queues of messages; the subscribe socket, through which other actors send the same commands |
| **Timer** (`sphactor_actor_run_once`) | `timeout`, `time_next` | poll, catch up, deliver TIME, `set_timeout` | the clock, the poller |
| **Filters** (`sphactor_actor_filter_add`, `_filter_remove`, `_connect`, `_disconnect`) | `sub_filters`, the subscriptions of the SUB socket | add, remove, connect, disconnect, receive | news of subscriptions to each publisher, messages back |
| **Handlers' messages** (`sphactor_actor_run_once`, `recv_api`, `s_publish_msg`) | ownership of the event's and the answer's message | handle, publish, TRIGGER, SEND | by reference between loop and handler |
| **Stage** (`sph_stage.c`) with **load and save of an actor** (`sphactor_load`, `sphactor_save`) | hash of actors, `config_path`, working directory | load, clear, save, save as, add, remove, find | owns its actors, asks them, connects them |
| **Registry** (`sphactor_register`, `_unregister`, `_dispose`) | global hash from type to constructor and capability | register, unregister, dispose, new by type | `sphactor_new_by_type`, `sphactor_load` |
| **Stock actors** (`sph_stock.c`) | Count's static counter, Pulse's timeout | handlers for Log, Count, Pulse | a static variable that all Count threads share |
| **Process actors**, **command line tool**, **C++ wrapper** | - | - | operating system, the components above |

What is hard in it:

- *Two threads without locks.* `atomic_report` is exchanged by both, `reporting`
  is a plain field one writes and both read, and `_sph_act` is a raw pointer
  into a structure the other thread frees. Correct means: no report freed twice,
  lost, or read after it was freed; reports never go back in time; the structure
  outlives its readers.
- *A question and its answer.* An ask sends a command and takes the next message
  in the pipe for the answer. Correct means: it is the answer to that ask; the
  copies kept from answers agree with the actor; no peer ends the actor; every
  ask and `sphactor_destroy` return, also when the pipe is full. The code does not
  promise it for ever: a handler may send a command back, START signals through
  the same pipe, and a signal to the process cuts waits short.
- *Time.* The deadline is compared with a clock that is read five times in a
  turn and cast to `int`. Correct means: fixed interval, no drift, no backlog,
  neither timer nor messages starve, no timer without a timeout.
- *News that lags.* Filters are subscriptions of a socket whose publishers hear
  of them one by one, later. Correct means: what the list lets pass is sent and
  handled; what it does not is not.
- *Owners.* A message passes from socket to loop, from loop to handler, back, and
  out again, and each path frees it somewhere else. Correct means: every message
  has one owner, is freed once, and is handled in the order it was sent.
- *Partial failure.* A stage is loaded from a file with unknown types and broken
  connections, or from a torn file, changes the working directory and saves over
  itself. Correct means: a saved stage loads as the same stage, into the same
  actors, and a save goes where the load came from.

Every hazard is listed at its line under `hazards` in PROJECT.json, with the
properties that cover it or the reason there is none.

## 2. Modules

| module | what it is |
|---|---|
| `ReportMailbox` | abstract: a box for one report, which a newer one replaces |
| `ReportSlot` | the two threads and the heap, at the granularity of exchanges and frees; implements `ReportMailbox` |
| `MCReportSlot` | symmetry for TLC |
| `ReportSlotProofs` | proofs about `ReportSlot`, including the refinement |
| `Sphactor` | controller, pipe and actor: creation, asks, tells, peers, destruction |
| `SphactorProofs` | proofs about `Sphactor`: the conversation on the pipe |
| `SphactorClientProofs` | proofs about `Sphactor`: destruction and the controller's copies |
| `ActorTimer` | `sphactor_actor_run_once` and the clock |
| `ActorTimerProofs` | proofs about `ActorTimer` |
| `SubFilters` | list of filters, SUB socket, publishers, messages |
| `SubFiltersProofs` | proofs about `SubFilters` |
| `Handlers` | several actors' loops, the stock handlers, the heap and the queues between them |
| `MCHandlers` | a small network of actors for TLC |
| `HandlersProofs` | proofs about `Handlers` |
| `StageDocument` | abstract: a scene of actors and the files it is saved to |
| `Stage` | registry, actors by type, stage, files, crashes; implements `StageDocument` |
| `MCStage` | paths and symmetry for TLC |
| `StageProofs` | proofs about `Stage`, including the refinement |

All but those about the stage look at the same run loop from five sides and
share names for it. Each leaves to the others what its own properties do not
depend on: `Sphactor` takes a timer that fires at any time for `ActorTimer`,
`ReportSlot` takes every command that touches neither reports nor loop for one,
"OTHER", `Handlers` takes every subscription for one that lets everything pass.
`Stage` stands on top of them: that an ask is answered by its own answer and
that commands are executed in order is what `Sphactor` shows, so an ask or a
tell is one step there. `map` in PROJECT.json gives the lines each definition
stands for.

### ReportSlot

Variables are the code's: `slot` is `atomic_report`, `latest` is
`latest_report`, `known` tells whether `_sph_act` is set; `fresh`, `prev` and
`taken` are the locals that hold a report between two steps. `mem` and `live`
are the heap; an allocation takes any block that is not live, so a block that is
freed too early is found in use again. The actor's thread alternates between
`Announce` (allocate and fill the report about what it is going to do),
`SetReport` (the exchange), `Release` (free the report nobody took) and the task
itself. The controller's `sphactor_report` is `AskReport`, `LearnInstance`,
`CheckReporting`, `TakeReport`, `InstallLatest`; the read of `reporting` and the
exchange are separate, since the actor may run in between. Both the missing
braces at `sphactor_actor.c:1002` (SOCK reports are published with reporting
off) and the destructor that frees nothing with reporting off are in the model.
Other actors' API messages (`ReceivePeer`, `RefusePeer`) report and toggle as
the pipe's commands do. A signal (`Interrupt`) ends the actor's loop behind the
controller's back; what the controller then reads is undefined, and the model
stops there (`lost`).

### Sphactor

`commands` and `answers` are the two directions of the pipe, each bounded by
`PipeHWM` (zactor sets `zsys_pipehwm`). A call is `Call(c)`, the blocking send
`Sent`, and for an ask `Answered`, with anything in between; `Answered` takes
whatever comes first, as the code does. Only `sphactor_ask_connect` and
`_disconnect` look at what they got, and assert (`AnswerFails`); so does the
actor that is to disconnect from what it is not connected to (`ExecuteFails`). A
failed assertion ends both threads. `Execute` is the command's effect,
`SendAnswer` the send that may block; START leads to `SendSignal`, which signals
on the pipe whoever sent it, and the INIT handler. Peers' commands go through the
same `Execute` with `fromPipe` FALSE: no answer, and no `$TERM`. `Interrupt` is
`zsys_interrupted`: from then on waits may return without a message
(`WaitInterrupted`) and the loop may be left (`LeaveLoop`). What zactor does
(signal when the constructor has returned, `$TERM` without waiting for room,
discard until the last signal) is modelled from how `sphactor_new` and
`sphactor_destroy` rely on it.

The history variable `mishaps` records what has disturbed the conversation:

| mishap | what happened | code |
|---|---|---|
| ECHO | a command the loop does not know went to a handler that returns it | `sphactor_actor.c:709`, `sph_stock.c:64`, `:92` |
| SIGNAL | START was sent, by the client or a peer | `sphactor_actor.c:505`, `:232` |
| SET | a peer set the name or the type | `sphactor_actor.c:992` |
| CONNECTIONS | a peer connected or disconnected the actor | the same |
| TERM | the client wrote `$TERM` to `sphactor_socket` | `sphactor_actor.c:698` |
| INTERRUPT | a signal reached the process | `sphactor_actor.c:933`, `:971`, `:983` |
| LOST | the last signal of the thread found the pipe full | zactor's shim |

All but SET happen in the run, and none is assumed away in the proofs; a property
says which ones it does not survive. `Quiet` means that none has happened which puts
something into the pipe that nobody waits for or that ends a wait.

### ActorTimer

`due` is `time_next - zclock_mono()`, so that only differences of time are in
the state. A turn is `Begin` (first read), `Compute` (second read, cast),
`PollMessage` or `PollExpires`, `Check` (third), `Dispatch` (catching up and
choice), the handler, `Return`. `Tick` lets the clock run between any two of
them, within bounds that say how long the handler (`MaxCost`) and the rest of a
turn (`Slack`) take; `Preempted` says whether it may tick between two reads that
the code treats as one.

### SubFilters

A filter is the set of topics that start with it. `listed` is `sub_filters`;
`count` is how often ZeroMQ has been told to subscribe to a filter, which it
counts; `upstream[p]` is the news on its way to publisher `p`, `seen[p]` what it
has heard, `inbox[p]` what it has sent. `kept` and the field `due` of a message
are history: the topics that have passed every list since the connection, and
whether a message has passed every list since it was sent.

### Handlers

Each actor is a thread with the locals of the code's loop: `msg` is what the
event carries, `ret` what the handler returned, `request` the copy that TRIGGER
keeps. All are pointers into `heap`. An allocation takes the first free block:
what one thread has just freed is soon another's, so a second free is found
either at once (the block is free: CZMQ's assertion, `UseDestroyed`) or as a
stolen message. An event is one of the actions `Time`, `FdSock`, `Command`,
`Trigger`, `Send`, `Start`, `Terminate` or a message (`Receive`, `Refuse`); the
handler is `PassOn`, `Ignore`, `Answer`, `PrintOut` or the three steps of the
Count handler; the rest of the turn is `Dispose`, or `PublishTriggered` and
`DestroyAgain`. A `Custom` handler is any handler of a client that keeps the
library's contract: it destroys what it is given and answers or not, at any
event. The static counter of the Count actors is read, written and read again in
separate steps. `piped` is what waits in an actor's pipe for its client to read:
the answers to commands the loop does not know (`Passes`) and the signals of
START (`SignalStart`) wait for room there, and nothing makes the client read
(`Collect`). Data is numbered by its publisher (`published`), which nothing but
the properties looks at; `tainted` tells whether a TRIGGER has gone to a
handler that does not bear it (see Findings).

### Stage

One thread calls everything, so the steps are whole calls; what is hard is their
order and what they leave behind. An actor's record holds both sides: `cache` is
the capability's zconfig in the controller, `told` what the actor's thread has
been sent; `name` is the actor's name, `asked` the controller's copy of it. A
destroyed actor's endpoint is `lingering` until ZeroMQ's own thread has unbound
it (`Reap`). `direct` is history: what `sphactor_ask_set_timeout` told the actor
last, past the cache. `config` is `config_path`; after `Save` it may be
`Garbage`, since the path is freed before it is copied. `Locate` tells which
directory's file a path names from a working directory. `End` is the end of the
program: by itself, by one of the assertions that the guards `SaveAborts` and
`LoadAborts` name, or by a crash; `DieSaving` is a crash inside a save, which
leaves a part of the file (`Torn`): a document without some connections, or, if
it was cut before their section, one that ends the program that loads it
(`Broken`, `sph_stage.c:101`). The program then starts anew with the files as
they are. `origin` and `synced` are history: which file the stage corresponds
to, if nobody has changed it since. An endpoint is its actor's UUID, a directory
holds one file, and a write is cut between entries of the document and not
inside them.

`StageDocument` says what is promised of it: the scene changes one actor at a
time or is emptied; a file only becomes the scene or, if the program dies, a part
of it; and what is recalled from a file is what it says, but for types that are
not known and values that have no `api_call`.

## 3. Runs

| run | states | shows |
|---|---|---|
| `report_slot` | two threads, 5 blocks, pipe of 1, 2 iterations | ownership, no leak while reporting, order, freshness, refinement |
| `report_leak` | reporting switched off, then destroyed | the last report leaks: violation of `NoOrphan` |
| `sphactor` | 3 calls, 2 values, 1 endpoint, pipe of 1, a handler that sends commands back, START and `$TERM` from the client, START and CONNECT from peers, timer, a signal | answers match, copies and connections coherent, no peer ends the actor; what may wait for ever is named; the inductive invariant |
| `actor_timer` | period 4, handler up to 2, 2 messages | fixed interval, timer and messages both live |
| `spurious_time` | timeout -1 | violation of `NeverTimesOut` |
| `lost_timer` | clock ticks between two reads | violation of `KeepsTicking` |
| `sub_filters` | 6 calls, 2 topics, filters for each and "", 2 publishers | what is listed is subscribed, sent and handled |
| `filter_gap` | first filter while sending | violation of `NoGap` |
| `filter_removed` | remove one of two filters | violation of `OnlyListedHandled` |
| `handlers` | 5 actors of all four kinds, 6 blocks, queues of 2, pipes of 1, 2 events from outside | no message is freed twice, lost or reordered; counts |
| `stage` | 2 actors, 2 types, 4 parameters, 4 paths, 2 directories, 5 calls | what is saved, loaded and told agrees, across crashes; refinement |
| `stage_astray` | a `../` path, 3 directories | violation of `SaveGoesHome` |

Properties, and what would break them (each passing property has a mutant of the
model in PROJECT.json under which TLC finds it violated):

- `Ownership`, `NoOrphanWhileReporting`, `FourReports`: every report has exactly
  one owner, whichever way the exchanges interleave, and at most four exist.
- `NeverBackwards`, `MailboxSpec`: what `sphactor_report` returned is immutable
  until the next call and is replaced only by something at least as recent.
- `NeverSeesInit`, `ActorOutlivesController`: the protocol of INSTANCE orders
  the first report after initialisation and the last use before destruction.
- `AnswersMatch`, `CopiesCoherent`, `ConnectionsCoherent`: while the
  conversation is `Quiet`, an ask gets its own answer; while moreover no peer sets
  or connects the actor, the copies of type, endpoint and connections are what
  the actor has or, with what is in the pipe executed, will have. The actor's
  assertion on a disconnect fails then only by the client's own mistake.
- `NoPeerTerminates`, `ShimAlive`, `DestroyJoins`: nobody but the client or a
  signal ends the actor; its thread has ended, with all commands executed, when
  `sphactor_destroy` returns, unless START gave it a signal to take for the
  thread's last or the pipe was full.
- `AskReturns`, `SendReturns`, `DestroyReturns`: an ask always returns (or ends
  the program); a send waits for ever only for an actor that is gone or that
  waits for the client to read what nobody had asked for; `sphactor_destroy`
  returns unless the pipe was too full for the thread's last signal.
- `FixedInterval`, `KeepsTicking`, `MessagesHandled`.
- `ListedPasses`, `NoGapBetweenSwaps`, `DueHandled`, `FilterTakesEffect`: what
  is in the list is subscribed at every publisher, but for news on its way.
- `Ownership` and `NoLeak` of `Handlers`: along every path of the loop a message
  has one owner and is freed once; the only ones never freed are the refused
  `$TERM` messages of other actors.
- `InOrder`, `Counted`: what is printed comes from actors the log is connected
  to, each message once and in its publisher's order, however many a full queue
  drops; the unsynchronised counter loses increments but never counts what was
  not received, and is exact for a single Count actor.
- `ValuesTold`: what a save will store is what the actor itself has been told,
  except for blobs and for what `sphactor_ask_set_timeout` told it last.
- `InSync`: an unchanged stage and its file agree on every actor of a type that
  was known, down to what the actors' threads were told.
- `ImplementsDocument`: the refinement of `StageDocument`.

**Bounds, and why they are enough.** `MaxIterations` 2 lets a report be made,
displaced, taken and followed by a newer one; after it only new input stops, so
stop and destruction always run. Five blocks are one more than the protocol
needs (`FourReports`), so exhaustion never hides a leak. In `sphactor`, with
three calls there can be one setter in the pipe, one being executed and one
waiting to be sent, an ask between setters, and a destruction against a full
pipe; a pipe of one message lets both threads wait for each other. Of the peers'
commands CONNECT is one that is answered on the pipe, START one that signals,
and `$TERM` one that is refused; the proofs are for all commands of peers, SET
and DISCONNECT too. In `actor_timer`, `IntSpan` 16 stands for 2^32: large
against the period, small enough for the clock to wrap several times; the period
4 exceeds the longest turn, handler 2 and `Slack` 1. In `sub_filters`, six calls
are enough to connect, add a filter twice, add another, remove both and add one
again with the news of each still on its way; one message in flight per
publisher is enough, since messages do not influence each other. In `handlers`
two events bring a whole cascade each: one timer event reaches both counters,
whose increments then race, and the log; two let a TRIGGER's stale pointer meet
another thread's allocation, overflow a queue of
two with the messages of two publishers, and send a second unknown command against a full pipe. No run fills the six
blocks, so exhaustion hides nothing. With two Count actors the last part of
`Counted`, on a single one, says nothing in the run; it is covered by the
theorem. In `stage` the five calls are the changes and saves: enough to make an
actor, change it, save, change it again and save elsewhere, or to save, die
saving and save what was left; loads, registrations, stages and ends of the
program are not counted and happen any number of times. Two actors suffice for a
connection, and one that is skipped or removed while the other stays. The four
paths are absolute, relative, the bare name, and one that leads up. The proofs
show that the safety properties do not depend on these bounds at all: they hold
for any number of actors, blocks, calls, events and messages, any size of pipe
and queue.

**Fairness, and why the code justifies it.** `ReportSlot` has no liveness
property and no fairness. In `Sphactor` both threads run when they can (weak
fairness of the actor's steps and of the controller's returns): they are threads
of the operating system and neither waits for anything but the pipe. The client
is not obliged to call anything. Taking a command is *strongly* fair: an overdue
timer goes before the pipe (`sphactor_actor.c:925`), so the pipe may be passed
over now and again, and that it is not passed over for ever is what
`MessagesHandled` of `ActorTimer` shows, for handlers faster than the period. In
`ActorTimer` the thread is weakly fair, and the clock strongly fair, because the
loop's own steps keep disabling `Tick` at the bound of its slack while time does
go on. In `SubFilters` a publisher processes the news it was sent: ZeroMQ does
that in every send, so it holds for publishers that go on sending. `Handlers` and
`Stage` have no liveness property and no fairness.

## 4. Findings

Six runs show where the code and what it says of itself part.

1. `report_leak`: a report that is in the slot when reporting is switched off is
   never freed ("free the atomic report", `sphactor_actor.c:210`).
2. `spurious_time`: without a timeout the poller's wait is the low half of
   `INT64_MAX - clock`; for half of all uptimes it is finite, and a TIME event
   reaches an actor that has no timeout.
3. `lost_timer`: a millisecond that changes between lines 910 and 923 turns a
   wait of 0 into -1, which is for ever.
4. `filter_gap`: between the unsubscribe and the subscribe of the first filter a
   publisher does not send what both the empty and the new filter match.
5. `filter_removed`: a removed filter stays subscribed while there are others.
6. `stage_astray`: `sph_stage_load` goes to the file's directory
   (`sph_stage.c:180`) and keeps the path as it was given; loaded from `../x`,
   the next save writes to another directory ("the active config filepath",
   `sph_stage.h:40`).

The following are in the models as they are in the code, and the properties are
stated around them. None has a run of its own: most show in a single call.

- Missing braces publish a report of every message with reporting off
  (`sphactor_actor.c:1002`; `Announce`).
- With reporting off `sphactor_report` returns the last report it took, where
  `sphactor.h:199` promises NULL (`CheckReporting`).
- `sphactor_ask_set_name` leaves the "copy of our actor's name"
  (`sphactor.c:32`) as it was, and `sphactor_ask_name` goes on to return it.
- Log and Count return what they have no use for; after an unknown command that
  is sent on the pipe, and the next ask takes it for its answer: the text of the
  command may become the actor's endpoint (`sphactor_actor.c:975`; ECHO).
- A disconnect without a connection ends the program (`sphactor_actor.c:356`;
  `ExecuteFails`), though the header has it return -1 (`sphactor.h:136`).
- TRIGGER destroys the handler's answer twice (`sphactor_actor.c:623`), and the
  Count handler, which uses the actor it is not given, crashes.
- `sph_stage_save` hands `config_path` to a function that frees it before it
  copies it (`sph_stage.c:252`): the path is then `Garbage`.
- A stage without actors can be saved, and a load of that file fails an assertion
  (`sph_stage.c:82`; `LoadAborts`) instead of returning NULL.
- `sphactor_ask_set_timeout` tells the actor what its capability has, and a save
  stores the older value (`sphactor.c:405`; `direct`).
- A blob is stored, and reported as sent, without being sent (`sphactor.c:594`).
- A START signals the pipe again. Until somebody reads it, it is the answer to
  the client's next ask, or ends `sphactor_destroy` before the thread has ended.
- A client that leaves enough unknown commands' answers unread blocks its actor in
  `zmsg_send`, and then itself in the next send (`SendReturns` excepts it).
- With `Preempted` TRUE a deadline that passes between lines 925 and 926 is
  skipped altogether.
- `tainted` marks a TRIGGER to a handler that does not bear it: all safety
  properties of `Handlers` are about behaviours without one, since after it
  nothing can be said of the heap.
- A `$TERM` that another actor publishes is refused and its message never freed
  (`sphactor_actor.c:990`); `NoLeak` counts exactly these.
- Two Count actors lose increments of their common counter (`sph_stock.c:78`).
- A relative path leads nowhere from the file's directory, unless that has a
  subdirectory of the same name, and the next save fails an assertion instead of
  returning -1.
- A file that a crash cut before its connections ends the program that loads it
  (`sph_stage.c:101`); one that was cut among the connections loads with fewer.
- Actors of types that are not registered are skipped by a load, and gone from
  the file with the next save.
- A name that was asked for before it was changed is saved as it was; a value
  without an `api_call` is saved and not brought back, and neither is that of a
  trigger.

## 5. Proofs

All proofs are for any values of the constants that satisfy the modules'
named assumptions (`HeapAssumption`, `BoundAssumption`, ...), which say no more
than that the null pointer is no block, bounds are naturals, and inputs are of
the kinds the code distinguishes.

Each follows the same plan. A type invariant comes first, because every other
step cites it; then an invariant strong enough to be preserved by every step,
one lemma per kind of step; the properties follow from it. TLC checked each
invariant on the module's run before it was proved.

**ReportSlotProofs** (any heap, any traffic, any pipe, signals included).
`IInv` strengthens `Ownership`, which is not inductive alone, by: where each
thread holds a block (`Places`: `fresh` exactly before its exchange, and so on);
that a block can be lost only when the actor's structure is freed (`Accounted`);
why the loop ends (`Ending`); how long INIT can stay in the slot (`InitGone`);
and the order latest <= taken <= slot <= fresh (`InOrder`). From it follow
`TypeCorrect`, `OwnershipHolds`, `NothingLeaks`, `NoDanglingInstance`,
`InitIsNeverSeen`, `ReportsMoveForward`, and `SlotIsMailbox`: each exchange is a
step of the mailbox, every other step a stutter. `AtMostFour` needs two more
facts: `fresh` and `prev` are never both set, so five places hold four blocks
(`AliveFew`), and after the structure is freed nothing is allocated any more
(`GoneShrinks`), which covers the report that is lost with reporting off.

**SphactorProofs** (any values, endpoints, pipe and number of calls; any client,
handler, peers and interrupts). No theorem has a hypothesis about what the others
do: each holds until the mishaps it names. `ActorLasts` (`NoPeerTerminates`)
rests on `Lasting`: without a `$TERM` of the client there is none in the pipe
before `sphactor_destroy` sends it. `AnswersAreMatched` rests on `Conversation`:
while the conversation is `Quiet` the pipe holds at most one ask, and as its last
command, since the client that sent it is blocked: it is on its way
(`AskOnItsWay`), worked on (`AskWorkedOn`) or answered (`AskAnswered`), and no
other command in the pipe makes the actor say anything. `Tallied` relates the two
lists of connections to which of the three it is, from which
`ConnectionsAreKnown` follows: the assertion at `sphactor_actor.c:356` can fail,
but only for what is not on the client's own list. `ShimLives` needs no more than
the type invariant's company.

**SphactorClientProofs** builds on it. `DestroyHasJoined` holds although handlers
send commands back: `Signalling` says that as long as nobody has sent START the
only signals are the thread's first, which `sphactor_new` has taken, and its
last; and `Joining` that while `sphactor_destroy` waits, $TERM is the last
command in the pipe and the only one of its kind (`TermOnItsWay`), or the actor
has taken it and the pipe is empty (`TermTaken`). `CopiesAreCoherent` rests on
`Faithful`, which says of type and endpoint that a copy, if there is one, is what
the attribute *will be* (`WillBe`): what the last pending setter says, or else
the setter being executed, or else the actor's own value; and that an answer to
GET shows the actor's value with nothing pending behind it. That ends when the
answers are shifted or a peer sets the type, which it legally may and which the
controller is not told.

**ActorTimerProofs** (any timeouts, width of an int, costs, messages).
`TypeCorrect` needs `Found`: a message the poller has returned is still there
when it is dispatched. `IntervalFixed` assumes `~Preempted`. Its invariant
`Punctual` says what is known of `time_next` at each point of a turn: never more
than a period ahead, not in the past between the first two reads, equal to what
is waited for in the poller, and reached when the poller has expired. The rest is
arithmetic on casts and remainders. The assumption is needed: `lost_timer` is a
run with `Preempted` TRUE.

**SubFiltersProofs** (any topics, filters, publishers, calls, messages in
flight). The invariant behind `NoGapBetweenSwaps` is `Reaching`: for every topic
that has passed all lists, each connected publisher has heard of a subscription
that matches it and that no news on its way ends (`Heard`), or such a
subscription is among the news and a connection's or a swap's news follows or
carries it (`Coming`). With `Counted` (what is listed is subscribed) and
`History` (what is due passes the current list) it gives `TypeCorrect`,
`ListedFiltersPass`, `GapsAreSwaps` and `DueIsHandled`.

**HandlersProofs** (any actors of the four kinds, connections, blocks, queues
and events). `TypeCorrect` holds whatever a TRIGGER does. The other invariants
hold until a TRIGGER reaches a handler that does not bear it (`tainted`), which
is when the code itself destroys a message twice. `Owners` says which of an
actor's three pointers may be set at each point of its turn (`AllTidy`), that
what is owned is allocated (`Live`), that no two actors own the same block
(`Apart`), and that what is allocated and nobody's is as much as was refused
(`Leaked`). Every action is shown to be `Balanced`: it changes the heap only
where its actor owns something, takes only free blocks, and frees what it gives
up; that alone preserves all but `AllTidy`. `OwnershipHolds` and
`NothingElseLeaks` follow. `PrintedInOrder` needs `Arriving`: what was printed,
what is in hand and what waits in the queue are in the order of their numbers,
come from where the actor is connected, and no number exceeds what was
published. `CountedRight` needs `Lacking`: the counter, and what each Count
actor has read of it, lack at least every message that is in hand and not
counted yet (`Pending`), which survives lost increments; `Exact` is the equality
that holds when there is a single Count actor.

**StageProofs** (any types, parameters, capabilities, paths, directories,
calls and crashes). `IInv` adds to the properties: an actor has been told what
its cache holds, blobs and timeouts set directly excepted, and its entry has the
values its type presets (`ActorsSound`); so do the entries of all files, torn
ones included (`DocsProper`), without which a load could make an actor that knows
less than its type; and a file the stage is in sync with has an entry for each of
its actors (`SyncedEntries`). `ValuesAreTold` and `StageIsInSync` follow. Nothing
is assumed of where paths lead. `StageIsDocument` maps every action to one of
`StageDocument` or to a stutter: adding, removing, naming, moving, connecting and
setting are edits of the scene; clearing, destroying and the end of the program
empty it; saving stores it in a file, and the death of a saving program tears
one; a load recalls; what does not show in a save, such as a timeout set beside
the capability, is a stutter.

**Only model-checked.** Liveness: `AskReturns`, `SendReturns` and
`DestroyReturns` of `Sphactor`, `KeepsTicking` and `MessagesHandled` of
`ActorTimer`, `FilterTakesEffect` of `SubFilters`. Fairness and ENABLED are
beyond the prover. Every other property of the passing runs is a theorem.

## 6. Assumptions and what is left out

- zactor, ZeroMQ, the poller and the clock are modelled from how the library
  uses them (`external` entries of the map).
- `Sphactor`: a signal that comes while a send waits for room, which ZeroMQ
  would cut short. Filters, reports and what a custom command does are in other
  modules.
- One connection per endpoint; timeouts of -1 or more than a turn of the loop.
- `ReportSlot`: an INSTANCE that a peer sends is one of its OTHER commands, since
  its answer is destroyed.
- `Handlers`: commands the loop handles by itself, whose request is freed in the
  turn that received it; handlers that break the contract.
- `Stage`: what `SaveAstray` writes under a garbage name; `sph_stage_cnf_load`
  on a stage that has actors, several stages at once, files written by hand,
  `sphactor_zconfig_append` (nothing calls it). Whether a connection still
  carries messages after its other end was destroyed and made again is ZeroMQ's
  business and not said.
- The answer to FILTERS, and a second connection to the same endpoint.
- Not modelled: process actors (files and processes of the operating system),
  the command line tool and the C++ wrapper (no state of their own), the custom
  payload and the times in a report, wording and logging.

## 7. Plan

1. An abstract remote procedure call that `Sphactor` implements: an ask and its
   answer as one step, a tell as a step that takes effect later. `AskOnItsWay`,
   `AskWorkedOn` and `AskAnswered` already say what a state maps to.
2. What `Stage` takes for granted of `Sphactor` (an ask is one step, tells are
   executed in order) as theorems of that refinement.
3. The answer to FILTERS in `SubFilters`, a second connection to one endpoint,
   and timeouts of 0 and below -1 in `ActorTimer`.
