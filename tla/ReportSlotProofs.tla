-------------------------- MODULE ReportSlotProofs --------------------------
(***************************************************************************)
(* Proofs about ReportSlot for every heap, every traffic and every bound.  *)
(*                                                                         *)
(* The inductive invariant has four parts, each proved from the ones       *)
(* before it: types; who may end the actor's thread; who owns which block; *)
(* what the reports say.                                                   *)
(***************************************************************************)
EXTENDS ReportSlot, FiniteSetTheorems, TLAPS

USE HeapAssumption, InputAssumption

-----------------------------------------------------------------------------
(* Types *)

(* Constructing a report keeps the heap and the actor's part well typed. *)
LEMMA AnnounceType ==
    ASSUME TypeOK, NEW t \in Task \ {"INIT"}, Announce(t)
    PROVE  /\ task' \in Task
           /\ mem' \in [Addr -> Report]
           /\ live' \subseteq Addr
           /\ fresh' \in Pointer
           /\ apc' \in {"exchange", "run"}
<1>1. StatusOf(t) \in Status /\ iterations \in Nat
  BY DEF StatusOf, Status, Task, AllCommands, ClientCommands, Toggles, Events, TypeOK
<1>2. [status |-> StatusOf(t), iterations |-> iterations] \in Report
  BY <1>1 DEF Report
<1> QED  BY <1>2 DEF Announce, TypeOK, Pointer, heap

(* The actor as sphactor_actor_new leaves it is well typed. *)
LEMMA TypeInit == Init => TypeOK
<1> SUFFICES ASSUME Init PROVE TypeOK
  OBVIOUS
<1>1. [status |-> "INIT", iterations |-> 0] \in Report
  BY DEF Report, Status
<1>2. mem \in [Addr -> Report]
  BY <1>1 DEF Init
<1>3. pipe \in Seq(AllCommands)
  BY DEF Init
<1>4. slot \in Addr /\ live \subseteq Addr
  BY DEF Init
<1> QED  BY <1>2, <1>3, <1>4 DEF Init, TypeOK, Pointer, Task

(* No step of either thread breaks the types. *)
LEMMA TypeStep == TypeOK /\ [Next]_vars => TypeOK'
<1> SUFFICES ASSUME TypeOK, [Next]_vars PROVE TypeOK'
  OBVIOUS
<1> USE DEF TypeOK
<1>1. CASE SetReport
  BY <1>1 DEF SetReport, heap, link, controller, Pointer
<1>2. CASE Release
  BY <1>2 DEF Release, shared, link, controller, Pointer
<1>3. CASE HandlerTakesReport
  BY <1>3 DEF HandlerTakesReport, heap, link, controller, Pointer
<1>4. CASE RunInit
  BY <1>4 DEF RunInit, heap, shared, link, controller
<1>5. CASE BeginIdle
  BY <1>5, AnnounceType DEF BeginIdle, shared, link, controller, Task
<1>6. CASE BeginLate
  BY <1>6 DEF BeginLate, heap, shared, link, controller, Task
<1>7. ASSUME NEW e \in Traffic, Receive(e) PROVE TypeOK'
  BY <1>7, AnnounceType DEF Receive, shared, link, controller, Task, Events
<1>33. ASSUME NEW c \in PeerCommands, ReceivePeer(c) PROVE TypeOK'
  BY <1>33, AnnounceType
  DEF ReceivePeer, shared, link, controller, Task, AllCommands, ClientCommands,
      Toggles
<1>8. CASE ReceiveCommand
  <2>1. Head(pipe) \in AllCommands /\ Tail(pipe) \in Seq(AllCommands)
    BY <1>8 DEF ReceiveCommand
  <2>2. Head(pipe) \in Task \ {"INIT"}
    BY <2>1 DEF Task, AllCommands, ClientCommands, Toggles
  <2> QED  BY <1>8, <2>1, <2>2, AnnounceType DEF ReceiveCommand, shared, controller
<1>9. CASE Interrupt
  BY <1>9, AnnounceType DEF Interrupt, link, controller, Task
<1>10. CASE RunEvent
  BY <1>10 DEF RunEvent, EndIteration, heap, shared, link, controller
<1>11a. CASE RunSetReporting
  <2>1. reporting' \in BOOLEAN
    BY <1>11a DEF RunSetReporting
  <2>2. EndIteration
    BY <1>11a DEF RunSetReporting
  <2>3. UNCHANGED <<mem, live, interrupted, slot, task, looping, fresh, prev,
                    pipe, reply, cpc, known, taken, latest>>
    BY <1>11a DEF RunSetReporting, heap, link, controller
  <2> QED  BY <2>1, <2>2, <2>3 DEF EndIteration
<1>11b. CASE RunInstance
  BY <1>11b DEF RunInstance, EndIteration, heap, shared, controller
<1>11c. CASE RunTerm
  <2>1. looping' \in BOOLEAN
    BY <1>11c DEF RunTerm
  <2>2. iterations' \in Nat /\ apc' = "top"
    BY <1>11c DEF RunTerm, EndIteration
  <2>3. UNCHANGED <<mem, live, interrupted, slot, reporting, task, fresh, prev,
                    pipe, reply, cpc, known, taken, latest>>
    BY <1>11c DEF RunTerm, heap, shared, link, controller
  <2> QED  BY <2>1, <2>2, <2>3
<1>11d. CASE RunOther
  BY <1>11d DEF RunOther, EndIteration, heap, shared, link, controller
<1>34. CASE RefusePeer
  BY <1>34 DEF RefusePeer, EndIteration, heap, shared, link, controller
<1>12. CASE RunStopCommand
  BY <1>12, AnnounceType DEF RunStopCommand, shared, link, controller, Task
<1>13. CASE BeginStop
  BY <1>13, AnnounceType DEF BeginStop, shared, link, controller, Task
<1>14. CASE ResumeLoop
  BY <1>14 DEF ResumeLoop, EndIteration, heap, shared, link, controller
<1>15. CASE BeginDestroy
  BY <1>15, AnnounceType DEF BeginDestroy, shared, link, controller, Task
<1>16. CASE RunDestroy
  BY <1>16 DEF RunDestroy, heap, shared, link, controller
<1>17. CASE Reclaim
  BY <1>17 DEF Reclaim, heap, link, controller, Pointer
<1>18. CASE DiscardLast
  BY <1>18 DEF DiscardLast, shared, link, controller, Pointer
<1>19. CASE FreeSelf
  BY <1>19 DEF FreeSelf, heap, link, controller, Pointer
<1>20. CASE AskReport
  BY <1>20 DEF AskReport, Send, heap, shared, actor, AllCommands
<1>21. CASE LearnInstance
  BY <1>21 DEF LearnInstance, heap, shared, actor
<1>22. CASE CheckReporting
  BY <1>22 DEF CheckReporting, heap, shared, actor, link
<1>23. CASE TakeReport
  BY <1>23 DEF TakeReport, heap, actor, link, Pointer
<1>24. CASE InstallLatest
  BY <1>24 DEF InstallLatest, shared, actor, link, Pointer
<1>25. ASSUME NEW c \in Commands, SendCommand(c) PROVE TypeOK'
  BY <1>25 DEF SendCommand, Send, heap, shared, actor, controller, AllCommands
<1>26. CASE ReadFreed
  BY <1>26 DEF ReadFreed, heap, shared, actor, link
<1>27. CASE Destroy
  BY <1>27 DEF Destroy, Send, heap, shared, actor, AllCommands
<1>28. CASE Join
  BY <1>28 DEF Join, shared, actor, link, Pointer
<1>29. CASE UNCHANGED vars
  BY <1>29 DEF vars, heap, shared, actor, link, controller
<1> QED
  BY <1>1, <1>2, <1>3, <1>4, <1>5, <1>6, <1>7, <1>8, <1>9, <1>10, <1>11a, <1>11b,
     <1>11c, <1>11d,
     <1>12, <1>13, <1>14, <1>15, <1>16, <1>17, <1>18, <1>19, <1>20, <1>21,
     <1>22, <1>23, <1>24, <1>25, <1>26, <1>27, <1>28, <1>29, <1>33, <1>34
  DEF Next, ActorNext, ControllerNext, Done

(* The types are right in every reachable state. *)
THEOREM TypeCorrect == Spec => []TypeOK
BY TypeInit, TypeStep, PTL DEF Spec

-----------------------------------------------------------------------------
(* Ownership *)

(* A new block has one owner, and no other block changes hands. *)
LEMMA AnnounceOwned ==
    ASSUME TypeOK, Owned, apc \in {"run", "top"}, NEW t, Announce(t),
           UNCHANGED <<slot, reporting, prev, cpc, taken, latest>>
    PROVE  Owned'
<1>1. CASE UNCHANGED <<heap, fresh>> /\ apc' = "run"
  BY <1>1 DEF Owned, Places, Ownership, Accounted, Held, Alive, heap
<1>2. ASSUME NEW a \in Addr \ live, fresh' = a, live' = live \cup {a},
             apc' = "exchange"
      PROVE  Owned'
  <2>1. fresh = NULL /\ a # NULL
    BY DEF Owned, Places
  <2>2. Places'
    BY <1>2, <2>1 DEF Owned, Places
  <2>3. Ownership'
    BY <1>2, <2>1 DEF Owned, Ownership, Held
  <2>4. Accounted'
    BY <1>2, <2>1 DEF Owned, Accounted, Held, Alive
  <2> QED  BY <2>2, <2>3, <2>4 DEF Owned
<1> QED  BY <1>1, <1>2 DEF Announce

(* No step of either thread makes a block change hands wrongly: the        *)
(* exchanges move a block from one owner to the other, the frees release   *)
(* one that has no other owner.                                            *)
LEMMA OwnedStep == TypeOK /\ Owned /\ [Next]_vars => Owned'
<1> SUFFICES ASSUME TypeOK, Owned, [Next]_vars PROVE Owned'
  OBVIOUS
<1> USE DEF Owned, Places, Ownership, Accounted, Held, Alive
<1>1. CASE SetReport
  BY <1>1 DEF SetReport, heap, shared, actor, link, controller
<1>2. CASE Release
  BY <1>2 DEF Release, heap, shared, actor, link, controller
<1>3. CASE HandlerTakesReport
  BY <1>3 DEF HandlerTakesReport, heap, shared, actor, link, controller
<1>4. CASE RunInit
  BY <1>4 DEF RunInit, heap, shared, actor, link, controller
<1>5. CASE BeginIdle
  BY <1>5, AnnounceOwned DEF BeginIdle, shared, link, controller
<1>6. CASE BeginLate
  BY <1>6 DEF BeginLate, heap, shared, actor, link, controller
<1>7. ASSUME NEW e \in Traffic, Receive(e) PROVE Owned'
  BY <1>7, AnnounceOwned DEF Receive, shared, link, controller
<1>33. ASSUME NEW c \in PeerCommands, ReceivePeer(c) PROVE Owned'
  BY <1>33, AnnounceOwned DEF ReceivePeer, shared, link, controller
<1>8. CASE ReceiveCommand
  BY <1>8, AnnounceOwned DEF ReceiveCommand, shared, link, controller
<1>9. CASE Interrupt
  BY <1>9, AnnounceOwned DEF Interrupt, shared, link, controller
<1>10. CASE RunEvent
  BY <1>10 DEF RunEvent, EndIteration, heap, shared, actor, link, controller
<1>11. CASE RunSetReporting
  BY <1>11 DEF RunSetReporting, EndIteration, heap, shared, actor, link, controller
<1>12. CASE RunInstance
  BY <1>12 DEF RunInstance, EndIteration, heap, shared, actor, link, controller
<1>13. CASE RunTerm
  BY <1>13 DEF RunTerm, EndIteration, heap, shared, actor, link, controller
<1>14. CASE RunOther
  BY <1>14 DEF RunOther, EndIteration, heap, shared, actor, link, controller
<1>34. CASE RefusePeer
  BY <1>34 DEF RefusePeer, EndIteration, heap, shared, actor, link, controller
<1>15. CASE RunStopCommand
  BY <1>15, AnnounceOwned DEF RunStopCommand, shared, link, controller
<1>16. CASE BeginStop
  BY <1>16, AnnounceOwned DEF BeginStop, shared, link, controller
<1>17. CASE ResumeLoop
  BY <1>17 DEF ResumeLoop, EndIteration, heap, shared, actor, link, controller
<1>18. CASE BeginDestroy
  BY <1>18, AnnounceOwned DEF BeginDestroy, shared, link, controller
<1>19. CASE RunDestroy
  BY <1>19 DEF RunDestroy, heap, shared, actor, link, controller
<1>20. CASE Reclaim
  BY <1>20 DEF Reclaim, heap, shared, actor, link, controller
<1>21. CASE DiscardLast
  BY <1>21 DEF DiscardLast, heap, shared, actor, link, controller
<1>22. CASE FreeSelf
  BY <1>22 DEF FreeSelf, heap, shared, actor, link, controller
<1>23. CASE AskReport
  BY <1>23 DEF AskReport, heap, shared, actor, link, controller
<1>24. CASE LearnInstance
  BY <1>24 DEF LearnInstance, heap, shared, actor, link, controller
<1>25. CASE CheckReporting
  BY <1>25 DEF CheckReporting, heap, shared, actor, link, controller
<1>26. CASE TakeReport
  BY <1>26 DEF TakeReport, heap, shared, actor, link, controller
<1>27. CASE InstallLatest
  BY <1>27 DEF InstallLatest, heap, shared, actor, link, controller
<1>28. ASSUME NEW c \in Commands, SendCommand(c) PROVE Owned'
  BY <1>28 DEF SendCommand, heap, shared, actor, link, controller
<1>29. CASE ReadFreed
  BY <1>29 DEF ReadFreed, heap, shared, actor, link, controller
<1>30. CASE Destroy
  BY <1>30 DEF Destroy, heap, shared, actor, link, controller
<1>31. CASE Join
  BY <1>31 DEF Join, heap, shared, actor, link, controller
<1>32. CASE UNCHANGED vars
  BY <1>32 DEF vars, heap, shared, actor, link, controller
<1> QED
  BY <1>1, <1>2, <1>3, <1>4, <1>5, <1>6, <1>7, <1>8, <1>9, <1>10, <1>11, <1>12,
     <1>13, <1>14, <1>15, <1>16, <1>17, <1>18, <1>19, <1>20, <1>21, <1>22, <1>23,
     <1>24, <1>25, <1>26, <1>27, <1>28, <1>29, <1>30, <1>31, <1>32, <1>33, <1>34
  DEF Next, ActorNext, ControllerNext, Done

-----------------------------------------------------------------------------
(* The end of the actor's thread *)

(* A command other than $TERM keeps $TERM out of the pipe. *)
LEMMA AppendKeepsTermOut ==
    ASSUME pipe \in Seq(AllCommands), NEW c \in AllCommands, c # "$TERM",
           \A i \in 1 .. Len(pipe) : pipe[i] # "$TERM",
           pipe' = Append(pipe, c)
    PROVE  \A i \in 1 .. Len(pipe') : pipe'[i] # "$TERM"
OBVIOUS

(* Only $TERM and a signal end the loop, and only sphactor_destroy sends    *)
(* $TERM.                                                                  *)
LEMMA EndingStep == TypeOK /\ Ending /\ [Next]_vars => Ending'
<1> SUFFICES ASSUME TypeOK, Ending, [Next]_vars PROVE Ending'
  OBVIOUS
<1> USE DEF Ending
<1>1. CASE SetReport
  BY <1>1 DEF SetReport, heap, shared, actor, link, controller
<1>2. CASE Release
  BY <1>2 DEF Release, heap, shared, actor, link, controller
<1>3. CASE HandlerTakesReport
  BY <1>3 DEF HandlerTakesReport, heap, shared, actor, link, controller
<1>4. CASE RunInit
  BY <1>4 DEF RunInit, heap, shared, actor, link, controller
<1>5. CASE BeginIdle
  BY <1>5 DEF BeginIdle, Announce, heap, shared, actor, link, controller
<1>6. CASE BeginLate
  BY <1>6 DEF BeginLate, heap, shared, actor, link, controller
<1>7. ASSUME NEW e \in Traffic, Receive(e) PROVE Ending'
  BY <1>7 DEF Receive, Announce, Events, heap, shared, actor, link, controller
<1>33. ASSUME NEW c \in PeerCommands, ReceivePeer(c) PROVE Ending'
  BY <1>33 DEF ReceivePeer, Announce, ClientCommands, Toggles, heap, shared, actor,
     link, controller
<1>8. CASE ReceiveCommand
  <2>1. /\ pipe \in Seq(AllCommands) /\ pipe # <<>>
        /\ Head(pipe) = pipe[1] /\ 1 \in 1 .. Len(pipe)
        /\ \A i \in 1 .. Len(Tail(pipe)) :
              i + 1 \in 1 .. Len(pipe) /\ Tail(pipe)[i] = pipe[i + 1]
        /\ Head(pipe) \in AllCommands
    BY <1>8 DEF ReceiveCommand, TypeOK
  <2>2. Head(pipe) # "DESTROY"
    BY <2>1 DEF AllCommands, ClientCommands, Toggles
  <2> QED  BY <1>8, <2>1, <2>2
           DEF ReceiveCommand, Announce, heap, shared, actor, link, controller
<1>9. CASE Interrupt
  BY <1>9 DEF Interrupt, Announce, heap, shared, actor, link, controller
<1>10. CASE RunEvent
  BY <1>10 DEF RunEvent, EndIteration, heap, shared, actor, link, controller
<1>11. CASE RunSetReporting
  BY <1>11 DEF RunSetReporting, EndIteration, heap, shared, actor, link, controller
<1>12. CASE RunInstance
  BY <1>12 DEF RunInstance, EndIteration, heap, shared, actor, link, controller
<1>13. CASE RunTerm
  BY <1>13 DEF RunTerm, EndIteration, heap, shared, actor, link, controller
<1>14. CASE RunOther
  BY <1>14 DEF RunOther, EndIteration, heap, shared, actor, link, controller
<1>34. CASE RefusePeer
  BY <1>34 DEF RefusePeer, EndIteration, heap, shared, actor, link, controller
<1>15. CASE RunStopCommand
  BY <1>15 DEF RunStopCommand, Announce, heap, shared, actor, link, controller
<1>16. CASE BeginStop
  BY <1>16 DEF BeginStop, Announce, heap, shared, actor, link, controller
<1>17. CASE ResumeLoop
  BY <1>17 DEF ResumeLoop, EndIteration, heap, shared, actor, link, controller
<1>18. CASE BeginDestroy
  BY <1>18 DEF BeginDestroy, Announce, heap, shared, actor, link, controller
<1>19. CASE RunDestroy
  BY <1>19 DEF RunDestroy, heap, shared, actor, link, controller
<1>20. CASE Reclaim
  BY <1>20 DEF Reclaim, heap, shared, actor, link, controller
<1>21. CASE DiscardLast
  BY <1>21 DEF DiscardLast, heap, shared, actor, link, controller
<1>22. CASE FreeSelf
  BY <1>22 DEF FreeSelf, heap, shared, actor, link, controller
<1>23. CASE AskReport
  BY <1>23, AppendKeepsTermOut
  DEF AskReport, Send, TypeOK, heap, shared, actor, link, controller
<1>24. CASE LearnInstance
  BY <1>24 DEF LearnInstance, heap, shared, actor, link, controller
<1>25. CASE CheckReporting
  BY <1>25 DEF CheckReporting, heap, shared, actor, link, controller
<1>26. CASE TakeReport
  BY <1>26 DEF TakeReport, heap, shared, actor, link, controller
<1>27. CASE InstallLatest
  BY <1>27 DEF InstallLatest, heap, shared, actor, link, controller
<1>28. ASSUME NEW c \in Commands, SendCommand(c) PROVE Ending'
  BY <1>28, AppendKeepsTermOut DEF SendCommand, Send, TypeOK, AllCommands,
     ClientCommands, Toggles, heap, shared, actor, link, controller
<1>29. CASE ReadFreed
  BY <1>29 DEF ReadFreed, heap, shared, actor, link, controller
<1>30. CASE Destroy
  BY <1>30 DEF Destroy, heap, shared, actor, link, controller
<1>31. CASE Join
  BY <1>31 DEF Join, heap, shared, actor, link, controller
<1>32. CASE UNCHANGED vars
  BY <1>32 DEF vars, heap, shared, actor, link, controller
<1> QED
  BY <1>1, <1>2, <1>3, <1>4, <1>5, <1>6, <1>7, <1>8, <1>9, <1>10, <1>11,
     <1>12, <1>13, <1>14, <1>15, <1>16, <1>17, <1>18, <1>19, <1>20, <1>21,
     <1>22, <1>23, <1>24, <1>25, <1>26, <1>27, <1>28, <1>29, <1>30, <1>31,
     <1>32, <1>33, <1>34
  DEF Next, ActorNext, ControllerNext, Done

-----------------------------------------------------------------------------
(* What the reports say *)

(* Constructing a report writes to a block nobody holds. *)
LEMMA AnnounceKeeps ==
    ASSUME TypeOK, Owned, NEW t, Announce(t)
    PROVE  /\ \A p \in live : mem'[p] = mem[p]
           /\ slot # NULL => mem'[slot] = mem[slot]
           /\ taken # NULL => mem'[taken] = mem[taken]
           /\ latest # NULL => mem'[latest] = mem[latest]
<1>1. \A p \in live : mem'[p] = mem[p]
  BY DEF TypeOK, Announce, heap
<1> QED  BY <1>1 DEF Owned, Ownership, Held

(* The report constructed says what the actor is about to do, and when. *)
LEMMA AnnounceContents ==
    ASSUME TypeOK, NEW t \in Task \ {"INIT"}, Announce(t), apc' = "exchange"
    PROVE  /\ mem'[fresh'].status # "INIT"
           /\ mem'[fresh'].iterations = iterations
<1>1. StatusOf(t) # "INIT"
  BY DEF StatusOf
<1> QED  BY <1>1 DEF TypeOK, Announce

(* Constructing a report about anything but INIT keeps InitGone. *)
LEMMA AnnounceInitGone ==
    ASSUME TypeOK, Owned, InitGone, NeverSeesInit, apc \in {"run", "top"},
           NEW t \in Task \ {"INIT"}, Announce(t),
           UNCHANGED <<slot, reporting, reply, known, cpc, taken, latest>>
    PROVE  InitGone' /\ NeverSeesInit'
<1>1. NeverSeesInit'
  BY AnnounceKeeps DEF NeverSeesInit
<1>2. apc' = "exchange" => mem'[fresh'].status # "INIT"
  BY AnnounceContents
<1>3. reporting => apc' = "exchange"
  BY DEF Announce
<1> QED  BY <1>1, <1>2, <1>3, AnnounceKeeps DEF InitGone

(* The INIT report leaves the slot before anybody knows the actor. *)
LEMMA InitGoneStep ==
    TypeOK /\ Owned /\ InitGone /\ NeverSeesInit /\ [Next]_vars
        => InitGone' /\ NeverSeesInit'
<1> SUFFICES ASSUME TypeOK, Owned, InitGone, NeverSeesInit, [Next]_vars
             PROVE  InitGone' /\ NeverSeesInit'
  OBVIOUS
<1> USE DEF InitGone, NeverSeesInit
<1>1. CASE SetReport
  BY <1>1 DEF SetReport, Owned, Places, heap, shared, actor, link, controller
<1>2. CASE Release
  BY <1>2 DEF Release, Owned, Places, heap, shared, actor, link, controller
<1>3. CASE HandlerTakesReport
  BY <1>3
  DEF HandlerTakesReport, Owned, Places, heap, shared, actor, link, controller
<1>4. CASE RunInit
  BY <1>4 DEF RunInit, Owned, Places, heap, shared, actor, link, controller
<1>5. CASE BeginIdle
  BY <1>5, AnnounceInitGone
  DEF BeginIdle, Task, heap, shared, actor, link, controller
<1>6. CASE BeginLate
  BY <1>6 DEF BeginLate, Owned, Places, heap, shared, actor, link, controller
<1>7. ASSUME NEW e \in Traffic, Receive(e) PROVE InitGone' /\ NeverSeesInit'
  BY <1>7, AnnounceInitGone
  DEF Receive, Task, Events, heap, shared, actor, link, controller
<1>33. ASSUME NEW c \in PeerCommands, ReceivePeer(c) PROVE InitGone' /\ NeverSeesInit'
  BY <1>33, AnnounceInitGone
  DEF ReceivePeer, Task, AllCommands, ClientCommands, Toggles, heap, shared, actor,
      link, controller
<1>8. CASE ReceiveCommand
  <2>1. Head(pipe) \in AllCommands
    BY <1>8 DEF ReceiveCommand, TypeOK
  <2>2. Head(pipe) \in Task \ {"INIT"}
    BY <2>1 DEF Task, AllCommands, ClientCommands, Toggles
  <2> QED  BY <1>8, <2>2, AnnounceInitGone
           DEF ReceiveCommand, heap, shared, actor, link, controller
<1>9. CASE Interrupt
  BY <1>9, AnnounceInitGone
  DEF Interrupt, Task, heap, shared, actor, link, controller
<1>10. CASE RunEvent
  BY <1>10 DEF RunEvent, EndIteration, Events, heap, shared, actor, link, controller
<1>11. CASE RunSetReporting
  BY <1>11
  DEF RunSetReporting, EndIteration, Owned, Places, heap, shared, actor, link,
      controller
<1>12. CASE RunInstance
  BY <1>12
  DEF RunInstance, EndIteration, Owned, Places, heap, shared, actor, link,
      controller
<1>13. CASE RunTerm
  BY <1>13
  DEF RunTerm, EndIteration, Owned, Places, heap, shared, actor, link, controller
<1>14. CASE RunOther
  BY <1>14
  DEF RunOther, EndIteration, Owned, Places, heap, shared, actor, link, controller
<1>34. CASE RefusePeer
  BY <1>34
  DEF RefusePeer, EndIteration, Owned, Places, heap, shared, actor, link, controller
<1>15. CASE RunStopCommand
  BY <1>15, AnnounceInitGone
  DEF RunStopCommand, Task, heap, shared, actor, link, controller
<1>16. CASE BeginStop
  BY <1>16, AnnounceInitGone
  DEF BeginStop, Task, heap, shared, actor, link, controller
<1>17. CASE ResumeLoop
  BY <1>17
  DEF ResumeLoop, EndIteration, Owned, Places, heap, shared, actor, link, controller
<1>18. CASE BeginDestroy
  BY <1>18, AnnounceInitGone
  DEF BeginDestroy, Task, heap, shared, actor, link, controller
<1>19. CASE RunDestroy
  BY <1>19 DEF RunDestroy, Owned, Places, heap, shared, actor, link, controller
<1>20. CASE Reclaim
  BY <1>20 DEF Reclaim, Owned, Places, heap, shared, actor, link, controller
<1>21. CASE DiscardLast
  BY <1>21 DEF DiscardLast, Owned, Places, heap, shared, actor, link, controller
<1>22. CASE FreeSelf
  BY <1>22 DEF FreeSelf, Owned, Places, heap, shared, actor, link, controller
<1>23. CASE AskReport
  BY <1>23 DEF AskReport, Owned, Places, heap, shared, actor, link, controller
<1>24. CASE LearnInstance
  BY <1>24 DEF LearnInstance, Owned, Places, heap, shared, actor, link, controller
<1>25. CASE CheckReporting
  BY <1>25 DEF CheckReporting, Owned, Places, heap, shared, actor, link, controller
<1>26. CASE TakeReport
  BY <1>26 DEF TakeReport, Owned, Places, heap, shared, actor, link, controller
<1>27. CASE InstallLatest
  BY <1>27 DEF InstallLatest, Owned, Places, heap, shared, actor, link, controller
<1>28. ASSUME NEW c \in Commands, SendCommand(c) PROVE InitGone' /\ NeverSeesInit'
  BY <1>28 DEF SendCommand, Owned, Places, heap, shared, actor, link, controller
<1>29. CASE ReadFreed
  BY <1>29 DEF ReadFreed, Owned, Places, heap, shared, actor, link, controller
<1>30. CASE Destroy
  BY <1>30 DEF Destroy, Owned, Places, heap, shared, actor, link, controller
<1>31. CASE Join
  BY <1>31 DEF Join, Owned, Places, heap, shared, actor, link, controller
<1>32. CASE UNCHANGED vars
  BY <1>32 DEF vars, heap, shared, actor, link, controller
<1> QED
  BY <1>1, <1>2, <1>3, <1>4, <1>5, <1>6, <1>7, <1>8, <1>9, <1>10, <1>11,
     <1>12, <1>13, <1>14, <1>15, <1>16, <1>17, <1>18, <1>19, <1>20, <1>21,
     <1>22, <1>23, <1>24, <1>25, <1>26, <1>27, <1>28, <1>29, <1>30, <1>31,
     <1>32, <1>33, <1>34
  DEF Next, ActorNext, ControllerNext, Done

(* The report constructed is the newest there is. *)
LEMMA AnnounceInOrder ==
    ASSUME TypeOK, Owned, InOrder, NEW t \in Task \ {"INIT"}, Announce(t),
           UNCHANGED <<slot, iterations, taken, latest>>
    PROVE  InOrder'
<1>1. apc' = "exchange" => mem'[fresh'].iterations = iterations
  BY AnnounceContents
<1> QED  BY <1>1, AnnounceKeeps DEF InOrder

(* The exchanges and the controller's installation keep the reports in     *)
(* order, and an iteration that ends makes all of them older.              *)
LEMMA InOrderStep == TypeOK /\ Owned /\ InOrder /\ [Next]_vars => InOrder'
<1> SUFFICES ASSUME TypeOK, Owned, InOrder, [Next]_vars PROVE InOrder'
  OBVIOUS
<1>0. \A p \in Addr : mem[p].iterations \in Nat
  BY DEF TypeOK, Report
<1> USE <1>0 DEF InOrder
<1>1. CASE SetReport
  BY <1>1
  DEF SetReport, TypeOK, Pointer, Owned, Places, heap, shared, actor, link,
      controller
<1>2. CASE Release
  BY <1>2
  DEF Release, TypeOK, Pointer, Owned, Places, heap, shared, actor, link, controller
<1>3. CASE HandlerTakesReport
  BY <1>3
  DEF HandlerTakesReport, TypeOK, Pointer, Owned, Places, heap, shared, actor, link,
      controller
<1>4. CASE RunInit
  BY <1>4
  DEF RunInit, TypeOK, Pointer, Owned, Places, heap, shared, actor, link, controller
<1>5. CASE BeginIdle
  BY <1>5, AnnounceInOrder
  DEF BeginIdle, Task, heap, shared, actor, link, controller
<1>6. CASE BeginLate
  BY <1>6
  DEF BeginLate, TypeOK, Pointer, Owned, Places, heap, shared, actor, link,
      controller
<1>7. ASSUME NEW e \in Traffic, Receive(e) PROVE InOrder'
  BY <1>7, AnnounceInOrder
  DEF Receive, Task, Events, heap, shared, actor, link, controller
<1>33. ASSUME NEW c \in PeerCommands, ReceivePeer(c) PROVE InOrder'
  BY <1>33, AnnounceInOrder
  DEF ReceivePeer, Task, AllCommands, ClientCommands, Toggles, heap, shared, actor,
      link, controller
<1>8. CASE ReceiveCommand
  <2>1. Head(pipe) \in AllCommands
    BY <1>8 DEF ReceiveCommand, TypeOK
  <2>2. Head(pipe) \in Task \ {"INIT"}
    BY <2>1 DEF Task, AllCommands, ClientCommands, Toggles
  <2> QED  BY <1>8, <2>2, AnnounceInOrder
           DEF ReceiveCommand, heap, shared, actor, link, controller
<1>9. CASE Interrupt
  BY <1>9, AnnounceInOrder
  DEF Interrupt, Task, heap, shared, actor, link, controller
<1>10. CASE RunEvent
  BY <1>10
  DEF RunEvent, EndIteration, TypeOK, Pointer, Owned, Places, heap, shared, actor,
      link, controller
<1>11. CASE RunSetReporting
  <2>1. EndIteration /\ UNCHANGED <<mem, slot, taken, latest>>
    BY <1>11 DEF RunSetReporting, heap, shared, actor, link, controller
  <2> QED  BY <2>1 DEF EndIteration, TypeOK, Pointer
<1>12. CASE RunInstance
  BY <1>12
  DEF RunInstance, EndIteration, TypeOK, Pointer, Owned, Places, heap, shared,
      actor, link, controller
<1>13. CASE RunTerm
  BY <1>13
  DEF RunTerm, EndIteration, TypeOK, Pointer, Owned, Places, heap, shared, actor,
      link, controller
<1>14. CASE RunOther
  BY <1>14
  DEF RunOther, EndIteration, TypeOK, Pointer, Owned, Places, heap, shared, actor,
      link, controller
<1>34. CASE RefusePeer
  BY <1>34
  DEF RefusePeer, EndIteration, TypeOK, Pointer, Owned, Places, heap, shared, actor,
      link, controller
<1>15. CASE RunStopCommand
  BY <1>15, AnnounceInOrder
  DEF RunStopCommand, Task, heap, shared, actor, link, controller
<1>16. CASE BeginStop
  BY <1>16, AnnounceInOrder
  DEF BeginStop, Task, heap, shared, actor, link, controller
<1>17. CASE ResumeLoop
  BY <1>17
  DEF ResumeLoop, EndIteration, TypeOK, Pointer, Owned, Places, heap, shared, actor,
      link, controller
<1>18. CASE BeginDestroy
  BY <1>18, AnnounceInOrder
  DEF BeginDestroy, Task, heap, shared, actor, link, controller
<1>19. CASE RunDestroy
  BY <1>19
  DEF RunDestroy, TypeOK, Pointer, Owned, Places, heap, shared, actor, link,
      controller
<1>20. CASE Reclaim
  BY <1>20
  DEF Reclaim, TypeOK, Pointer, Owned, Places, heap, shared, actor, link, controller
<1>21. CASE DiscardLast
  BY <1>21
  DEF DiscardLast, TypeOK, Pointer, Owned, Places, heap, shared, actor, link,
      controller
<1>22. CASE FreeSelf
  BY <1>22
  DEF FreeSelf, TypeOK, Pointer, Owned, Places, heap, shared, actor, link,
      controller
<1>23. CASE AskReport
  BY <1>23
  DEF AskReport, TypeOK, Pointer, Owned, Places, heap, shared, actor, link,
      controller
<1>24. CASE LearnInstance
  BY <1>24
  DEF LearnInstance, TypeOK, Pointer, Owned, Places, heap, shared, actor, link,
      controller
<1>25. CASE CheckReporting
  BY <1>25
  DEF CheckReporting, TypeOK, Pointer, Owned, Places, heap, shared, actor, link,
      controller
<1>26. CASE TakeReport
  BY <1>26
  DEF TakeReport, TypeOK, Pointer, Owned, Places, heap, shared, actor, link,
      controller
<1>27. CASE InstallLatest
  BY <1>27
  DEF InstallLatest, TypeOK, Pointer, Owned, Places, heap, shared, actor, link,
      controller
<1>28. ASSUME NEW c \in Commands, SendCommand(c) PROVE InOrder'
  BY <1>28
  DEF SendCommand, TypeOK, Pointer, Owned, Places, heap, shared, actor, link,
      controller
<1>29. CASE ReadFreed
  BY <1>29
  DEF ReadFreed, TypeOK, Pointer, Owned, Places, heap, shared, actor, link,
      controller
<1>30. CASE Destroy
  BY <1>30
  DEF Destroy, TypeOK, Pointer, Owned, Places, heap, shared, actor, link, controller
<1>31. CASE Join
  BY <1>31
  DEF Join, TypeOK, Pointer, Owned, Places, heap, shared, actor, link, controller
<1>32. CASE UNCHANGED vars
  BY <1>32 DEF vars, heap, shared, actor, link, controller
<1> QED
  BY <1>1, <1>2, <1>3, <1>4, <1>5, <1>6, <1>7, <1>8, <1>9, <1>10, <1>11,
     <1>12, <1>13, <1>14, <1>15, <1>16, <1>17, <1>18, <1>19, <1>20, <1>21,
     <1>22, <1>23, <1>24, <1>25, <1>26, <1>27, <1>28, <1>29, <1>30, <1>31,
     <1>32, <1>33, <1>34
  DEF Next, ActorNext, ControllerNext, Done

-----------------------------------------------------------------------------
(* How many reports there are *)

Few == IsFiniteSet(live) /\ Cardinality(live) <= 4

(* Four blocks are at most four. *)
LEMMA FourElements ==
    ASSUME NEW a, NEW b, NEW c, NEW d
    PROVE  IsFiniteSet({a, b, c, d}) /\ Cardinality({a, b, c, d}) <= 4
<1>1. IsFiniteSet({a}) /\ Cardinality({a}) = 1
  BY FS_Singleton
<1>2. IsFiniteSet({a, b}) /\ Cardinality({a, b}) \in 1 .. 2
  <2>1. {a} \cup {b} = {a, b}
    OBVIOUS
  <2> QED  BY <1>1, <2>1, FS_AddElement
<1>3. IsFiniteSet({a, b, c}) /\ Cardinality({a, b, c}) \in 1 .. 3
  <2>1. {a, b} \cup {c} = {a, b, c}
    OBVIOUS
  <2> QED  BY <1>2, <2>1, FS_AddElement
<1>4. /\ IsFiniteSet({a, b, c} \cup {d})
      /\ \/ Cardinality({a, b, c} \cup {d}) = Cardinality({a, b, c})
         \/ Cardinality({a, b, c} \cup {d}) = Cardinality({a, b, c}) + 1
  BY <1>3, FS_AddElement
<1>5. {a, b, c} \cup {d} = {a, b, c, d}
  OBVIOUS
<1> QED  BY <1>3, <1>4, <1>5

(* The five places hold four blocks at most: the actor has no report it    *)
(* constructed while it has one it took back.                              *)
LEMMA AliveFew == Owned /\ Alive => Few
<1> SUFFICES ASSUME Owned, Alive PROVE Few
  OBVIOUS
<1>1. \E mine : live \subseteq {slot, mine, taken, latest}
  <2>1. fresh = NULL \/ prev = NULL
    BY DEF Owned, Places
  <2> QED  BY <2>1 DEF Owned, Accounted, Held
<1>2. PICK mine : live \subseteq {slot, mine, taken, latest}
  BY <1>1
<1>3. IsFiniteSet(live)
  BY <1>2, FourElements, FS_Subset
<1>4. Cardinality(live) <= Cardinality({slot, mine, taken, latest})
  BY <1>2, FourElements, FS_Subset
<1>5. Cardinality(live) \in Nat /\ Cardinality({slot, mine, taken, latest}) \in Nat
  BY <1>3, FourElements, FS_CardinalityType
<1>6. Cardinality({slot, mine, taken, latest}) <= 4
  BY FourElements
<1> QED  BY <1>3, <1>4, <1>5, <1>6 DEF Few

(* Once the actor's structure is freed no report is constructed, whether   *)
(* or not one was lost with it.                                            *)
LEMMA GoneShrinks == ~Alive' /\ [Next]_vars => live' \subseteq live
<1> SUFFICES ASSUME ~Alive', [Next]_vars PROVE live' \subseteq live
  OBVIOUS
<1>1. ASSUME ActorNext PROVE live' \subseteq live
  <2>1. ASSUME NEW t, Announce(t) PROVE FALSE
    BY <2>1 DEF Announce, Alive
  <2> QED
    BY <1>1, <2>1
    DEF ActorNext, SetReport, Release, HandlerTakesReport, RunInit, BeginIdle,
        BeginLate, Receive, ReceivePeer, RefusePeer, ReceiveCommand, Interrupt,
        RunEvent, RunSetReporting,
        RunInstance, RunTerm, RunOther, RunStopCommand, BeginStop, ResumeLoop,
        BeginDestroy, RunDestroy, Reclaim, DiscardLast, FreeSelf, heap
<1>2. ASSUME ControllerNext PROVE live' \subseteq live
  BY <1>2
  DEF ControllerNext, AskReport, LearnInstance, CheckReporting, TakeReport,
      InstallLatest, SendCommand, ReadFreed, Destroy, Join, heap
<1>3. ASSUME UNCHANGED vars PROVE live' \subseteq live
  BY <1>3 DEF vars, heap
<1> QED  BY <1>1, <1>2, <1>3 DEF Next, Done

-----------------------------------------------------------------------------
(* The theorems *)

(* The inductive invariant holds when the actor has been created. *)
LEMMA InitIInv == Init => IInv
<1> SUFFICES ASSUME Init PROVE IInv
  OBVIOUS
<1>1. TypeOK
  BY TypeInit
<1>2. NULL \notin Addr /\ slot \in Addr /\ live = {slot} /\ Held = {slot}
  BY DEF Init, Held
<1>3. Owned
  BY <1>2 DEF Init, Owned, Places, Ownership, Accounted
<1>4. Ending
  BY DEF Init, Ending
<1>5. InitGone /\ NeverSeesInit
  BY DEF Init, InitGone, NeverSeesInit
<1>6. InOrder
  BY <1>2 DEF Init, InOrder
<1> QED  BY <1>1, <1>3, <1>4, <1>5, <1>6 DEF IInv

(* The inductive invariant holds in every reachable state. *)
THEOREM Invariance == Spec => []IInv
<1>1. IInv /\ [Next]_vars => IInv'
  BY TypeStep, OwnedStep, EndingStep, InitGoneStep, InOrderStep DEF IInv
<1> QED  BY InitIInv, <1>1, PTL DEF Spec

(* No report is ever owned twice or used after it was freed. *)
THEOREM OwnershipHolds == Spec => []Ownership
<1>1. IInv => Ownership
  BY DEF IInv, Owned
<1> QED  BY <1>1, Invariance, PTL

(* While reporting is on no report leaks, the destructor included. *)
THEOREM NothingLeaks == Spec => []NoOrphanWhileReporting
<1>1. IInv => NoOrphanWhileReporting
  BY DEF IInv, Owned, Accounted, NoOrphanWhileReporting
<1> QED  BY <1>1, Invariance, PTL

(* An actor never has more than four reports on the heap, in the states     *)
(* after it was freed too, when one it lost with reporting off may remain. *)
THEOREM AtMostFour == Spec => []FourReports
<1>1. Init => Few
  BY InitIInv, AliveFew DEF IInv, Init, Alive
<1>2. (Owned /\ Alive => Few)'
  BY AliveFew, PTL
<1>3. IInv /\ Few /\ IInv' /\ [Next]_vars => Few'
  <2> SUFFICES ASSUME IInv, Few, IInv', [Next]_vars PROVE Few'
    OBVIOUS
  <2>1. CASE Alive'
    BY <2>1, <1>2 DEF IInv
  <2>2. CASE ~Alive'
    <3>1. live' \subseteq live
      BY <2>2, GoneShrinks
    <3>2. IsFiniteSet(live') /\ Cardinality(live') <= Cardinality(live)
      BY <3>1, FS_Subset DEF Few
    <3>3. Cardinality(live) \in Nat /\ Cardinality(live') \in Nat
      BY <3>2, FS_CardinalityType DEF Few
    <3> QED  BY <3>2, <3>3 DEF Few
  <2> QED  BY <2>1, <2>2
<1>4. Few => FourReports
  BY DEF Few, FourReports
<1> QED  BY Invariance, <1>1, <1>3, <1>4, PTL DEF Spec

(* The controller never follows _sph_act to a freed actor, signals apart. *)
THEOREM NoDanglingInstance == Spec => []ActorOutlivesController
<1>1. IInv => ActorOutlivesController
  BY DEF IInv, Ending, ActorOutlivesController, Alive
<1> QED  BY <1>1, Invariance, PTL

(* The controller never sees the actor before its initialisation. *)
THEOREM InitIsNeverSeen == Spec => []NeverSeesInit
<1>1. IInv => NeverSeesInit
  BY DEF IInv
<1> QED  BY <1>1, Invariance, PTL

(* The report in the client's hands is immutable, and the next one is not  *)
(* older.                                                                  *)
THEOREM ReportsMoveForward == Spec => NeverBackwards
<1> DEFINE Forward ==
      latest # NULL /\ latest' # NULL =>
        IF latest' = latest
        THEN mem'[latest] = mem[latest]
        ELSE mem[latest].iterations <= mem'[latest'].iterations
<1>1. IInv /\ [Next]_vars => [Forward]_vars
  <2> SUFFICES ASSUME IInv, [Next]_vars PROVE Forward
    OBVIOUS
  <2>1. CASE InstallLatest
    BY <2>1 DEF InstallLatest, IInv, Owned, Places, Ownership, Held, InOrder
  <2>2. CASE UNCHANGED <<mem, latest>>
    BY <2>2
  <2>3. ASSUME NEW t, Announce(t), UNCHANGED latest PROVE Forward
    BY <2>3, AnnounceKeeps DEF IInv
  <2>4. CASE Join
    BY <2>4 DEF Join
  <2>5. \/ InstallLatest \/ Join \/ UNCHANGED <<mem, latest>>
        \/ \E t : Announce(t) /\ UNCHANGED latest
    <3>1. CASE ActorNext
      BY <3>1 DEF ActorNext, SetReport, Release, HandlerTakesReport, RunInit,
        BeginIdle, BeginLate, Receive, ReceivePeer, RefusePeer, ReceiveCommand,
        Interrupt, RunEvent,
        RunSetReporting, RunInstance, RunTerm, RunOther, RunStopCommand,
        BeginStop, ResumeLoop, BeginDestroy, RunDestroy, Reclaim, DiscardLast,
        FreeSelf, heap, controller
    <3>2. CASE ControllerNext
      BY <3>2 DEF ControllerNext, AskReport, LearnInstance, CheckReporting,
        TakeReport, SendCommand, ReadFreed, Destroy, heap, controller
    <3>3. CASE UNCHANGED vars
      BY <3>3 DEF vars, heap, controller
    <3> QED  BY <3>1, <3>2, <3>3 DEF Next, Done
  <2> QED  BY <2>1, <2>2, <2>3, <2>4, <2>5
<1> QED  BY <1>1, Invariance, PTL DEF Spec, NeverBackwards, Forward

(* A step that only constructs a report does not touch the mailbox. *)
LEMMA AnnounceStutters ==
    ASSUME TypeOK, Owned, NEW t, Announce(t),
           UNCHANGED <<slot, iterations, taken, latest>>
    PROVE  UNCHANGED Mailbox!vars
BY AnnounceKeeps DEF Mailbox!vars, Contents

(* The slot implements the mailbox. *)
THEOREM SlotIsMailbox == Spec => MailboxSpec
<1>1. Init => Mailbox!Init
  BY DEF Init, Mailbox!Init, Contents, Pointer
<1>2. IInv /\ [Next]_vars => [Mailbox!Next]_Mailbox!vars
  <2> SUFFICES ASSUME IInv, [Next]_vars
               PROVE  Mailbox!Next \/ UNCHANGED Mailbox!vars
    OBVIOUS
  <2>0. TypeOK /\ Owned /\ InOrder
    BY DEF IInv
  <2>1. ASSUME SetReport PROVE Mailbox!Publish
    <3>1. mem[fresh] = [status |-> mem[fresh].status, iterations |-> iterations]
      BY <2>0, <2>1 DEF SetReport, TypeOK, Report, InOrder, Owned, Places, Pointer
    <3>2. mem[fresh].status \in Status /\ fresh # NULL
      BY <2>0, <2>1 DEF SetReport, TypeOK, Report, Owned, Places, Pointer
    <3> QED
      BY <2>1, <3>1, <3>2
      DEF SetReport, Mailbox!Publish, Contents, heap, controller
  <2>2. ASSUME HandlerTakesReport \/ Reclaim
        PROVE  Mailbox!Discard \/ UNCHANGED Mailbox!vars
    <3>1. slot # NULL => mem[slot] # NULL
      BY <2>0 DEF TypeOK, Pointer
    <3> QED
      BY <2>2, <3>1
      DEF HandlerTakesReport, Reclaim, Mailbox!Discard, Mailbox!vars, Contents,
          heap, controller
  <2>3. ASSUME TakeReport PROVE Mailbox!Take \/ UNCHANGED Mailbox!vars
    <3>1. slot # NULL => mem[slot] # NULL
      BY <2>0 DEF TypeOK, Pointer
    <3>2. taken = NULL
      BY <2>0, <2>3 DEF TakeReport, Owned, Places
    <3> QED
      BY <2>3, <3>1, <3>2
      DEF TakeReport, Mailbox!Take, Mailbox!vars, Contents, heap, actor
  <2>4. ASSUME InstallLatest PROVE UNCHANGED Mailbox!vars
    BY <2>0, <2>4
    DEF InstallLatest, Mailbox!vars, Contents, shared, actor, Owned, Places
  <2>5. ASSUME Join PROVE Mailbox!Forget
    BY <2>0, <2>5
    DEF Join, Mailbox!Forget, Contents, shared, actor, Owned, Places
  <2>6. ASSUME iterations' = iterations + 1, UNCHANGED <<mem, slot, taken, latest>>
        PROVE  Mailbox!Work
    BY <2>6 DEF Mailbox!Work, Contents
  <2>7. ASSUME UNCHANGED <<mem, slot, iterations, taken, latest>>
        PROVE  UNCHANGED Mailbox!vars
    BY <2>7 DEF Mailbox!vars, Contents
  <2>8. ASSUME NEW t, Announce(t), UNCHANGED <<slot, iterations, taken, latest>>
        PROVE  UNCHANGED Mailbox!vars
    BY <2>0, <2>8, AnnounceStutters
  <2>9. ASSUME FreeSelf PROVE Mailbox!Discard \/ UNCHANGED Mailbox!vars
    <3>1. slot # NULL => mem[slot] # NULL
      BY <2>0 DEF TypeOK, Pointer
    <3> QED
      BY <2>9, <3>1
      DEF FreeSelf, Mailbox!Discard, Mailbox!vars, Contents, heap, controller
  <2>10. \/ SetReport \/ HandlerTakesReport \/ Reclaim \/ TakeReport
         \/ InstallLatest \/ Join \/ FreeSelf
         \/ iterations' = iterations + 1 /\ UNCHANGED <<mem, slot, taken, latest>>
         \/ UNCHANGED <<mem, slot, iterations, taken, latest>>
         \/ \E t : Announce(t) /\ UNCHANGED <<slot, iterations, taken, latest>>
    <3>1. CASE ActorNext
      BY <3>1 DEF ActorNext, Release, RunInit, EndIteration,
        BeginIdle, BeginLate, Receive, ReceivePeer, RefusePeer, ReceiveCommand,
        Interrupt, RunEvent,
        RunSetReporting, RunInstance, RunTerm, RunOther, RunStopCommand,
        BeginStop, ResumeLoop, BeginDestroy, RunDestroy, DiscardLast,
        heap, shared, controller
    <3>2. CASE ControllerNext
      BY <3>2 DEF ControllerNext, AskReport, LearnInstance, CheckReporting,
        SendCommand, ReadFreed, Destroy, heap, shared, actor, controller
    <3>3. CASE UNCHANGED vars
      BY <3>3 DEF vars, heap, shared, actor, controller
    <3> QED  BY <3>1, <3>2, <3>3 DEF Next, Done
  <2> QED
    BY <2>1, <2>2, <2>3, <2>4, <2>5, <2>6, <2>7, <2>8, <2>9, <2>10
    DEF Mailbox!Next
<1> QED  BY <1>1, <1>2, Invariance, PTL DEF Spec, MailboxSpec, Mailbox!Spec

=============================================================================
