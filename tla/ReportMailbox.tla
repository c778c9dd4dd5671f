--------------------------- MODULE ReportMailbox ---------------------------
(***************************************************************************)
(* What the status report of a sphactor promises, with no pointers in it.  *)
(*                                                                         *)
(* An actor publishes reports into a box that holds one report.  A new     *)
(* report replaces an unread one: the box is lossy but always fresh.  The  *)
(* controller takes the report out of the box and keeps it as its view     *)
(* until it takes the next one.  A report tells how many iterations the    *)
(* actor had completed when it was made, so taking reports never shows the *)
(* actor's past after its present.                                         *)
(*                                                                         *)
(* ReportSlot implements this with one atomic pointer shared by two        *)
(* threads and four places that may own a heap block.                      *)
(***************************************************************************)
EXTENDS Naturals

CONSTANTS Status,   \* the SPHACTOR_REPORT_* constants
          None      \* no report

VARIABLES
    box,    \* the report nobody has read yet, or None
    view,   \* the report the controller took last, or None
    work    \* iterations the actor has completed

vars == <<box, view, work>>

Report == [status : Status, iterations : Nat]

TypeOK ==
    /\ box \in Report \cup {None}
    /\ view \in Report \cup {None}
    /\ work \in Nat

Init ==
    /\ box = [status |-> "INIT", iterations |-> 0]
    /\ view = None
    /\ work = 0

-----------------------------------------------------------------------------

(* The actor describes itself; an unread report is replaced. *)
Publish ==
    /\ \E s \in Status : box' = [status |-> s, iterations |-> work]
    /\ UNCHANGED <<view, work>>

(* The actor completes an iteration of its loop. *)
Work ==
    /\ work' = work + 1
    /\ UNCHANGED <<box, view>>

(* The controller takes the unread report. *)
Take ==
    /\ box # None
    /\ view' = box
    /\ box' = None
    /\ UNCHANGED work

(* The actor takes its own report back: a handler reads it, or the actor   *)
(* is being destroyed.                                                     *)
Discard ==
    /\ box # None
    /\ box' = None
    /\ UNCHANGED <<view, work>>

(* The controller is destroyed and drops its view. *)
Forget ==
    /\ view' = None
    /\ UNCHANGED <<box, work>>

Next == Publish \/ Work \/ Take \/ Discard \/ Forget

Spec == Init /\ [][Next]_vars

-----------------------------------------------------------------------------

(* What is in the box is at least as recent as what the controller holds,  *)
(* and neither comes from the actor's future.                              *)
Chronological ==
    /\ box # None => box.iterations <= work
    /\ view # None => view.iterations <= work
    /\ box # None /\ view # None => view.iterations <= box.iterations

=============================================================================
