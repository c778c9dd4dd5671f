--------------------------- MODULE StageDocument ---------------------------
(***************************************************************************)
(* What a stage and its files promise: the scene (the actors of the stage, *)
(* each as a record of what is worth remembering of it) changes one actor  *)
(* at a time, is emptied as a whole, or is recalled from a file; and a     *)
(* file only ever becomes the scene as it is when it is saved, or a torn   *)
(* part of that when the program dies while it writes.  Saving leaves the  *)
(* scene alone.                                                            *)
(*                                                                         *)
(* Stage implements this with actors in threads of their own, copies of    *)
(* what they were told, a type registry and a working directory.           *)
(***************************************************************************)
CONSTANTS
    Dirs,      \* the directories; each holds at most one stage file
    NULL,      \* no file, no value
    Broken,    \* a file that cannot be recalled
    Uuids,     \* the actors
    Recallable,\* the parameters whose values a load tells
    Initial(_) \* the values an actor of a type starts with

VARIABLES scene, docs

vars == <<scene, docs>>

Empty == [u \in {} |-> NULL]

\* What of a stored actor comes back: the values a load tells.
Recalled(e) ==
    [e EXCEPT !.values = [p \in DOMAIN e.values |->
        IF p \in Recallable /\ e.values[p] # NULL
        THEN e.values[p] ELSE Initial(e.type)[p]]]

\* What is left of document d: all its actors, and the connections of some,
\* one perhaps not with all of them, or nothing that can be recalled.
CutShort(d, whole, last, part) ==
    [u \in DOMAIN d |-> [d[u] EXCEPT !.conns =
        IF u \in whole THEN @ ELSE IF u = last THEN part \cap @ ELSE {}]]
Torn(d) ==
    {Broken} \cup
    {CutShort(d, whole, last, part) :
        whole \in SUBSET DOMAIN d, last \in Uuids, part \in SUBSET Uuids}

Init ==
    /\ scene = Empty
    /\ docs = [d \in Dirs |-> NULL]

-----------------------------------------------------------------------------

(* One actor comes, goes or changes. *)
Edit ==
    /\ \E u \in DOMAIN scene \cup DOMAIN scene' :
        /\ DOMAIN scene' \ {u} = DOMAIN scene \ {u}
        /\ \A w \in DOMAIN scene \ {u} : scene'[w] = scene[w]
    /\ UNCHANGED docs

(* The stage is cleared, or the program ends. *)
Clear ==
    /\ scene' = Empty
    /\ UNCHANGED docs

(* The scene is written to a file. *)
Store ==
    /\ \E d \in Dirs : docs' = [docs EXCEPT ![d] = scene]
    /\ UNCHANGED scene

(* The program dies while it writes the scene. *)
Tear ==
    /\ \E d \in Dirs : \E t \in Torn(scene) : docs' = [docs EXCEPT ![d] = t]
    /\ scene' = Empty

(* A file is read: the actors of known types appear. *)
Recall ==
    /\ scene = Empty
    /\ \E d \in Dirs :
        /\ docs[d] \notin {NULL, Broken}
        /\ \E T \in SUBSET {docs[d][u].type : u \in DOMAIN docs[d]} :
            scene' = [u \in {w \in DOMAIN docs[d] : docs[d][w].type \in T} |->
                        Recalled(docs[d][u])]
    /\ UNCHANGED docs

Next == Edit \/ Clear \/ Store \/ Tear \/ Recall

Spec == Init /\ [][Next]_vars

=============================================================================
