------------------------------- MODULE Stage -------------------------------
(***************************************************************************)
(* A program with a stage: the registry of actor types, actors made by     *)
(* type, the stage that owns some of them, and the files it is saved to    *)
(* and loaded from (sph_stage.c, the configuration part of sphactor.c).    *)
(*                                                                         *)
(* All calls are made by the program's main thread.  The actors' threads   *)
(* are here only as what they have been told, since the asks and tells of  *)
(* Sphactor are answered in order; what remains asynchronous is the end of *)
(* an actor's sockets, which keep its endpoint for a while.                *)
(*                                                                         *)
(* Abstracted: an endpoint is its actor's UUID; a directory holds one      *)
(* stage file; a document is a function from UUIDs to entries.             *)
(***************************************************************************)
EXTENDS Naturals

CONSTANTS
    Uuids, Names,
    Types,      \* the actor types the program has handlers for
    Plain,      \* those without a capability
    Params,     \* the data items of a capability
    Preset,     \* those with a value to begin with
    Called,     \* those with an api_call
    Triggers,   \* those of the type trigger, which a load leaves alone
    Tunable,    \* those sphactor_ask_set_timeout tells: SET TIMEOUT
    Blobs,      \* those whose format is 'b', which is not supported
    Values, Default,
    Paths,      \* the file names the program uses
    Dirs, Home, \* directories, and where the program is started
    Nowhere,    \* a directory that does not exist
    Locate,     \* where a path leads from a working directory
    Garbage,    \* the text of a freed string
    Broken,     \* a file that cannot be loaded
    NULL,
    MaxPos,     \* bound: positions
    MaxCalls    \* bound: changes of actors, and saves

ASSUME StageAssumption ==
    /\ Plain \subseteq Types /\ Default \in Values
    /\ Preset \subseteq Params /\ Called \subseteq Params /\ Triggers \subseteq Params
    /\ Blobs \subseteq Called /\ Tunable \subseteq Called
    /\ NULL \notin Uuids \cup Names \cup Values \cup Paths \cup Dirs \cup {Garbage}
    /\ Garbage \notin Paths /\ Home \in Dirs /\ Nowhere \notin Dirs
    /\ MaxPos \in Nat /\ MaxCalls \in Nat
ASSUME PathAssumption == Locate \in [Paths -> [Dirs -> Dirs \cup {Nowhere}]]

VARIABLES
    registered,  \* the registered types, NULL before the first and after dispose
    actors,      \* the sphactors that exist
    lingering,   \* UUIDs of destroyed actors whose endpoint is still bound
    staged,      \* the actors the stage owns
    open,        \* is there a stage?
    config,      \* its config_path
    cwd,         \* the working directory
    docs,        \* the file of each directory, or NULL
    calls,       \* number of changes and saves so far
    origin,      \* history: the directory the stage was loaded from or saved to
    synced       \* history: the types known then, NULL if the stage was changed

program == <<registered, actors, lingering, staged, open, config, cwd>>
history == <<origin, synced>>
vars == <<program, docs, calls, history>>

Known == [Params -> Values \cup {NULL}]
Actor ==
    [type : Types, name : Names, asked : Names \cup {NULL}, pos : 0 .. MaxPos,
     conns : SUBSET Uuids, cache : Known, told : Known, direct : SUBSET Params]
Entry ==
    [type : Types, name : Names, pos : 0 .. MaxPos, conns : SUBSET Uuids,
     values : Known]

Empty == [u \in {} |-> NULL]

\* A file of entries that can be read.
IsDocument(doc) ==
    DOMAIN doc \subseteq Uuids /\ \A u \in DOMAIN doc : doc[u] \in Entry

\* Types: the stage owns actors that exist, and only while it is there.
TypeOK ==
    /\ registered = NULL \/ registered \subseteq Types
    /\ DOMAIN actors \subseteq Uuids
    /\ \A u \in DOMAIN actors : actors[u] \in Actor
    /\ lingering \subseteq Uuids \ DOMAIN actors
    /\ staged \subseteq DOMAIN actors
    /\ open \in BOOLEAN
    /\ ~open => staged = {} /\ config = NULL /\ origin = NULL
    /\ config \in Paths \cup {Garbage, NULL}
    /\ cwd \in Dirs
    /\ DOMAIN docs = Dirs
    /\ \A d \in Dirs : docs[d] \in {NULL, Broken} \/ IsDocument(docs[d])
    /\ calls \in 0 .. MaxCalls
    /\ origin \in Dirs \cup {NULL}
    /\ synced = NULL \/ synced \subseteq Types
    /\ synced # NULL => origin # NULL

Init ==
    /\ registered = NULL /\ actors = Empty /\ lingering = {}
    /\ staged = {} /\ open = FALSE /\ config = NULL /\ cwd = Home
    /\ docs = [d \in Dirs |-> NULL]
    /\ calls = 0 /\ origin = NULL /\ synced = NULL

-----------------------------------------------------------------------------
(* The registry *)

\* A change or a save, within the bound.
Call ==
    /\ calls < MaxCalls
    /\ calls' = calls + 1

Listed == IF registered = NULL THEN {} ELSE registered

(* sphactor_register; a type that is registered already is left alone. *)
Register(t) ==
    /\ t \notin Listed
    /\ registered' = Listed \cup {t}
    /\ UNCHANGED <<actors, lingering, staged, open, config, cwd, docs, calls, history>>

(* sphactor_unregister; "this will not touch running actors". *)
Unregister(t) ==
    /\ t \in Listed /\ Call
    /\ registered' = Listed \ {t}
    /\ UNCHANGED <<actors, lingering, staged, open, config, cwd, docs, history>>

Dispose ==
    /\ registered # NULL /\ Call
    /\ registered' = NULL
    /\ UNCHANGED <<actors, lingering, staged, open, config, cwd, docs, history>>

-----------------------------------------------------------------------------
(* The actors *)

\* The values an actor of type t starts with: sphactor_set_capability stores
\* what the capability says, and tells the actor all of it but the blobs.
Initial(t) ==
    [p \in Params |-> IF t \notin Plain /\ p \in Preset THEN Default ELSE NULL]
ToldOf(known) == [p \in Params |-> IF p \in Blobs THEN NULL ELSE known[p]]
Made(t, n) ==
    [type |-> t, name |-> n, asked |-> NULL, pos |-> 0, conns |-> {},
     cache |-> Initial(t), told |-> ToldOf(Initial(t)), direct |-> {}]

\* The name sphactor_ask_name returns: the actor's when it was first asked.
Shown(a) == IF a.asked = NULL THEN a.name ELSE a.asked

Changed(S) == IF S \cap staged = {} THEN synced ELSE NULL

(* sphactor_new_by_type, with a UUID that is not in use.  Other types give *)
(* NULL, and no registry at all fails an assertion (End).                  *)
NewActor(u, t, n) ==
    /\ u \notin DOMAIN actors \cup lingering
    /\ t \in Listed /\ Call
    /\ actors' = [w \in DOMAIN actors \cup {u} |->
                    IF w = u THEN Made(t, n) ELSE actors[w]]
    /\ UNCHANGED <<registered, lingering, staged, open, config, cwd, docs, history>>

\* sphactor_destroy of the actors in S: the threads are joined, but ZeroMQ
\* unbinds their endpoints in a thread of its own.
Destroyed(S) ==
    /\ actors' = [u \in DOMAIN actors \ S |-> actors[u]]
    /\ lingering' = lingering \cup S

(* The program destroys an actor that is not on the stage. *)
DestroyActor(u) ==
    /\ u \in DOMAIN actors \ staged /\ Call
    /\ Destroyed({u})
    /\ UNCHANGED <<registered, staged, open, config, cwd, docs, history>>

Reap(u) ==
    /\ u \in lingering
    /\ lingering' = lingering \ {u}
    /\ UNCHANGED <<registered, actors, staged, open, config, cwd, docs, calls, history>>

\* A change of one actor.
Change(u, a) ==
    /\ Call
    /\ actors' = [actors EXCEPT ![u] = a]
    /\ synced' = Changed({u})
    /\ UNCHANGED <<registered, lingering, staged, open, config, cwd, docs, origin>>

(* sphactor_ask_set_name tells the actor; the copy stays what it was. *)
SetName(u, n) == Change(u, [actors[u] EXCEPT !.name = n])
Move(u, pos) == Change(u, [actors[u] EXCEPT !.pos = pos])
(* sphactor_ask_connect: never to the actor itself. *)
Connect(u, w) == w # u /\ Change(u, [actors[u] EXCEPT !.conns = @ \cup {w}])
(* sphactor_ask_disconnect; from an actor that was destroyed since, ZeroMQ  *)
(* may find no connection, which fails an assertion (End).                 *)
Disconnect(u, w) ==
    w \in actors[u].conns /\ Change(u, [actors[u] EXCEPT !.conns = @ \ {w}])

(* Mutant: the value is stored but not sent. *)
AskApiStoring(u, p, v) ==
    Change(u, [actors[u] EXCEPT !.cache = [@ EXCEPT ![p] = v]])

(* sphactor_ask_api sends the value and stores it; for a blob it sends     *)
(* nothing, reports success and stores the value all the same.  (A format  *)
(* it does not know changes nothing.)                                      *)
AskApi(u, p, v) ==
    Change(u, [actors[u] EXCEPT
        !.cache = [@ EXCEPT ![p] = v],
        !.told = IF p \in Blobs THEN @ ELSE [@ EXCEPT ![p] = v],
        !.direct = IF p \in Blobs THEN @ ELSE @ \ {p}])

(* sphactor_ask_set_timeout tells the actor what a capability may have as  *)
(* well, as Pulse's has, and stores nothing.  (direct: history, what was   *)
(* last told so.)                                                          *)
SetTimeout(u, p, v) ==
    /\ p \in Tunable
    /\ Change(u, [actors[u] EXCEPT
        !.told = [@ EXCEPT ![p] = v], !.direct = @ \cup {p}])

\* sphactor_ask_name for the actors in S: the first answer is kept.
NamesAsked(S) ==
    [u \in DOMAIN actors |->
        IF u \in S THEN [actors[u] EXCEPT !.asked = Shown(actors[u])] ELSE actors[u]]

AskName(u) ==
    /\ actors[u].asked = NULL /\ Call
    /\ actors' = NamesAsked({u})
    /\ UNCHANGED <<registered, lingering, staged, open, config, cwd, docs, history>>

-----------------------------------------------------------------------------
(* The stage *)

NewStage ==
    /\ ~open /\ open' = TRUE
    /\ UNCHANGED <<registered, actors, lingering, staged, config, cwd, docs, calls, history>>

(* sph_stage_add_actor; an actor that is on the stage already is refused. *)
AddActor(u) ==
    /\ open /\ u \in DOMAIN actors \ staged
    /\ staged' = staged \cup {u}
    /\ synced' = NULL
    /\ UNCHANGED <<registered, actors, lingering, open, config, cwd, docs, calls, origin>>

(* Mutant: the actor is destroyed but stays in the stage's hash. *)
RemoveActorDangling(u) ==
    /\ u \in staged /\ Call
    /\ Destroyed({u})
    /\ synced' = NULL
    /\ UNCHANGED <<registered, staged, open, config, cwd, docs, origin>>

(* sph_stage_remove_actor destroys the actor; the connections others have  *)
(* to it stay.                                                             *)
RemoveActor(u) ==
    /\ u \in staged /\ Call
    /\ Destroyed({u})
    /\ staged' = staged \ {u}
    /\ synced' = NULL
    /\ UNCHANGED <<registered, open, config, cwd, docs, origin>>

(* sph_stage_clear keeps the stage and its path. *)
ClearStage ==
    /\ staged # {} /\ Call
    /\ Destroyed(staged)
    /\ staged' = {}
    /\ synced' = NULL
    /\ UNCHANGED <<registered, open, config, cwd, docs, origin>>

(* sph_stage_destroy *)
DestroyStage ==
    /\ open /\ open' = FALSE
    /\ Destroyed(staged)
    /\ staged' = {} /\ config' = NULL
    /\ origin' = NULL /\ synced' = NULL
    /\ UNCHANGED <<registered, cwd, docs, calls>>

(* The program ends, by itself, by a failed assertion or by a crash, and   *)
(* is started again.                                                       *)
Ended ==
    /\ registered' = NULL /\ actors' = Empty /\ lingering' = {}
    /\ staged' = {} /\ open' = FALSE /\ config' = NULL /\ cwd' = Home
    /\ origin' = NULL /\ synced' = NULL

End == Ended /\ UNCHANGED <<docs, calls>>

-----------------------------------------------------------------------------
(* Saving *)

\* sphactor_save: the values are the stored ones, and those of actors with
\* a capability only.
Saved(a) ==
    [type |-> a.type, name |-> Shown(a), pos |-> a.pos, conns |-> a.conns,
     values |-> IF a.type \in Plain THEN [p \in Params |-> NULL] ELSE a.cache]

Scene == [u \in staged |-> Saved(actors[u])]

(* Mutant: the connections of the actors are not written. *)
WriteWithoutConnections(d) ==
    /\ Call
    /\ docs' = [docs EXCEPT ![d] = [u \in staged |-> [Scene[u] EXCEPT !.conns = {}]]]
    /\ actors' = NamesAsked(staged)
    /\ origin' = d /\ synced' = Types
    /\ UNCHANGED <<registered, lingering, staged, open, cwd>>

(* The document is written, which asks the actors for their names. *)
Write(d) ==
    /\ Call
    /\ docs' = [docs EXCEPT ![d] = Scene]
    /\ actors' = NamesAsked(staged)
    /\ origin' = d /\ synced' = Types
    /\ UNCHANGED <<registered, lingering, staged, open, cwd>>

(* sph_stage_save_as *)
SaveAs(path) ==
    /\ open /\ Locate[path][cwd] # Nowhere
    /\ Write(Locate[path][cwd])
    /\ config' = path

(* sph_stage_save saves as its own path, which is freed before it is       *)
(* duplicated: what the stage has afterwards is whatever is there.         *)
Save ==
    /\ open /\ config \in Paths /\ Locate[config][cwd] # Nowhere
    /\ Write(Locate[config][cwd])
    /\ config' \in {config, Garbage}

(* It writes some other file under a name that is no longer the stage's.   *)
SaveAstray ==
    /\ config = Garbage
    /\ actors' = NamesAsked(staged)
    /\ UNCHANGED <<registered, lingering, staged, open, config, cwd, docs, calls, history>>

(* A file that cannot be written, or no path, fails an assertion. *)
SaveAborts ==
    /\ open
    /\ \/ config \in {NULL, Garbage}
       \/ \E path \in Paths : Locate[path][cwd] = Nowhere
    /\ End

\* What is left of document d: after all the actors come the connections of
\* one actor after the other, so a file that ends among the actors has no
\* connections, and sph_stage_cnf_load looks for the first one in nothing.
CutShort(d, whole, last, part) ==
    [u \in DOMAIN d |-> [d[u] EXCEPT !.conns =
        IF u \in whole THEN @ ELSE IF u = last THEN part \cap @ ELSE {}]]
Torn(d) ==
    {Broken} \cup
    {CutShort(d, whole, last, part) :
        whole \in SUBSET DOMAIN d, last \in Uuids, part \in SUBSET Uuids}

(* zconfig_save truncates the file and writes it in place: the program     *)
(* dies meanwhile.                                                         *)
DieSaving(path) ==
    /\ open /\ Locate[path][cwd] # Nowhere
    /\ Call
    /\ \E part \in Torn(Scene) : docs' = [docs EXCEPT ![Locate[path][cwd]] = part]
    /\ Ended

-----------------------------------------------------------------------------
(* Loading *)

\* The stored actors whose type is registered; the others are skipped.
Loadable(doc) == {u \in DOMAIN doc : doc[u].type \in Listed}

(* Mutant: the values of the file are not sent. *)
RecalledBare(e) ==
    [Made(e.type, e.name) EXCEPT !.pos = e.pos, !.conns = e.conns]

\* The parameters a load tells the actor of: triggers are skipped.
Recallable == Called \ Triggers

\* sphactor_load: the actor is made, put in its place, and told the stored
\* values of these parameters.
Recalled(e) ==
    LET known == [p \in Params |-> IF p \in Recallable /\ e.values[p] # NULL
                                   THEN e.values[p] ELSE Initial(e.type)[p]]
    IN  [Made(e.type, e.name) EXCEPT
            !.pos = e.pos, !.conns = e.conns,
            !.cache = known, !.told = ToldOf(known)]

(* A document without actors and a missing registry fail an assertion, and *)
(* so does the bind of an actor whose endpoint is still there.  A broken   *)
(* file ends the program too, where zconfig_load does not return NULL.     *)
LoadFails(doc) ==
    \/ doc \in {Empty, Broken}
    \/ registered = NULL
    \/ doc # Broken /\ Loadable(doc) \cap (DOMAIN actors \cup lingering) # {}

LoadAborts(path) ==
    /\ ~open /\ Locate[path][cwd] # Nowhere
    /\ docs[Locate[path][cwd]] # NULL
    /\ LoadFails(docs[Locate[path][cwd]])
    /\ End

(* sph_stage_load goes to the file's directory and keeps the path as it    *)
(* was given.  (A file that is missing, or that zconfig_load cannot parse, *)
(* gives NULL and changes nothing.)                                        *)
Load(path) ==
    LET d == Locate[path][cwd] IN
    /\ ~open /\ d # Nowhere
    /\ docs[d] # NULL /\ ~LoadFails(docs[d])
    /\ actors' = [u \in DOMAIN actors \cup Loadable(docs[d]) |->
                    IF u \in Loadable(docs[d]) THEN Recalled(docs[d][u]) ELSE actors[u]]
    /\ staged' = Loadable(docs[d])
    /\ open' = TRUE /\ config' = path /\ cwd' = d
    /\ origin' = d /\ synced' = registered
    /\ UNCHANGED <<registered, lingering, docs, calls>>

-----------------------------------------------------------------------------

Registry == Dispose \/ \E t \in Types : Register(t) \/ Unregister(t)

Actors ==
    \/ \E u \in Uuids, t \in Types, n \in Names : NewActor(u, t, n)
    \/ \E u \in Uuids : DestroyActor(u) \/ Reap(u)
    \/ \E u \in DOMAIN actors :
        \/ AskName(u)
        \/ \E n \in Names : SetName(u, n)
        \/ \E pos \in 0 .. MaxPos : Move(u, pos)
        \/ \E w \in Uuids : Connect(u, w) \/ Disconnect(u, w)
        \/ \E p \in Params, v \in Values : AskApi(u, p, v) \/ SetTimeout(u, p, v)

Staging ==
    \/ NewStage \/ ClearStage \/ DestroyStage \/ End
    \/ \E u \in Uuids : AddActor(u) \/ RemoveActor(u)

Files ==
    \/ Save \/ SaveAstray \/ SaveAborts
    \/ \E path \in Paths :
        SaveAs(path) \/ DieSaving(path) \/ LoadAborts(path) \/ Load(path)

Next == Registry \/ Actors \/ Staging \/ Files

Spec == Init /\ [][Next]_vars

-----------------------------------------------------------------------------
(* Properties *)

\* The values a save stores are what the actor was told: all but the blobs,
\* which it never hears of (sphactor_ask_api), and what a later call of
\* sphactor_ask_set_timeout told it instead.
ValuesTold ==
    \A u \in DOMAIN actors : \A p \in Params \ actors[u].direct :
        actors[u].told[p] = ToldOf(actors[u].cache)[p]

\* As long as nobody changed the stage since it was loaded or saved, it has
\* the actors of its file, but for those whose type was not known, and each
\* is what the file says and was told the values a load tells, but for those
\* it was told by sphactor_ask_set_timeout before a save; its name is the
\* file's unless it was renamed after it had been asked for.
InSync ==
    synced # NULL =>
        LET doc == docs[origin] IN
        /\ staged = {u \in DOMAIN doc : doc[u].type \in synced}
        /\ \A u \in staged :
            /\ doc[u].type = actors[u].type
            /\ doc[u].pos = actors[u].pos
            /\ doc[u].conns = actors[u].conns
            /\ doc[u].name \in {actors[u].name, actors[u].asked}
            /\ actors[u].type \notin Plain =>
                \A p \in Recallable \ (Blobs \cup actors[u].direct) :
                    doc[u].values[p] = actors[u].told[p]

\* Violated: a save under the stage's own path, if it writes any stage file
\* at all, writes the one the stage was loaded from or last saved to.  A
\* load changes the working directory and keeps the path it was given.
SaveGoesHome ==
    origin # NULL /\ config \in Paths => Locate[config][cwd] \in {origin, Nowhere}

\* The stage implements the scene and its documents.
Document == INSTANCE StageDocument WITH scene <- Scene
ImplementsDocument == Document!Spec

=============================================================================
