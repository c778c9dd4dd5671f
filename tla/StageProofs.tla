---------------------------- MODULE StageProofs ----------------------------
(***************************************************************************)
(* Proofs about Stage for any types, parameters, paths, directories and    *)
(* number of calls: what is stored was told, a stage and its file agree,   *)
(* and the stage implements StageDocument.                                 *)
(***************************************************************************)
EXTENDS Stage, TLAPS

USE StageAssumption

-----------------------------------------------------------------------------
(* Operators *)

(* What an actor starts with, what it is told of it and what a load makes  *)
(* of an entry are values of the parameters.                               *)
LEMMA KnownValues ==
    /\ \A t \in Types : Initial(t) \in Known
    /\ \A k \in Known : ToldOf(k) \in Known
BY DEF Initial, ToldOf, Known

(* Made actors are actors. *)
LEMMA MadeType ==
    ASSUME NEW t \in Types, NEW n \in Names
    PROVE  Made(t, n) \in Actor
BY KnownValues DEF Made, Actor

(* The entry of an actor is an entry. *)
LEMMA SavedType ==
    ASSUME NEW a \in Actor
    PROVE  Saved(a) \in Entry /\ Shown(a) \in Names
BY DEF Actor, Entry, Saved, Shown, Known

(* A load makes actors. *)
LEMMA RecalledType ==
    ASSUME NEW e \in Entry
    PROVE  Recalled(e) \in Actor
<1> DEFINE known == [p \in Params |-> IF p \in Recallable /\ e.values[p] # NULL
                                      THEN e.values[p] ELSE Initial(e.type)[p]]
<1>1. known \in Known
  BY KnownValues DEF Known, Entry
<1>2. ToldOf(known) \in Known
  BY <1>1, KnownValues
<1>3. Made(e.type, e.name) \in Actor
  BY MadeType DEF Entry
<1>4. Recalled(e) = [Made(e.type, e.name) EXCEPT
            !.pos = e.pos, !.conns = e.conns, !.cache = known, !.told = ToldOf(known)]
  BY DEF Recalled
<1> HIDE DEF known
<1> QED  BY <1>1, <1>2, <1>3, <1>4 DEF Actor, Entry

(* Asking for names leaves everything but the controllers' copies alone,   *)
(* and does not change what a save would store.                            *)
LEMMA AskingNames ==
    ASSUME TypeOK, NEW S \in SUBSET DOMAIN actors
    PROVE  /\ DOMAIN NamesAsked(S) = DOMAIN actors
           /\ \A u \in DOMAIN actors :
                /\ NamesAsked(S)[u] \in Actor
                /\ Saved(NamesAsked(S)[u]) = Saved(actors[u])
                /\ NamesAsked(S)[u].cache = actors[u].cache
                /\ NamesAsked(S)[u].told = actors[u].told
                /\ NamesAsked(S)[u].direct = actors[u].direct
                /\ NamesAsked(S)[u].type = actors[u].type
                /\ NamesAsked(S)[u].name = actors[u].name
                /\ NamesAsked(S)[u].pos = actors[u].pos
                /\ NamesAsked(S)[u].conns = actors[u].conns
                /\ NamesAsked(S)[u].asked \in {actors[u].asked, Shown(actors[u])}
                /\ actors[u].asked # NULL => NamesAsked(S)[u].asked = actors[u].asked
                /\ u \in S => NamesAsked(S)[u].asked = Shown(actors[u])
<1>1. ASSUME NEW u \in DOMAIN actors, NEW a, a = actors[u],
             NEW b, b = [a EXCEPT !.asked = Shown(a)]
      PROVE  /\ b \in Actor /\ Saved(b) = Saved(a)
             /\ b.cache = a.cache /\ b.told = a.told /\ b.direct = a.direct /\ b.type = a.type
             /\ b.name = a.name /\ b.pos = a.pos /\ b.conns = a.conns
             /\ b.asked = Shown(a) /\ (a.asked # NULL => b.asked = a.asked)
  <2>1. a \in Actor /\ Shown(a) \in Names /\ Shown(a) # NULL
    BY <1>1, SavedType DEF TypeOK
  <2>2. /\ b \in Actor /\ b.cache = a.cache /\ b.told = a.told /\ b.direct = a.direct
        /\ b.type = a.type
    BY <1>1, <2>1 DEF Actor
  <2>3. b.name = a.name /\ b.pos = a.pos /\ b.conns = a.conns /\ b.asked = Shown(a)
    BY <1>1, <2>1 DEF Actor
  <2>4. Shown(b) = Shown(a)
    BY <2>1, <2>3 DEF Shown
  <2> QED  BY <2>2, <2>3, <2>4 DEF Saved, Shown
<1> QED  BY <1>1 DEF NamesAsked, TypeOK

-----------------------------------------------------------------------------
(* Types *)

(* The types hold before anything is made. *)
LEMMA TypeInit == Init => TypeOK
<1> SUFFICES ASSUME Init PROVE TypeOK
  OBVIOUS
<1>1. DOMAIN actors = {} /\ calls \in 0 .. MaxCalls
  BY DEF Init, Empty
<1>2. DOMAIN docs = Dirs /\ \A d \in Dirs : docs[d] = NULL
  BY DEF Init
<1> QED  BY <1>1, <1>2 DEF Init, TypeOK

(* Calls stay within their bound. *)
LEMMA CallType ==
    ASSUME TypeOK, Call
    PROVE  calls' \in 0 .. MaxCalls
BY DEF TypeOK, Call

(* Nothing is there when the program ends, but for the files. *)
LEMMA EndedType ==
    ASSUME TypeOK, Ended, calls' \in 0 .. MaxCalls,
           DOMAIN docs' = Dirs,
           \A d \in Dirs : docs'[d] \in {NULL, Broken} \/ IsDocument(docs'[d])
    PROVE  TypeOK'
BY DEF Ended, TypeOK, Empty

(* Destroyed actors are gone and linger. *)
LEMMA DestroyedType ==
    ASSUME TypeOK, NEW S \in SUBSET DOMAIN actors, Destroyed(S)
    PROVE  /\ DOMAIN actors' = DOMAIN actors \ S
           /\ \A u \in DOMAIN actors' : actors'[u] = actors[u] /\ actors'[u] \in Actor
           /\ lingering' \subseteq Uuids \ DOMAIN actors'
BY DEF Destroyed, TypeOK

(* A changed actor, and only that. *)
LEMMA ChangeType ==
    ASSUME TypeOK, NEW u \in DOMAIN actors, NEW a \in Actor, Change(u, a)
    PROVE  TypeOK'
<1>1. DOMAIN actors' = DOMAIN actors /\ \A w \in DOMAIN actors' : actors'[w] \in Actor
  BY DEF Change, TypeOK
<1>2. synced' \in {synced, NULL} /\ calls' \in 0 .. MaxCalls
  BY CallType DEF Change, Changed, TypeOK
<1> QED  BY <1>1, <1>2 DEF Change, TypeOK

(* The scene is a function from the stage's actors to entries. *)
LEMMA SceneType ==
    ASSUME TypeOK
    PROVE  /\ DOMAIN Scene = staged /\ staged \subseteq Uuids
           /\ \A u \in staged : Scene[u] = Saved(actors[u]) /\ Scene[u] \in Entry
BY SavedType DEF TypeOK, Scene

(* Connections may be taken out of an entry. *)
LEMMA CutEntry ==
    ASSUME NEW e \in Entry, NEW c \in SUBSET Uuids
    PROVE  /\ [e EXCEPT !.conns = c] \in Entry
           /\ [e EXCEPT !.conns = c].type = e.type
           /\ [e EXCEPT !.conns = c].values = e.values
BY DEF Entry

(* What is left of a document holds its entries, with some connections.    *)
LEMMA TornParts ==
    ASSUME NEW d, IsDocument(d), NEW part \in Torn(d)
    PROVE  \/ part = Broken
           \/ /\ DOMAIN part = DOMAIN d /\ IsDocument(part)
              /\ \A u \in DOMAIN d :
                    part[u].type = d[u].type /\ part[u].values = d[u].values
<1>1. CASE part # Broken
  <2>1. PICK whole \in SUBSET DOMAIN d, last \in Uuids, some \in SUBSET Uuids :
            part = CutShort(d, whole, last, some)
    BY <1>1 DEF Torn
  <2>2. ASSUME NEW u \in DOMAIN d
        PROVE  \E c \in SUBSET Uuids : part[u] = [d[u] EXCEPT !.conns = c]
    <3>1. d[u] \in Entry /\ d[u].conns \in SUBSET Uuids
      BY DEF IsDocument, Entry
    <3> DEFINE c == IF u \in whole THEN d[u].conns
                    ELSE IF u = last THEN some \cap d[u].conns ELSE {}
    <3>2. c \in SUBSET Uuids
      BY <3>1
    <3>3. part[u] = [d[u] EXCEPT !.conns = c]
      BY <2>1 DEF CutShort
    <3> QED  BY <3>2, <3>3
  <2>3. DOMAIN part = DOMAIN d
    BY <2>1 DEF CutShort
  <2>4. ASSUME NEW u \in DOMAIN d
        PROVE  part[u] \in Entry /\ part[u].type = d[u].type /\ part[u].values = d[u].values
    <3>1. d[u] \in Entry
      BY DEF IsDocument
    <3>2. PICK c \in SUBSET Uuids : part[u] = [d[u] EXCEPT !.conns = c]
      BY <2>2
    <3> QED  BY <3>1, <3>2, CutEntry
  <2> QED  BY <2>3, <2>4 DEF IsDocument
<1> QED  BY <1>1

(* A write of the scene. *)
LEMMA WriteType ==
    ASSUME TypeOK, NEW d \in Dirs, Write(d), open, config' \in Paths \cup {Garbage}
    PROVE  TypeOK'
<1>1. \A u \in DOMAIN actors' : DOMAIN actors' = DOMAIN actors /\ actors'[u] \in Actor
  BY AskingNames DEF Write, TypeOK
<1>2. DOMAIN actors' = DOMAIN actors
  BY AskingNames DEF Write, TypeOK
<1>3. /\ DOMAIN docs' = Dirs
      /\ \A c \in Dirs : docs'[c] = IF c = d THEN Scene ELSE docs[c]
  BY DEF Write, TypeOK
<1>4. IsDocument(Scene)
  BY SceneType DEF IsDocument
<1>5. calls' \in 0 .. MaxCalls
  BY CallType DEF Write
<1> QED  BY <1>1, <1>2, <1>3, <1>4, <1>5 DEF Write, TypeOK

(* Every step keeps the types. *)
LEMMA TypeStep == TypeOK /\ [Next]_vars => TypeOK'
<1> SUFFICES ASSUME TypeOK, [Next]_vars PROVE TypeOK'
  OBVIOUS
<1>1. CASE Registry
  BY <1>1 DEF Registry, Register, Unregister, Dispose, Listed, Call, TypeOK, history
<1>2. ASSUME NEW u \in Uuids, NEW t \in Types, NEW n \in Names, NewActor(u, t, n)
      PROVE  TypeOK'
  <2>1. DOMAIN actors' = DOMAIN actors \cup {u}
    BY <1>2 DEF NewActor
  <2>2. \A w \in DOMAIN actors' : actors'[w] \in Actor
    BY <1>2, MadeType DEF NewActor, TypeOK
  <2> QED  BY <1>2, <2>1, <2>2, CallType DEF NewActor, TypeOK, history
<1>3. ASSUME NEW u \in Uuids, DestroyActor(u) PROVE TypeOK'
  <2>1. {u} \in SUBSET DOMAIN actors
    BY <1>3 DEF DestroyActor
  <2>2. calls' \in 0 .. MaxCalls /\ u \notin staged
    BY <1>3, CallType DEF DestroyActor
  <2>3. /\ DOMAIN actors' = DOMAIN actors \ {u}
        /\ \A w \in DOMAIN actors' : actors'[w] \in Actor
        /\ lingering' \subseteq Uuids \ DOMAIN actors'
    BY <1>3, <2>1, DestroyedType DEF DestroyActor
  <2> QED  BY <1>3, <2>2, <2>3 DEF DestroyActor, TypeOK, history
<1>4. ASSUME NEW u \in Uuids, Reap(u) PROVE TypeOK'
  BY <1>4 DEF Reap, TypeOK, history
<1>5. ASSUME NEW u \in DOMAIN actors, AskName(u) PROVE TypeOK'
  <2>1. {u} \in SUBSET DOMAIN actors
    OBVIOUS
  <2>2. DOMAIN actors' = DOMAIN actors /\ \A w \in DOMAIN actors : actors'[w] \in Actor
    BY <1>5, <2>1, AskingNames DEF AskName
  <2> QED  BY <1>5, <2>2, CallType DEF AskName, TypeOK, history
<1>6. ASSUME NEW u \in DOMAIN actors, NEW n \in Names, SetName(u, n) PROVE TypeOK'
  <2>1. [actors[u] EXCEPT !.name = n] \in Actor
    BY DEF TypeOK, Actor
  <2> QED  BY <1>6, <2>1, ChangeType DEF SetName
<1>7. ASSUME NEW u \in DOMAIN actors, NEW pos \in 0 .. MaxPos, Move(u, pos) PROVE TypeOK'
  <2>1. [actors[u] EXCEPT !.pos = pos] \in Actor
    BY DEF TypeOK, Actor
  <2> QED  BY <1>7, <2>1, ChangeType DEF Move
<1>8. ASSUME NEW u \in DOMAIN actors, NEW w \in Uuids, Connect(u, w) PROVE TypeOK'
  <2>1. [actors[u] EXCEPT !.conns = @ \cup {w}] \in Actor
    BY DEF TypeOK, Actor
  <2> QED  BY <1>8, <2>1, ChangeType DEF Connect
<1>9. ASSUME NEW u \in DOMAIN actors, NEW w \in Uuids, Disconnect(u, w) PROVE TypeOK'
  <2>1. [actors[u] EXCEPT !.conns = @ \ {w}] \in Actor
    BY DEF TypeOK, Actor
  <2> QED  BY <1>9, <2>1, ChangeType DEF Disconnect
<1>10. ASSUME NEW u \in DOMAIN actors, NEW p \in Params, NEW v \in Values, AskApi(u, p, v)
       PROVE  TypeOK'
  <2> DEFINE cache == [actors[u].cache EXCEPT ![p] = v]
             told == IF p \in Blobs THEN actors[u].told ELSE [actors[u].told EXCEPT ![p] = v]
             direct == IF p \in Blobs THEN actors[u].direct ELSE actors[u].direct \ {p}
  <2>1. actors[u] \in Actor /\ cache \in Known /\ told \in Known /\ direct \in SUBSET Params
    BY DEF TypeOK, Actor, Known
  <2>2. [actors[u] EXCEPT !.cache = cache, !.told = told, !.direct = direct] \in Actor
    <3> HIDE DEF cache, told, direct
    <3> QED  BY <2>1 DEF Actor
  <2> QED  BY <1>10, <2>2, ChangeType DEF AskApi
<1>25. ASSUME NEW u \in DOMAIN actors, NEW p \in Params, NEW v \in Values, SetTimeout(u, p, v)
       PROVE  TypeOK'
  <2> DEFINE told == [actors[u].told EXCEPT ![p] = v]
             direct == actors[u].direct \cup {p}
  <2>1. actors[u] \in Actor /\ told \in Known /\ direct \in SUBSET Params
    BY DEF TypeOK, Actor, Known
  <2>2. [actors[u] EXCEPT !.told = told, !.direct = direct] \in Actor
    <3> HIDE DEF told, direct
    <3> QED  BY <2>1 DEF Actor
  <2> QED  BY <1>25, <2>2, ChangeType DEF SetTimeout
<1>11. CASE NewStage
  BY <1>11 DEF NewStage, TypeOK, history
<1>12. ASSUME NEW u \in Uuids, AddActor(u) PROVE TypeOK'
  BY <1>12 DEF AddActor, TypeOK
<1>13. ASSUME NEW u \in Uuids, RemoveActor(u) PROVE TypeOK'
  <2>1. {u} \in SUBSET DOMAIN actors
    BY <1>13 DEF RemoveActor, TypeOK
  <2>2. calls' \in 0 .. MaxCalls
    BY <1>13, CallType DEF RemoveActor
  <2>3. /\ DOMAIN actors' = DOMAIN actors \ {u}
        /\ \A w \in DOMAIN actors' : actors'[w] \in Actor
        /\ lingering' \subseteq Uuids \ DOMAIN actors'
    BY <1>13, <2>1, DestroyedType DEF RemoveActor
  <2> QED  BY <1>13, <2>2, <2>3 DEF RemoveActor, TypeOK
<1>14. CASE ClearStage
  <2>1. staged \in SUBSET DOMAIN actors
    BY DEF TypeOK
  <2> QED  BY <1>14, <2>1, DestroyedType, CallType DEF ClearStage, TypeOK
<1>15. CASE DestroyStage
  <2>1. staged \in SUBSET DOMAIN actors
    BY DEF TypeOK
  <2> QED  BY <1>15, <2>1, DestroyedType DEF DestroyStage, TypeOK
<1>16. CASE End
  BY <1>16, EndedType DEF End, TypeOK
<1>17. CASE Save
  <2>1. Locate[config][cwd] \in Dirs
    BY <1>17, PathAssumption DEF Save, TypeOK
  <2> QED  BY <1>17, <2>1, WriteType DEF Save
<1>18. CASE SaveAstray
  <2>1. staged \in SUBSET DOMAIN actors
    BY DEF TypeOK
  <2>2. DOMAIN actors' = DOMAIN actors /\ \A w \in DOMAIN actors : actors'[w] \in Actor
    BY <1>18, <2>1, AskingNames DEF SaveAstray
  <2> QED  BY <1>18, <2>2 DEF SaveAstray, TypeOK, history
<1>19. CASE SaveAborts
  BY <1>19, <1>16 DEF SaveAborts
<1>20. ASSUME NEW path \in Paths, SaveAs(path) PROVE TypeOK'
  <2>1. Locate[path][cwd] \in Dirs
    BY <1>20, PathAssumption DEF SaveAs, TypeOK
  <2> QED  BY <1>20, <2>1, WriteType DEF SaveAs
<1>21. ASSUME NEW path \in Paths, DieSaving(path) PROVE TypeOK'
  <2> DEFINE d == Locate[path][cwd]
  <2>1. d \in Dirs
    BY <1>21, PathAssumption DEF DieSaving, TypeOK
  <2>2. PICK part \in Torn(Scene) : docs' = [docs EXCEPT ![d] = part]
    BY <1>21 DEF DieSaving
  <2>3. part = Broken \/ IsDocument(part)
    <3>1. IsDocument(Scene)
      BY SceneType DEF IsDocument
    <3> QED  BY <3>1, TornParts
  <2>4. DOMAIN docs' = Dirs /\ \A c \in Dirs : docs'[c] = IF c = d THEN part ELSE docs[c]
    BY <2>1, <2>2 DEF TypeOK
  <2>5. calls' \in 0 .. MaxCalls
    BY <1>21, CallType DEF DieSaving
  <2> QED  BY <1>21, <2>3, <2>4, <2>5, EndedType DEF DieSaving, TypeOK
<1>22. ASSUME NEW path \in Paths, LoadAborts(path) PROVE TypeOK'
  BY <1>22, <1>16 DEF LoadAborts
<1>23. ASSUME NEW path \in Paths, Load(path) PROVE TypeOK'
  <2> DEFINE d == Locate[path][cwd]
             doc == docs[d]
  <2>1. d \in Dirs
    BY <1>23, PathAssumption DEF Load, TypeOK
  <2>2. doc \notin {NULL, Broken} /\ Loadable(doc) \subseteq DOMAIN doc
    BY <1>23 DEF Load, LoadFails, Loadable
  <2>3. Loadable(doc) \subseteq Uuids /\ \A u \in Loadable(doc) : doc[u] \in Entry
    BY <2>1, <2>2 DEF TypeOK, IsDocument
  <2>4. Loadable(doc) \cap (DOMAIN actors \cup lingering) = {} /\ registered # NULL
    BY <1>23 DEF Load, LoadFails
  <2>5. /\ DOMAIN actors' = DOMAIN actors \cup Loadable(doc)
        /\ \A u \in DOMAIN actors' :
            actors'[u] = IF u \in Loadable(doc) THEN Recalled(doc[u]) ELSE actors[u]
    BY <1>23 DEF Load
  <2>6. \A u \in DOMAIN actors' : actors'[u] \in Actor
    BY <2>3, <2>5, RecalledType DEF TypeOK
  <2> HIDE DEF doc
  <2>7. staged' = Loadable(doc) /\ open' = TRUE /\ config' = path /\ cwd' = d
        /\ origin' = d /\ synced' = registered
        /\ UNCHANGED <<registered, lingering, docs, calls>>
    BY <1>23 DEF Load, doc
  <2> QED  BY <2>1, <2>3, <2>4, <2>5, <2>6, <2>7 DEF TypeOK
<1>24. CASE UNCHANGED vars
  BY <1>24 DEF vars, program, history, TypeOK
<1> QED
  BY <1>1, <1>2, <1>3, <1>4, <1>5, <1>6, <1>7, <1>8, <1>9, <1>10, <1>11, <1>12, <1>13,
     <1>14, <1>15, <1>16, <1>17, <1>18, <1>19, <1>20, <1>21, <1>22, <1>23, <1>24, <1>25
     DEF Next, Actors, Staging, Files

(* Everything the program keeps has its type: for any types, parameters,   *)
(* paths and number of calls.                                              *)
THEOREM TypeCorrect == Spec => []TypeOK
BY TypeInit, TypeStep, PTL DEF Spec

-----------------------------------------------------------------------------
(* The invariant *)

\* An entry has the values of its type: none without a capability, and with
\* one at least those that the capability presets.
Proper(e) ==
    IF e.type \in Plain THEN e.values = [p \in Params |-> NULL]
    ELSE \A p \in Preset : e.values[p] # NULL

\* An actor was told what is stored for it, but for what a direct call told
\* it instead, and a save stores a proper entry for it.
Coherent(a) == \A p \in Params \ a.direct : a.told[p] = ToldOf(a.cache)[p]
Sound(a) == Coherent(a) /\ Proper(Saved(a))
ActorsSound == \A u \in DOMAIN actors : Sound(actors[u])

\* All files hold proper entries.
DocsProper ==
    \A d \in Dirs : docs[d] \notin {NULL, Broken} => \A u \in DOMAIN docs[d] : Proper(docs[d][u])

\* A file that the stage corresponds to has an entry for each of its actors.
SyncedEntries == synced # NULL => \A u \in staged : docs[origin][u] \in Entry

IInv == TypeOK /\ ActorsSound /\ DocsProper /\ SyncedEntries /\ InSync

-----------------------------------------------------------------------------
(* What actors have been told *)

(* A made actor is sound. *)
LEMMA MadeSound ==
    ASSUME NEW t \in Types, NEW n \in Names
    PROVE  Sound(Made(t, n))
BY DEF Sound, Coherent, Made, Proper, Saved, Initial

(* So is a loaded one, whatever the entry. *)
LEMMA RecalledSound ==
    ASSUME NEW e \in Entry
    PROVE  /\ Sound(Recalled(e))
           /\ Recalled(e).type = e.type /\ Recalled(e).name = e.name
           /\ Recalled(e).pos = e.pos /\ Recalled(e).conns = e.conns
           /\ Recalled(e).asked = NULL /\ Recalled(e).direct = {}
           /\ Recalled(e).told = ToldOf(Recalled(e).cache)
           /\ Recalled(e).cache =
                [p \in Params |-> IF p \in Recallable /\ e.values[p] # NULL
                                  THEN e.values[p] ELSE Initial(e.type)[p]]
<1> DEFINE known == [p \in Params |-> IF p \in Recallable /\ e.values[p] # NULL
                                      THEN e.values[p] ELSE Initial(e.type)[p]]
           a == Recalled(e)
<1>1. a = [type |-> e.type, name |-> e.name, asked |-> NULL, pos |-> e.pos,
           conns |-> e.conns, cache |-> known, told |-> ToldOf(known), direct |-> {}]
  <2> HIDE DEF known
  <2>1. a = [Made(e.type, e.name) EXCEPT
               !.pos = e.pos, !.conns = e.conns, !.cache = known, !.told = ToldOf(known)]
    BY DEF Recalled, known
  <2> QED  BY <2>1 DEF Made
<1>2. /\ a.type = e.type /\ a.name = e.name /\ a.asked = NULL /\ a.pos = e.pos
      /\ a.conns = e.conns /\ a.cache = known /\ a.told = ToldOf(known) /\ a.direct = {}
  BY <1>1
<1>3. e.type \notin Plain => \A p \in Preset : known[p] # NULL
  BY DEF Initial
<1> QED  BY <1>2, <1>3 DEF Sound, Coherent, Proper, Saved

(* A change of one actor keeps the actors sound if it keeps that one so. *)
LEMMA ChangeSound ==
    ASSUME TypeOK, ActorsSound, NEW u \in DOMAIN actors, NEW a, Sound(a), Change(u, a)
    PROVE  ActorsSound'
BY DEF TypeOK, ActorsSound, Change

(* The values of an actor are sound after a change that does not touch them. *)
LEMMA SameValuesSound ==
    ASSUME NEW a, Sound(a), NEW b, b.type = a.type, b.cache = a.cache, b.told = a.told,
           b.direct = a.direct
    PROVE  Sound(b)
BY DEF Sound, Coherent, Proper, Saved

(* Asking for names keeps the actors sound. *)
LEMMA AskingNamesSound ==
    ASSUME TypeOK, ActorsSound, NEW S \in SUBSET DOMAIN actors, actors' = NamesAsked(S)
    PROVE  ActorsSound'
BY AskingNames, SameValuesSound DEF ActorsSound

(* Values are stored and told together, but for blobs. *)
LEMMA AskApiSound ==
    ASSUME TypeOK, ActorsSound, NEW u \in DOMAIN actors, NEW p \in Params, NEW v \in Values,
           AskApi(u, p, v)
    PROVE  ActorsSound'
<1> DEFINE cache == [actors[u].cache EXCEPT ![p] = v]
           told == IF p \in Blobs THEN actors[u].told ELSE [actors[u].told EXCEPT ![p] = v]
           direct == IF p \in Blobs THEN actors[u].direct ELSE actors[u].direct \ {p}
           a == [actors[u] EXCEPT !.cache = cache, !.told = told, !.direct = direct]
<1>1. actors[u] \in Actor /\ Sound(actors[u])
  BY DEF TypeOK, ActorsSound
<1>2. a.cache = cache /\ a.told = told /\ a.direct = direct /\ a.type = actors[u].type
  <2> HIDE DEF cache, told, direct
  <2> QED  BY <1>1 DEF Actor
<1>3. /\ actors[u].cache \in Known /\ actors[u].told \in Known
      /\ \A q \in Params \ actors[u].direct : actors[u].told[q] = ToldOf(actors[u].cache)[q]
  BY <1>1 DEF Actor, Sound, Coherent
<1>4. \A q \in Params \ direct : told[q] = ToldOf(cache)[q]
  BY <1>3 DEF ToldOf, Known
<1>5. \A q \in Preset : actors[u].cache[q] # NULL => cache[q] # NULL
  BY <1>3 DEF Known
<1>6. Sound(a)
  <2> HIDE DEF a
  <2>1. Coherent(a)
    <3> HIDE DEF told, cache, direct
    <3> QED  BY <1>2, <1>4 DEF Coherent
  <2> QED  BY <1>1, <1>2, <1>5, <2>1 DEF Sound, Proper, Saved
<1> QED  BY <1>6, ChangeSound DEF AskApi

(* A direct call stores nothing, and is remembered. *)
LEMMA SetTimeoutSound ==
    ASSUME TypeOK, ActorsSound, NEW u \in DOMAIN actors, NEW p \in Params, NEW v \in Values,
           SetTimeout(u, p, v)
    PROVE  ActorsSound'
<1> DEFINE told == [actors[u].told EXCEPT ![p] = v]
           direct == actors[u].direct \cup {p}
           a == [actors[u] EXCEPT !.told = told, !.direct = direct]
<1>1. actors[u] \in Actor /\ Sound(actors[u])
  BY DEF TypeOK, ActorsSound
<1>2. /\ a.told = told /\ a.direct = direct
      /\ a.cache = actors[u].cache /\ a.type = actors[u].type
  <2> HIDE DEF told, direct
  <2> QED  BY <1>1 DEF Actor
<1>3. \A q \in Params \ direct : told[q] = ToldOf(actors[u].cache)[q]
  BY <1>1 DEF Actor, Known, Sound, Coherent
<1>4. Sound(a)
  <2> HIDE DEF a
  <2>1. Coherent(a)
    <3> HIDE DEF told, direct
    <3> QED  BY <1>2, <1>3 DEF Coherent
  <2> QED  BY <1>1, <1>2, <2>1 DEF Sound, Proper, Saved
<1> QED  BY <1>4, ChangeSound DEF SetTimeout

(* Every step keeps the actors sound. *)
LEMMA SoundStep ==
    ASSUME TypeOK, ActorsSound, [Next]_vars
    PROVE  ActorsSound'
<1> USE DEF ActorsSound
<1>1. CASE Registry
  BY <1>1 DEF Registry, Register, Unregister, Dispose
<1>2. ASSUME NEW u \in Uuids, NEW t \in Types, NEW n \in Names, NewActor(u, t, n)
      PROVE  ActorsSound'
  BY <1>2, MadeSound DEF NewActor
<1>3. ASSUME NEW S, Destroyed(S) PROVE ActorsSound'
  BY <1>3 DEF Destroyed
<1>4. ASSUME NEW u \in DOMAIN actors,
             \/ \E n \in Names : SetName(u, n)
             \/ \E pos \in 0 .. MaxPos : Move(u, pos)
             \/ \E w \in Uuids : Connect(u, w) \/ Disconnect(u, w)
      PROVE  ActorsSound'
  <2>1. PICK a : /\ Change(u, a)
                 /\ \/ \E n \in Names : a = [actors[u] EXCEPT !.name = n]
                    \/ \E pos \in 0 .. MaxPos : a = [actors[u] EXCEPT !.pos = pos]
                    \/ \E c : a = [actors[u] EXCEPT !.conns = c]
    BY <1>4 DEF SetName, Move, Connect, Disconnect
  <2>2. /\ a.type = actors[u].type /\ a.cache = actors[u].cache /\ a.told = actors[u].told
        /\ a.direct = actors[u].direct
    BY <2>1 DEF TypeOK, Actor
  <2>3. Sound(a)
    BY <2>2, SameValuesSound
  <2> QED  BY <2>1, <2>3, ChangeSound
<1>5. ASSUME NEW u \in DOMAIN actors, AskName(u) PROVE ActorsSound'
  BY <1>5, AskingNamesSound DEF AskName
<1>6. ASSUME NEW u \in DOMAIN actors, NEW p \in Params, NEW v \in Values, AskApi(u, p, v)
      PROVE  ActorsSound'
  BY <1>6, AskApiSound
<1>15. ASSUME NEW u \in DOMAIN actors, NEW p \in Params, NEW v \in Values, SetTimeout(u, p, v)
       PROVE  ActorsSound'
  BY <1>15, SetTimeoutSound
<1>7. ASSUME actors' = NamesAsked(staged) PROVE ActorsSound'
  BY <1>7, AskingNamesSound DEF TypeOK
<1>8. ASSUME Ended PROVE ActorsSound'
  BY <1>8 DEF Ended, Empty
<1>9. ASSUME NEW path \in Paths, Load(path) PROVE ActorsSound'
  <2> DEFINE doc == docs[Locate[path][cwd]]
  <2>1. Locate[path][cwd] \in Dirs /\ doc \notin {NULL, Broken}
    BY <1>9, PathAssumption DEF Load, LoadFails, TypeOK
  <2>2. \A u \in Loadable(doc) : doc[u] \in Entry
    BY <2>1 DEF TypeOK, IsDocument, Loadable
  <2>3. actors' = [u \in DOMAIN actors \cup Loadable(doc) |->
                    IF u \in Loadable(doc) THEN Recalled(doc[u]) ELSE actors[u]]
    BY <1>9 DEF Load
  <2> HIDE DEF doc
  <2> QED  BY <2>2, <2>3, RecalledSound
<1>10. ASSUME UNCHANGED actors PROVE ActorsSound'
  BY <1>10
<1>11. CASE Actors
  BY <1>11, <1>2, <1>3, <1>4, <1>5, <1>6, <1>10, <1>15 DEF Actors, DestroyActor, Reap
<1>12. CASE Staging
  BY <1>12, <1>3, <1>8, <1>10
     DEF Staging, NewStage, ClearStage, DestroyStage, End, AddActor, RemoveActor
<1>13. CASE Files
  BY <1>13, <1>7, <1>8, <1>9
     DEF Files, Save, SaveAstray, SaveAborts, SaveAs, DieSaving, LoadAborts, End, Write
<1>14. CASE UNCHANGED vars
  BY <1>14, <1>10 DEF vars, program
<1> QED  BY <1>1, <1>11, <1>12, <1>13, <1>14 DEF Next

-----------------------------------------------------------------------------
(* What the files hold *)

(* The scene is made of proper entries. *)
LEMMA SceneProper ==
    ASSUME TypeOK, ActorsSound
    PROVE  \A u \in DOMAIN Scene : Scene[u] \in Entry /\ Proper(Scene[u])
BY SceneType DEF ActorsSound, Sound, TypeOK

(* Every step keeps the files proper. *)
LEMMA ProperStep ==
    ASSUME TypeOK, ActorsSound, DocsProper, [Next]_vars
    PROVE  DocsProper'
<1> USE DEF DocsProper
<1>1. ASSUME NEW d \in Dirs, Write(d) PROVE DocsProper'
  BY <1>1, SceneProper DEF Write, TypeOK
<1>2. ASSUME NEW path \in Paths, DieSaving(path) PROVE DocsProper'
  <2>1. PICK part \in Torn(Scene) : docs' = [docs EXCEPT ![Locate[path][cwd]] = part]
    BY <1>2 DEF DieSaving
  <2>2. ASSUME part # Broken, NEW u \in DOMAIN part PROVE Proper(part[u])
    <3>1. IsDocument(Scene)
      BY SceneType DEF IsDocument
    <3>2. u \in DOMAIN Scene /\ part[u].type = Scene[u].type /\ part[u].values = Scene[u].values
      BY <2>2, <3>1, TornParts
    <3> QED  BY <3>2, SceneProper DEF Proper
  <2> QED  BY <2>1, <2>2 DEF TypeOK
<1>3. ASSUME UNCHANGED docs PROVE DocsProper'
  BY <1>3
<1>4. CASE Registry
  BY <1>3, <1>4 DEF Registry, Register, Unregister, Dispose
<1>5. CASE Actors
  BY <1>3, <1>5 DEF Actors, NewActor, DestroyActor, Reap, AskName, SetName, Move,
                    Connect, Disconnect, AskApi, SetTimeout, Change
<1>6. CASE Staging
  BY <1>3, <1>6 DEF Staging, NewStage, ClearStage, DestroyStage, End, AddActor, RemoveActor
<1>7. CASE Files
  <2>1. ASSUME Save PROVE DocsProper'
    BY <2>1, <1>1, PathAssumption DEF Save, TypeOK
  <2>2. ASSUME NEW path \in Paths, SaveAs(path) PROVE DocsProper'
    BY <2>2, <1>1, PathAssumption DEF SaveAs, TypeOK
  <2> QED  BY <1>2, <1>3, <1>7, <2>1, <2>2
           DEF Files, SaveAstray, SaveAborts, LoadAborts, End, Load
<1>8. CASE UNCHANGED vars
  BY <1>3, <1>8 DEF vars
<1> QED  BY <1>4, <1>5, <1>6, <1>7, <1>8 DEF Next

-----------------------------------------------------------------------------
(* The stage and its file *)

\* The stage and its file agree.
Agrees == SyncedEntries /\ InSync

(* A stage that has been changed agrees with no file. *)
LEMMA ChangedAgrees ==
    ASSUME synced' = NULL
    PROVE  Agrees'
BY DEF Agrees, SyncedEntries, InSync

(* A stage that is left alone goes on agreeing. *)
LEMMA UntouchedAgrees ==
    ASSUME Agrees, UNCHANGED <<docs, origin, synced, staged>>,
           \A u \in staged : actors'[u] = actors[u]
    PROVE  Agrees'
BY DEF Agrees, SyncedEntries, InSync

(* So does one whose actors are asked for their names. *)
LEMMA AskingNamesAgrees ==
    ASSUME TypeOK, Agrees, NEW S \in SUBSET DOMAIN actors, actors' = NamesAsked(S),
           UNCHANGED <<docs, origin, synced, staged>>
    PROVE  Agrees'
<1>1. SyncedEntries'
  BY DEF Agrees, SyncedEntries
<1>2. SUFFICES ASSUME synced # NULL PROVE InSync'
  BY <1>1 DEF Agrees, InSync
<1>3. ASSUME NEW u \in staged
      PROVE  docs[origin][u].name \in {actors'[u].name, actors'[u].asked}
  <2>1. docs[origin][u].name \in {actors[u].name, actors[u].asked} /\ docs[origin][u] \in Entry
    BY <1>2 DEF Agrees, InSync, SyncedEntries
  <2>2. docs[origin][u].name # NULL
    BY <2>1 DEF Entry
  <2>3. u \in DOMAIN actors
    BY DEF TypeOK
  <2> QED  BY <2>1, <2>2, <2>3, AskingNames
<1>4. \A u \in staged :
        /\ actors'[u].type = actors[u].type /\ actors'[u].pos = actors[u].pos
        /\ actors'[u].conns = actors[u].conns /\ actors'[u].told = actors[u].told
        /\ actors'[u].direct = actors[u].direct
  BY AskingNames DEF TypeOK
<1> QED  BY <1>2, <1>3, <1>4 DEF Agrees, InSync

(* A change of one actor ends the agreement if it is on the stage. *)
LEMMA ChangeAgrees ==
    ASSUME TypeOK, Agrees, NEW u, NEW a, Change(u, a)
    PROVE  Agrees'
<1>1. CASE u \in staged
  BY <1>1, ChangedAgrees DEF Change, Changed
<1>2. CASE u \notin staged
  BY <1>2, UntouchedAgrees DEF Change, Changed, TypeOK
<1> QED  BY <1>1, <1>2

(* What has just been saved agrees. *)
LEMMA WriteAgrees ==
    ASSUME TypeOK, ActorsSound, NEW d \in Dirs, Write(d)
    PROVE  Agrees'
<1>1. docs'[origin'] = Scene /\ staged' = staged /\ synced' = Types
  BY DEF Write, TypeOK
<1>2. /\ DOMAIN Scene = staged
      /\ \A u \in staged : Scene[u] = Saved(actors[u]) /\ Scene[u] \in Entry
  BY SceneType
<1>3. SyncedEntries'
  BY <1>1, <1>2 DEF SyncedEntries
<1>4. staged' = {u \in DOMAIN Scene : Scene[u].type \in synced'}
  BY <1>1, <1>2 DEF Entry
<1>5. ASSUME NEW u \in staged
      PROVE  /\ Scene[u].type = actors'[u].type /\ Scene[u].pos = actors'[u].pos
             /\ Scene[u].conns = actors'[u].conns /\ Scene[u].name = actors'[u].asked
             /\ actors'[u].type \notin Plain =>
                  \A p \in Recallable \ (Blobs \cup actors'[u].direct) :
                      Scene[u].values[p] = actors'[u].told[p]
  <2>1. u \in DOMAIN actors /\ staged \in SUBSET DOMAIN actors /\ actors' = NamesAsked(staged)
    BY DEF TypeOK, Write
  <2>2. /\ actors'[u].type = actors[u].type /\ actors'[u].pos = actors[u].pos
        /\ actors'[u].conns = actors[u].conns /\ actors'[u].told = actors[u].told
        /\ actors'[u].asked = Shown(actors[u]) /\ actors'[u].direct = actors[u].direct
    BY <2>1, AskingNames
  <2>3. Coherent(actors[u])
    BY <2>1 DEF ActorsSound, Sound
  <2>4. \A p \in Recallable \ (Blobs \cup actors[u].direct) :
            actors[u].told[p] = actors[u].cache[p]
    BY <2>3 DEF Coherent, ToldOf, Recallable
  <2> QED  BY <1>2, <2>2, <2>4 DEF Saved
<1> QED  BY <1>1, <1>3, <1>4, <1>5 DEF Agrees, InSync

(* What has just been loaded agrees, for the types that are registered. *)
LEMMA LoadAgrees ==
    ASSUME TypeOK, DocsProper, NEW path \in Paths, Load(path)
    PROVE  Agrees'
<1> DEFINE d == Locate[path][cwd]
           doc == docs[d]
<1>1. d \in Dirs /\ doc \notin {NULL, Broken}
  BY PathAssumption DEF Load, LoadFails, TypeOK
<1>2. \A u \in DOMAIN doc : doc[u] \in Entry /\ Proper(doc[u])
  BY <1>1 DEF TypeOK, IsDocument, DocsProper
<1>3. /\ docs' = docs /\ origin' = d /\ staged' = Loadable(doc) /\ synced' = registered
      /\ registered # NULL
      /\ \A u \in Loadable(doc) : actors'[u] = Recalled(doc[u])
  BY DEF Load, LoadFails
<1>4. Loadable(doc) = {u \in DOMAIN doc : doc[u].type \in registered}
  BY <1>3 DEF Loadable, Listed
<1>5. docs'[origin'] = doc
  BY <1>3
<1> HIDE DEF doc
<1>6. SyncedEntries'
  BY <1>2, <1>3, <1>4, <1>5 DEF SyncedEntries
<1>7. ASSUME NEW u \in Loadable(doc), NEW a, a = Recalled(doc[u])
      PROVE  /\ doc[u].type = a.type /\ doc[u].pos = a.pos /\ doc[u].conns = a.conns
             /\ doc[u].name = a.name
             /\ a.type \notin Plain =>
                  \A p \in Recallable \ (Blobs \cup a.direct) : doc[u].values[p] = a.told[p]
  <2>1. doc[u] \in Entry /\ Proper(doc[u])
    BY <1>2, <1>4
  <2>2. /\ a.told = ToldOf(a.cache) /\ a.type = doc[u].type /\ a.name = doc[u].name
        /\ a.pos = doc[u].pos /\ a.conns = doc[u].conns
        /\ a.cache = [p \in Params |-> IF p \in Recallable /\ doc[u].values[p] # NULL
                                       THEN doc[u].values[p] ELSE Initial(doc[u].type)[p]]
    BY <1>7, <2>1, RecalledSound
  <2>3. ASSUME a.type \notin Plain, NEW p \in Recallable \ Blobs
        PROVE  doc[u].values[p] = a.told[p]
    <3>1. p \in Params /\ a.told[p] = a.cache[p]
      BY <2>2, <2>3 DEF ToldOf, Recallable
    <3>2. CASE p \in Preset
      BY <2>1, <2>2, <2>3, <3>1, <3>2 DEF Proper
    <3>3. CASE p \notin Preset
      BY <2>2, <2>3, <3>1, <3>3 DEF Initial
    <3> QED  BY <3>2, <3>3
  <2> QED  BY <2>2, <2>3
<1> QED  BY <1>3, <1>4, <1>5, <1>6, <1>7 DEF Agrees, InSync

(* Every step leaves the stage and its file in agreement. *)
LEMMA AgreesStep ==
    ASSUME TypeOK, ActorsSound, DocsProper, Agrees, [Next]_vars
    PROVE  Agrees'
<1>1. CASE Registry
  BY <1>1, UntouchedAgrees DEF Registry, Register, Unregister, Dispose, history
<1>2. CASE Actors
  <2>1. ASSUME NEW u \in Uuids, NEW t \in Types, NEW n \in Names, NewActor(u, t, n)
        PROVE  Agrees'
    <3>1. \A w \in staged : actors'[w] = actors[w]
      BY <2>1 DEF NewActor, TypeOK
    <3> QED  BY <2>1, <3>1, UntouchedAgrees DEF NewActor, history
  <2>2. ASSUME NEW u \in Uuids, DestroyActor(u) PROVE Agrees'
    <3>1. \A w \in staged : actors'[w] = actors[w]
      BY <2>2 DEF DestroyActor, Destroyed, TypeOK
    <3> QED  BY <2>2, <3>1, UntouchedAgrees DEF DestroyActor, history
  <2>3. ASSUME NEW u \in Uuids, Reap(u) PROVE Agrees'
    BY <2>3, UntouchedAgrees DEF Reap, history
  <2>4. ASSUME NEW u \in DOMAIN actors, AskName(u) PROVE Agrees'
    BY <2>4, AskingNamesAgrees DEF AskName, history
  <2>5. ASSUME NEW u, NEW a, Change(u, a) PROVE Agrees'
    BY <2>5, ChangeAgrees
  <2> QED  BY <1>2, <2>1, <2>2, <2>3, <2>4, <2>5
           DEF Actors, SetName, Move, Connect, Disconnect, AskApi, SetTimeout
<1>3. CASE Staging
  <2>1. CASE NewStage
    BY <2>1, UntouchedAgrees DEF NewStage, history
  <2> QED  BY <1>3, <2>1, ChangedAgrees
           DEF Staging, ClearStage, DestroyStage, End, Ended, AddActor, RemoveActor
<1>4. CASE Files
  <2>1. CASE Save
    BY <2>1, WriteAgrees, PathAssumption DEF Save, TypeOK
  <2>2. ASSUME NEW path \in Paths, SaveAs(path) PROVE Agrees'
    BY <2>2, WriteAgrees, PathAssumption DEF SaveAs, TypeOK
  <2>3. CASE SaveAstray
    BY <2>3, AskingNamesAgrees DEF SaveAstray, TypeOK, history
  <2> QED  BY <1>4, <2>1, <2>2, <2>3, ChangedAgrees, LoadAgrees
           DEF Files, SaveAborts, DieSaving, LoadAborts, End, Ended
<1>5. CASE UNCHANGED vars
  BY <1>5, UntouchedAgrees DEF vars, program, history
<1> QED  BY <1>1, <1>2, <1>3, <1>4, <1>5 DEF Next

-----------------------------------------------------------------------------
(* Theorems *)

(* The invariant holds in every state the program reaches, for any types,  *)
(* parameters, paths and number of calls: what is stored for an actor is   *)
(* what it was told, files hold what types need, and a stage and its file  *)
(* agree, but for what sphactor_ask_set_timeout has told.                  *)
THEOREM Invariance == Spec => []IInv
<1>1. Init => IInv
  <2> SUFFICES ASSUME Init PROVE IInv
    OBVIOUS
  <2>1. TypeOK
    BY TypeInit
  <2>2. ActorsSound
    BY DEF Init, Empty, ActorsSound
  <2> QED  BY <2>1, <2>2 DEF Init, IInv, DocsProper, SyncedEntries, InSync
<1>2. IInv /\ [Next]_vars => IInv'
  <2> SUFFICES ASSUME IInv, [Next]_vars PROVE IInv'
    OBVIOUS
  <2>1. TypeOK /\ ActorsSound /\ DocsProper /\ Agrees
    BY DEF IInv, Agrees
  <2>2. TypeOK'
    BY <2>1, TypeStep
  <2>3. ActorsSound' /\ DocsProper' /\ Agrees'
    BY <2>1, SoundStep, ProperStep, AgreesStep
  <2> QED  BY <2>2, <2>3 DEF IInv, Agrees
<1> QED  BY <1>1, <1>2, PTL DEF Spec

(* The values a save stores are what the actors were told, but for blobs   *)
(* and for what sphactor_ask_set_timeout told them instead.                *)
THEOREM ValuesAreTold == Spec => []ValuesTold
<1>1. IInv => ValuesTold
  BY DEF IInv, ActorsSound, Sound, Coherent, ValuesTold
<1> QED  BY <1>1, Invariance, PTL

(* A stage nobody changed since it was loaded or saved has the actors of   *)
(* its file, as the file says.                                             *)
THEOREM StageIsInSync == Spec => []InSync
<1>1. IInv => InSync
  BY DEF IInv
<1> QED  BY <1>1, Invariance, PTL

-----------------------------------------------------------------------------
(* The stage implements its document *)

(* The scene after a step: a function again, from the actors then staged.  *)
LEMMA SceneAfter ==
    /\ DOMAIN Scene' = staged'
    /\ \A u \in staged' : Scene'[u] = Saved(actors'[u])
BY DEF Scene, Saved, Shown

(* The scene depends on what a save stores of the staged actors only.      *)
LEMMA SameScene ==
    ASSUME staged' = staged, \A u \in staged : Saved(actors'[u]) = Saved(actors[u])
    PROVE  Scene' = Scene
BY DEF Scene, Saved, Shown

(* Without a stage the scene is empty. *)
LEMMA EmptyScene ==
    /\ staged = {} => Scene = Empty
    /\ staged' = {} => Scene' = Empty
BY DEF Scene, Empty

(* A step that changes one actor of the scene is an edit. *)
LEMMA EditScene ==
    ASSUME NEW u, staged' \ {u} = staged \ {u}, u \in staged \cup staged',
           \A w \in staged \ {u} : actors'[w] = actors[w],
           UNCHANGED docs
    PROVE  Document!Edit
<1>1. DOMAIN Scene = staged /\ DOMAIN Scene' = staged'
  BY SceneAfter DEF Scene
<1>2. \A w \in staged \ {u} : Scene'[w] = Scene[w]
  BY DEF Scene, Saved, Shown
<1> QED  BY <1>1, <1>2 DEF Document!Edit

(* Asking for names changes nothing of the scene. *)
LEMMA AskingNamesScene ==
    ASSUME TypeOK, NEW S \in SUBSET DOMAIN actors, actors' = NamesAsked(S), staged' = staged
    PROVE  Scene' = Scene
<1>1. \A u \in staged : Saved(actors'[u]) = Saved(actors[u])
  BY AskingNames DEF TypeOK
<1> QED  BY <1>1, SameScene

(* What a load makes of a proper entry is what the document recalls of it. *)
LEMMA RecalledEntry ==
    ASSUME NEW e \in Entry, Proper(e)
    PROVE  Saved(Recalled(e)) = Document!Recalled(e)
<1> DEFINE a == Recalled(e)
           known == [p \in Params |-> IF p \in Recallable /\ e.values[p] # NULL
                                      THEN e.values[p] ELSE Initial(e.type)[p]]
<1>1. /\ a.type = e.type /\ a.name = e.name /\ a.asked = NULL /\ a.pos = e.pos
      /\ a.conns = e.conns /\ a.cache = known
  BY RecalledSound
<1>2. Document!Recalled(e) = [e EXCEPT !.values = known]
  BY DEF Document!Recalled, Entry, Known
<1>3. Document!Recalled(e) = [type |-> e.type, name |-> e.name, pos |-> e.pos,
                              conns |-> e.conns, values |-> known]
  BY <1>2 DEF Entry
<1>4. e.type \in Plain => known = [p \in Params |-> NULL]
  BY DEF Proper, Initial
<1> QED  BY <1>1, <1>3, <1>4 DEF Saved, Shown

(* A load is a recall. *)
LEMMA LoadRecalls ==
    ASSUME TypeOK, DocsProper, NEW path \in Paths, Load(path)
    PROVE  Document!Recall
<1> DEFINE d == Locate[path][cwd]
           doc == docs[d]
           T == {doc[u].type : u \in DOMAIN doc} \cap registered
           loaded == {w \in DOMAIN doc : doc[w].type \in T}
<1>1. d \in Dirs /\ doc \notin {NULL, Broken} /\ staged = {} /\ docs' = docs
  BY PathAssumption DEF Load, LoadFails, TypeOK
<1>2. loaded = Loadable(doc) /\ T \in SUBSET {doc[u].type : u \in DOMAIN doc}
  BY DEF Load, LoadFails, Loadable, Listed
<1>3. \A u \in loaded : doc[u] \in Entry /\ Proper(doc[u])
  BY <1>1 DEF TypeOK, IsDocument, DocsProper
<1>4. staged' = loaded /\ \A u \in loaded : actors'[u] = Recalled(doc[u])
  BY <1>2 DEF Load
<1>5. \A u \in loaded : Saved(actors'[u]) = Document!Recalled(doc[u])
  BY <1>3, <1>4, RecalledEntry
<1>6. Scene' = [u \in loaded |-> Document!Recalled(doc[u])]
  <2> HIDE DEF loaded
  <2> QED  BY <1>4, <1>5, SceneAfter DEF Scene
<1> QED  BY <1>1, <1>2, <1>6, EmptyScene DEF Document!Recall, Document!Empty, Empty

(* A step of the program is a step of the document or leaves it alone. *)
LEMMA DocumentStep ==
    ASSUME IInv, [Next]_vars
    PROVE  [Document!Next]_(Document!vars)
<1>0. TypeOK /\ ActorsSound /\ DocsProper /\ staged \in SUBSET DOMAIN actors
  BY DEF IInv, TypeOK
<1> SUFFICES Document!Next \/ UNCHANGED <<Scene, docs>>
  BY DEF Document!vars
<1>1. ASSUME UNCHANGED <<docs, staged>>, \A u \in staged : actors'[u] = actors[u]
      PROVE  UNCHANGED <<Scene, docs>>
  BY <1>1, SameScene
<1>2. ASSUME Ended, UNCHANGED docs PROVE Document!Clear
  BY <1>2, EmptyScene DEF Ended, Document!Clear, Document!Empty, Empty
<1>3. CASE Registry
  BY <1>1, <1>3 DEF Registry, Register, Unregister, Dispose
<1>4. CASE Actors
  <2>1. ASSUME NEW u \in Uuids, NEW t \in Types, NEW n \in Names, NewActor(u, t, n)
        PROVE  UNCHANGED <<Scene, docs>>
    BY <2>1, <1>0, <1>1 DEF NewActor
  <2>2. ASSUME NEW u \in Uuids, DestroyActor(u) PROVE UNCHANGED <<Scene, docs>>
    BY <2>2, <1>0, <1>1 DEF DestroyActor, Destroyed
  <2>3. ASSUME NEW u \in Uuids, Reap(u) PROVE UNCHANGED <<Scene, docs>>
    BY <2>3, <1>1 DEF Reap
  <2>4. ASSUME NEW u \in DOMAIN actors, AskName(u) PROVE UNCHANGED <<Scene, docs>>
    BY <2>4, <1>0, AskingNamesScene DEF AskName
  <2>5. ASSUME NEW u \in DOMAIN actors, NEW a, Change(u, a)
        PROVE  Document!Edit \/ UNCHANGED <<Scene, docs>>
    <3>1. UNCHANGED <<docs, staged>> /\ \A w \in staged \ {u} : actors'[w] = actors[w]
      BY <2>5, <1>0 DEF Change
    <3>2. CASE u \in staged
      BY <3>1, <3>2, EditScene
    <3>3. CASE u \notin staged
      BY <3>1, <3>3, <1>1
    <3> QED  BY <3>2, <3>3
  <2> QED  BY <1>4, <2>1, <2>2, <2>3, <2>4, <2>5
           DEF Actors, SetName, Move, Connect, Disconnect, AskApi, SetTimeout, Document!Next
<1>5. CASE Staging
  <2>1. CASE NewStage
    BY <2>1, <1>1 DEF NewStage
  <2>2. CASE ClearStage \/ DestroyStage
    BY <2>2, EmptyScene
       DEF ClearStage, DestroyStage, Document!Clear, Document!Empty, Empty, Document!Next
  <2>3. ASSUME NEW u \in Uuids, AddActor(u) PROVE Document!Edit
    BY <2>3, EditScene DEF AddActor
  <2>4. ASSUME NEW u \in Uuids, RemoveActor(u) PROVE Document!Edit
    <3>1. \A w \in staged \ {u} : actors'[w] = actors[w]
      BY <2>4, <1>0 DEF RemoveActor, Destroyed
    <3> QED  BY <2>4, <3>1, EditScene DEF RemoveActor
  <2> QED  BY <1>2, <1>5, <2>1, <2>2, <2>3, <2>4 DEF Staging, End, Document!Next
<1>6. CASE Files
  <2>1. ASSUME NEW d \in Dirs, Write(d) PROVE Document!Store
    <3>1. Scene' = Scene
      BY <2>1, <1>0, AskingNamesScene DEF Write
    <3> QED  BY <2>1, <3>1 DEF Write, Document!Store
  <2>2. CASE Save
    BY <2>1, <2>2, <1>0, PathAssumption DEF Save, TypeOK, Document!Next
  <2>3. ASSUME NEW path \in Paths, SaveAs(path) PROVE Document!Store
    BY <2>1, <2>3, <1>0, PathAssumption DEF SaveAs, TypeOK
  <2>4. CASE SaveAstray
    BY <2>4, <1>0, AskingNamesScene DEF SaveAstray
  <2>5. ASSUME NEW path \in Paths, DieSaving(path) PROVE Document!Tear
    <3>1. Locate[path][cwd] \in Dirs
      BY <2>5, <1>0, PathAssumption DEF DieSaving, TypeOK
    <3>2. Torn(Scene) = Document!Torn(Scene)
      BY DEF Torn, CutShort, Document!Torn, Document!CutShort
    <3>3. Scene' = Document!Empty
      BY <2>5, EmptyScene DEF DieSaving, Ended, Document!Empty, Empty
    <3> QED  BY <2>5, <3>1, <3>2, <3>3 DEF DieSaving, Document!Tear
  <2>6. ASSUME NEW path \in Paths, Load(path) PROVE Document!Recall
    BY <2>6, <1>0, LoadRecalls
  <2> QED  BY <1>2, <1>6, <2>2, <2>3, <2>4, <2>5, <2>6
           DEF Files, SaveAborts, LoadAborts, End, Document!Next
<1>7. CASE UNCHANGED vars
  BY <1>1, <1>7 DEF vars, program
<1> QED  BY <1>3, <1>4, <1>5, <1>6, <1>7 DEF Next

(* The stage implements its document: whatever is called, and wherever the *)
(* program dies, a file only becomes the scene or a part of it, and what a *)
(* load brings back is what the file says.                                 *)
THEOREM StageIsDocument == Spec => ImplementsDocument
<1>1. Init => Document!Init
  BY EmptyScene DEF Init, Document!Init, Document!Empty, Empty
<1>2. IInv /\ [Next]_vars => [Document!Next]_(Document!vars)
  BY DocumentStep
<1> QED  BY <1>1, <1>2, Invariance, PTL DEF Spec, ImplementsDocument, Document!Spec

=============================================================================
