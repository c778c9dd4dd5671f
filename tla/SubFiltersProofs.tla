-------------------------- MODULE SubFiltersProofs --------------------------
(***************************************************************************)
(* Proofs about SubFilters for any topics, filters and publishers, and any *)
(* number of calls and messages.                                           *)
(***************************************************************************)
EXTENDS SubFilters, TLAPS

USE FilterAssumption, BoundAssumption

-----------------------------------------------------------------------------
(* Types and counts *)

(* News about a subscription is a sequence of news. *)
LEMMA NewsType ==
    ASSUME TypeOK, NEW call \in {"connect", "swap", "change"}, NEW f \in Subscription
    PROVE  Subscribe(call, f) \in Seq(News) /\ Unsubscribe(call, f) \in Seq(News)
<1>1. \A on \in BOOLEAN : [call |-> call, on |-> on, filters |-> {f}] \in News
  BY DEF News
<1>2. \A on \in BOOLEAN : <<[call |-> call, on |-> on, filters |-> {f}]>> \in Seq(News)
  BY <1>1
<1>3. <<>> \in Seq(News)
  OBVIOUS
<1> QED  BY <1>2, <1>3 DEF Subscribe, Unsubscribe

(* Announcing it keeps the way to the publishers well typed. *)
LEMMA AnnounceType ==
    ASSUME TypeOK, NEW news \in Seq(News), Announce(news)
    PROVE  upstream' \in [Publishers -> Seq(News)]
BY DEF TypeOK, Announce

(* A message stays a message under a new list. *)
LEMMA ReconsideredType ==
    ASSUME NEW m \in Message, NEW L
    PROVE  Reconsidered(m, L) \in Message
<1>1. m.topic \in Topics
  BY DEF Message
<1>2. (m.due /\ m.topic \in Passed(L)) \in BOOLEAN
  OBVIOUS
<1> QED  BY <1>1, <1>2, Zenon DEF Reconsidered, Message

(* A new list keeps the topics and the messages well typed. *)
LEMMA RelistType ==
    ASSUME TypeOK, NEW L \in SUBSET Filters, Relist(L)
    PROVE  /\ listed' \subseteq Filters
           /\ kept' \in [Publishers -> SUBSET Topics]
           /\ inbox' \in [Publishers -> Seq(Message)]
<1>1. kept' \in [Publishers -> SUBSET Topics]
  BY DEF TypeOK, Relist
<1>2. ASSUME NEW p \in Publishers
      PROVE  [i \in DOMAIN inbox[p] |-> Reconsidered(inbox[p][i], L)] \in Seq(Message)
  <2>1. inbox[p] \in Seq(Message)
    BY DEF TypeOK
  <2>2. ASSUME NEW i \in DOMAIN inbox[p]
        PROVE  Reconsidered(inbox[p][i], L) \in Message
    BY <2>1, ReconsideredType
  <2>3. DOMAIN inbox[p] = 1 .. Len(inbox[p]) /\ Len(inbox[p]) \in Nat
    BY <2>1
  <2> QED  BY <2>2, <2>3
<1> QED  BY <1>1, <1>2 DEF Relist

(* The types and the counts hold for a new actor. *)
LEMMA TypeInit == Init => TypeOK /\ Counted
BY DEF Init, TypeOK, Counted, Subscription, All

(* Every step keeps the types and the counts: filter_add ends the          *)
(* subscription to the empty filter only while there is no list, and       *)
(* filter_remove renews it whenever the list goes.                         *)
LEMMA TypeStep == TypeOK /\ Counted /\ [Next]_vars => TypeOK' /\ Counted'
<1> SUFFICES ASSUME TypeOK, Counted, [Next]_vars PROVE TypeOK' /\ Counted'
  OBVIOUS
<1>0. All \in Subscription /\ Filters \subseteq Subscription
  BY DEF Subscription
<1>1. ASSUME NEW f \in Filters, FilterAdd(f) PROVE TypeOK' /\ Counted'
  <2>0. connected' = connected /\ seen' = seen /\ calls' \in 0 .. MaxCalls
    BY <1>1 DEF FilterAdd, Call, TypeOK
  <2>1. CASE f \in listed /\ UNCHANGED <<listed, count, upstream, inbox, kept>>
    BY <2>0, <2>1 DEF TypeOK, Counted
  <2>2. CASE /\ listed = {}
             /\ count' = [[count EXCEPT ![All] = @ - 1] EXCEPT ![f] = @ + 1]
             /\ Announce(Unsubscribe("swap", All) \o Subscribe("swap", f))
             /\ Relist({f})
    <3>1. Unsubscribe("swap", All) \o Subscribe("swap", f) \in Seq(News)
      BY <1>0, NewsType
    <3>2. upstream' \in [Publishers -> Seq(News)]
      BY <2>2, <3>1, AnnounceType
    <3>3. listed' = {f} /\ count' \in [Subscription -> Nat] /\ count'[f] > 0
      BY <1>0, <2>2 DEF TypeOK, Counted, Relist
    <3> QED  BY <2>0, <2>2, <3>2, <3>3, RelistType DEF TypeOK, Counted
  <2>3. CASE /\ listed # {} /\ f \notin listed
             /\ count' = [count EXCEPT ![f] = @ + 1]
             /\ Announce(Subscribe("change", f))
             /\ Relist(listed \cup {f})
    <3>1. upstream' \in [Publishers -> Seq(News)]
      BY <1>0, <2>3, NewsType, AnnounceType
    <3>2. listed' = listed \cup {f} /\ listed' \in SUBSET Filters
      BY <2>3 DEF TypeOK, Relist
    <3>3. count' \in [Subscription -> Nat] /\ \A g \in listed' : count'[g] > 0
      BY <1>0, <2>3, <3>2 DEF TypeOK, Counted
    <3> QED  BY <2>0, <2>3, <3>1, <3>2, <3>3, RelistType DEF TypeOK, Counted
  <2> QED  BY <1>1, <2>1, <2>2, <2>3 DEF FilterAdd
<1>2. ASSUME NEW f \in Filters, FilterRemove(f) PROVE TypeOK' /\ Counted'
  <2>0. connected' = connected /\ seen' = seen /\ calls' \in 0 .. MaxCalls
    BY <1>2 DEF FilterRemove, Call, TypeOK
  <2>1. listed' = listed \ {f} /\ listed' \in SUBSET Filters /\ Relist(listed')
    BY <1>2 DEF FilterRemove, TypeOK, Relist
  <2>2. CASE /\ count' = [count EXCEPT ![All] = @ + 1]
             /\ Announce(Subscribe("change", All))
    <3>1. upstream' \in [Publishers -> Seq(News)]
      BY <1>0, <2>2, NewsType, AnnounceType
    <3>2. count' \in [Subscription -> Nat] /\ count'[All] > 0
      BY <1>0, <2>2 DEF TypeOK
    <3>3. \A g \in listed' : count'[g] > 0
      BY <1>0, <2>1, <2>2 DEF TypeOK, Counted
    <3> QED  BY <2>0, <2>1, <3>1, <3>2, <3>3, RelistType DEF TypeOK, Counted
  <2>3. CASE ~(listed # {} /\ listed \subseteq {f}) /\ UNCHANGED <<count, upstream>>
    <3>1. listed' = {} => listed = {}
      BY <2>1, <2>3
    <3> QED  BY <2>0, <2>1, <2>3, <3>1, RelistType DEF TypeOK, Counted
  <2> QED  BY <1>2, <2>2, <2>3 DEF FilterRemove
<1>3. ASSUME NEW p \in Publishers, Connect(p) PROVE TypeOK' /\ Counted'
  <2>1. [call |-> "connect", on |-> TRUE, filters |-> Subscribed(count)] \in News
    BY DEF News, Subscribed
  <2>2. upstream' \in [Publishers -> Seq(News)]
    BY <1>3, <2>1 DEF Connect, TypeOK
  <2>3. Passed(listed) \subseteq Topics
    BY DEF Passed, TypeOK
  <2> QED  BY <1>3, <2>2, <2>3 DEF Connect, Call, TypeOK, Counted
<1>4. ASSUME NEW p \in Publishers, Disconnect(p) PROVE TypeOK' /\ Counted'
  <2>1. PICK rest \in {<<>>, inbox[p]} : inbox' = [inbox EXCEPT ![p] = rest]
    BY <1>4 DEF Disconnect
  <2>2. rest \in Seq(Message)
    <3>1. <<>> \in Seq(Message) /\ inbox[p] \in Seq(Message)
      BY DEF TypeOK
    <3> QED  BY <2>1, <3>1
  <2>3. inbox' \in [Publishers -> Seq(Message)]
    BY <2>1, <2>2 DEF TypeOK
  <2> QED  BY <1>4, <2>3 DEF Disconnect, Call, TypeOK, Counted
<1>5. ASSUME NEW p \in Publishers, Handle(p) \/ Discard(p) PROVE TypeOK' /\ Counted'
  <2>1. inbox' = [inbox EXCEPT ![p] = Tail(@)] /\ inbox[p] # <<>>
    BY <1>5 DEF Handle, Discard
  <2>2. inbox[p] \in Seq(Message)
    BY DEF TypeOK
  <2>3. Tail(inbox[p]) \in Seq(Message)
    BY <2>1, <2>2
  <2>4. inbox' \in [Publishers -> Seq(Message)]
    BY <2>1, <2>3 DEF TypeOK
  <2>5. UNCHANGED <<listed, count, connected, upstream, seen, kept, calls>>
    BY <1>5 DEF Handle, Discard
  <2> QED  BY <2>4, <2>5 DEF TypeOK, Counted
<1>6. ASSUME NEW p \in Publishers, Learn(p) PROVE TypeOK' /\ Counted'
  <2>1. Head(upstream[p]) \in News
    BY <1>6 DEF Learn, TypeOK
  <2>2. seen' \in [Publishers -> SUBSET Subscription]
    BY <1>6, <2>1 DEF Learn, TypeOK, News
  <2> QED  BY <1>6, <2>2 DEF Learn, TypeOK, Counted
<1>7. ASSUME NEW p \in Publishers, NEW t \in Topics, Publish(p, t)
      PROVE  TypeOK' /\ Counted'
  <2>1. [topic |-> t, due |-> t \in kept[p]] \in Message
    BY DEF Message
  <2> QED  BY <1>7, <2>1 DEF Publish, TypeOK, Counted
<1>8. CASE UNCHANGED vars
  BY <1>8 DEF vars, TypeOK, Counted
<1> QED  BY <1>1, <1>2, <1>3, <1>4, <1>5, <1>6, <1>7, <1>8 DEF Next, Done

(* The socket is subscribed to what the list lets pass. *)
LEMMA CountedPasses == TypeOK /\ Counted => ListedPasses
<1> SUFFICES ASSUME TypeOK, Counted, NEW t \in Passed(listed)
             PROVE  t \in UNION Subscribed(count)
  BY DEF ListedPasses
<1>1. CASE listed = {}
  <2>1. All \in Subscribed(count)
    BY <1>1 DEF Counted, Subscribed, Subscription
  <2> QED  BY <1>1, <2>1 DEF Passed, All
<1>2. CASE listed # {}
  <2>1. listed \subseteq Subscribed(count)
    BY DEF Counted, TypeOK, Subscribed, Subscription
  <2> QED  BY <1>2, <2>1 DEF Passed
<1> QED  BY <1>1, <1>2

-----------------------------------------------------------------------------
(* What has passed *)

(* History holds for a new actor. *)
LEMMA HistoryInit == Init => History
BY DEF Init, History

(* A new list takes its part from what has passed and from what is due. *)
LEMMA RelistHistory ==
    ASSUME TypeOK, NEW L \in SUBSET Filters, Relist(L)
    PROVE  History'
<1>1. \A p \in Publishers : kept'[p] \subseteq Passed(L)
  BY DEF Relist, TypeOK
<1>2. ASSUME NEW p \in Publishers, NEW i \in DOMAIN inbox'[p], inbox'[p][i].due
      PROVE  inbox'[p][i].topic \in Passed(L)
  BY <1>2 DEF Relist, Reconsidered
<1> QED  BY <1>1, <1>2 DEF History, Relist, Passed

(* Every step keeps the history. *)
LEMMA HistoryStep == TypeOK /\ History /\ [Next]_vars => History'
<1> SUFFICES ASSUME TypeOK, History, [Next]_vars PROVE History'
  OBVIOUS
<1>1. ASSUME NEW f \in Filters, FilterAdd(f) PROVE History'
  <2>1. \/ UNCHANGED <<listed, inbox, kept>>
        \/ Relist({f}) \/ Relist(listed \cup {f})
    BY <1>1 DEF FilterAdd
  <2>2. CASE UNCHANGED <<listed, inbox, kept>>
    BY <2>2 DEF History, Passed
  <2>3. CASE Relist({f}) \/ Relist(listed \cup {f})
    BY <2>3, RelistHistory DEF TypeOK
  <2> QED  BY <2>1, <2>2, <2>3
<1>2. ASSUME NEW f \in Filters, FilterRemove(f) PROVE History'
  BY <1>2, RelistHistory DEF FilterRemove, TypeOK
<1>3. ASSUME NEW p \in Publishers, Connect(p) PROVE History'
  BY <1>3 DEF Connect, TypeOK, History, Passed
<1>4. ASSUME NEW p \in Publishers, Disconnect(p) PROVE History'
  <2>1. PICK rest \in {<<>>, inbox[p]} : inbox' = [inbox EXCEPT ![p] = rest]
    BY <1>4 DEF Disconnect
  <2>2. \A i \in DOMAIN rest : rest[i].due => rest[i].topic \in Passed(listed)
    BY <2>1 DEF History
  <2> QED  BY <1>4, <2>1, <2>2 DEF Disconnect, TypeOK, History, Passed
<1>5. ASSUME NEW p \in Publishers, Handle(p) \/ Discard(p) PROVE History'
  <2>1. /\ inbox' = [inbox EXCEPT ![p] = Tail(@)] /\ inbox[p] # <<>>
        /\ UNCHANGED <<listed, kept>>
    BY <1>5 DEF Handle, Discard
  <2>2. inbox[p] \in Seq(Message)
    BY DEF TypeOK
  <2>3. \A i \in DOMAIN Tail(inbox[p]) :
            i + 1 \in DOMAIN inbox[p] /\ Tail(inbox[p])[i] = inbox[p][i + 1]
    BY <2>1, <2>2
  <2>4. \A i \in DOMAIN Tail(inbox[p]) :
            Tail(inbox[p])[i].due => Tail(inbox[p])[i].topic \in Passed(listed)
    BY <2>3 DEF History
  <2> QED  BY <2>1, <2>4 DEF TypeOK, History, Passed
<1>6. ASSUME NEW p \in Publishers, Learn(p) PROVE History'
  BY <1>6 DEF Learn, History, Passed
<1>7. ASSUME NEW p \in Publishers, NEW t \in Topics, Publish(p, t) PROVE History'
  <2> DEFINE m == [topic |-> t, due |-> t \in kept[p]]
  <2>1. inbox' = [inbox EXCEPT ![p] = Append(@, m)] /\ UNCHANGED <<listed, kept>>
    BY <1>7 DEF Publish
  <2>2. m.due => m.topic \in Passed(listed)
    BY DEF History
  <2>3. inbox[p] \in Seq(Message)
    BY DEF TypeOK
  <2> HIDE DEF m
  <2>4. \A i \in DOMAIN Append(inbox[p], m) :
            \/ i \in DOMAIN inbox[p] /\ Append(inbox[p], m)[i] = inbox[p][i]
            \/ Append(inbox[p], m)[i] = m
    BY <2>3
  <2>5. \A i \in DOMAIN Append(inbox[p], m) :
            Append(inbox[p], m)[i].due => Append(inbox[p], m)[i].topic \in Passed(listed)
    BY <2>2, <2>4 DEF History
  <2> QED  BY <2>1, <2>5 DEF TypeOK, History, Passed
<1>8. CASE UNCHANGED vars
  BY <1>8 DEF vars, History, Passed
<1> QED  BY <1>1, <1>2, <1>3, <1>4, <1>5, <1>6, <1>7, <1>8 DEF Next, Done

-----------------------------------------------------------------------------
(* What the publishers have heard *)

(* News is added behind what is on its way already. *)
LEMMA AnnounceBehind ==
    ASSUME TypeOK, NEW news \in Seq(News), Announce(news), NEW p \in connected
    PROVE  /\ upstream[p] \in Seq(News)
           /\ upstream'[p] \in Seq(News)
           /\ Len(upstream'[p]) = Len(upstream[p]) + Len(news)
           /\ \A j \in 1 .. Len(upstream[p]) : upstream'[p][j] = upstream[p][j]
           /\ \A j \in 1 .. Len(news) : upstream'[p][Len(upstream[p]) + j] = news[j]
<1>1. upstream'[p] = upstream[p] \o news /\ upstream[p] \in Seq(News)
  BY DEF Announce, TypeOK
<1> QED  BY <1>1

(* A filter added to a list, or the empty one after the last: whatever     *)
(* publishers sent they go on sending.                                     *)
LEMMA ReachingMore ==
    ASSUME TypeOK, Reaching, NEW f \in Subscription, Announce(Subscribe("change", f)),
           UNCHANGED <<connected, seen>>,
           \A p \in Publishers : kept'[p] \subseteq kept[p]
    PROVE  Reaching'
<1> DEFINE n == [call |-> "change", on |-> TRUE, filters |-> {f}]
<1>1. SUFFICES ASSUME NEW p \in connected, NEW t \in kept[p]
               PROVE  \E g \in Subscription : t \in g /\ (Heard(p, g)' \/ Coming(p, g)')
  BY DEF Reaching, TypeOK
<1>2. PICK g \in Subscription : t \in g /\ (Heard(p, g) \/ Coming(p, g))
  BY DEF Reaching
<1>3. Subscribe("change", f) = <<n>> /\ <<n>> \in Seq(News) /\ n.on
  BY DEF Subscribe, News
<1> HIDE DEF n
<1>4. /\ upstream[p] \in Seq(News) /\ upstream'[p] \in Seq(News)
      /\ Len(upstream'[p]) = Len(upstream[p]) + 1
      /\ \A j \in 1 .. Len(upstream[p]) : upstream'[p][j] = upstream[p][j]
      /\ upstream'[p][Len(upstream[p]) + 1] = n
  <2> DEFINE news == <<n>>
  <2>1. Announce(news) /\ news \in Seq(News)
    BY <1>3
  <2>2. Len(news) = 1 /\ news[1] = n
    OBVIOUS
  <2> HIDE DEF news
  <2>3. /\ upstream[p] \in Seq(News) /\ upstream'[p] \in Seq(News)
        /\ Len(upstream'[p]) = Len(upstream[p]) + Len(news)
        /\ \A j \in 1 .. Len(upstream[p]) : upstream'[p][j] = upstream[p][j]
        /\ \A j \in 1 .. Len(news) : upstream'[p][Len(upstream[p]) + j] = news[j]
    BY <2>1, AnnounceBehind
  <2> QED  BY <2>2, <2>3
<1>5. \A i : Lasting(p, g, i) => Lasting(p, g, i)'
  BY <1>3, <1>4 DEF Lasting
<1>6. CASE Heard(p, g)
  BY <1>2, <1>5, <1>6 DEF Heard
<1>7. CASE Coming(p, g)
  <2>1. PICK i \in DOMAIN upstream[p], k \in DOMAIN upstream[p] :
           /\ upstream[p][i].on /\ g \in upstream[p][i].filters
           /\ Lasting(p, g, i)
           /\ i <= k /\ upstream[p][k].call # "change"
    BY <1>7 DEF Coming
  <2>2. i \in DOMAIN upstream'[p] /\ k \in DOMAIN upstream'[p]
    BY <1>4
  <2>3. upstream'[p][i] = upstream[p][i] /\ upstream'[p][k] = upstream[p][k]
    BY <1>4
  <2> QED  BY <1>2, <1>5, <2>1, <2>2, <2>3 DEF Coming
<1> QED  BY <1>2, <1>6, <1>7

(* The first filter: what has passed until now and passes the filter is    *)
(* coming at the end of the news.                                          *)
LEMMA ReachingSwap ==
    ASSUME TypeOK, NEW f \in Filters,
           Announce(Unsubscribe("swap", All) \o Subscribe("swap", f)),
           UNCHANGED connected,
           \A p \in Publishers : kept'[p] \subseteq f
    PROVE  Reaching'
<1> DEFINE n == [call |-> "swap", on |-> TRUE, filters |-> {f}]
           news == Unsubscribe("swap", All) \o Subscribe("swap", f)
<1>0. f \in Subscription /\ All \in Subscription
  BY DEF Subscription
<1>1. SUFFICES ASSUME NEW p \in connected, NEW t \in kept'[p]
               PROVE  t \in f /\ Coming(p, f)'
  BY <1>0 DEF Reaching, TypeOK
<1>2. n.on /\ f \in n.filters /\ n.call # "change"
  OBVIOUS
<1>3. /\ Unsubscribe("swap", All) \in Seq(News) /\ Subscribe("swap", f) \in Seq(News)
      /\ Subscribe("swap", f) = <<n>>
  BY <1>0, NewsType DEF Subscribe
<1> HIDE DEF n
<1>4. news \in Seq(News) /\ Len(news) \in Nat \ {0} /\ news[Len(news)] = n
  <2> DEFINE u == Unsubscribe("swap", All)
  <2>1. u \in Seq(News) /\ <<n>> \in Seq(News) /\ news = u \o <<n>>
    BY <1>3
  <2> HIDE DEF u, news
  <2>2. Len(u) \in Nat /\ Len(<<n>>) = 1 /\ <<n>>[1] = n
    BY <2>1
  <2>3. news \in Seq(News) /\ Len(news) = Len(u) + 1
    BY <2>1, <2>2
  <2>4. news[Len(u) + 1] = n
    BY <2>1, <2>2
  <2> QED  BY <2>2, <2>3, <2>4
<1>5. Announce(news)
  OBVIOUS
<1> HIDE DEF news
<1>6. /\ upstream'[p] \in Seq(News)
      /\ Len(upstream'[p]) \in DOMAIN upstream'[p]
      /\ upstream'[p][Len(upstream'[p])] = n
  <2>1. /\ upstream[p] \in Seq(News) /\ upstream'[p] \in Seq(News)
        /\ Len(upstream'[p]) = Len(upstream[p]) + Len(news)
        /\ \A j \in 1 .. Len(news) : upstream'[p][Len(upstream[p]) + j] = news[j]
    BY <1>4, <1>5, AnnounceBehind
  <2> QED  BY <1>4, <2>1
<1>7. Lasting(p, f, Len(upstream[p]))'
  BY <1>2, <1>6 DEF Lasting
<1>8. t \in f
  BY DEF TypeOK
<1> QED  BY <1>2, <1>6, <1>7, <1>8 DEF Coming

(* The connection's news has a subscription for all that may pass. *)
LEMMA ReachingConnect ==
    ASSUME TypeOK, Counted, Reaching, NEW p \in Publishers, Connect(p)
    PROVE  Reaching'
<1> DEFINE n == [call |-> "connect", on |-> TRUE, filters |-> Subscribed(count)]
<1>1. upstream'[p] = <<n>> /\ kept'[p] = Passed(listed)
  BY DEF Connect, TypeOK
<1>2. n.on /\ n.filters = Subscribed(count) /\ n.call # "change"
  OBVIOUS
<1> HIDE DEF n
<1>3. ASSUME NEW t \in kept'[p]
      PROVE  \E f \in Subscription : t \in f /\ Coming(p, f)'
  <2>1. PICK f \in Subscribed(count) : t \in f
    BY <1>1, CountedPasses DEF ListedPasses
  <2>2. 1 \in DOMAIN upstream'[p] /\ upstream'[p][1] = n
    BY <1>1
  <2>3. Lasting(p, f, 1)'
    BY <1>1, <1>2 DEF Lasting
  <2> QED  BY <1>2, <2>1, <2>2, <2>3 DEF Coming, Subscribed
<1>4. ASSUME NEW q \in connected, q # p
      PROVE  upstream'[q] = upstream[q] /\ seen'[q] = seen[q] /\ kept'[q] = kept[q]
  BY <1>4 DEF Connect, TypeOK
<1>5. connected' = connected \cup {p}
  BY DEF Connect
<1> QED  BY <1>3, <1>4, <1>5 DEF Reaching, Heard, Coming, Lasting, Connect

(* What a publisher hears next either is what was coming, or does not      *)
(* touch it.                                                               *)
LEMMA ReachingLearn ==
    ASSUME TypeOK, Reaching, NEW p \in Publishers, Learn(p)
    PROVE  Reaching'
<1> DEFINE n == Head(upstream[p])
<1>1. /\ upstream[p] \in Seq(News) /\ upstream[p] # <<>>
      /\ upstream'[p] = Tail(upstream[p])
      /\ n = upstream[p][1]
      /\ seen'[p] = IF n.on THEN seen[p] \cup n.filters ELSE seen[p] \ n.filters
      /\ UNCHANGED <<connected, kept>>
  BY DEF Learn, TypeOK
<1>2. ASSUME NEW q \in connected, q # p
      PROVE  upstream'[q] = upstream[q] /\ seen'[q] = seen[q]
  BY <1>2 DEF Learn, TypeOK
<1> HIDE DEF n
<1>3. /\ Len(upstream[p]) \in Nat \ {0}
      /\ DOMAIN upstream[p] = 1 .. Len(upstream[p])
      /\ DOMAIN upstream'[p] = 1 .. Len(upstream[p]) - 1
      /\ \A j \in 1 .. Len(upstream[p]) - 1 : upstream'[p][j] = upstream[p][j + 1]
  BY <1>1
<1>4. ASSUME NEW f \in Subscription, NEW i \in Nat, Lasting(p, f, i)
      PROVE  /\ i > 1 => Lasting(p, f, i - 1)'
             /\ i = 1 => Lasting(p, f, 1)'
  <2>1. ASSUME NEW j \in DOMAIN upstream'[p], j + 1 >= i, ~upstream'[p][j].on
        PROVE  f \notin upstream'[p][j].filters
    <3>1. j + 1 \in DOMAIN upstream[p] /\ upstream'[p][j] = upstream[p][j + 1]
      BY <1>3
    <3> QED  BY <1>4, <2>1, <3>1 DEF Lasting
  <2>2. \A j \in DOMAIN upstream'[p] : j \in Nat
    BY <1>3
  <2> QED  BY <2>1, <2>2 DEF Lasting
<1>5. ASSUME NEW f \in Subscription, Heard(p, f) PROVE Heard(p, f)'
  <2>1. n.on \/ f \notin n.filters
    BY <1>1, <1>3, <1>5 DEF Heard, Lasting
  <2>2. f \in seen'[p]
    BY <1>1, <1>5, <2>1 DEF Heard
  <2>3. Lasting(p, f, 1)'
    BY <1>4, <1>5 DEF Heard
  <2> QED  BY <2>2, <2>3 DEF Heard
<1>6. ASSUME NEW f \in Subscription, Coming(p, f) PROVE Heard(p, f)' \/ Coming(p, f)'
  <2>1. PICK i \in DOMAIN upstream[p], k \in DOMAIN upstream[p] :
           /\ upstream[p][i].on /\ f \in upstream[p][i].filters
           /\ Lasting(p, f, i)
           /\ i <= k /\ upstream[p][k].call # "change"
    BY <1>6 DEF Coming
  <2>2. CASE i = 1
    <3>1. f \in seen'[p]
      BY <1>1, <2>1, <2>2
    <3>2. Lasting(p, f, 1)'
      BY <1>4, <2>1, <2>2
    <3> QED  BY <3>1, <3>2 DEF Heard
  <2>3. CASE i # 1
    <3>1. i - 1 \in DOMAIN upstream'[p] /\ k - 1 \in DOMAIN upstream'[p]
      BY <1>3, <2>1, <2>3
    <3>2. upstream'[p][i - 1] = upstream[p][i] /\ upstream'[p][k - 1] = upstream[p][k]
      BY <1>3, <3>1
    <3>3. Lasting(p, f, i - 1)'
      BY <1>3, <1>4, <2>1, <2>3
    <3> QED  BY <2>1, <3>1, <3>2, <3>3, <1>3 DEF Coming
  <2> QED  BY <2>2, <2>3
<1>7. ASSUME NEW q \in connected, q # p, NEW f \in Subscription
      PROVE  (Heard(q, f) => Heard(q, f)') /\ (Coming(q, f) => Coming(q, f)')
  BY <1>2, <1>7 DEF Heard, Coming, Lasting
<1>8. SUFFICES ASSUME NEW q \in connected, NEW t \in kept[q]
               PROVE  \E f \in Subscription : t \in f /\ (Heard(q, f)' \/ Coming(q, f)')
  BY <1>1 DEF Reaching
<1>9. PICK f \in Subscription : t \in f /\ (Heard(q, f) \/ Coming(q, f))
  BY DEF Reaching
<1> QED  BY <1>5, <1>6, <1>7, <1>9

(* Every step keeps a lasting subscription, heard of or coming, for every  *)
(* topic that has passed all lists.                                        *)
LEMMA ReachingStep ==
    TypeOK /\ Counted /\ Reaching /\ [Next]_vars => Reaching'
<1> SUFFICES ASSUME TypeOK, Counted, Reaching, [Next]_vars PROVE Reaching'
  OBVIOUS
<1>0. All \in Subscription /\ Filters \subseteq Subscription
  BY DEF Subscription
<1>1. ASSUME NEW f \in Filters, FilterAdd(f) PROVE Reaching'
  <2>0. UNCHANGED <<connected, seen>>
    BY <1>1 DEF FilterAdd
  <2>1. CASE UNCHANGED <<upstream, kept>>
    BY <2>0, <2>1 DEF Reaching, Heard, Coming, Lasting
  <2>2. CASE /\ Announce(Unsubscribe("swap", All) \o Subscribe("swap", f))
             /\ Relist({f})
    <3>1. \A p \in Publishers : kept'[p] \subseteq f
      BY <2>2 DEF Relist, Passed, TypeOK
    <3> QED  BY <2>0, <2>2, <3>1, ReachingSwap
  <2>3. CASE Announce(Subscribe("change", f)) /\ Relist(listed \cup {f})
    <3>1. \A p \in Publishers : kept'[p] \subseteq kept[p]
      BY <2>3 DEF Relist, TypeOK
    <3> QED  BY <1>0, <2>0, <2>3, <3>1, ReachingMore
  <2> QED  BY <1>1, <2>1, <2>2, <2>3 DEF FilterAdd
<1>2. ASSUME NEW f \in Filters, FilterRemove(f) PROVE Reaching'
  <2>0. UNCHANGED <<connected, seen>>
    BY <1>2 DEF FilterRemove
  <2>1. \A p \in Publishers : kept'[p] \subseteq kept[p]
    BY <1>2 DEF FilterRemove, Relist, TypeOK
  <2>2. CASE UNCHANGED upstream
    <3>1. connected \subseteq Publishers
      BY DEF TypeOK
    <3>2. \A p, g : (Heard(p, g) => Heard(p, g)') /\ (Coming(p, g) => Coming(p, g)')
      BY <2>0, <2>2 DEF Heard, Coming, Lasting
    <3> QED  BY <2>0, <2>1, <3>1, <3>2 DEF Reaching
  <2>3. CASE Announce(Subscribe("change", All))
    BY <1>0, <2>0, <2>1, <2>3, ReachingMore
  <2> QED  BY <1>2, <2>2, <2>3 DEF FilterRemove
<1>3. ASSUME NEW p \in Publishers, Connect(p) PROVE Reaching'
  BY <1>3, ReachingConnect
<1>4. ASSUME NEW p \in Publishers, Disconnect(p) PROVE Reaching'
  <2>1. ASSUME NEW q \in connected, q # p
        PROVE  upstream'[q] = upstream[q] /\ seen'[q] = seen[q] /\ kept'[q] = kept[q]
    BY <1>4, <2>1 DEF Disconnect, TypeOK
  <2> QED  BY <1>4, <2>1 DEF Disconnect, Reaching, Heard, Coming, Lasting
<1>5. ASSUME NEW p \in Publishers, Handle(p) \/ Discard(p) PROVE Reaching'
  BY <1>5 DEF Handle, Discard, Reaching, Heard, Coming, Lasting
<1>6. ASSUME NEW p \in Publishers, Learn(p) PROVE Reaching'
  BY <1>6, ReachingLearn
<1>7. ASSUME NEW p \in Publishers, NEW t \in Topics, Publish(p, t) PROVE Reaching'
  BY <1>7 DEF Publish, Reaching, Heard, Coming, Lasting
<1>8. CASE UNCHANGED vars
  BY <1>8 DEF vars, Reaching, Heard, Coming, Lasting
<1> QED  BY <1>1, <1>2, <1>3, <1>4, <1>5, <1>6, <1>7, <1>8 DEF Next, Done

-----------------------------------------------------------------------------
(* The theorems *)

(* The inductive invariant holds in every reachable state. *)
THEOREM Invariance == Spec => []IInv
<1>1. Init => IInv
  BY TypeInit, HistoryInit DEF IInv, Init, Reaching
<1>2. IInv /\ [Next]_vars => IInv'
  BY TypeStep, HistoryStep, ReachingStep DEF IInv
<1> QED  BY <1>1, <1>2, PTL DEF Spec

(* The lists, the counts and what is on the way between the actors are     *)
(* what their types say in every reachable state; no count goes below      *)
(* zero.                                                                   *)
THEOREM TypeCorrect == Spec => []TypeOK
<1>1. IInv => TypeOK
  BY DEF IInv
<1> QED  BY <1>1, Invariance, PTL

(* What the filter list lets pass is subscribed to, after any sequence of  *)
(* additions and removals.                                                 *)
THEOREM ListedFiltersPass == Spec => []ListedPasses
<1>1. IInv => ListedPasses
  BY CountedPasses DEF IInv
<1> QED  BY <1>1, Invariance, PTL

(* A publisher sends all that has passed every list, except while it has   *)
(* not heard the end of a connection's or a swap's news.                   *)
THEOREM GapsAreSwaps == Spec => []NoGapBetweenSwaps
<1>1. IInv => NoGapBetweenSwaps
  <2> SUFFICES ASSUME IInv, NEW p \in connected, NEW t \in kept[p],
                      \A i \in 1 .. Len(upstream[p]) : upstream[p][i].call = "change"
               PROVE  t \in UNION seen[p]
    BY DEF NoGapBetweenSwaps
  <2>1. PICK f \in Subscription : t \in f /\ (Heard(p, f) \/ Coming(p, f))
    BY DEF IInv, Reaching
  <2>2. DOMAIN upstream[p] = 1 .. Len(upstream[p])
    BY DEF IInv, TypeOK
  <2>3. ~Coming(p, f)
    BY <2>2 DEF Coming
  <2> QED  BY <2>1, <2>3 DEF Heard
<1> QED  BY <1>1, Invariance, PTL

(* A message that every list since it was sent lets pass is handled. *)
THEOREM DueIsHandled == Spec => DueHandled
<1>1. IInv => \A p \in Publishers : Discard(p) => ~Head(inbox[p]).due
  <2> SUFFICES ASSUME IInv, NEW p \in Publishers, Discard(p), Head(inbox[p]).due
               PROVE  FALSE
    OBVIOUS
  <2>1. inbox[p] \in Seq(Message) /\ inbox[p] # <<>>
    BY DEF IInv, TypeOK, Discard
  <2>2. 1 \in DOMAIN inbox[p] /\ Head(inbox[p]) = inbox[p][1]
    BY <2>1
  <2>3. Head(inbox[p]).topic \in Passed(listed)
    BY <2>2 DEF IInv, History
  <2>4. Head(inbox[p]).topic \in UNION Subscribed(count)
    BY <2>3, CountedPasses DEF IInv, ListedPasses
  <2> QED  BY <2>4 DEF Discard, Lets
<1>2. IInv /\ [Next]_vars => [\A p \in Publishers : Discard(p) => ~Head(inbox[p]).due]_vars
  BY <1>1
<1> QED  BY <1>2, Invariance, PTL DEF Spec, DueHandled
=============================================================================
