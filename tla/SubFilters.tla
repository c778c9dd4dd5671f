----------------------------- MODULE SubFilters -----------------------------
(***************************************************************************)
(* The filters of an actor's subscribe socket and the publishers it is     *)
(* connected to.                                                           *)
(*                                                                         *)
(* An actor keeps a list of filters (sub_filters) beside the subscriptions *)
(* of its SUB socket.  The list is what the client sees; the subscriptions *)
(* are what ZeroMQ goes by, twice: every publisher sends only what matches *)
(* the subscriptions it has heard of, and the socket drops what has come   *)
(* to match none by the time it is received.  The news of a subscription   *)
(* travels to each publisher on its own, in order, while the publisher, an *)
(* actor in a thread of its own, goes on sending.                          *)
(*                                                                         *)
(* A filter is identified with the set of topics that begin with it, and   *)
(* the empty filter with the set of all topics.                            *)
(***************************************************************************)
EXTENDS Naturals, Sequences

CONSTANTS
    Topics,       \* what messages begin with
    Filters,      \* the filters the client may add
    Publishers,   \* the other actors
    MaxCalls,     \* bound: calls that change the filters or the connections
    MaxInFlight   \* bound: messages on their way from one publisher

\* The empty filter, "".
All == Topics
Subscription == Filters \cup {All}

ASSUME FilterAssumption == Filters \subseteq SUBSET Topics
ASSUME BoundAssumption == MaxCalls \in Nat /\ MaxInFlight \in Nat

VARIABLES
    listed,     \* sub_filters, {} for NULL
    count,      \* how often the socket has subscribed to a filter
    connected,  \* the publishers the socket is connected to
    upstream,   \* news of subscriptions on their way to each publisher
    seen,       \* the subscriptions each publisher has heard of
    inbox,      \* messages on their way from each publisher
    kept,       \* history: topics that have passed ever since connecting
    calls       \* calls so far

vars == <<listed, count, connected, upstream, seen, inbox, kept, calls>>

\* News of a subscription, or of its end, and the call it is part of.
News == [call : {"connect", "swap", "change"}, on : BOOLEAN,
         filters : SUBSET Subscription]

\* A message; `due' if all filter lists since it was sent let it pass.
Message == [topic : Topics, due : BOOLEAN]

TypeOK ==
    /\ listed \subseteq Filters
    /\ count \in [Subscription -> Nat]
    /\ connected \subseteq Publishers
    /\ upstream \in [Publishers -> Seq(News)]
    /\ seen \in [Publishers -> SUBSET Subscription]
    /\ inbox \in [Publishers -> Seq(Message)]
    /\ kept \in [Publishers -> SUBSET Topics]
    /\ calls \in 0 .. MaxCalls

\* "Data will pass if at least one filter matches the data"; without
\* filters all data passes.
Passed(L) == IF L = {} THEN Topics ELSE UNION L

\* The subscriptions of the socket.
Subscribed(c) == {f \in Subscription : c[f] > 0}

(* sphactor_actor_new subscribes to the empty filter. *)
Init ==
    /\ listed = {}
    /\ count = [f \in Subscription |-> IF f = All THEN 1 ELSE 0]
    /\ connected = {}
    /\ upstream = [p \in Publishers |-> <<>>]
    /\ seen = [p \in Publishers |-> {}]
    /\ inbox = [p \in Publishers |-> <<>>]
    /\ kept = [p \in Publishers |-> {}]
    /\ calls = 0

-----------------------------------------------------------------------------
(* ZeroMQ's SUB socket *)

\* A subscription is always announced, its end only when it is the last.
Subscribe(call, f) == <<[call |-> call, on |-> TRUE, filters |-> {f}]>>
Unsubscribe(call, f) ==
    IF count[f] = 1 THEN <<[call |-> call, on |-> FALSE, filters |-> {f}]>>
                    ELSE <<>>

\* Each piece of news is in the pipe on its own: a publisher may send
\* between two of them.
Announce(news) ==
    upstream' = [p \in Publishers |->
                    IF p \in connected THEN upstream[p] \o news ELSE upstream[p]]

-----------------------------------------------------------------------------
(* The actor's thread *)

Call == calls < MaxCalls /\ calls' = calls + 1

Reconsidered(m, L) ==
    [topic |-> m.topic, due |-> m.due /\ m.topic \in Passed(L)]

\* The list is now L: what has passed all lists so far must also pass L.
Relist(L) ==
    /\ listed' = L
    /\ kept' = [p \in Publishers |-> kept[p] \cap Passed(L)]
    /\ inbox' = [p \in Publishers |->
                    [i \in DOMAIN inbox[p] |-> Reconsidered(inbox[p][i], L)]]

(* Mutant: the socket is not told of the new filter. *)
FilterAddUnsubscribed(f) ==
    /\ Call
    /\ f \notin listed
    /\ IF listed = {}
       THEN count' = [count EXCEPT ![All] = @ - 1] /\ Announce(Unsubscribe("swap", All))
       ELSE UNCHANGED <<count, upstream>>
    /\ Relist(listed \cup {f})
    /\ UNCHANGED <<connected, seen>>

(* Mutant: every filter added, not only the first, ends the subscription   *)
(* to the empty filter.                                                    *)
FilterAddEachEnding(f) ==
    /\ Call
    /\ f \notin listed
    /\ count' = [count EXCEPT ![All] = @ - 1, ![f] = @ + 1]
    /\ Announce(Unsubscribe("swap", All) \o Subscribe("swap", f))
    /\ Relist(listed \cup {f})
    /\ UNCHANGED <<connected, seen>>

(* sphactor_actor_filter_add.  The first filter takes the place of the     *)
(* empty one; a filter that is in the list already changes nothing.        *)
FilterAdd(f) ==
    /\ Call
    /\ \/ /\ f \in listed
          /\ UNCHANGED <<listed, count, upstream, inbox, kept>>
       \/ /\ listed = {}
          /\ count' = [[count EXCEPT ![All] = @ - 1] EXCEPT ![f] = @ + 1]
          /\ Announce(Unsubscribe("swap", All) \o Subscribe("swap", f))
          /\ Relist({f})
       \/ /\ listed # {} /\ f \notin listed
          /\ count' = [count EXCEPT ![f] = @ + 1]
          /\ Announce(Subscribe("change", f))
          /\ Relist(listed \cup {f})
    /\ UNCHANGED <<connected, seen>>

(* Mutant: the last filter goes and nothing takes its place. *)
FilterRemoveLast(f) ==
    /\ Call
    /\ Relist(listed \ {f})
    /\ UNCHANGED <<count, connected, upstream, seen>>

(* Mutant: the filter's own subscription ends, before the empty one starts. *)
FilterRemoveUnsubscribing(f) ==
    /\ Call
    /\ f \in listed
    /\ Relist(listed \ {f})
    /\ IF listed = {f}
       THEN /\ count' = [[count EXCEPT ![f] = @ - 1] EXCEPT ![All] = @ + 1]
            /\ Announce(Unsubscribe("change", f) \o Subscribe("change", All))
       ELSE /\ count' = [count EXCEPT ![f] = @ - 1]
            /\ Announce(Unsubscribe("change", f))
    /\ UNCHANGED <<connected, seen>>

(* sphactor_actor_filter_remove.  The filter leaves the list; only when    *)
(* the list is empty then does the socket hear of it, and subscribes to    *)
(* the empty filter.                                                       *)
FilterRemove(f) ==
    /\ Call
    /\ Relist(listed \ {f})
    /\ IF listed # {} /\ listed \subseteq {f}
       THEN /\ count' = [count EXCEPT ![All] = @ + 1]
            /\ Announce(Subscribe("change", All))
       ELSE UNCHANGED <<count, upstream>>
    /\ UNCHANGED <<connected, seen>>

(* sphactor_actor_connect: the socket tells the publisher of all its       *)
(* subscriptions.  (A second connection to the same endpoint, which would  *)
(* deliver everything twice, is not made here.)                            *)
Connect(p) ==
    /\ Call
    /\ p \notin connected
    /\ connected' = connected \cup {p}
    /\ upstream' = [upstream EXCEPT ![p] =
          <<[call |-> "connect", on |-> TRUE, filters |-> Subscribed(count)]>>]
    /\ kept' = [kept EXCEPT ![p] = Passed(listed)]
    /\ UNCHANGED <<listed, count, seen, inbox>>

(* sphactor_actor_disconnect.  What was on its way may still be read. *)
Disconnect(p) ==
    /\ Call
    /\ p \in connected
    /\ connected' = connected \ {p}
    /\ upstream' = [upstream EXCEPT ![p] = <<>>]
    /\ seen' = [seen EXCEPT ![p] = {}]
    /\ \E rest \in {<<>>, inbox[p]} : inbox' = [inbox EXCEPT ![p] = rest]
    /\ kept' = [kept EXCEPT ![p] = {}]
    /\ UNCHANGED <<listed, count>>

\* Does the socket let the first message from p through?
Lets(p) == \E f \in Subscribed(count) : Head(inbox[p]).topic \in f

(* The socket receives a message and the handler gets it as a SOCK event, *)
Handle(p) ==
    /\ inbox[p] # <<>>
    /\ Lets(p)
    /\ inbox' = [inbox EXCEPT ![p] = Tail(@)]
    /\ UNCHANGED <<listed, count, connected, upstream, seen, kept, calls>>

(* or it matches no subscription any more and is dropped. *)
Discard(p) ==
    /\ inbox[p] # <<>>
    /\ ~Lets(p)
    /\ inbox' = [inbox EXCEPT ![p] = Tail(@)]
    /\ UNCHANGED <<listed, count, connected, upstream, seen, kept, calls>>

-----------------------------------------------------------------------------
(* The publishers' threads *)

(* A publisher hears the next piece of news. *)
Learn(p) ==
    /\ upstream[p] # <<>>
    /\ LET n == Head(upstream[p])
       IN  seen' = [seen EXCEPT ![p] = IF n.on THEN @ \cup n.filters ELSE @ \ n.filters]
    /\ upstream' = [upstream EXCEPT ![p] = Tail(@)]
    /\ UNCHANGED <<listed, count, connected, inbox, kept, calls>>

(* s_publish_msg, SEND: the message goes to the actor if it matches a      *)
(* subscription the publisher has heard of, and nowhere otherwise.         *)
Publish(p, t) ==
    /\ t \in UNION seen[p]
    /\ Len(inbox[p]) < MaxInFlight
    /\ inbox' = [inbox EXCEPT ![p] =
                    Append(@, [topic |-> t, due |-> t \in kept[p]])]
    /\ UNCHANGED <<listed, count, connected, upstream, seen, kept, calls>>

(* No more calls are made. *)
Done == calls = MaxCalls /\ UNCHANGED vars

Next ==
    \/ \E f \in Filters : FilterAdd(f) \/ FilterRemove(f)
    \/ \E p \in Publishers :
          \/ Connect(p) \/ Disconnect(p) \/ Handle(p) \/ Discard(p) \/ Learn(p)
          \/ \E t \in Topics : Publish(p, t)
    \/ Done

(* A publisher that goes on sending hears the news. *)
Spec == Init /\ [][Next]_vars /\ \A p \in Publishers : WF_vars(Learn(p))

-----------------------------------------------------------------------------
(* Properties *)

(* The socket is subscribed to whatever the list lets pass, after any      *)
(* sequence of additions and removals: filters that are added twice, or    *)
(* removed and added again, never leave the list and the counts of the     *)
(* socket in a state where data a filter matches is dropped.               *)
ListedPasses == Passed(listed) \subseteq UNION Subscribed(count)

(* A publisher that knows of the connection sends every topic that has     *)
(* passed all filter lists since then, whichever subscriptions are still   *)
(* on their way to it; except while it has not heard the end of the news   *)
(* of an actor's first filter.                                             *)
NoGapBetweenSwaps ==
    \A p \in connected :
        (\A i \in 1 .. Len(upstream[p]) : upstream[p][i].call = "change")
            => kept[p] \subseteq UNION seen[p]

(* The same without the exception, which is what "Data will pass if at     *)
(* least one filter matches the data" says.  It fails: filter_add ends the *)
(* subscription to everything first and then subscribes to the filter, and *)
(* a message sent in between that both lists let pass is not sent to the   *)
(* actor.                                                                  *)
NoGap ==
    \A p \in connected :
        (\A i \in 1 .. Len(upstream[p]) : upstream[p][i].call # "connect")
            => kept[p] \subseteq UNION seen[p]

(* A message that every list since it was sent lets pass is handled. *)
DueHandled ==
    [][\A p \in Publishers : Discard(p) => ~Head(inbox[p]).due]_vars

(* Only messages that a filter matches are handled, when there are         *)
(* filters ("Remove a filter from the incoming socket", sphactor.h).  It   *)
(* fails: filter_remove leaves the socket subscribed.                      *)
OnlyListedHandled ==
    [][\A p \in Publishers :
          Handle(p) => Head(inbox[p]).topic \in Passed(listed)]_vars

(* A filter in the list reaches every publisher the actor is connected to. *)
FilterTakesEffect ==
    \A p \in Publishers, f \in Filters :
        p \in connected /\ f \in listed
            ~> f \in seen[p] \/ p \notin connected \/ f \notin listed

-----------------------------------------------------------------------------
(* The inductive invariant behind them (SubFiltersProofs). *)

(* What is listed is subscribed to, and so is the empty filter without a   *)
(* list.                                                                   *)
Counted ==
    /\ \A f \in listed : count[f] > 0
    /\ listed = {} => count[All] > 0

(* What passed all lists passes this one. *)
History ==
    /\ \A p \in Publishers : kept[p] \subseteq Passed(listed)
    /\ \A p \in Publishers : \A i \in DOMAIN inbox[p] :
          inbox[p][i].due => inbox[p][i].topic \in Passed(listed)

\* No news from the i-th on ends the subscription to f.
Lasting(p, f, i) ==
    \A j \in DOMAIN upstream[p] :
        j >= i /\ ~upstream[p][j].on => f \notin upstream[p][j].filters

(* A publisher has heard of a lasting subscription for every topic that    *)
(* has passed all lists, or will have when it has heard the end of the     *)
(* connection's or the swap's news.                                        *)
Heard(p, f) == f \in seen[p] /\ Lasting(p, f, 1)
Coming(p, f) ==
    \E i, k \in DOMAIN upstream[p] :
        /\ upstream[p][i].on /\ f \in upstream[p][i].filters
        /\ Lasting(p, f, i)
        /\ i <= k /\ upstream[p][k].call # "change"
Reaching ==
    \A p \in connected : \A t \in kept[p] :
        \E f \in Subscription : t \in f /\ (Heard(p, f) \/ Coming(p, f))

IInv == TypeOK /\ Counted /\ History /\ Reaching
=============================================================================
