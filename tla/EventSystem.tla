----------------------------- MODULE EventSystem -----------------------------
(***************************************************************************)
(* hts::EventSystem and hts::ScopedSubscription                            *)
(* (src/include/hts/event_system.hpp).  Subscriptions change under mutex_. *)
(* publish() copies the handlers under it and calls them after giving it   *)
(* up, so a subscription may end between the copy and the call.            *)
(*                                                                         *)
(* There may be several event systems, each with its own ids.  A handler   *)
(* is named by whom it was subscribed for; what it throws is ignored.      *)
(***************************************************************************)
EXTENDS Naturals, Sequences, FiniteSets

CONSTANTS
    Systems,     \* event systems
    Types,       \* event types
    Scopes,      \* ScopedSubscription objects
    Publishers,  \* threads that call publish
    MaxId        \* bound: subscription ids handed out by a system

ASSUME EventAssumption ==
    /\ IsFiniteSet(Scopes) /\ IsFiniteSet(Publishers)
    /\ Systems # {}
    /\ MaxId \in Nat \ {0}

AllTypes == "all"   \* the type of a global handler

VARIABLES
    handlers,  \* handlers_ and global_handlers_ of each system
    nextId,    \* next_id_ of each system
    scope,     \* the id each ScopedSubscription ends, 0 once moved from
    calls,     \* the handlers a publisher has copied and not yet called
    wiped,     \* ids that clear() ended
    late       \* calls made to a handler after its subscription ended

subscriptionVars == <<handlers, nextId>>
eventVars == <<handlers, nextId, scope, calls, wiped, late>>

SubscriptionIds == 1 .. MaxId
Handler == [id : SubscriptionIds, type : Types \cup {AllTypes}, owner : {"client", "profiler"}]
NoScope == [live |-> FALSE, system |-> CHOOSE s \in Systems : TRUE, id |-> 0]
IdsOf(s) == {h.id : h \in handlers[s]}

EventTypeOK ==
    /\ handlers \in [Systems -> SUBSET Handler]
    /\ nextId \in [Systems -> 1 .. MaxId + 1]
    /\ scope \in [Scopes -> [live : BOOLEAN, system : Systems, id : 0 .. MaxId]]
    /\ calls \in [Publishers -> SUBSET (Systems \X SubscriptionIds)]
    /\ wiped \subseteq Systems \X SubscriptionIds
    /\ late \in [Systems \X SubscriptionIds -> Nat]

EventInit ==
    /\ handlers = [s \in Systems |-> {}]
    /\ nextId = [s \in Systems |-> 1]
    /\ scope = [c \in Scopes |-> NoScope]
    /\ calls = [p \in Publishers |-> {}]
    /\ wiped = {}
    /\ late = [x \in Systems \X SubscriptionIds |-> 0]
-----------------------------------------------------------------------------
(* subscribe(type) and, with AllTypes, subscribe_all: the subscriptions of *)
(* one owner to a sequence of types, made one after the other.             *)
AddHandlers(s, types, owner) ==
    /\ nextId[s] + Len(types) <= MaxId + 1
    /\ handlers' = [handlers EXCEPT ![s] = @ \cup
           {[id |-> nextId[s] + i - 1, type |-> types[i], owner |-> owner] :
                i \in DOMAIN types}]
    /\ nextId' = [nextId EXCEPT ![s] = @ + Len(types)]

(* unsubscribe(id), for each of ids: what stays. *)
Remaining(s, ids) == {h \in handlers[s] : h.id \notin ids}

Subscribe(s, type, c) ==
    /\ ~ scope[c].live
    /\ AddHandlers(s, <<type>>, "client")
    /\ scope' = [scope EXCEPT ![c] = [live |-> TRUE, system |-> s, id |-> nextId[s]]]
    /\ UNCHANGED <<calls, wiped, late>>

(* Plausible bug: the moved-from object keeps the id. *)
BugMoveKeepsId(c, d) ==
    /\ scope[c].live /\ ~ scope[d].live
    /\ scope' = [scope EXCEPT ![d] = scope[c]]
    /\ UNCHANGED <<handlers, nextId, calls, wiped, late>>

(* The move constructor; no subscription has the id 0. *)
MoveScope(c, d) ==
    /\ scope[c].live /\ ~ scope[d].live
    /\ scope' = [scope EXCEPT ![d] = scope[c], ![c].id = 0]
    /\ UNCHANGED <<handlers, nextId, calls, wiped, late>>

(* The destructor unsubscribes. *)
EndScope(c) ==
    /\ scope[c].live
    /\ handlers' = [handlers EXCEPT ![scope[c].system] =
                        Remaining(scope[c].system, {scope[c].id})]
    /\ scope' = [scope EXCEPT ![c] = NoScope]
    /\ UNCHANGED <<nextId, calls, wiped, late>>

ClearHandlers(s) ==
    /\ handlers' = [handlers EXCEPT ![s] = {}]
    /\ wiped' = wiped \cup ({s} \X IdsOf(s))
    /\ UNCHANGED <<nextId, scope, calls, late>>

Listeners(s, type) == {h \in handlers[s] : h.type \in {type, AllTypes}}

(* Plausible bug: the copy is kept from one publish to the next, and only  *)
(* subscribe brings it up to date.                                         *)
BugKeepsTheCopy(p, s, type) ==
    /\ calls[p] = {}
    /\ calls' = [calls EXCEPT ![p] = {<<s, id>> : id \in 1 .. nextId[s] - 1}]
    /\ UNCHANGED <<handlers, nextId, scope, wiped, late>>

(* The critical section of publish: the handlers of the type and the       *)
(* global ones are copied.                                                 *)
Publish(p, s, type) ==
    /\ calls[p] = {}
    /\ calls' = [calls EXCEPT ![p] = {<<s, h.id>> : h \in Listeners(s, type)}]
    /\ UNCHANGED <<handlers, nextId, scope, wiped, late>>

(* One call from the copy. *)
CallHandler(p, x) ==
    /\ x \in calls[p]
    /\ calls' = [calls EXCEPT ![p] = @ \ {x}]
    /\ late' = [late EXCEPT ![x] =
                    IF x[2] \in IdsOf(x[1]) THEN @ ELSE @ + 1]
    /\ UNCHANGED <<handlers, nextId, scope, wiped>>

EventNext ==
    \/ \E s \in Systems, t \in Types \cup {AllTypes}, c \in Scopes : Subscribe(s, t, c)
    \/ \E c, d \in Scopes : MoveScope(c, d)
    \/ \E c \in Scopes : EndScope(c)
    \/ \E s \in Systems : ClearHandlers(s)
    \/ \E p \in Publishers, s \in Systems, t \in Types : Publish(p, s, t)
    \/ \E p \in Publishers : \E x \in calls[p] : CallHandler(p, x)

EventSpec == EventInit /\ [][EventNext]_eventVars
-----------------------------------------------------------------------------
(* A subscription lives as long as the guard that holds it, however often  *)
(* the guard was moved and whatever else was subscribed and unsubscribed:  *)
(* only clear() ends it earlier, and nothing keeps it longer.              *)
GuardsHold ==
    /\ \A c, d \in Scopes :
           scope[c].id # 0 /\ scope[c].system = scope[d].system
               /\ scope[c].id = scope[d].id => c = d
    /\ \A s \in Systems :
           LET held == {scope[c].id : c \in {d \in Scopes : scope[d].system = s}} \ {0}
               ended == {x \in SubscriptionIds : <<s, x>> \in wiped}
           IN  held \ ended = {h.id : h \in {k \in handlers[s] : k.owner = "client"}}

(* A handler is called after its unsubscribe returned only by publishers   *)
(* that had copied it before: by each at most once.                        *)
LateCallsBounded == \A x \in Systems \X SubscriptionIds : late[x] <= Cardinality(Publishers)
==============================================================================
