--------------------------- MODULE Subscriptions ---------------------------
(***************************************************************************)
(* The subscriptions of one Connection: subscribe(), unsubscribe(), the    *)
(* subscription request() makes for its response, dispatch() and what      *)
(* connect() and disconnect() do with them (InternalConnection.cpp), with  *)
(* the registers they keep in step: m_subscriptions, CallbackLookup,       *)
(* ConnectionCallbackCache and ActiveSubscriptions; and the middleware's   *)
(* own list (wrapper/loopback).                                            *)
(*                                                                         *)
(* subscribe() takes the read ticket twice: to look whether the topic is   *)
(* new, and to register the subscription.  In between it talks to the      *)
(* middleware without a lock.  unsubscribe() is one section under the      *)
(* ticket, and so is a dispatch, with all the callbacks it makes.          *)
(*                                                                         *)
(* A subscription stands for its SubscriptionInfo and for the              *)
(* ConnectionCallback made for it.                                         *)
(***************************************************************************)
EXTENDS Integers, FiniteSets

CONSTANTS Thread,    \* application threads
          Topic,     \* subject patterns
          Callback,  \* the application's callbacks
          None,      \* NULL
          Refuses,   \* the middleware calls that may fail
          MaxInfos,  \* bound: subscriptions made
          MaxLinks   \* bound: connections established

\* A SubscriptionInfo and its ConnectionCallback; n is the order of registration.
Info == [n : 1 .. MaxInfos, topic : Topic, cb : Callback \cup {None}]

Op == [step : {"check", "subscribe", "register"}, topic : Topic, cb : Callback \cup {None}]

\* Where a thread is in connect(), and the entry of the list its loop is at.
Conn == [step : {"connect", "authenticate", "renew", "next"}, at : Info \cup {None}]

ASSUME SubscriptionAssumption ==
  /\ None \notin Callback \cup Op \cup Conn \cup Info
  /\ Refuses \subseteq {"connect", "authenticate", "subscribe", "unsubscribe", "resubscribe"}
  /\ MaxInfos \in Nat /\ MaxLinks \in Nat

VARIABLES
  connected,   \* m_state = CONNECTED
  mw,          \* topics the middleware forwards to this connection
  subs,        \* m_subscriptions; the list has the latest, with the highest n, first
  lookup,      \* m_callbackLookup: subscriptions whose callback is called
  cache,       \* ConnectionCallbackCache: those whose ConnectionCallback exists
  registered, topics,  \* s_activeSubscriptions
  op,          \* the subscribe() each thread is in
  conn,        \* the connect() each thread is in
  batch,       \* callbacks the dispatch under way has still to make
  dispatching, \* a dispatch holds the read ticket
  \* history
  made,        \* subscriptions made
  links,       \* connections established
  stuck,       \* those the middleware refused to end
  ready,       \* connect() has returned without exception
  freed        \* the entry that the loop of a connect() was at has been deleted

registers == <<subs, lookup, cache, registered, topics>>
dispatch == <<batch, dispatching>>
link == <<connected, conn, ready, links, freed>>
vars == <<link, mw, registers, op, dispatch, made, stuck>>

\* Subscriptions registered, and those whose end the middleware refused.
Live == subs \cup stuck

\* The process-wide list of active topics counts them.
Active == INSTANCE ActiveSubscriptions WITH
  MaxUse <- MaxInfos,
  inUse  <- [t \in Topic |-> Cardinality({i \in Live : i.topic = t})]

TypeOK ==
  /\ connected \in BOOLEAN /\ ready \in BOOLEAN /\ dispatching \in BOOLEAN /\ freed \in BOOLEAN
  /\ mw \subseteq Topic
  /\ subs \subseteq Info
  /\ lookup \subseteq Info /\ cache \subseteq Info /\ stuck \subseteq Info
  /\ batch \subseteq Info
  /\ op \in [Thread -> Op \cup {None}]
  /\ conn \in [Thread -> Conn \cup {None}]
  /\ made \in 0 .. MaxInfos /\ links \in 0 .. MaxLinks
  /\ registered \in [DOMAIN registered -> Int] /\ DOMAIN registered \subseteq Topic
  /\ topics \subseteq Topic

Init ==
  /\ connected = FALSE
  /\ mw = {}
  /\ subs = {}
  /\ lookup = {} /\ cache = {}
  /\ registered = [t \in {} |-> 0] /\ topics = {}
  /\ op = [t \in Thread |-> None]
  /\ conn = [th \in Thread |-> None] /\ freed = FALSE
  /\ batch = {} /\ dispatching = FALSE
  /\ made = 0 /\ links = 0 /\ stuck = {} /\ ready = FALSE

\* The read ticket is free: other sections are single steps.
TicketFree == ~dispatching
-----------------------------------------------------------------------------
SameTopic(t) == {i \in subs : i.topic = t}

\* Mutant: a subscription without a callback is not told apart.
CheckSubscription_AnyCallback(t, cb) ==
  IF SameTopic(t) = {} THEN "IS_NEW" ELSE "NOT_NEW"

\* checkSubscription(): the status that the last matching entry of the list, the
\* oldest, leaves.
CheckSubscription(t, cb) ==
  IF SameTopic(t) = {} THEN "IS_NEW"
  ELSE IF cb = None THEN "ERR_IS_DUPLICATE"
  ELSE LET oldest == CHOOSE i \in SameTopic(t) : \A j \in SameTopic(t) : i.n <= j.n
       IN  IF oldest.cb = cb THEN "ERR_IS_DUPLICATE_USING_CALLBACK" ELSE "NOT_NEW"

\* Where subscribe() goes from its check; on ERR_... it throws.
AfterCheck(t, cb) ==
  CASE CheckSubscription(t, cb) = "IS_NEW"  -> [step |-> "subscribe", topic |-> t, cb |-> cb]
    [] CheckSubscription(t, cb) = "NOT_NEW" -> [step |-> "register", topic |-> t, cb |-> cb]
    [] OTHER -> None

Idle(th) == op[th] = None /\ conn[th] = None

Room == made < MaxInfos

\* subscribe(), first section.
Subscribe(th, t, cb) ==
  /\ connected /\ Idle(th) /\ Room /\ TicketFree
  /\ op' = [op EXCEPT ![th] = AfterCheck(t, cb)]
  /\ UNCHANGED <<link, mw, registers, dispatch, made, stuck>>

\* setupSubscriptionForResponse(): request() makes sure that the topic of its
\* response is subscribed to, without a callback.
SetupForResponse(th, t) ==
  /\ connected /\ Idle(th) /\ Room /\ TicketFree
  /\ CheckSubscription(t, None) = "IS_NEW"
  /\ op' = [op EXCEPT ![th] = [step |-> "check", topic |-> t, cb |-> None]]
  /\ UNCHANGED <<link, mw, registers, dispatch, made, stuck>>

\* The subscribe() that follows looks again, and its exception is request()'s.
SubscribeForResponse(th) ==
  /\ op[th] # None /\ op[th].step = "check" /\ TicketFree
  /\ op' = [op EXCEPT ![th] = IF connected THEN AfterCheck(op[th].topic, None) ELSE None]
  /\ UNCHANGED <<link, mw, registers, dispatch, made, stuck>>

\* mwSubscribe(), with no lock of the Connection.
MwSubscribe(th) ==
  /\ op[th] # None /\ op[th].step = "subscribe"
  /\ mw' = mw \cup {op[th].topic}
  /\ op' = [op EXCEPT ![th].step = "register"]
  /\ UNCHANGED <<link, registers, dispatch, made, stuck>>

MwSubscribeFails(th) ==
  /\ "subscribe" \in Refuses
  /\ op[th] # None /\ op[th].step = "subscribe"
  /\ op' = [op EXCEPT ![th] = None]
  /\ UNCHANGED <<link, mw, registers, dispatch, made, stuck>>

\* Mutant: only the first subscription of a topic is reported as active.
Register_FirstOnly(th) ==
  /\ op[th] # None /\ op[th].step = "register" /\ TicketFree /\ Room
  /\ LET info == [n |-> made + 1, topic |-> op[th].topic, cb |-> op[th].cb]
         proxy == IF info.cb = None THEN {} ELSE {info}
     IN  /\ subs' = subs \cup {info}
         /\ lookup' = lookup \cup proxy
         /\ cache' = cache \cup proxy
         /\ IF SameTopic(info.topic) = {} THEN Active!AddTopic(info.topic)
                                          ELSE UNCHANGED <<registered, topics>>
  /\ made' = made + 1
  /\ op' = [op EXCEPT ![th] = None]
  /\ UNCHANGED <<link, mw, dispatch, stuck>>

\* subscribe(), second section.
Register(th) ==
  /\ op[th] # None /\ op[th].step = "register" /\ TicketFree /\ Room
  /\ LET info == [n |-> made + 1, topic |-> op[th].topic, cb |-> op[th].cb]
         proxy == IF info.cb = None THEN {} ELSE {info}
     IN  /\ subs' = subs \cup {info}
         /\ lookup' = lookup \cup proxy
         /\ cache' = cache \cup proxy
         /\ Active!AddTopic(info.topic)
  /\ made' = made + 1
  /\ op' = [op EXCEPT ![th] = None]
  /\ UNCHANGED <<link, mw, dispatch, stuck>>

\* Mutant: an entry still in the list is taken for another subscription.
Remaining_Self(i) == {j \in subs : j.topic = i.topic}

\* Mutant: other subscriptions of the topic are not looked for.
Remaining_None(i) == {}

\* haveRemainingSubscription(), asked when i is no longer in the list.
Remaining(i) == {j \in subs \ {i} : j.topic = i.topic}

\* Threads whose loop in connect() is at an entry of the list.
Walks(th) == conn[th] # None /\ conn[th].step \in {"renew", "next"}

Visited(i) == \E th \in Thread : Walks(th) /\ conn[th].at = i

\* Mutant: unsubscribe() does not take the read ticket.
Unsubscribe_NoTicket(th, i) ==
  /\ connected /\ Idle(th) /\ i \in subs
  /\ mw' = IF Remaining(i) = {} THEN mw \ {i.topic} ELSE mw
  /\ subs' = subs \ {i}
  /\ freed' = (freed \/ Visited(i))
  /\ lookup' = lookup \ {i}
  /\ cache' = cache \ {i}
  /\ Active!RemoveTopic(i.topic)
  /\ UNCHANGED <<connected, conn, ready, links, op, dispatch, made, stuck>>

\* Mutant: the ConnectionCallback stays in the cache.
Unsubscribe_KeepsCache(th, i) ==
  /\ connected /\ Idle(th) /\ TicketFree /\ i \in subs
  /\ mw' = IF Remaining(i) = {} THEN mw \ {i.topic} ELSE mw
  /\ subs' = subs \ {i}
  /\ freed' = (freed \/ Visited(i))
  /\ lookup' = lookup \ {i}
  /\ Active!RemoveTopic(i.topic)
  /\ UNCHANGED <<connected, conn, ready, links, op, dispatch, made, stuck, cache>>

\* unsubscribe() of a handle the application still holds.
Unsubscribe(th, i) ==
  /\ connected /\ Idle(th) /\ TicketFree /\ i \in subs
  /\ mw' = IF Remaining(i) = {} THEN mw \ {i.topic} ELSE mw
  /\ subs' = subs \ {i}
  /\ freed' = (freed \/ Visited(i))
  /\ lookup' = lookup \ {i}
  /\ cache' = cache \ {i}
  /\ Active!RemoveTopic(i.topic)
  /\ UNCHANGED <<connected, conn, ready, links, op, dispatch, made, stuck>>

\* The middleware refuses: the exception leaves unsubscribe() when the handle is
\* already out of the list, and nothing else has been undone.
UnsubscribeFails(th, i) ==
  /\ "unsubscribe" \in Refuses
  /\ connected /\ Idle(th) /\ TicketFree /\ i \in subs
  /\ Remaining(i) = {}
  /\ subs' = subs \ {i}
  /\ freed' = (freed \/ Visited(i))
  /\ stuck' = stuck \cup {i}
  /\ UNCHANGED <<connected, conn, ready, links, mw, lookup, cache, registered, topics,
                 op, dispatch, made>>
-----------------------------------------------------------------------------
\* dispatch() or a round of the auto-dispatcher: collect the callbacks of the
\* patterns the subject matches, and call them one after the other.
BeginDispatch(patterns) ==
  /\ connected /\ TicketFree
  /\ dispatching' = TRUE
  /\ batch' = {i \in lookup : i.topic \in patterns}
  /\ UNCHANGED <<link, mw, registers, op, made, stuck>>

\* dispatchMsgToCallbacks().
CallBack(i) ==
  /\ dispatching /\ i \in batch
  /\ batch' = batch \ {i}
  /\ UNCHANGED <<link, mw, registers, op, dispatching, made, stuck>>

EndDispatch ==
  /\ dispatching /\ batch = {}
  /\ dispatching' = FALSE
  /\ UNCHANGED <<link, mw, registers, op, batch, made, stuck>>
-----------------------------------------------------------------------------
\* connect() of a Connection that is not connected: a second thread may be inside.
Connect(th) ==
  /\ ~connected /\ Idle(th)
  /\ links < MaxLinks /\ links' = links + 1
  /\ conn' = [conn EXCEPT ![th] = [step |-> "connect", at |-> None]]
  /\ UNCHANGED <<connected, ready, freed, mw, registers, op, dispatch, made, stuck>>

\* A connect() of a connected Connection only warns.
ConnectAgain(th) ==
  /\ connected /\ Idle(th)
  /\ ready' = TRUE
  /\ UNCHANGED <<connected, conn, links, freed, mw, registers, op, dispatch, made, stuck>>

In(th, step) == conn[th] # None /\ conn[th].step = step

\* mwConnect(), and the state that follows at once.
MwConnect(th) ==
  /\ In(th, "connect")
  /\ connected' = TRUE
  /\ conn' = [conn EXCEPT ![th].step = "authenticate"]
  /\ UNCHANGED <<ready, links, freed, mw, registers, op, dispatch, made, stuck>>

MwConnectFails(th) ==
  /\ "connect" \in Refuses /\ In(th, "connect")
  /\ conn' = [conn EXCEPT ![th] = None]
  /\ UNCHANGED <<connected, ready, links, freed, mw, registers, op, dispatch, made, stuck>>

\* The policy refuses: mwDisconnect(), and connect() throws.
AuthenticateFails(th) ==
  /\ "authenticate" \in Refuses /\ In(th, "authenticate")
  /\ connected' = FALSE /\ ready' = FALSE
  /\ mw' = {}
  /\ conn' = [conn EXCEPT ![th] = None]
  /\ UNCHANGED <<links, freed, registers, op, dispatch, made, stuck>>

\* The first of some entries of the list; None at its end.
Foremost(S) == IF S = {} THEN None ELSE CHOOSE i \in S : \A j \in S : j.n <= i.n

\* The loop's iterator comes to i; at the end of the list, connect() returns.
Comes(th, i) ==
  IF i = None THEN /\ conn' = [conn EXCEPT ![th] = None]
                   /\ ready' = connected
              ELSE /\ conn' = [conn EXCEPT ![th] = [step |-> "renew", at |-> i]]
                   /\ ready' = ready

\* The loop of connectAux() goes over the list without the read ticket, although
\* the state is CONNECTED already and lets unsubscribe() in.
RenewBegins(th) ==
  /\ In(th, "authenticate")
  /\ Comes(th, Foremost(subs))
  /\ UNCHANGED <<connected, links, freed, mw, registers, op, dispatch, made, stuck>>

\* What info->getSubjectPattern() gives: anything when *it is no longer in the list.
Patterns(i) == IF i \in subs THEN {i.topic} ELSE Topic

\* mwSubscribe() for the info read from the list.
Renew(th) ==
  /\ In(th, "renew")
  /\ \E t \in Patterns(conn[th].at) : mw' = mw \cup {t}
  /\ conn' = [conn EXCEPT ![th].step = "next"]
  /\ UNCHANGED <<connected, ready, links, freed, registers, op, dispatch, made, stuck>>

\* Where ++it leads: from an erased node anywhere.
After(i) == IF i \in subs THEN {Foremost({j \in subs : j.n < i.n})}
                          ELSE subs \cup {i, None}

RenewNext(th) ==
  /\ In(th, "next")
  /\ \E i \in After(conn[th].at) : Comes(th, i)
  /\ UNCHANGED <<connected, links, freed, mw, registers, op, dispatch, made, stuck>>

\* The middleware's exception leaves connect() with the state CONNECTED.
RenewFails(th) ==
  /\ "resubscribe" \in Refuses /\ In(th, "renew")
  /\ conn' = [conn EXCEPT ![th] = None]
  /\ UNCHANGED <<connected, ready, links, freed, mw, registers, op, dispatch, made, stuck>>

\* disconnect() keeps m_subscriptions for the next connect().
Disconnect(th) ==
  /\ connected /\ Idle(th)
  /\ connected' = FALSE
  /\ ready' = FALSE
  /\ mw' = {}
  /\ UNCHANGED <<conn, links, freed, registers, op, dispatch, made, stuck>>
-----------------------------------------------------------------------------
SubscribeNext(th) ==
  \/ \E t \in Topic, cb \in Callback \cup {None} : Subscribe(th, t, cb)
  \/ \E t \in Topic : SetupForResponse(th, t)
  \/ SubscribeForResponse(th)
  \/ MwSubscribe(th) \/ MwSubscribeFails(th)
  \/ Register(th)

UnsubscribeNext(th) == \E i \in subs : Unsubscribe(th, i) \/ UnsubscribeFails(th, i)

DispatchNext == \/ \E patterns \in SUBSET Topic : BeginDispatch(patterns)
                \/ \E i \in batch : CallBack(i)
                \/ EndDispatch

ConnectNext(th) ==
  \/ Connect(th) \/ ConnectAgain(th)
  \/ MwConnect(th) \/ MwConnectFails(th)
  \/ AuthenticateFails(th)
  \/ RenewBegins(th) \/ Renew(th) \/ RenewNext(th) \/ RenewFails(th)

LinkNext == \E th \in Thread : ConnectNext(th) \/ Disconnect(th)

Next == \/ \E th \in Thread : SubscribeNext(th) \/ UnsubscribeNext(th)
        \/ DispatchNext
        \/ LinkNext

Spec == Init /\ [][Next]_vars
-----------------------------------------------------------------------------
\* The registers tell the same story: callbacks are found and kept exactly for
\* the subscriptions that have one and are registered, or whose end the
\* middleware refused.
RegistersAgree ==
  /\ lookup = {i \in Live : i.cb # None}
  /\ cache = lookup

\* A dispatch never calls the ConnectionCallback of a subscription that has been
\* cancelled: it would be deleted (the read ticket of unsubscribe and dispatch).
BatchIsAlive == batch \subseteq cache

Awaited(t) == \E th \in Thread : op[th] # None /\ op[th].step = "register" /\ op[th].topic = t

\* The middleware forwards a topic only for a subscription registered, or about
\* to be, or one whose end it refused.  No topic is left behind, unless connect()
\* came to an entry of m_subscriptions that unsubscribe() deleted under it
\* (InternalConnection.cpp:1489-1494, without the ticket).
NoOrphans == ~freed => \A t \in mw : Awaited(t) \/ \E i \in Live : i.topic = t

\* The loop of a connect() is at an entry of the list, or of one deleted under it.
LoopsInList ==
  \A th \in Thread : Walks(th) => conn[th].at \in Info /\ (freed \/ conn[th].at \in subs)

Bookkeeping ==
  /\ subs \cap stuck = {} /\ LoopsInList
  /\ \A i \in Live : i.n <= made
  /\ \A i, j \in Live : i.n = j.n => i = j
  /\ IsFiniteSet(Live) /\ Cardinality(Live) <= made
  /\ ~dispatching => batch = {}

\* The inductive invariant: the registers agree because subscriptions are never
\* made twice, no dispatch is interrupted, and connect() renews what is in the list.
SubsInv == TypeOK /\ Bookkeeping /\ RegistersAgree /\ BatchIsAlive /\ NoOrphans

\* The registrations in the process-wide list follow those of this connection.
ImplementsActive == Active!Spec

\* Once connect() has returned, the middleware forwards the topic of every
\* subscription the application holds.  Connection.h:190: "Once this call
\* successfully returns, the Connection object is ready for message operations";
\* Connection.h:67-68: "considered thread-safe".
Served == ready => \A i \in subs : i.topic \in mw

\* InternalConnection.cpp:321-322: "We only allow for only one registration of a
\* subscription topic when a callback is not provided."
OneReceiver ==
  \A i, j \in subs : i.topic = j.topic /\ i.cb = None /\ j.cb = None => i = j

\* A heartbeat reports no topic that nobody is subscribed to, although the
\* counts are forgotten whenever nothing is left to report.
ReportsOnlyUsed == Active!ReportedIsInUse
=============================================================================
