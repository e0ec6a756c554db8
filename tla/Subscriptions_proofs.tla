-------------------------- MODULE Subscriptions_proofs --------------------------
(***************************************************************************)
(* Proofs about Subscriptions: for any threads, topics and callbacks, and  *)
(* whatever the middleware refuses, the registers of a connection stay in  *)
(* step, no dispatch reaches a cancelled callback, no topic is left with   *)
(* the middleware unless connect() used a deleted subscription, and the    *)
(* process-wide list of active topics sees a behaviour of                  *)
(* ActiveSubscriptions.                                                    *)
(***************************************************************************)
EXTENDS SubscriptionsAlone, FiniteSetTheorems, WellFoundedInduction, TLAPS

\* The invariant holds initially.
LEMMA InitSubs == Init => SubsInv
<1> SUFFICES ASSUME Init PROVE SubsInv
  OBVIOUS
<1>1. TypeOK
  <2>1. made \in 0 .. MaxInfos /\ links \in 0 .. MaxLinks
    BY SubscriptionAssumption DEF Init
  <2>2. DOMAIN registered \subseteq Topic /\ registered \in [DOMAIN registered -> Int]
    BY DEF Init
  <2> QED
    BY <2>1, <2>2 DEF Init, TypeOK
<1>2. Live = {}
  BY DEF Init, Live
<1>3. IsFiniteSet(Live) /\ Cardinality(Live) = 0
  BY <1>2, FS_EmptySet
<1>4. Bookkeeping
  BY <1>2, <1>3 DEF Init, Bookkeeping, LoopsInList, Walks
<1>5. RegistersAgree /\ BatchIsAlive /\ NoOrphans
  BY <1>2 DEF Init, RegistersAgree, BatchIsAlive, NoOrphans
<1> QED
  BY <1>1, <1>4, <1>5 DEF SubsInv

\* A thread goes from its check to a step of its own or out of subscribe().
LEMMA AfterCheckType ==
  ASSUME NEW t \in Topic, NEW cb \in Callback \cup {None}
  PROVE  AfterCheck(t, cb) \in Op \cup {None}
  BY DEF AfterCheck, Op

\* What a step may change in the invariant when it leaves the registers alone:
\* only the types, where the loops are, and the topics the middleware forwards.
LEMMA Steady ==
  ASSUME SubsInv, TypeOK', NoOrphans', UNCHANGED <<subs, lookup, cache, stuck, made>>,
         LoopsInList', batch' \subseteq batch, dispatching' = dispatching
  PROVE  SubsInv'
<1>1. Live' = Live
  BY DEF Live
<1>2. Bookkeeping'
  BY <1>1 DEF SubsInv, Bookkeeping
<1>3. RegistersAgree' /\ BatchIsAlive'
  BY <1>1 DEF SubsInv, RegistersAgree, BatchIsAlive
<1> QED
  BY <1>2, <1>3 DEF SubsInv

\* Loops and list left as they are.
LEMMA SameLoops ==
  ASSUME LoopsInList, UNCHANGED <<conn, freed, subs>>
  PROVE  LoopsInList'
  BY DEF LoopsInList, Walks

\* The part of the type invariant that a step on `op` leaves alone.
LEMMA OpType ==
  ASSUME TypeOK, op' \in [Thread -> Op \cup {None}], mw' \subseteq Topic,
         UNCHANGED <<link, registers, dispatch, made, stuck>>
  PROVE  TypeOK'
  BY DEF TypeOK, link, registers, dispatch

\* subscribe(), up to its second section: a step of one thread in which no
\* topic stops being awaited that the middleware forwards.
LEMMA OpStep ==
  ASSUME SubsInv, NEW th \in Thread, NEW o \in Op \cup {None},
         op[th] # None => op[th].step # "register",
         op' = [op EXCEPT ![th] = o],
         mw' \subseteq Topic,
         \A t \in mw' \ mw : o # None /\ o.step = "register" /\ o.topic = t,
         UNCHANGED <<link, registers, dispatch, made, stuck>>
  PROVE  SubsInv'
<1>1. TypeOK'
  BY OpType DEF SubsInv, TypeOK
<1>2. Live' = Live
  BY DEF Live, registers
<1>3. op'[th] = o /\ \A u \in Thread : u # th => op'[u] = op[u]
  BY DEF SubsInv, TypeOK
<1>4. NoOrphans'
  <2> SUFFICES ASSUME ~freed, NEW t \in mw' PROVE Awaited(t)' \/ \E i \in Live' : i.topic = t
    BY DEF NoOrphans, link
  <2>1. CASE t \in mw
    BY <1>2, <1>3, <2>1 DEF SubsInv, NoOrphans, Awaited
  <2>2. CASE t \notin mw
    BY <1>3, <2>2 DEF Awaited
  <2> QED
    BY <2>1, <2>2
<1>5. LoopsInList'
  BY SameLoops DEF link, registers, SubsInv, Bookkeeping
<1> QED
  BY <1>1, <1>4, <1>5, Steady DEF registers, dispatch

\* subscribe() keeps the invariant as far as the middleware, and across its
\* exceptions.
LEMMA SubscribeSteps ==
  ASSUME SubsInv, NEW th \in Thread,
         \/ \E t \in Topic, cb \in Callback \cup {None} : Subscribe(th, t, cb)
         \/ \E t \in Topic : SetupForResponse(th, t)
         \/ SubscribeForResponse(th) \/ MwSubscribe(th) \/ MwSubscribeFails(th)
  PROVE  SubsInv'
<1>0. /\ TypeOK /\ op[th] \in Op \cup {None} /\ None \in Op \cup {None}
      /\ mw \subseteq Topic
  BY DEF SubsInv, TypeOK
<1>1. ASSUME NEW t \in Topic, NEW cb \in Callback \cup {None}, Subscribe(th, t, cb) PROVE SubsInv'
  BY <1>0, <1>1, AfterCheckType, OpStep DEF Subscribe, Idle
<1>2. ASSUME NEW t \in Topic, SetupForResponse(th, t) PROVE SubsInv'
  <2> DEFINE o == [step |-> "check", topic |-> t, cb |-> None]
  <2>1. o \in Op \cup {None}
    BY DEF Op
  <2> QED
    BY <1>0, <1>2, <2>1, OpStep DEF SetupForResponse, Idle
<1>3. ASSUME SubscribeForResponse(th) PROVE SubsInv'
  <2> DEFINE o == IF connected THEN AfterCheck(op[th].topic, None) ELSE None
  <2>1. op[th] # None /\ op[th].step = "check" /\ op[th].topic \in Topic
    BY <1>0, <1>3 DEF SubscribeForResponse, Op
  <2>2. o \in Op \cup {None}
    BY <2>1, AfterCheckType
  <2>3. op' = [op EXCEPT ![th] = o]
    BY <1>0, <1>3 DEF SubscribeForResponse
  <2> HIDE DEF o
  <2> QED
    BY <1>0, <1>3, <2>1, <2>2, <2>3, OpStep DEF SubscribeForResponse
<1>4. ASSUME MwSubscribe(th) PROVE SubsInv'
  <2> DEFINE o == [op[th] EXCEPT !.step = "register"]
  <2>1. op[th] \in Op /\ op[th].step = "subscribe"
    BY <1>0, <1>4 DEF MwSubscribe
  <2>2. o \in Op /\ o # None /\ o.step = "register" /\ o.topic = op[th].topic /\ o.topic \in Topic
    <3>1. o \in Op /\ o.step = "register" /\ o.topic = op[th].topic /\ o.topic \in Topic
      BY <2>1 DEF Op
    <3> QED
      BY <3>1, SubscriptionAssumption
  <2>3. op' = [op EXCEPT ![th] = o] /\ mw' = mw \cup {o.topic}
    BY <1>4, <2>2 DEF MwSubscribe
  <2> HIDE DEF o
  <2> QED
    BY <1>0, <1>4, <2>1, <2>2, <2>3, OpStep DEF MwSubscribe
<1>5. ASSUME MwSubscribeFails(th) PROVE SubsInv'
  BY <1>0, <1>5, OpStep DEF MwSubscribeFails
<1> QED
  BY <1>1, <1>2, <1>3, <1>4, <1>5

\* addTopic() and removeTopic() keep the types of the process-wide list.
LEMMA ListTypes ==
  ASSUME NEW t \in Topic, TypeOK, Active!AddTopic(t) \/ Active!RemoveTopic(t)
  PROVE  /\ DOMAIN registered' \subseteq Topic
         /\ registered' \in [DOMAIN registered' -> Int]
         /\ topics' \subseteq Topic
<1>1. DOMAIN registered \subseteq Topic /\ registered \in [DOMAIN registered -> Int] /\ topics \subseteq Topic
  BY DEF TypeOK
<1>2. CASE Active!AddTopic(t)
  <2>1. CASE /\ registered' = [u \in DOMAIN registered \cup {t} |-> IF u = t THEN 1 ELSE registered[u]]
             /\ topics' = topics \cup {t}
    BY <1>1, <2>1
  <2>2. CASE /\ registered' = [registered EXCEPT ![t] = @ + 1] /\ t \in DOMAIN registered
             /\ topics' = topics
    BY <1>1, <2>2
  <2> QED
    BY <1>2, <2>1, <2>2 DEF Active!AddTopic, Active!Counted
<1>3. CASE Active!RemoveTopic(t)
  <2>1. topics' \subseteq topics
    BY <1>3 DEF Active!RemoveTopic, Active!Reported
  <2>2. CASE registered' = [u \in {} |-> 0]
    BY <1>1, <2>1, <2>2
  <2>3. CASE t \in DOMAIN registered /\ registered' = [registered EXCEPT ![t] = @ - 1]
    BY <1>1, <2>1, <2>3
  <2>4. CASE registered' = registered
    BY <1>1, <2>1, <2>4
  <2> QED
    BY <1>3, <2>2, <2>3, <2>4 DEF Active!RemoveTopic, Active!Counted
<1> QED
  BY <1>2, <1>3

\* subscribe(), second section: the new subscription is in every register at
\* once, and is the one its topic was forwarded for.
LEMMA RegisterStep ==
  ASSUME SubsInv, NEW th \in Thread, Register(th)
  PROVE  SubsInv'
<1> DEFINE info == [n |-> made + 1, topic |-> op[th].topic, cb |-> op[th].cb]
           proxy == IF info.cb = None THEN {} ELSE {info}
<1>1. /\ TypeOK /\ Bookkeeping /\ RegistersAgree /\ BatchIsAlive /\ NoOrphans
      /\ op[th] \in Op /\ made \in Nat /\ made < MaxInfos /\ MaxInfos \in Nat
  BY SubscriptionAssumption DEF SubsInv, TypeOK, Register, Room
<1>2. /\ info \in Info /\ info.n = made + 1 /\ info.topic = op[th].topic /\ info.cb = op[th].cb
      /\ info.topic \in Topic
  BY <1>1 DEF Op, Info
<1>3. /\ subs' = subs \cup {info} /\ lookup' = lookup \cup proxy /\ cache' = cache \cup proxy
      /\ Active!AddTopic(info.topic) /\ made' = made + 1 /\ op' = [op EXCEPT ![th] = None]
      /\ UNCHANGED <<connected, conn, ready, links, freed, mw, batch, dispatching, stuck>>
  BY DEF Register, link, dispatch
<1>4. info \notin Live /\ Live' = Live \cup {info}
  <2>1. \A i \in Live : i.n <= made
    BY <1>1 DEF Bookkeeping
  <2> QED
    BY <1>1, <1>2, <1>3, <2>1 DEF Live
<1> HIDE DEF info
<1>5. TypeOK'
  <2>1. proxy \subseteq Info /\ made' \in 0 .. MaxInfos
    BY <1>1, <1>2, <1>3
  <2>2. op' \in [Thread -> Op \cup {None}]
    BY <1>1, <1>3 DEF TypeOK
  <2>3. /\ DOMAIN registered' \subseteq Topic /\ registered' \in [DOMAIN registered' -> Int]
        /\ topics' \subseteq Topic
    BY <1>1, <1>2, <1>3, ListTypes
  <2> HIDE DEF proxy
  <2> QED
    BY <1>1, <1>2, <1>3, <2>1, <2>2, <2>3 DEF TypeOK
<1>6. Bookkeeping'
  <2>1. IsFiniteSet(Live') /\ Cardinality(Live') = Cardinality(Live) + 1
    BY <1>1, <1>4, FS_AddElement DEF Bookkeeping
  <2>2. Cardinality(Live) \in Nat
    BY <1>1, FS_CardinalityType DEF Bookkeeping
  <2>3. \A i \in Live' : i.n <= made'
    <3> SUFFICES ASSUME NEW i \in Live' PROVE i.n <= made'
      OBVIOUS
    <3>1. CASE i = info
      BY <1>1, <1>2, <1>3, <3>1
    <3>2. CASE i \in Live
      <4>1. i \in Info /\ i.n <= made
        BY <1>1, <3>2 DEF Bookkeeping, TypeOK, Live
      <4> QED
        BY <1>1, <1>3, <4>1 DEF Info
    <3> QED
      BY <1>4, <3>1, <3>2
  <2>4. Cardinality(Live') <= made'
    BY <1>1, <1>3, <2>1, <2>2 DEF Bookkeeping
  <2>5. \A i, j \in Live' : i.n = j.n => i = j
    <3>1. \A i \in Live : i.n # info.n
      BY <1>1, <1>2 DEF Bookkeeping, Live, TypeOK, Info
    <3> QED
      BY <1>1, <1>4, <3>1 DEF Bookkeeping
  <2>6. LoopsInList'
    BY <1>1, <1>3 DEF Bookkeeping, LoopsInList, Walks
  <2> QED
    BY <1>1, <1>3, <1>4, <2>1, <2>3, <2>4, <2>5, <2>6 DEF Bookkeeping, Live
<1>7. RegistersAgree' /\ BatchIsAlive'
  BY <1>1, <1>3, <1>4 DEF RegistersAgree, BatchIsAlive
<1>8. NoOrphans'
  <2> SUFFICES ASSUME ~freed, NEW t \in mw PROVE Awaited(t)' \/ \E i \in Live' : i.topic = t
    BY <1>3 DEF NoOrphans
  <2>1. CASE t = info.topic
    BY <1>4, <2>1
  <2>2. CASE t # info.topic
    <3>1. \A u \in Thread : u # th => op'[u] = op[u]
      BY <1>3 DEF SubsInv, TypeOK
    <3> QED
      BY <1>1, <1>2, <1>4, <2>2, <3>1 DEF NoOrphans, Awaited
  <2> QED
    BY <2>1, <2>2
<1> QED
  BY <1>5, <1>6, <1>7, <1>8 DEF SubsInv

\* An entry leaves the list.
LEMMA LoopLeft ==
  ASSUME LoopsInList, NEW i, subs' = subs \ {i}, freed' = (freed \/ Visited(i)), conn' = conn
  PROVE  LoopsInList'
  BY DEF LoopsInList, Walks, Visited

\* unsubscribe(): the subscription leaves every register, when no dispatch is
\* under way, and its topic leaves the middleware only if it was the last one.  A
\* loop that is at it finds it deleted.
LEMMA UnsubscribeStep ==
  ASSUME SubsInv, NEW th \in Thread, NEW i \in subs, Unsubscribe(th, i)
  PROVE  SubsInv'
<1>1. /\ TypeOK /\ Bookkeeping /\ RegistersAgree /\ BatchIsAlive /\ NoOrphans
      /\ ~dispatching /\ i \in Info /\ i.topic \in Topic
  BY DEF SubsInv, TypeOK, Unsubscribe, TicketFree, Info
<1>2. /\ subs' = subs \ {i} /\ freed' = (freed \/ Visited(i))
      /\ lookup' = lookup \ {i} /\ cache' = cache \ {i}
      /\ mw' = IF Remaining(i) = {} THEN mw \ {i.topic} ELSE mw
      /\ Active!RemoveTopic(i.topic)
      /\ UNCHANGED <<connected, conn, ready, links, op, batch, dispatching, made, stuck>>
  BY DEF Unsubscribe, dispatch
<1>3. i \notin stuck /\ i \in Live /\ Live' = Live \ {i}
  BY <1>1, <1>2 DEF Bookkeeping, Live
<1>4. TypeOK'
  <2>1. /\ DOMAIN registered' \subseteq Topic /\ registered' \in [DOMAIN registered' -> Int]
        /\ topics' \subseteq Topic
    BY <1>1, <1>2, ListTypes
  <2>2. mw' \subseteq Topic
    BY <1>1, <1>2 DEF TypeOK
  <2> QED
    BY <1>1, <1>2, <2>1, <2>2 DEF TypeOK
<1>5. Bookkeeping'
  <2>1. IsFiniteSet(Live') /\ Cardinality(Live') = Cardinality(Live) - 1
    BY <1>1, <1>3, FS_RemoveElement DEF Bookkeeping
  <2>2. Cardinality(Live) \in Nat /\ made \in Nat
    BY <1>1, FS_CardinalityType DEF Bookkeeping, TypeOK
  <2>3. Cardinality(Live') <= made'
    BY <1>1, <1>2, <2>1, <2>2 DEF Bookkeeping
  <2>4. LoopsInList'
    BY <1>1, <1>2, LoopLeft DEF Bookkeeping
  <2>5. \A j, k \in Live' : j.n = k.n => j = k
    BY <1>1, <1>3 DEF Bookkeeping
  <2> QED
    BY <1>1, <1>2, <1>3, <2>1, <2>3, <2>4, <2>5 DEF Bookkeeping
<1>6. RegistersAgree' /\ BatchIsAlive'
  BY <1>1, <1>2, <1>3 DEF RegistersAgree, BatchIsAlive, Bookkeeping
<1>7. NoOrphans'
  <2> SUFFICES ASSUME ~freed, NEW t \in mw' PROVE Awaited(t)' \/ \E j \in Live' : j.topic = t
    BY <1>2 DEF NoOrphans
  <2>1. t \in mw /\ (t = i.topic => Remaining(i) # {})
    BY <1>2
  <2>2. CASE t = i.topic
    BY <1>3, <2>1, <2>2 DEF Remaining, Live
  <2>3. CASE t # i.topic
    BY <1>1, <1>2, <1>3, <2>1, <2>3 DEF NoOrphans, Awaited
  <2> QED
    BY <2>2, <2>3
<1> QED
  BY <1>4, <1>5, <1>6, <1>7 DEF SubsInv

\* A refused unsubscribe() only moves the subscription out of the list.
LEMMA UnsubscribeFailsStep ==
  ASSUME SubsInv, NEW th \in Thread, NEW i \in subs, UnsubscribeFails(th, i)
  PROVE  SubsInv'
<1>1. /\ TypeOK /\ Bookkeeping /\ RegistersAgree /\ BatchIsAlive /\ NoOrphans
  BY DEF SubsInv
<1>2. /\ subs' = subs \ {i} /\ freed' = (freed \/ Visited(i)) /\ stuck' = stuck \cup {i}
      /\ UNCHANGED <<connected, conn, ready, links, mw, lookup, cache, registered, topics,
                     op, batch, dispatching, made>>
  BY DEF UnsubscribeFails, dispatch
<1>3. Live' = Live
  BY <1>2 DEF Live
<1>4. TypeOK'
  BY <1>1, <1>2 DEF TypeOK
<1>5. Bookkeeping'
  <2>1. LoopsInList'
    BY <1>1, <1>2, LoopLeft DEF Bookkeeping
  <2> QED
    BY <1>1, <1>2, <1>3, <2>1 DEF Bookkeeping
<1>6. RegistersAgree' /\ BatchIsAlive' /\ NoOrphans'
  BY <1>1, <1>2, <1>3 DEF RegistersAgree, BatchIsAlive, NoOrphans, Awaited
<1> QED
  BY <1>4, <1>5, <1>6 DEF SubsInv

\* A dispatch takes callbacks that are registered, and nothing is cancelled
\* before it has ended.
LEMMA DispatchSteps ==
  ASSUME SubsInv, DispatchNext
  PROVE  SubsInv'
<1>1. /\ TypeOK /\ Bookkeeping /\ RegistersAgree /\ BatchIsAlive /\ NoOrphans
  BY DEF SubsInv
<1>2. UNCHANGED <<link, mw, registers, op, made, stuck>> /\ dispatching' \in BOOLEAN
  BY <1>1 DEF DispatchNext, BeginDispatch, CallBack, EndDispatch, TypeOK
<1>3. batch' \subseteq cache /\ (~dispatching' => batch' = {})
  BY <1>1 DEF DispatchNext, BeginDispatch, CallBack, EndDispatch, RegistersAgree, BatchIsAlive
<1>4. Live' = Live
  BY <1>2 DEF Live, registers
<1>5. TypeOK'
  BY <1>1, <1>2, <1>3 DEF TypeOK, link, registers
<1>6. Bookkeeping'
  <2>1. LoopsInList'
    BY <1>1, <1>2, SameLoops DEF Bookkeeping, link, registers
  <2> QED
    BY <1>1, <1>2, <1>3, <1>4, <2>1 DEF Bookkeeping, registers
<1>7. RegistersAgree' /\ BatchIsAlive' /\ NoOrphans'
  BY <1>1, <1>2, <1>3, <1>4 DEF RegistersAgree, BatchIsAlive, NoOrphans, Awaited, link, registers
<1> QED
  BY <1>5, <1>6, <1>7 DEF SubsInv

\* A list that is not empty has a first entry.
LEMMA ForemostIsFirst ==
  ASSUME NEW S \in SUBSET Info, S # {}
  PROVE  Foremost(S) \in S /\ \A j \in S : j.n <= Foremost(S).n
<1>1. MaxInfos \in Nat /\ \A i \in S : i.n \in 1 .. MaxInfos
  BY SubscriptionAssumption DEF Info
<1> DEFINE Behind == {MaxInfos - i.n : i \in S}
<1>2. Behind \subseteq Nat /\ Behind # {}
  BY <1>1
<1>3. PICK b \in Behind : \A c \in Behind : ~(<<c, b>> \in OpToRel(<, Nat))
  <2> HIDE DEF Behind
  <2> QED
    BY <1>2, NatLessThanWellFounded, WFMin
<1>4. \A c \in Behind : b <= c
  <2>1. \A y \in Nat, z \in Nat : y < z => <<y, z>> \in OpToRel(<, Nat)
    BY DEF OpToRel
  <2> HIDE DEF Behind
  <2>2. \A c \in Behind : c \in Nat /\ b \in Nat /\ ~(c < b)
    BY <1>2, <1>3, <2>1
  <2> QED
    BY <2>2
<1>5. \E i \in S : \A j \in S : j.n <= i.n
  <2>1. PICK i \in S : b = MaxInfos - i.n
    OBVIOUS
  <2>2. \A j \in S : b <= MaxInfos - j.n /\ j.n \in Int
    BY <1>1, <1>4
  <2> QED
    BY <1>1, <2>1, <2>2
<1> QED
  BY <1>5 DEF Foremost

\* The loop of connect() comes to an entry of the list, or to its end.
LEMMA LoopGoesOn ==
  ASSUME SubsInv, NEW th \in Thread, NEW i \in Info \cup {None}, Comes(th, i), i # None => freed \/ i \in subs,
         UNCHANGED <<freed, subs>>
  PROVE  /\ LoopsInList' /\ conn' \in [Thread -> Conn \cup {None}] /\ ready' \in BOOLEAN
<1>1. /\ conn \in [Thread -> Conn \cup {None}] /\ ready \in BOOLEAN /\ connected \in BOOLEAN /\ LoopsInList
  BY DEF SubsInv, TypeOK, Bookkeeping
<1>2. CASE i = None
  BY <1>1, <1>2 DEF Comes, LoopsInList, Walks
<1>3. CASE i # None
  <2>1. [step |-> "renew", at |-> i] \in Conn
    BY <1>3 DEF Conn
  <2> QED
    BY <1>1, <1>3, <2>1 DEF Comes, LoopsInList, Walks
<1> QED
  BY <1>2, <1>3

\* connect() and disconnect() leave the registers alone, and renew only topics of
\* subscriptions that are registered, unless the loop uses one deleted under it.
LEMMA LinkSteps ==
  ASSUME SubsInv, LinkNext
  PROVE  SubsInv'
<1>1. /\ TypeOK /\ Bookkeeping /\ RegistersAgree /\ BatchIsAlive /\ NoOrphans /\ LoopsInList
      /\ conn \in [Thread -> Conn \cup {None}] /\ connected \in BOOLEAN /\ ready \in BOOLEAN
      /\ mw \subseteq Topic /\ subs \in SUBSET Info /\ links \in 0 .. MaxLinks /\ MaxLinks \in Nat
      /\ None \notin Conn /\ None \notin Info
  BY SubscriptionAssumption DEF SubsInv, TypeOK, Bookkeeping
<1> PICK th \in Thread : ConnectNext(th) \/ Disconnect(th)
  BY DEF LinkNext
<1>2. UNCHANGED <<subs, lookup, cache, registered, topics, op, batch, dispatching, made, stuck, freed>>
  BY DEF ConnectNext, Connect, ConnectAgain, MwConnect, MwConnectFails, AuthenticateFails, RenewBegins,
         Renew, RenewNext, RenewFails, Disconnect, registers, dispatch
<1> DEFINE Types == /\ connected' \in BOOLEAN /\ ready' \in BOOLEAN /\ links' \in 0 .. MaxLinks
                    /\ conn' \in [Thread -> Conn \cup {None}] /\ LoopsInList'
           Asked == mw' \subseteq Topic /\ \A t \in mw' \ mw : freed \/ \E i \in subs : i.topic = t
\* The thread goes to a step outside the loop.
<1>3. ASSUME NEW c \in Conn \cup {None}, c = None \/ c.step \in {"connect", "authenticate"},
             conn' = [conn EXCEPT ![th] = c]
      PROVE  conn' \in [Thread -> Conn \cup {None}] /\ LoopsInList'
  BY <1>1, <1>2, <1>3 DEF LoopsInList, Walks
\* The loop goes from the call to its iterator.
<1>4. ASSUME Walks(th), conn' = [conn EXCEPT ![th].step = "next"]
      PROVE  conn' \in [Thread -> Conn \cup {None}] /\ LoopsInList'
  <2>1. conn[th] \in Conn /\ conn'[th] = [conn[th] EXCEPT !.step = "next"]
    BY <1>1, <1>4 DEF Walks
  <2>2. conn'[th] \in Conn /\ conn'[th].at = conn[th].at
    BY <2>1 DEF Conn
  <2> QED
    BY <1>1, <1>2, <1>4, <2>2 DEF LoopsInList, Walks
<1>5. ASSUME Connect(th) PROVE Types /\ Asked
  <2>1. [step |-> "connect", at |-> None] \in Conn
    BY DEF Conn
  <2>2. conn' \in [Thread -> Conn \cup {None}] /\ LoopsInList'
    BY <1>3, <1>5, <2>1 DEF Connect
  <2>3. links' \in 0 .. MaxLinks
    BY <1>1, <1>5 DEF Connect
  <2> QED
    BY <1>1, <1>5, <2>2, <2>3 DEF Connect
<1>6. ASSUME ConnectAgain(th) PROVE Types /\ Asked
  BY <1>1, <1>2, <1>6, SameLoops DEF ConnectAgain
<1>7. ASSUME MwConnect(th) PROVE Types /\ Asked
  <2>1. conn[th] \in Conn /\ conn' = [conn EXCEPT ![th] = [conn[th] EXCEPT !.step = "authenticate"]]
    BY <1>1, <1>7 DEF MwConnect, In
  <2>2. [conn[th] EXCEPT !.step = "authenticate"] \in Conn /\ [conn[th] EXCEPT !.step = "authenticate"].step = "authenticate"
    BY <2>1 DEF Conn
  <2> QED
    BY <1>1, <1>3, <1>7, <2>1, <2>2 DEF MwConnect
<1>8. ASSUME MwConnectFails(th) \/ RenewFails(th) PROVE Types /\ Asked
  BY <1>1, <1>3, <1>8 DEF MwConnectFails, RenewFails
<1>9. ASSUME AuthenticateFails(th) PROVE Types /\ Asked
  BY <1>1, <1>3, <1>9 DEF AuthenticateFails
<1>10. ASSUME RenewBegins(th) PROVE Types /\ Asked
  <2>1. Foremost(subs) = None \/ Foremost(subs) \in subs
    BY <1>1, ForemostIsFirst DEF Foremost
  <2> QED
    BY <1>1, <1>2, <1>10, <2>1, LoopGoesOn DEF RenewBegins
<1>11. ASSUME Renew(th) PROVE Types /\ Asked
  <2>1. Walks(th) /\ conn[th].at \in Info /\ (freed \/ conn[th].at \in subs)
    BY <1>1, <1>11 DEF Renew, In, Walks, LoopsInList
  <2>2. PICK t \in Patterns(conn[th].at) : mw' = mw \cup {t}
    BY <1>11 DEF Renew
  <2>3. t \in Topic /\ (freed \/ \E i \in subs : i.topic = t)
    BY <1>1, <2>1, <2>2 DEF Patterns, Info
  <2> QED
    BY <1>1, <1>4, <1>11, <2>1, <2>2, <2>3 DEF Renew
<1>12. ASSUME RenewNext(th) PROVE Types /\ Asked
  <2>1. Walks(th) /\ conn[th].at \in Info /\ (freed \/ conn[th].at \in subs)
    BY <1>1, <1>12 DEF RenewNext, In, Walks, LoopsInList
  <2>2. PICK i \in After(conn[th].at) : Comes(th, i)
    BY <1>12 DEF RenewNext
  <2> DEFINE at == conn[th].at
             Rest == {j \in subs : j.n < at.n}
  <2>3. i \in Info \cup {None} /\ (i # None => freed \/ i \in subs)
    <3>1. CASE at \in subs
      <4>1. i = Foremost(Rest) /\ Rest \in SUBSET Info /\ Rest \subseteq subs
        BY <1>1, <2>2, <3>1 DEF After
      <4>2. Rest = {} => i = None
        BY <4>1 DEF Foremost
      <4> HIDE DEF Rest
      <4> QED
        BY <1>1, <4>1, <4>2, ForemostIsFirst
    <3>2. CASE at \notin subs
      BY <1>1, <2>1, <2>2, <3>2 DEF After
    <3> QED
      BY <3>1, <3>2
  <2> QED
    BY <1>1, <1>2, <1>12, <2>2, <2>3, LoopGoesOn DEF RenewNext
<1>13. ASSUME Disconnect(th) PROVE Types /\ Asked
  BY <1>1, <1>2, <1>13, SameLoops DEF Disconnect
<1>14. Types /\ Asked
  BY <1>5, <1>6, <1>7, <1>8, <1>9, <1>10, <1>11, <1>12, <1>13 DEF ConnectNext
<1>15. Live' = Live
  BY <1>2 DEF Live
<1>16. TypeOK'
  BY <1>1, <1>2, <1>14 DEF TypeOK
<1>17. NoOrphans'
  BY <1>1, <1>2, <1>14, <1>15 DEF NoOrphans, Awaited, Live
<1> QED
  BY <1>2, <1>14, <1>16, <1>17, Steady

\* Every step keeps it.
LEMMA SubsKept == SubsInv /\ [Next]_vars => SubsInv'
<1> SUFFICES ASSUME SubsInv, [Next]_vars PROVE SubsInv'
  OBVIOUS
<1>1. ASSUME NEW th \in Thread, SubscribeNext(th) PROVE SubsInv'
  BY <1>1, SubscribeSteps, RegisterStep DEF SubscribeNext
<1>2. ASSUME NEW th \in Thread, UnsubscribeNext(th) PROVE SubsInv'
  BY <1>2, UnsubscribeStep, UnsubscribeFailsStep DEF UnsubscribeNext
<1>3. CASE DispatchNext
  BY <1>3, DispatchSteps
<1>4. CASE LinkNext
  BY <1>4, LinkSteps
<1>5. CASE UNCHANGED vars
  <2>1. UNCHANGED <<connected, conn, ready, links, freed, mw, subs, lookup, cache, registered,
                    topics, op, batch, dispatching, made, stuck>>
    BY <1>5 DEF vars, link, registers, dispatch
  <2>2. TypeOK' /\ NoOrphans'
    BY <2>1 DEF SubsInv, TypeOK, NoOrphans, Awaited, Live
  <2>3. LoopsInList'
    BY <2>1, SameLoops DEF SubsInv, Bookkeeping
  <2> QED
    BY <2>1, <2>2, <2>3, Steady
<1> QED
  BY <1>1, <1>2, <1>3, <1>4, <1>5 DEF Next

\* The inductive invariant holds in every reachable state, its part about the topics
\* left with the middleware as long as connect() uses no deleted subscription.
THEOREM SubscriptionInvariant == Spec => []SubsInv
  BY InitSubs, SubsKept, PTL DEF Spec

\* The three registers of callbacks always tell the same story.
THEOREM RegistersInStep == Spec => []RegistersAgree
<1>1. SubsInv => RegistersAgree
  BY DEF SubsInv
<1> QED
  BY <1>1, SubscriptionInvariant, PTL

\* No dispatch calls a ConnectionCallback that has been deleted.
THEOREM NoDeadCallback == Spec => []BatchIsAlive
<1>1. SubsInv => BatchIsAlive
  BY DEF SubsInv
<1> QED
  BY <1>1, SubscriptionInvariant, PTL

\* No topic is left with the middleware that nobody asked for, unless the loop of a
\* connect() came to a subscription that unsubscribe() deleted under it (1489-1494).
THEOREM NoTopicLeftBehind == Spec => []NoOrphans
<1>1. SubsInv => NoOrphans
  BY DEF SubsInv
<1> QED
  BY <1>1, SubscriptionInvariant, PTL

\* The subscriptions of a topic, as ActiveSubscriptions sees them.
Uses(t) == {i \in Live : i.topic = t}

\* Their number is a natural number within the bound of the abstract object.
LEMMA UseCounts ==
  ASSUME SubsInv, NEW t \in Topic
  PROVE  IsFiniteSet(Uses(t)) /\ Cardinality(Uses(t)) \in Nat /\ Cardinality(Uses(t)) <= made
<1>1. IsFiniteSet(Live) /\ Cardinality(Live) <= made /\ Uses(t) \subseteq Live /\ made \in Nat
  BY DEF SubsInv, Bookkeeping, Uses, TypeOK
<1>2. IsFiniteSet(Uses(t)) /\ Cardinality(Uses(t)) <= Cardinality(Live)
  BY <1>1, FS_Subset
<1>3. Cardinality(Uses(t)) \in Nat /\ Cardinality(Live) \in Nat
  BY <1>1, <1>2, FS_CardinalityType
<1> QED
  BY <1>1, <1>2, <1>3

\* The second section of subscribe() is an Add of the abstract object.
LEMMA RegisterRefines ==
  ASSUME SubsInv, NEW th \in Thread, Register(th)
  PROVE  Active!Next
<1>1. /\ op[th] \in Op /\ made \in Nat /\ made < MaxInfos /\ MaxInfos \in Nat
  BY SubscriptionAssumption DEF SubsInv, TypeOK, Register, Room
<1>2. PICK info : info = [n |-> made + 1, topic |-> op[th].topic, cb |-> op[th].cb]
  OBVIOUS
<1>3. PICK top \in Topic : top = info.topic
  BY <1>1, <1>2 DEF Op
<1>4. subs' = subs \cup {info} /\ stuck' = stuck /\ Active!AddTopic(top)
  BY <1>2, <1>3 DEF Register
<1>5. info \notin Live /\ Live' = Live \cup {info}
  BY <1>1, <1>2, <1>4 DEF SubsInv, Bookkeeping, Live
<1>6. Uses(top)' = Uses(top) \cup {info} /\ info \notin Uses(top)
  BY <1>3, <1>5 DEF Uses
<1>7. \A t \in Topic : t # top => Uses(t)' = Uses(t)
  BY <1>3, <1>5 DEF Uses
<1>8. Cardinality(Uses(top)') = Cardinality(Uses(top)) + 1 /\ Cardinality(Uses(top)) < MaxInfos
  <2>1. IsFiniteSet(Uses(top)) /\ Cardinality(Uses(top)) \in Nat /\ Cardinality(Uses(top)) <= made
    BY UseCounts
  <2> QED
    <3>1. \A S : IsFiniteSet(S) /\ info \notin S => Cardinality(S \cup {info}) = Cardinality(S) + 1
      BY FS_AddElement
    <3>2. Cardinality(Uses(top) \cup {info}) = Cardinality(Uses(top)) + 1
      BY <1>6, <2>1, <3>1
    <3>3. Cardinality(Uses(top)') = Cardinality(Uses(top) \cup {info})
      BY <1>6
    <3> QED
      BY <1>1, <2>1, <3>2, <3>3
<1>9. Active!Add(top)
  <2> DEFINE before == [t \in Topic |-> Cardinality(Uses(t))]
             after == [t \in Topic |-> Cardinality(Uses(t)')]
  <2>1. after = [before EXCEPT ![top] = @ + 1] /\ before[top] < MaxInfos
    BY <1>7, <1>8
  <2> QED
    BY <1>4, <2>1 DEF Active!Add, Uses
<1> QED
  BY <1>9 DEF Active!Next

\* unsubscribe() is a Remove of the abstract object.
LEMMA UnsubscribeRefines ==
  ASSUME SubsInv, NEW th \in Thread, NEW i \in subs, Unsubscribe(th, i)
  PROVE  Active!Next
<1>0. PICK top \in Topic : top = i.topic
  BY DEF SubsInv, TypeOK, Info
<1>1. subs' = subs \ {i} /\ stuck' = stuck /\ i \notin stuck /\ Active!RemoveTopic(top)
  BY <1>0 DEF SubsInv, Bookkeeping, Unsubscribe
<1>2. i \in Live /\ Live' = Live \ {i}
  BY <1>1 DEF Live
<1>3. Uses(top)' = Uses(top) \ {i} /\ i \in Uses(top)
  BY <1>0, <1>2 DEF Uses
<1>4. \A t \in Topic : t # top => Uses(t)' = Uses(t)
  BY <1>0, <1>2 DEF Uses
<1>5. Cardinality(Uses(top)') = Cardinality(Uses(top)) - 1 /\ Cardinality(Uses(top)) > 0
  <2>1. IsFiniteSet(Uses(top)) /\ Cardinality(Uses(top)) \in Nat
    BY UseCounts
  <2>2. Cardinality(Uses(top)) # 0
    BY <1>3, <2>1, FS_EmptySet
  <2> QED
    <3>1. Cardinality(Uses(top) \ {i}) = Cardinality(Uses(top)) - 1
      BY <1>3, <2>1, FS_RemoveElement
    <3>2. Cardinality(Uses(top)') = Cardinality(Uses(top) \ {i})
      BY <1>3
    <3> QED
      BY <2>1, <2>2, <3>1, <3>2
<1>6. Active!Remove(top)
  <2> DEFINE before == [t \in Topic |-> Cardinality(Uses(t))]
             after == [t \in Topic |-> Cardinality(Uses(t)')]
  <2>1. after = [before EXCEPT ![top] = @ - 1] /\ before[top] > 0
    BY <1>4, <1>5
  <2> QED
    BY <1>1, <2>1 DEF Active!Remove, Uses
<1> QED
  BY <1>1, <1>6 DEF Active!Next

\* Every other step leaves the abstract object as it is: what the middleware
\* refuses to end stays counted.
LEMMA OthersStutter ==
  ASSUME SubsInv,
         \/ \E th \in Thread : \/ \E t \in Topic, cb \in Callback \cup {None} : Subscribe(th, t, cb)
                               \/ \E t \in Topic : SetupForResponse(th, t)
                               \/ SubscribeForResponse(th) \/ MwSubscribe(th) \/ MwSubscribeFails(th)
                               \/ \E i \in subs : UnsubscribeFails(th, i)
         \/ DispatchNext \/ LinkNext \/ UNCHANGED vars
  PROVE  UNCHANGED Active!activeVars
<1>1. registered' = registered /\ topics' = topics
  BY DEF Subscribe, SetupForResponse, SubscribeForResponse, MwSubscribe, MwSubscribeFails, UnsubscribeFails,
         DispatchNext, BeginDispatch, CallBack, EndDispatch,
         LinkNext, ConnectNext, Connect, ConnectAgain, MwConnect, MwConnectFails, AuthenticateFails,
         RenewBegins, Renew, RenewNext, RenewFails, Disconnect, vars, registers
<1>2. Live' = Live
  BY DEF Subscribe, SetupForResponse, SubscribeForResponse, MwSubscribe, MwSubscribeFails, UnsubscribeFails,
         DispatchNext, BeginDispatch, CallBack, EndDispatch,
         LinkNext, ConnectNext, Connect, ConnectAgain, MwConnect, MwConnectFails, AuthenticateFails,
         RenewBegins, Renew, RenewNext, RenewFails, Disconnect, vars, registers, Live
<1> QED
  BY <1>1, <1>2 DEF Active!activeVars

\* The connection's subscriptions implement the abstract list of active topics:
\* registering adds a use, a successful unsubscribe() removes one, in the same
\* step as the list, and no other step concerns it.
THEOREM SubscriptionsRefineActive == Spec => ImplementsActive
<1>1. Init => Active!Init
  <2> SUFFICES ASSUME Init PROVE Active!Init
    OBVIOUS
  <2>1. Live = {}
    BY DEF Init, Live
  <2>2. \A t \in Topic : {i \in Live : i.topic = t} = {}
    BY <2>1
  <2>3. [t \in Topic |-> Cardinality({i \in Live : i.topic = t})] = [t \in Topic |-> 0]
    BY <2>2, FS_EmptySet
  <2> QED
    BY <2>3 DEF Init, Active!Init
<1>2. SubsInv /\ [Next]_vars => [Active!Next]_(Active!activeVars)
  <2> SUFFICES ASSUME SubsInv, [Next]_vars PROVE Active!Next \/ UNCHANGED Active!activeVars
    OBVIOUS
  <2>1. ASSUME NEW th \in Thread, SubscribeNext(th) PROVE Active!Next \/ UNCHANGED Active!activeVars
    BY <2>1, RegisterRefines, OthersStutter DEF SubscribeNext
  <2>2. ASSUME NEW th \in Thread, UnsubscribeNext(th) PROVE Active!Next \/ UNCHANGED Active!activeVars
    BY <2>2, UnsubscribeRefines, OthersStutter DEF UnsubscribeNext
  <2>3. CASE DispatchNext \/ LinkNext \/ UNCHANGED vars
    BY <2>3, OthersStutter
  <2> QED
    BY <2>1, <2>2, <2>3 DEF Next
<1> QED
  BY <1>1, <1>2, SubscriptionInvariant, PTL DEF Spec, ImplementsActive, Active!Spec
-----------------------------------------------------------------------------
\* What the list of active topics comes to, for the numbers of uses `use` of its topics.
ActiveFits(use, counts, tops) ==
  /\ DOMAIN counts \subseteq Topic /\ counts \in [DOMAIN counts -> Int]
  /\ tops \subseteq Topic /\ use \in [Topic -> Nat]
  /\ \A t \in Topic : t \in DOMAIN counts => counts[t] <= use[t]
  /\ \A t \in tops : t \in DOMAIN counts /\ counts[t] >= 1

InUse == [t \in Topic |-> Cardinality({i \in Live : i.topic = t})]

LEMMA ActiveParts == /\ Active!ActiveInv <=> ActiveFits(InUse, registered, topics)
                     /\ Active!ActiveInv' <=> ActiveFits(InUse', registered', topics')
BY DEF Active!ActiveInv, Active!TypeOK, Active!CountsBehind, Active!Counted, ActiveFits, InUse

\* addTopic(): counts and subscriptions rise together.
LEMMA ActiveAdded ==
  ASSUME NEW use, NEW counts, NEW tops, ActiveFits(use, counts, tops), NEW t \in Topic, NEW counts2, NEW tops2,
         \/ /\ t \notin DOMAIN counts /\ tops2 = tops \cup {t}
            /\ counts2 = [u \in DOMAIN counts \cup {t} |-> IF u = t THEN 1 ELSE counts[u]]
         \/ t \in DOMAIN counts /\ tops2 = tops /\ counts2 = [counts EXCEPT ![t] = @ + 1]
  PROVE  ActiveFits([use EXCEPT ![t] = @ + 1], counts2, tops2)
<1> PICK use2 : use2 = [use EXCEPT ![t] = @ + 1]
  OBVIOUS
<1>1. use2 \in [Topic -> Nat] /\ use2[t] = use[t] + 1 /\ \A u \in Topic : use[u] \in Nat /\ (u # t => use2[u] = use[u])
  BY DEF ActiveFits
<1>2. counts2 \in [DOMAIN counts2 -> Int] /\ DOMAIN counts2 \subseteq Topic /\ tops2 \subseteq Topic
  BY DEF ActiveFits
<1>3. \A u \in DOMAIN counts2 : IF u = t THEN counts2[t] <= use2[t] /\ (counts2[t] >= 1 \/ t \notin tops2)
                                ELSE u \in DOMAIN counts /\ counts2[u] = counts[u]
  <2>1. CASE t \notin DOMAIN counts /\ counts2 = [u \in DOMAIN counts \cup {t} |-> IF u = t THEN 1 ELSE counts[u]]
    BY <1>1, <2>1
  <2>2. CASE t \in DOMAIN counts /\ tops2 = tops /\ counts2 = [counts EXCEPT ![t] = @ + 1]
    BY <1>1, <2>2 DEF ActiveFits
  <2> QED
    BY <2>1, <2>2
<1>4. t \in DOMAIN counts2 /\ counts2[t] <= use2[t] /\ (t \in tops2 => counts2[t] >= 1)
  <2>1. CASE t \notin DOMAIN counts /\ counts2 = [u \in DOMAIN counts \cup {t} |-> IF u = t THEN 1 ELSE counts[u]]
    BY <1>1, <2>1
  <2>2. CASE t \in DOMAIN counts /\ tops2 = tops /\ counts2 = [counts EXCEPT ![t] = @ + 1]
    <3>1. counts[t] \in Int /\ counts[t] <= use[t] /\ (t \in tops => counts[t] >= 1) /\ counts2[t] = counts[t] + 1
      BY <2>2 DEF ActiveFits
    <3> QED
      BY <1>1, <2>2, <3>1
  <2> QED
    BY <2>1, <2>2
<1>5. \A u \in tops2 \ {t} : u \in tops /\ u \in DOMAIN counts2
  BY DEF ActiveFits
<1>6. ActiveFits(use2, counts2, tops2)
  BY <1>1, <1>2, <1>3, <1>4, <1>5 DEF ActiveFits
<1> QED
  BY <1>6

\* removeTopic(): a count that is decremented to zero takes its topic out of the report,
\* and clear() only drops counts of topics not reported.
LEMMA ActiveRemoved ==
  ASSUME NEW use, NEW counts, NEW tops, ActiveFits(use, counts, tops), NEW t \in Topic, use[t] > 0, NEW counts2, NEW tops2,
         tops2 = IF t \in DOMAIN counts /\ counts[t] = 1 THEN tops \ {t} ELSE tops,
         counts2 = IF tops2 = {} THEN [u \in {} |-> 0]
                   ELSE IF t \in DOMAIN counts THEN [counts EXCEPT ![t] = @ - 1] ELSE counts
  PROVE  ActiveFits([use EXCEPT ![t] = @ - 1], counts2, tops2)
<1> PICK use2 : use2 = [use EXCEPT ![t] = @ - 1]
  OBVIOUS
<1>1. use2 \in [Topic -> Nat] /\ use2[t] = use[t] - 1 /\ \A u \in Topic : use[u] \in Nat /\ (u # t => use2[u] = use[u])
  BY DEF ActiveFits
<1>2. counts2 \in [DOMAIN counts2 -> Int] /\ DOMAIN counts2 \subseteq DOMAIN counts /\ tops2 \subseteq tops
  BY DEF ActiveFits
<1>3. CASE tops2 = {}
  <2>1. DOMAIN counts2 = {}
    BY <1>3
  <2>2. ActiveFits(use2, counts2, tops2)
    BY <1>1, <1>2, <1>3, <2>1 DEF ActiveFits
  <2> QED
    BY <2>2
<1>4. CASE tops2 # {} /\ t \in DOMAIN counts
  <2>1. counts2 = [counts EXCEPT ![t] = @ - 1] /\ DOMAIN counts2 = DOMAIN counts
    BY <1>4
  <2>2. \A u \in DOMAIN counts : counts[u] \in Int /\ counts[u] <= use[u] /\ (u # t => counts2[u] = counts[u])
    BY <2>1 DEF ActiveFits
  <2>3. counts2[t] = counts[t] - 1 /\ (t \in tops2 => counts[t] >= 1 /\ counts[t] # 1)
    BY <1>4, <2>1 DEF ActiveFits
  <2>4. \A u \in tops2 : u \in DOMAIN counts2 /\ counts2[u] >= 1
    BY <1>2, <1>4, <2>1, <2>2, <2>3 DEF ActiveFits
  <2>5. \A u \in Topic : u \in DOMAIN counts2 => counts2[u] <= use2[u]
    BY <1>1, <1>4, <2>1, <2>2, <2>3
  <2>6. ActiveFits(use2, counts2, tops2)
    BY <1>1, <1>2, <2>4, <2>5 DEF ActiveFits
  <2> QED
    BY <2>6
<1>5. CASE tops2 # {} /\ t \notin DOMAIN counts
  <2>1. counts2 = counts /\ tops2 = tops
    BY <1>5
  <2>2. ActiveFits(use2, counts2, tops2)
    BY <1>1, <1>5, <2>1 DEF ActiveFits
  <2> QED
    BY <2>2
<1> QED
  BY <1>3, <1>4, <1>5

\* The inductive invariant of the list of active topics: its counts never run ahead of
\* the subscriptions, and what is reported is counted (ActiveSubscriptions.cpp).
THEOREM ActiveInvariant == Active!Spec => []Active!ActiveInv
<1>1. Active!Init => Active!ActiveInv
  <2> SUFFICES ASSUME Active!Init PROVE ActiveFits(InUse, registered, topics)
    BY ActiveParts
  <2>1. registered = [t \in {} |-> 0] /\ topics = {} /\ InUse = [t \in Topic |-> 0]
    BY DEF Active!Init, InUse
  <2> HIDE DEF InUse
  <2> QED
    BY <2>1 DEF ActiveFits
<1>2. Active!ActiveInv /\ [Active!Next]_(Active!activeVars) => Active!ActiveInv'
  <2> SUFFICES ASSUME ActiveFits(InUse, registered, topics), [Active!Next]_(Active!activeVars)
               PROVE  ActiveFits(InUse', registered', topics')
    BY ActiveParts
  <2>1. ASSUME NEW t \in Topic, Active!Add(t) PROVE ActiveFits(InUse', registered', topics')
    <3>1. InUse' = [InUse EXCEPT ![t] = @ + 1]
      BY <2>1 DEF Active!Add, InUse
    <3>2. \/ /\ t \notin DOMAIN registered /\ topics' = topics \cup {t}
             /\ registered' = [u \in DOMAIN registered \cup {t} |-> IF u = t THEN 1 ELSE registered[u]]
          \/ t \in DOMAIN registered /\ topics' = topics /\ registered' = [registered EXCEPT ![t] = @ + 1]
      BY <2>1 DEF Active!Add, Active!AddTopic, Active!Counted
    <3> HIDE DEF InUse, ActiveFits
    <3> QED
      BY <3>1, <3>2, ActiveAdded
  <2>2. ASSUME NEW t \in Topic, Active!Remove(t) PROVE ActiveFits(InUse', registered', topics')
    <3>1. InUse' = [InUse EXCEPT ![t] = @ - 1] /\ InUse[t] > 0
      BY <2>2 DEF Active!Remove, InUse
    <3>2. /\ topics' = IF t \in DOMAIN registered /\ registered[t] = 1 THEN topics \ {t} ELSE topics
          /\ registered' = IF topics' = {} THEN [u \in {} |-> 0]
                           ELSE IF t \in DOMAIN registered THEN [registered EXCEPT ![t] = @ - 1] ELSE registered
      BY <2>2 DEF Active!Remove, Active!RemoveTopic, Active!Reported, Active!LastUse, Active!Counted
    <3> HIDE DEF InUse, ActiveFits
    <3> QED
      BY <3>1, <3>2, ActiveRemoved
  <2>3. CASE UNCHANGED Active!activeVars
    <3>1. InUse' = InUse /\ registered' = registered /\ topics' = topics
      BY <2>3 DEF Active!activeVars, InUse
    <3> HIDE DEF InUse
    <3> QED
      BY <3>1
  <2> QED
    BY <2>1, <2>2, <2>3 DEF Active!Next
<1> QED
  BY <1>1, <1>2, PTL DEF Active!Spec

\* A topic nobody is subscribed to is never reported, whatever subscriptions came and
\* went before (removeTopic() and what its clear() forgets).
THEOREM NeverOverReports == Active!Spec => []Active!ReportedIsInUse
<1>1. Active!ActiveInv => Active!ReportedIsInUse
  <2> SUFFICES ASSUME ActiveFits(InUse, registered, topics), NEW t \in topics PROVE InUse[t] > 0
    BY ActiveParts DEF Active!ReportedIsInUse, InUse
  <2>1. t \in Topic /\ registered[t] \in Int /\ registered[t] >= 1 /\ registered[t] <= InUse[t] /\ InUse[t] \in Nat
    BY DEF ActiveFits
  <2> HIDE DEF InUse
  <2> QED
    BY <2>1
<1> QED
  BY <1>1, ActiveInvariant, PTL

\* No topic is reported for a heartbeat that this connection has no subscription
\* to, whatever the middleware refused.
THEOREM OnlyUsedReported == Spec => []ReportsOnlyUsed
BY NeverOverReports, SubscriptionsRefineActive, PTL DEF ImplementsActive, ReportsOnlyUsed
-----------------------------------------------------------------------------
\* What one step may not do as long as the threads keep apart.
Apart ==
  /\ \A th \in Thread : Busy(th) /\ Busy(th)' /\ op'[th] = op[th] /\ conn'[th] = conn[th] =>
       UNCHANGED <<subs, connected, ready>>
  /\ \A th, other \in Thread : Busy(th)' /\ Busy(other)' => th = other

LEMMA ApartOrOverlap == ~Overlap => Apart
  BY DEF Overlap, Apart

\* A thread in subscribe() is not in connect().
LEMMA NotBoth ==
  ASSUME AloneInv, Next, NEW th \in Thread
  PROVE  op'[th] = None \/ conn'[th] = None
<1>1. /\ op \in [Thread -> Op \cup {None}] /\ conn \in [Thread -> Conn \cup {None}]
      /\ \A u \in Thread : op[u] = None \/ conn[u] = None
  BY DEF AloneInv, SubsInv, TypeOK
<1>2. ASSUME NEW u \in Thread, SubscribeNext(u)
      PROVE  op'[th] = None \/ conn'[th] = None
  <2>1. conn' = conn /\ conn[u] = None /\ \A v \in Thread \ {u} : op'[v] = op[v]
    BY <1>1, <1>2 DEF SubscribeNext, Subscribe, SetupForResponse, SubscribeForResponse, MwSubscribe,
                      MwSubscribeFails, Register, link, Idle
  <2> QED
    BY <1>1, <2>1
<1>3. ASSUME NEW u \in Thread, UnsubscribeNext(u)
      PROVE  op'[th] = None \/ conn'[th] = None
  BY <1>1, <1>3 DEF UnsubscribeNext, Unsubscribe, UnsubscribeFails
<1>4. CASE DispatchNext
  BY <1>1, <1>4 DEF DispatchNext, BeginDispatch, CallBack, EndDispatch, link
<1>5. ASSUME NEW u \in Thread, ConnectNext(u) \/ Disconnect(u)
      PROVE  op'[th] = None \/ conn'[th] = None
  <2>1. op' = op /\ op[u] = None /\ \A v \in Thread \ {u} : conn'[v] = conn[v]
    BY <1>1, <1>5 DEF ConnectNext, Connect, ConnectAgain, MwConnect, MwConnectFails, AuthenticateFails,
                      RenewBegins, Renew, RenewNext, RenewFails, Comes, Disconnect, Idle, In
  <2> QED
    BY <1>1, <2>1
<1> QED
  BY <1>2, <1>3, <1>4, <1>5 DEF Next, LinkNext

\* A thread between the check for a receiver and its registration finds the list as
\* it was when it looked.
LEMMA ReceiverStep ==
  ASSUME AloneInv, Next, Apart, "overlap" \notin lapses
  PROVE  StillFirst' /\ OneReceiver'
<1> USE DEF AloneInv
<1>0. /\ op \in [Thread -> Op \cup {None}] /\ None \notin Op
      /\ OneReceiver
      /\ StillFirst
      /\ \A th \in Thread : op[th] # None => op[th].cb \in Callback \cup {None} /\ op[th].topic \in Topic
  BY SubscriptionAssumption DEF SubsInv, TypeOK, OneReceiverAlone, OneAtATime, Op
<1>1. CASE UNCHANGED <<op, subs>>
  BY <1>0, <1>1 DEF StillFirst, SameTopic, OneReceiver
<1>2. ASSUME NEW th \in Thread, UnsubscribeNext(th)
      PROVE  UNCHANGED op /\ subs' \subseteq subs
  BY <1>2 DEF UnsubscribeNext, Unsubscribe, UnsubscribeFails
<1>3. CASE UNCHANGED op /\ subs' \subseteq subs
  BY <1>0, <1>3 DEF StillFirst, SameTopic, OneReceiver
<1>4. ASSUME NEW th \in Thread, NEW t \in Topic, NEW cb \in Callback \cup {None}, NEW o,
             op' = [op EXCEPT ![th] = o], UNCHANGED subs, o \in {AfterCheck(t, cb), None}
      PROVE  StillFirst' /\ OneReceiver'
  <2>1. o # None /\ o.step # "check" /\ o.cb = None => SameTopic(o.topic) = {}
    BY <1>4 DEF AfterCheck, CheckSubscription
  <2>2. op'[th] = o /\ \A u \in Thread \ {th} : op'[u] = op[u]
    BY <1>0, <1>4
  <2> QED
    BY <1>0, <1>4, <2>1, <2>2 DEF StillFirst, SameTopic, OneReceiver
<1>5. ASSUME NEW th \in Thread, NEW t \in Topic, SetupForResponse(th, t)
      PROVE  StillFirst' /\ OneReceiver'
  <2>1. UNCHANGED subs /\ op'[th].step = "check" /\ \A u \in Thread \ {th} : op'[u] = op[u]
    BY <1>0, <1>5 DEF SetupForResponse, registers
  <2> QED
    BY <1>0, <2>1 DEF StillFirst, SameTopic, OneReceiver
<1>6. ASSUME NEW th \in Thread, MwSubscribe(th)
      PROVE  StillFirst' /\ OneReceiver'
  <2>1. /\ UNCHANGED subs /\ op[th] # None /\ op[th].step = "subscribe" /\ op[th] \in Op
        /\ op'[th] = [op[th] EXCEPT !.step = "register"]
        /\ \A u \in Thread \ {th} : op'[u] = op[u]
    BY <1>0, <1>6 DEF MwSubscribe, registers
  <2>2. op'[th].topic = op[th].topic /\ op'[th].cb = op[th].cb
    BY <2>1 DEF Op
  <2>3. op[th].cb = None => SameTopic(op[th].topic) = {}
    BY <1>0, <2>1 DEF StillFirst
  <2>4. op'[th].cb = None => {i \in subs : i.topic = op'[th].topic} = {}
    BY <2>2, <2>3 DEF SameTopic
  <2>5. \A u \in Thread \ {th} : op[u] # None /\ op[u].step # "check" /\ op[u].cb = None =>
          {i \in subs : i.topic = op[u].topic} = {}
    BY <1>0 DEF StillFirst, SameTopic
  <2> QED
    <3>1. ASSUME NEW u \in Thread, op'[u] # None, op'[u].step # "check", op'[u].cb = None
          PROVE  {i \in subs' : i.topic = op'[u].topic} = {}
      <4>1. CASE u = th
        BY <2>1, <2>4, <3>1, <4>1
      <4>2. CASE u # th
        BY <2>1, <2>5, <3>1, <4>2
      <4> QED
        BY <4>1, <4>2
    <3>2. OneReceiver'
      BY <1>0, <2>1 DEF OneReceiver
    <3> QED
      BY <3>1, <3>2 DEF StillFirst, SameTopic
<1>7. ASSUME NEW th \in Thread, Register(th)
      PROVE  StillFirst' /\ OneReceiver'
  <2> DEFINE info == [n |-> made + 1, topic |-> op[th].topic, cb |-> op[th].cb]
  <2>1. /\ op[th] # None /\ op[th].step = "register" /\ subs' = subs \cup {info}
        /\ op'[th] = None /\ \A u \in Thread \ {th} : op'[u] = op[u]
    BY <1>0, <1>7 DEF Register
  <2>2. info \notin subs
    BY <1>7 DEF SubsInv, TypeOK, Bookkeeping, Live, Info
  <2>3. \A u \in Thread \ {th} : op'[u] = None
    <3>1. ASSUME NEW u \in Thread \ {th}, op'[u] # None
          PROVE  FALSE
      <4>1. Busy(u) /\ Busy(u)' /\ op'[u] = op[u] /\ conn'[u] = conn[u]
        BY <1>7, <2>1, <3>1 DEF Busy, Register, link
      <4> QED
        BY <2>1, <2>2, <4>1 DEF Apart
    <3> QED
      BY <3>1
  <2>4. OneReceiver'
    <3>1. ASSUME NEW i \in subs, i.topic = info.topic, i.cb = None, info.cb = None
          PROVE  FALSE
      BY <1>0, <2>1, <3>1 DEF StillFirst, SameTopic
    <3> QED
      BY <1>0, <2>1, <3>1 DEF OneReceiver
  <2> QED
    BY <2>1, <2>3, <2>4 DEF StillFirst
<1>8. ASSUME NEW th \in Thread, SubscribeNext(th)
      PROVE  StillFirst' /\ OneReceiver'
  <2>1. ASSUME NEW t \in Topic, NEW cb \in Callback \cup {None}, Subscribe(th, t, cb)
        PROVE  op' = [op EXCEPT ![th] = AfterCheck(t, cb)] /\ UNCHANGED subs
    BY <2>1 DEF Subscribe, registers
  <2>2. CASE SubscribeForResponse(th)
    <3>1. PICK o : o = IF connected THEN AfterCheck(op[th].topic, None) ELSE None
      OBVIOUS
    <3>2. op' = [op EXCEPT ![th] = o] /\ UNCHANGED subs /\ op[th] # None
      BY <1>0, <2>2, <3>1 DEF SubscribeForResponse, registers
    <3> QED
      BY <1>0, <1>4, <3>1, <3>2
  <2>3. CASE MwSubscribeFails(th)
    <3>1. op' = [op EXCEPT ![th] = None] /\ UNCHANGED subs /\ op[th] # None
      BY <2>3 DEF MwSubscribeFails, registers
    <3> QED
      BY <1>0, <1>4, <3>1
  <2> QED
    BY <1>4, <1>5, <1>6, <1>7, <1>8, <2>1, <2>2, <2>3 DEF SubscribeNext
<1>9. CASE DispatchNext \/ LinkNext
  <2>1. UNCHANGED <<op, subs>>
    BY <1>9 DEF DispatchNext, BeginDispatch, CallBack, EndDispatch,
                LinkNext, ConnectNext, Connect, ConnectAgain, MwConnect, MwConnectFails, AuthenticateFails,
                RenewBegins, Renew, RenewNext, RenewFails, Disconnect, registers
  <2> QED
    BY <1>1, <2>1
<1> QED
  BY <1>2, <1>3, <1>8, <1>9 DEF Next

\* Without overlap, and with every renewal made, the middleware goes on forwarding
\* what is subscribed to.
LEMMA ServedStep ==
  ASSUME AloneInv, Next, Apart, lapses = {}, ~\E th \in Thread : RenewFails(th)
  PROVE  Forwarded' /\ Served'
<1> USE DEF AloneInv
<1>1. /\ op \in [Thread -> Op \cup {None}] /\ None \notin Op
      /\ conn \in [Thread -> Conn \cup {None}] /\ None \notin Conn
      /\ connected \in BOOLEAN /\ ready \in BOOLEAN
      /\ Forwarded /\ Served
      /\ \A th \in Thread : op[th] = None \/ conn[th] = None
      /\ \A th \in Thread : op[th] # None => op[th].topic \in Topic
      /\ \A th, other \in Thread : Busy(th) /\ Busy(other) => th = other
      /\ subs \in SUBSET Info /\ None \notin Info
      /\ \A i, j \in subs : i.n = j.n => i = j
  BY SubscriptionAssumption DEF SubsInv, TypeOK, Bookkeeping, ServedAlone, OneAtATime, Op, Live
<1>2. \A th \in Thread : op[th] # None => ready
  BY <1>1 DEF Forwarded, Busy
\* A step of one thread on its subscribe().
<1>3. ASSUME NEW th \in Thread, NEW o \in Op \cup {None}, op' = [op EXCEPT ![th] = o],
             UNCHANGED <<link, subs>>, mw \subseteq mw',
             o # None => connected, o # None /\ o.step = "register" => o.topic \in mw'
      PROVE  Forwarded' /\ Served'
  <2>1. op'[th] = o /\ \A u \in Thread \ {th} : op'[u] = op[u]
    BY <1>1, <1>3
  <2>2. /\ UNCHANGED <<conn, connected, ready, subs>>
        /\ \A u \in Thread : op'[u] # None => connected
        /\ \A u \in Thread : op'[u] # None /\ op'[u].step = "register" => op'[u].topic \in mw'
    BY <1>1, <1>3, <2>1 DEF Forwarded, link
  <2> QED
    BY <1>1, <1>3, <2>2 DEF Forwarded, Served, Walks
<1>4. ASSUME NEW th \in Thread, NEW t \in Topic, NEW cb \in Callback \cup {None},
             connected, conn[th] = None, AfterCheck(t, cb) # None,
             op' = [op EXCEPT ![th] = AfterCheck(t, cb)], UNCHANGED link
      PROVE  AfterCheck(t, cb).step = "register" => AfterCheck(t, cb).topic \in mw
  <2>1. Busy(th)'
    BY <1>1, <1>4 DEF Busy
  <2>2. \A u \in Thread : conn[u] = None
    <3>1. ASSUME NEW u \in Thread, conn[u] # None PROVE FALSE
      <4>1. Busy(u)'
        BY <1>4, <3>1 DEF Busy, link
      <4> QED
        BY <1>4, <2>1, <3>1, <4>1 DEF Apart
    <3> QED
      BY <3>1
  <2>3. ready
    BY <1>1, <1>4, <2>2 DEF Forwarded
  <2>4. AfterCheck(t, cb).step = "register" => SameTopic(t) # {} /\ AfterCheck(t, cb).topic = t
    BY <1>4 DEF AfterCheck, CheckSubscription
  <2> QED
    BY <1>1, <2>3, <2>4 DEF SameTopic, Served
<1>5. ASSUME NEW th \in Thread, SubscribeNext(th)
      PROVE  Forwarded' /\ Served'
  <2>1. ASSUME NEW t \in Topic, NEW cb \in Callback \cup {None}, Subscribe(th, t, cb)
        PROVE  Forwarded' /\ Served'
    <3>1. AfterCheck(t, cb) \in Op \cup {None}
      BY DEF AfterCheck, Op
    <3>2. /\ connected /\ conn[th] = None /\ op' = [op EXCEPT ![th] = AfterCheck(t, cb)]
          /\ UNCHANGED <<link, mw, subs>>
      BY <2>1 DEF Subscribe, Idle, registers
    <3> QED
      BY <1>3, <1>4, <3>1, <3>2
  <2>2. ASSUME NEW t \in Topic, SetupForResponse(th, t)
        PROVE  Forwarded' /\ Served'
    <3>1. [step |-> "check", topic |-> t, cb |-> None] \in Op
      BY DEF Op
    <3> QED
      BY <1>3, <2>2, <3>1 DEF SetupForResponse, registers
  <2>3. CASE SubscribeForResponse(th)
    <3>1. /\ op[th] # None /\ connected /\ conn[th] = None /\ op[th].topic \in Topic
          /\ UNCHANGED <<link, mw, subs>>
          /\ op' = [op EXCEPT ![th] = AfterCheck(op[th].topic, None)]
      BY <1>1, <2>3 DEF SubscribeForResponse, Forwarded, registers
    <3>2. AfterCheck(op[th].topic, None) \in Op \cup {None}
      BY <3>1 DEF AfterCheck, Op
    <3> QED
      BY <1>3, <1>4, <3>1, <3>2
  <2>4. CASE MwSubscribe(th)
    <3>1. PICK o : o = [op[th] EXCEPT !.step = "register"]
      OBVIOUS
    <3>2. /\ op[th] # None /\ op[th] \in Op /\ op' = [op EXCEPT ![th] = o]
          /\ mw' = mw \cup {op[th].topic} /\ UNCHANGED <<link, subs>> /\ connected
      BY <1>1, <2>4, <3>1 DEF MwSubscribe, Forwarded, registers
    <3>3. o \in Op /\ o.topic = op[th].topic
      BY <3>1, <3>2 DEF Op
    <3> QED
      BY <1>1, <1>3, <3>2, <3>3
  <2>5. CASE MwSubscribeFails(th)
    BY <1>3, <2>5 DEF MwSubscribeFails, registers
  <2>6. CASE Register(th)
    <3> DEFINE info == [n |-> made + 1, topic |-> op[th].topic, cb |-> op[th].cb]
    <3>1. /\ op[th] # None /\ op[th].step = "register" /\ subs' = subs \cup {info}
          /\ op'[th] = None /\ \A u \in Thread \ {th} : op'[u] = op[u]
          /\ UNCHANGED <<link, mw>>
      BY <1>1, <2>6 DEF Register
    <3>2. info.topic \in mw
      BY <1>1, <3>1 DEF Forwarded
    <3>3. ready /\ \A u \in Thread : conn'[u] = None
      BY <1>1, <1>2, <3>1 DEF Forwarded, link
    <3> QED
      BY <1>1, <3>1, <3>2, <3>3 DEF Forwarded, Served, Walks, link
  <2> QED
    BY <1>5, <2>1, <2>2, <2>3, <2>4, <2>5, <2>6 DEF SubscribeNext
<1>6. ASSUME NEW th \in Thread, UnsubscribeNext(th)
      PROVE  Forwarded' /\ Served'
  <2>1. PICK i \in subs : Unsubscribe(th, i) \/ UnsubscribeFails(th, i)
    BY <1>6 DEF UnsubscribeNext
  <2>2. /\ subs' = subs \ {i}
        /\ UNCHANGED <<connected, conn, ready, op>>
        /\ \/ mw' = mw
           \/ mw' = mw \ {i.topic} /\ Remaining(i) = {}
    <3>1. CASE Unsubscribe(th, i)
      <4>1. CASE Remaining(i) = {}
        BY <3>1, <4>1 DEF Unsubscribe
      <4>2. CASE Remaining(i) # {}
        BY <3>1, <4>2 DEF Unsubscribe
      <4> QED
        BY <4>1, <4>2
    <3>2. CASE UnsubscribeFails(th, i)
      BY <3>2 DEF UnsubscribeFails
    <3> QED
      BY <2>1, <3>1, <3>2
  <2>3. \A u \in Thread : ~Busy(u)
    <3>1. subs' # subs
      BY <2>2
    <3> QED
      BY <2>2, <3>1 DEF Apart, Busy
  <2>4. \A u \in Thread : conn[u] = None /\ op[u] = None
    BY <1>1, <2>3 DEF Busy
  <2>5. Served'
    BY <1>1, <2>2 DEF Served, Remaining
  <2> QED
    BY <1>1, <2>2, <2>4, <2>5 DEF Forwarded, Walks
<1>7. CASE DispatchNext
  <2>1. UNCHANGED <<link, mw, subs, op>>
    BY <1>7 DEF DispatchNext, BeginDispatch, CallBack, EndDispatch, registers
  <2> QED
    BY <1>1, <2>1 DEF Forwarded, Served, Walks, link
<1>8. CASE LinkNext
  <2> PICK th \in Thread : ConnectNext(th) \/ Disconnect(th)
    BY <1>8 DEF LinkNext
  <2>0. UNCHANGED <<op, subs>>
    BY <1>8 DEF LinkNext, ConnectNext, Connect, ConnectAgain, MwConnect, MwConnectFails, AuthenticateFails,
                RenewBegins, Renew, RenewNext, RenewFails, Disconnect, registers
  <2>1. CASE Connect(th)
    <3>1. /\ ~connected /\ ~connected' /\ ready' = ready /\ UNCHANGED mw
          /\ conn' = [conn EXCEPT ![th] = [step |-> "connect", at |-> None]]
      BY <2>1 DEF Connect
    <3>2. conn'[th].step = "connect" /\ conn'[th] # None
      BY <1>1, <3>1, SubscriptionAssumption DEF Conn
    <3>3. \A u \in Thread \ {th} : conn'[u] = None
      BY <1>1, <3>2 DEF Apart, Busy
    <3> QED
      BY <1>1, <2>0, <3>1, <3>2, <3>3 DEF Forwarded, Served, Walks
  <2>2. CASE ConnectAgain(th)
    <3>1. UNCHANGED <<connected, conn, mw>> /\ connected /\ ready'
      BY <2>2 DEF ConnectAgain
    <3>2. \A u \in Thread : conn[u] = None
      <4>1. ASSUME NEW u \in Thread, conn[u] # None
            PROVE  FALSE
        <5>1. Busy(u) /\ Busy(u)'
          BY <3>1, <4>1 DEF Busy
        <5> QED
          BY <1>1, <2>0, <3>1, <4>1, <5>1 DEF Apart, Forwarded
      <4> QED
        BY <4>1
    <3> QED
      BY <1>1, <2>0, <3>1, <3>2 DEF Forwarded, Served, Walks
  <2>3. CASE Disconnect(th)
    <3>1. connected /\ ~connected' /\ ~ready' /\ UNCHANGED conn
      BY <2>3 DEF Disconnect
    <3>2. \A u \in Thread : ~Busy(u)
      BY <2>0, <3>1 DEF Apart, Busy
    <3>3. \A u \in Thread : conn'[u] = None /\ op'[u] = None
      BY <1>1, <2>0, <3>1, <3>2 DEF Busy
    <3> QED
      BY <3>1, <3>3 DEF Forwarded, Served, Walks
\* The thread was inside connect(), and so no other thread is busy.
  <2>4. ASSUME conn[th] # None
        PROVE  /\ ~ready /\ (connected <=> conn[th].step # "connect")
               /\ \A u \in Thread : op[u] = None
               /\ \A u \in Thread \ {th} : conn[u] = None
    BY <1>1, <2>4 DEF Forwarded, Busy
  <2>5. CASE MwConnect(th)
    <3>1. /\ conn[th] # None /\ connected' /\ UNCHANGED <<ready, mw>>
          /\ conn'[th] = [conn[th] EXCEPT !.step = "authenticate"]
          /\ \A u \in Thread \ {th} : conn'[u] = conn[u]
      BY <1>1, <2>5 DEF MwConnect, In
    <3>2. conn'[th] # None /\ conn'[th].step = "authenticate"
      BY <1>1, <3>1 DEF Conn
    <3> QED
      BY <1>1, <2>0, <2>4, <3>1, <3>2 DEF Forwarded, Served, Walks
  <2>6. CASE MwConnectFails(th)
    <3>1. /\ conn[th] # None /\ conn[th].step = "connect" /\ UNCHANGED <<connected, ready, mw>>
          /\ \A u \in Thread : conn'[u] = IF u = th THEN None ELSE conn[u]
      BY <1>1, <2>6 DEF MwConnectFails, In
    <3> QED
      BY <1>1, <2>0, <2>4, <3>1 DEF Forwarded, Served, Walks
  <2>7. CASE AuthenticateFails(th)
    <3>1. /\ conn[th] # None /\ ~connected' /\ ~ready'
          /\ \A u \in Thread : conn'[u] = IF u = th THEN None ELSE conn[u]
      BY <1>1, <2>7 DEF AuthenticateFails, In
    <3> QED
      BY <2>0, <2>4, <3>1 DEF Forwarded, Served, Walks
\* Its loop comes to an entry, all before which are forwarded.
  <2>8. ASSUME NEW i \in subs, conn[th] # None, connected, Comes(th, i), UNCHANGED <<connected, mw>>,
               \A j \in subs : j.n > i.n => j.topic \in mw
        PROVE  Forwarded' /\ Served'
    <3>1. /\ ready' = ready /\ conn'[th] = [step |-> "renew", at |-> i]
          /\ \A u \in Thread \ {th} : conn'[u] = conn[u]
      BY <1>1, <2>8 DEF Comes
    <3>2. [step |-> "renew", at |-> i] \in Conn
      BY <1>1 DEF Conn
    <3>3. conn'[th] # None /\ conn'[th].step = "renew" /\ conn'[th].at = i
      BY <1>1, <3>1, <3>2
    <3> QED
      BY <1>1, <2>0, <2>4, <2>8, <3>1, <3>3 DEF Forwarded, Served, Walks
\* Its loop comes to the end, when all is forwarded.
  <2>9. ASSUME conn[th] # None, connected, Comes(th, None), UNCHANGED <<connected, mw>>,
               \A j \in subs : j.topic \in mw
        PROVE  Forwarded' /\ Served'
    <3>1. ready' /\ \A u \in Thread : conn'[u] = IF u = th THEN None ELSE conn[u]
      BY <1>1, <2>9 DEF Comes
    <3> QED
      BY <1>1, <2>0, <2>4, <2>9, <3>1 DEF Forwarded, Served, Walks
  <2>10. CASE RenewBegins(th)
    <3>1. /\ conn[th] # None /\ connected /\ Comes(th, Foremost(subs)) /\ UNCHANGED <<connected, mw>>
      BY <2>4, <2>10 DEF RenewBegins, In
    <3>2. CASE subs = {}
      BY <2>9, <3>1, <3>2 DEF Foremost
    <3>3. CASE subs # {}
      <4>1. Foremost(subs) \in subs /\ \A j \in subs : j.n <= Foremost(subs).n
        BY <1>1, <3>3, ForemostIsFirst
      <4>2. \A j \in subs : j.n \in Int
        BY <1>1 DEF Info
      <4>3. \A j \in subs : ~(j.n > Foremost(subs).n)
        BY <4>1, <4>2
      <4> QED
        BY <2>8, <3>1, <4>1, <4>3
    <3> QED
      BY <3>2, <3>3
  <2>11. CASE Renew(th)
    <3> PICK at : at = conn[th].at
      OBVIOUS
    <3>1. /\ conn[th] \in Conn /\ conn[th].step = "renew" /\ at \in subs
          /\ connected /\ \A i \in subs : i.n > at.n => i.topic \in mw
      BY <1>1, <2>4, <2>11 DEF Renew, In, Forwarded, Walks
    <3>2. /\ mw' = mw \cup {at.topic} /\ UNCHANGED <<connected, ready>>
          /\ conn'[th] = [conn[th] EXCEPT !.step = "next"]
          /\ \A u \in Thread \ {th} : conn'[u] = conn[u]
      BY <1>1, <2>11, <3>1 DEF Renew, Patterns
    <3>3. conn'[th] # None /\ conn'[th].step = "next" /\ conn'[th].at = at
      BY <1>1, <3>1, <3>2 DEF Conn
    <3>4. conn[th] # None
      BY <1>1, <3>1
    <3> QED
      BY <1>1, <2>0, <2>4, <3>1, <3>2, <3>3, <3>4 DEF Forwarded, Served, Walks
  <2>12. CASE RenewNext(th)
    <3> PICK at : at = conn[th].at
      OBVIOUS
    <3>1. /\ conn[th] # None /\ at \in subs /\ at.topic \in mw
          /\ connected /\ \A i \in subs : i.n > at.n => i.topic \in mw
      BY <1>1, <2>4, <2>12 DEF RenewNext, In, Forwarded, Walks
    <3> DEFINE Rest == {j \in subs : j.n < at.n}
    <3>2. Comes(th, Foremost(Rest)) /\ UNCHANGED <<connected, mw>>
      BY <2>12, <3>1 DEF RenewNext, After
    <3>3. \A j \in subs : j.n \in Int
      BY <1>1 DEF Info
    <3>4. \A j \in subs : j \in Rest \/ j.topic \in mw
      BY <1>1, <3>1, <3>3
    <3>5. Rest \in SUBSET Info /\ Rest \subseteq subs
      BY <1>1
    <3> HIDE DEF Rest
    <3>6. CASE Rest = {}
      <4>1. Comes(th, None)
        BY <3>2, <3>6 DEF Foremost
      <4> QED
        BY <2>9, <3>1, <3>2, <3>4, <3>6, <4>1
    <3>7. CASE Rest # {}
      <4>1. Foremost(Rest) \in Rest /\ \A j \in Rest : j.n <= Foremost(Rest).n
        BY <3>5, <3>7, ForemostIsFirst
      <4>2. \A j \in subs : j.n > Foremost(Rest).n => j.topic \in mw
        BY <3>3, <3>4, <3>5, <4>1
      <4> QED
        BY <2>8, <3>1, <3>2, <3>5, <4>1, <4>2
    <3> QED
      BY <3>6, <3>7
  <2> QED
    BY <2>1, <2>2, <2>3, <2>5, <2>6, <2>7, <2>10, <2>11, <2>12 DEF ConnectNext
<1> QED
  BY <1>5, <1>6, <1>7, <1>8 DEF Next

\* The history and the invariant together are inductive.
LEMMA AloneStep == AloneInv /\ [NextL]_<<vars, lapses>> => AloneInv'
<1> SUFFICES ASSUME AloneInv, [NextL]_<<vars, lapses>>
             PROVE  AloneInv'
  OBVIOUS
<1>1. SubsInv'
  BY SubsKept DEF AloneInv, NextL
<1>2. CASE NextL
  <2> USE <1>2 DEF NextL
  <2>1. \A th \in Thread : op'[th] = None \/ conn'[th] = None
    BY NotBoth
  <2>2. ASSUME "overlap" \notin lapses'
        PROVE  /\ "overlap" \notin lapses /\ Apart
               /\ \A th, other \in Thread : Busy(th)' /\ Busy(other)' => th = other
    <3>1. ~Overlap /\ "overlap" \notin lapses
      BY <2>2
    <3> QED
      BY <3>1, ApartOrOverlap DEF Apart
  <2>3. OneAtATime' /\ OneReceiverAlone'
    BY <2>2, ReceiverStep DEF OneAtATime, OneReceiverAlone
  <2>4. (lapses' = {} => Forwarded') /\ ServedAlone'
    <3> SUFFICES ASSUME lapses' = {}
                 PROVE  Forwarded' /\ Served'
      BY DEF ServedAlone
    <3>1. lapses = {} /\ (~\E th \in Thread : RenewFails(th)) /\ Apart
      BY <2>2
    <3> QED
      BY <3>1, ServedStep
  <2> QED
    BY <1>1, <2>1, <2>3, <2>4 DEF AloneInv
<1>3. CASE UNCHANGED <<vars, lapses>>
  <2>1. UNCHANGED <<connected, conn, ready, mw, subs, op, lapses>>
    BY <1>3 DEF vars, link, registers
  <2>2. OneAtATime' /\ OneReceiverAlone'
    BY <2>1 DEF AloneInv, OneAtATime, OneReceiverAlone, OneReceiver, StillFirst, SameTopic, Busy
  <2>3. (lapses' = {} => Forwarded') /\ ServedAlone'
    BY <2>1 DEF AloneInv, Forwarded, ServedAlone, Served, Walks
  <2> QED
    BY <1>1, <2>1, <2>2, <2>3 DEF AloneInv
<1> QED
  BY <1>2, <1>3

\* The invariant of what holds as long as the threads keep apart.
THEOREM AloneHolds == SpecL => []AloneInv
<1>1. InitL => AloneInv
  <2> SUFFICES ASSUME InitL
               PROVE  AloneInv
    OBVIOUS
  <2>1. SubsInv
    BY InitSubs DEF InitL
  <2>2. OneAtATime /\ OneReceiverAlone
    BY <2>1 DEF InitL, Init, OneAtATime, OneReceiverAlone, OneReceiver, StillFirst, Busy
  <2>3. Forwarded /\ ServedAlone
    BY <2>1 DEF InitL, Init, Forwarded, ServedAlone, Served, Walks
  <2> QED
    BY <2>1, <2>2, <2>3 DEF AloneInv, InitL, Init
<1> QED
  BY <1>1, AloneStep, PTL DEF SpecL

\* As long as no two operations overlap and every renewal succeeds, the middleware
\* forwards the topic of every subscription.
THEOREM ServesAlone == SpecL => []ServedAlone
<1>1. AloneInv => ServedAlone
  BY DEF AloneInv
<1> QED
  BY <1>1, AloneHolds, PTL

\* As long as no two operations overlap, no topic has two receivers.
THEOREM ReceivesAlone == SpecL => []OneReceiverAlone
<1>1. AloneInv => OneReceiverAlone
  BY DEF AloneInv
<1> QED
  BY <1>1, AloneHolds, PTL
=============================================================================
