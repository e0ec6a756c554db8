---------------------------- MODULE AsyncPublish ----------------------------
(***************************************************************************)
(* Asynchronous publishing of one Connection (AsyncPublisher.cpp and what  *)
(* publish(), disconnectAux() and the destructor of InternalConnection     *)
(* have to do with it): publish() puts a copy of the message on a          *)
(* BoundedQueue, from which the thread of an AsyncPublisher hands it to    *)
(* the middleware.  disconnect() stops that thread when the queue is       *)
(* empty, or after its teardown wait, and discards what is left.           *)
(*                                                                         *)
(* Each AsyncPublisher has a number.  Its thread shares in its ownership,  *)
(* so that the destructor, which would set m_hardKill, never runs while    *)
(* the thread does.                                                        *)
(***************************************************************************)
EXTENDS Integers, Sequences, FiniteSets

CONSTANTS Thread,       \* application threads, which publish
          Owner,        \* those that connect and disconnect
          None,
          Capacity,     \* GMSEC_ASYNC_PUBLISH_QUEUE_DEPTH
          Quota,        \* bound: messages published by each thread
          MaxServices,  \* bound: publishers created
          MaxLinks      \* bound: connections established again

Service == 1 .. MaxServices

Message == [from : Thread, n : Nat \ {0}]

Step == {"idle", "find", "create", "put", "stop", "await", "reset", "drain", "discard", "close"}

ASSUME AsyncAssumption ==
  /\ Capacity \in Nat \ {0} /\ Quota \in [Thread -> Nat] /\ MaxServices \in Nat /\ MaxLinks \in Nat
  /\ Owner \subseteq Thread /\ Thread \cap Service = {} /\ 0 \notin Thread /\ None \notin Message
  /\ None \notin [kind : {"put"}, item : Message] \cup [kind : {"poll"}]

VARIABLES
  data, front, rear, count, call, asleep, woken, result,  \* m_asyncQueue
  connected,   \* m_state = CONNECTED, and the middleware is
  destroyed,   \* the destructor has freed the queue and the middleware's object
  service,     \* m_asyncPubService: the number of a publisher, or 0
  created,     \* publishers created
  alive,       \* AsyncPublisher::m_alive
  latch,       \* AsyncPublisher::m_shutdownLatch: counted down
  at,          \* where the thread of each publisher is
  step,        \* where each application thread is
  stopping,    \* the publisher its disconnect() waits for
  \* history
  published,   \* messages each thread has published
  sent,        \* what the middleware was given
  links,
  lapses       \* what has happened that the Connection does not provide for

queue == <<data, front, rear, count, call, asleep, woken, result>>
services == <<service, created, alive, latch, at>>
link == <<connected, destroyed, links>>
history == <<published, sent>>
threads == <<step, stopping>>
vars == <<queue, services, link, threads, history, lapses>>

Q == INSTANCE BoundedQueue WITH
  Thread <- Thread \cup Service, Item <- Message, Producer <- Thread,
  Putting <- {"put"}, Getting <- {"poll"}

TypeOK ==
  /\ Q!TypeOK
  /\ connected \in BOOLEAN /\ destroyed \in BOOLEAN /\ links \in 0 .. MaxLinks
  /\ service \in 0 .. MaxServices /\ created \in 0 .. MaxServices
  /\ alive \in [Service -> BOOLEAN] /\ latch \in [Service -> BOOLEAN]
  /\ at \in [Service -> {"none", "test", "poll", "publish", "ended"}]
  /\ step \in [Thread -> Step]
  /\ stopping \in [Thread -> 0 .. MaxServices]
  /\ published \in [Thread -> Nat]
  /\ sent \in Seq(Message)
  /\ lapses \subseteq {"timeout", "race", "overlap"}

Init ==
  /\ Q!Init
  /\ connected = TRUE /\ destroyed = FALSE /\ links = 0
  /\ service = 0 /\ created = 0
  /\ alive = [k \in Service |-> TRUE] /\ latch = [k \in Service |-> FALSE]
  /\ at = [k \in Service |-> "none"]
  /\ step = [th \in Thread |-> "idle"] /\ stopping = [th \in Thread |-> 0]
  /\ published = [th \in Thread |-> 0] /\ sent = <<>>
  /\ lapses = {}

Goes(th, there) == step' = [step EXCEPT ![th] = there] /\ UNCHANGED stopping

Publishing(th) == step[th] \in {"find", "create", "put"}

Disconnecting(th) == step[th] \in {"stop", "await", "reset", "drain", "discard", "close"}
-----------------------------------------------------------------------------
\* Bounds.  Threads on their way to put() may still create a publisher; and nothing
\* is begun once two publishers may be at work.
Bounded ==
  /\ lapses \cap {"race", "timeout"} = {}
  /\ created + Cardinality({u \in Thread : step[u] \in {"find", "create"}}) < MaxServices

\* publish(), with the test of the state.
Publish(th) ==
  /\ step[th] = "idle" /\ connected /\ published[th] < Quota[th] /\ Bounded
  /\ Goes(th, "find")
  /\ lapses' = IF \E u \in Thread : Disconnecting(u) THEN lapses \cup {"overlap"} ELSE lapses
  /\ UNCHANGED <<queue, services, link, history>>

NextMessage(th) == [from |-> th, n |-> published[th] + 1]

\* The message goes to m_asyncQueue->put().
Enqueue(th) ==
  /\ Q!Begin(th, [kind |-> "put", item |-> NextMessage(th)])
  /\ published' = [published EXCEPT ![th] = @ + 1]
  /\ Goes(th, "put")

\* m_asyncPubService.get() is looked at without a lock ...
FindService(th) ==
  /\ step[th] = "find"
  /\ IF service # 0
     THEN Enqueue(th)
     ELSE Goes(th, "create") /\ UNCHANGED <<queue, published>>
  /\ UNCHANGED <<services, link, sent, lapses>>

\* ... and when there is none, a publisher and its thread are created.
CreateService(th) ==
  /\ step[th] = "create"
  /\ created' = created + 1
  /\ service' = created'
  /\ at' = [at EXCEPT ![created'] = "test"]
  /\ Enqueue(th)
  /\ lapses' = IF service # 0 THEN lapses \cup {"race"} ELSE lapses
  /\ UNCHANGED <<alive, latch, link, sent>>

\* The steps of a thread inside an operation of the queue.  Spurious wakeups, which
\* its loops absorb, are left to BoundedQueue.
QueueStep(th) ==
  /\ Q!Proceed(th) \/ Q!TimesOut(th)
  /\ UNCHANGED <<services, link, threads, history, lapses>>

PublishReturns(th) ==
  /\ step[th] = "put" /\ call[th] = None
  /\ Goes(th, "idle")
  /\ UNCHANGED <<queue, services, link, history, lapses>>
-----------------------------------------------------------------------------
\* disconnect() of a connected Connection, as far as publishing is concerned.
Disconnect(th) ==
  /\ step[th] = "idle" /\ connected
  /\ Goes(th, "stop")
  /\ lapses' = IF \E u \in Thread \ {th} : step[u] # "idle" THEN lapses \cup {"overlap"} ELSE lapses
  /\ UNCHANGED <<queue, services, link, history>>

\* Mutant: the publisher is told to stop, but not waited for.
Stop_NoWait(th) ==
  /\ step[th] = "stop"
  /\ IF service = 0
     THEN Goes(th, "drain") /\ UNCHANGED alive
     ELSE Goes(th, "reset") /\ alive' = [alive EXCEPT ![service] = FALSE]
  /\ UNCHANGED <<queue, service, created, latch, at, link, history, lapses>>

\* AsyncPublisher::stop(), up to the wait on the latch.
Stop(th) ==
  /\ step[th] = "stop"
  /\ \/ service = 0 /\ Goes(th, "drain") /\ UNCHANGED alive
     \/ /\ service # 0
        /\ step' = [step EXCEPT ![th] = IF alive[service] THEN "await" ELSE "reset"]
        /\ stopping' = [stopping EXCEPT ![th] = service]
        /\ alive' = [alive EXCEPT ![service] = FALSE]
  /\ UNCHANGED <<queue, service, created, latch, at, link, history, lapses>>

\* Mutant: the teardown wait is not made.
StopAwaited_Always(th) ==
  /\ step[th] = "await"
  /\ Goes(th, "reset")
  /\ UNCHANGED <<queue, services, link, history, lapses>>

StopAwaited(th) ==
  /\ step[th] = "await" /\ latch[stopping[th]]
  /\ Goes(th, "reset")
  /\ UNCHANGED <<queue, services, link, history, lapses>>

\* After m_asyncTeardownWait, the publisher is left to itself.
StopTimesOut(th) ==
  /\ step[th] = "await"
  /\ Goes(th, "reset")
  /\ lapses' = lapses \cup {"timeout"}
  /\ UNCHANGED <<queue, services, link, history>>

Reset(th) ==
  /\ step[th] = "reset"
  /\ service' = 0
  /\ Goes(th, "drain")
  /\ UNCHANGED <<queue, created, alive, latch, at, link, history, lapses>>

\* What is left on the queue is taken off, until it is empty, and thrown away.
Drain(th) ==
  /\ step[th] = "drain" /\ count # 0
  /\ Q!Begin(th, [kind |-> "poll"])
  /\ Goes(th, "discard")
  /\ UNCHANGED <<services, link, history, lapses>>

Discard(th) ==
  /\ step[th] = "discard" /\ call[th] = None
  /\ Goes(th, "drain")
  /\ UNCHANGED <<queue, services, link, history, lapses>>

Close(th) ==
  /\ step[th] = "drain" /\ count = 0
  /\ connected' = FALSE
  /\ Goes(th, "idle")
  /\ UNCHANGED <<queue, services, destroyed, links, history, lapses>>

Connect(th) ==
  /\ step[th] = "idle" /\ ~connected /\ ~destroyed
  /\ links < MaxLinks /\ Bounded /\ links' = links + 1
  /\ connected' = TRUE
  /\ UNCHANGED <<queue, services, destroyed, threads, history, lapses>>

\* The destructor, after its disconnect(), when no other call is under way.
Destroy ==
  /\ ~connected /\ ~destroyed /\ \A th \in Thread : step[th] = "idle"
  /\ destroyed' = TRUE
  /\ UNCHANGED <<queue, services, connected, links, threads, history, lapses>>
-----------------------------------------------------------------------------
\* Mutant: the publisher stops without having emptied the queue.
StaysAlive_AliveOnly(k) == alive[k]

\* The condition of the loop of AsyncPublisher::run().
StaysAlive(k) == alive[k] \/ count # 0

\* Mutant: the publisher waits for a message without a timeout.
Poll_Forever(k) ==
  /\ at[k] = "test" /\ StaysAlive(k)
  /\ Q!Begin(k, [kind |-> "take"])
  /\ at' = [at EXCEPT ![k] = "poll"]
  /\ UNCHANGED <<service, created, alive, latch, link, threads, history, lapses>>

\* poll(500, mpt): the flags are looked at again when nothing has come.
Poll(k) ==
  /\ at[k] = "test" /\ StaysAlive(k)
  /\ Q!Begin(k, [kind |-> "poll"])
  /\ at' = [at EXCEPT ![k] = "poll"]
  /\ UNCHANGED <<service, created, alive, latch, link, threads, history, lapses>>

Polled(k) ==
  /\ at[k] = "poll" /\ call[k] = None
  /\ at' = [at EXCEPT ![k] = IF result[k] = None THEN "test" ELSE "publish"]
  /\ UNCHANGED <<queue, service, created, alive, latch, link, threads, history, lapses>>

\* mwPublish(), without a ticket; an exception is only logged.
MwPublish(k) ==
  /\ at[k] = "publish"
  /\ sent' = IF connected THEN Append(sent, result[k]) ELSE sent
  /\ at' = [at EXCEPT ![k] = "test"]
  /\ UNCHANGED <<queue, service, created, alive, latch, link, threads, published, lapses>>

\* Mutant: the end is not announced.
Ends_Silent(k) ==
  /\ at[k] = "test" /\ ~StaysAlive(k)
  /\ at' = [at EXCEPT ![k] = "ended"]
  /\ UNCHANGED <<queue, service, created, alive, latch, link, threads, history, lapses>>

Ends(k) ==
  /\ at[k] = "test" /\ ~StaysAlive(k)
  /\ latch' = [latch EXCEPT ![k] = TRUE]
  /\ at' = [at EXCEPT ![k] = "ended"]
  /\ UNCHANGED <<queue, service, created, alive, link, threads, history, lapses>>
-----------------------------------------------------------------------------
PublishSteps(th) == FindService(th) \/ CreateService(th) \/ PublishReturns(th)

DisconnectSteps(th) == \/ Stop(th) \/ StopAwaited(th) \/ Reset(th)
                       \/ Drain(th) \/ Discard(th) \/ Close(th)

\* What a thread does unless it waits on the condition for ever: a wait that has a
\* timer ends.
CallerSteps(th) == PublishSteps(th) \/ DisconnectSteps(th) \/ QueueStep(th)

ServiceSteps(k) == Poll(k) \/ Polled(k) \/ MwPublish(k) \/ Ends(k) \/ QueueStep(k)

Next ==
  \/ \E th \in Thread : Publish(th) \/ CallerSteps(th) \/ StopTimesOut(th)
  \/ \E th \in Owner : Disconnect(th) \/ Connect(th)
  \/ \E k \in Service : ServiceSteps(k)
  \/ Destroy

Spec == Init /\ [][Next]_vars

\* Threads run, the middleware returns, and the timers of poll() go off; that of
\* stop() is not relied on.
FairSpec ==
  /\ Spec
  /\ \A th \in Thread : WF_vars(CallerSteps(th))
  /\ \A k \in Service : WF_vars(ServiceSteps(k))
-----------------------------------------------------------------------------
Working(k) == at[k] \notin {"none", "ended"}

Quiet == \A th \in Thread : step[th] = "idle"

\* The messages of a thread reach the middleware in the order it published them,
\* across reconnections too, as long as no two publishers were created at once, the
\* teardown wait was long enough, and one thread alone connects and disconnects: two
\* disconnect()s at once can let the publisher of the next connection overtake.
OrderKept ==
  lapses \cap {"race", "timeout"} = {} =>
    \A i, j \in 1 .. Len(sent) :
      i < j /\ sent[i].from = sent[j].from => sent[i].n < sent[j].n

\* Once disconnect() has returned, every message whose publish() had returned has
\* been handed to the middleware: nothing is discarded or left on the queue.
Flushed ==
  lapses = {} /\ ~connected /\ Quiet =>
    \A th \in Thread : \A n \in 1 .. published[th] :
      \E i \in 1 .. Len(sent) : sent[i] = [from |-> th, n |-> n]

\* No publisher's thread uses the queue or the middleware of a Connection that has
\* been freed.
NothingOutlives == lapses = {} /\ destroyed => \A k \in Service : ~Working(k)

\* Every publish() returns, however small the queue is and whoever a signal of its
\* condition goes to, as long as there is one publisher and no disconnect()
\* overlaps.  With two publishers a signal meant for the producer can be spent on
\* the other publisher, and publish() blocks although the queue is empty.
PublishEnds == \A th \in Thread : Publishing(th) ~> step[th] = "idle" \/ lapses # {}

\* Every disconnect() returns, although the timer of its wait does not go off.
DisconnectEnds == \A th \in Owner : Disconnecting(th) ~> step[th] = "idle"
-----------------------------------------------------------------------------
Queued == Q!Contents

\* A publish() that has not put its message on the queue yet.
Pending(th) == step[th] = "put" /\ call[th] # None

\* How many messages of a thread have got as far as the queue.
Given(th) == IF Pending(th) THEN published[th] - 1 ELSE published[th]

\* A publisher has taken a message off the queue, and is to hand it on.
Holds(k) == at[k] = "publish" \/ (at[k] = "poll" /\ call[k] = None /\ result[k] # None)

Before(m, x) == m.from = x.from => m.n < x.n

\* What the threads do on the queue.
CallsFit ==
  /\ \A th \in Thread : call[th] # None =>
       \/ /\ step[th] = "put" /\ published[th] > 0
          /\ call[th] = [kind |-> "put", item |-> [from |-> th, n |-> published[th]]]
       \/ step[th] = "discard" /\ call[th] = [kind |-> "poll"]
  /\ \A k \in Service : call[k] # None => at[k] = "poll" /\ call[k] = [kind |-> "poll"]
  /\ \A k \in Service : at[k] = "publish" => result[k] # None
  /\ \A u \in asleep : call[u] # None
  /\ \A i \in 1 .. count : Queued[i] \in Message

Creating == {th \in Thread : step[th] \in {"find", "create"}}

\* The publishers there are, and those there may yet be.
ServicesFit ==
  /\ service <= created
  /\ \A k \in Service : IF k > created THEN at[k] = "none" /\ alive[k] ELSE at[k] # "none"
  /\ \A k \in Service : latch[k] => at[k] = "ended"
  /\ IsFiniteSet(Creating) /\ created + Cardinality(Creating) <= MaxServices
  /\ \A th \in Thread : Disconnecting(th) => th \in Owner

OneOwner == \A t, u \in Owner : t = u

\* No publisher was left to itself, and no two were created at once.
Calm == lapses \cap {"race", "timeout"} = {} /\ ("overlap" \in lapses => OneOwner)

OnePublisher ==
  Calm =>
    /\ \A t, u \in Thread : Disconnecting(t) /\ Disconnecting(u) => t = u
    /\ \A k \in Service : Working(k) => k = service
    /\ \A th \in Thread : step[th] = "await" => service # 0 /\ stopping[th] = service
    /\ \A th \in Thread : step[th] = "reset" => service # 0 /\ ~Working(service)
    /\ service # 0 => alive[service] \/ \E th \in Thread : step[th] \in {"await", "reset"}

\* Messages sent, in the publisher's hands, on the queue and still to be put on it
\* stand in this order.
InLine ==
  Calm =>
    /\ \A i, j \in 1 .. Len(sent) : i < j => Before(sent[i], sent[j])
    /\ \A i, j \in 1 .. count : i < j => Before(Queued[i], Queued[j])
    /\ \A i \in 1 .. Len(sent), j \in 1 .. count : Before(sent[i], Queued[j])
    /\ \A k \in Service : Holds(k) =>
         /\ \A i \in 1 .. Len(sent) : Before(sent[i], result[k])
         /\ \A j \in 1 .. count : Before(result[k], Queued[j])
         /\ result[k].n <= Given(result[k].from)
    /\ \A i \in 1 .. Len(sent) : sent[i].n <= Given(sent[i].from)
    /\ \A j \in 1 .. count : Queued[j].n <= Given(Queued[j].from)

\* Where a message that was published can be.
Somewhere(m) ==
  \/ \E i \in 1 .. Len(sent) : sent[i] = m
  \/ \E k \in Service : Holds(k) /\ result[k] = m
  \/ \E j \in 1 .. count : Queued[j] = m
  \/ Pending(m.from) /\ m.n = published[m.from]

\* What is on the queue has a publisher.
Served ==
  lapses = {} =>
    /\ \A t, u \in Thread : Disconnecting(t) /\ u # t => step[u] = "idle"
    /\ \A th \in Thread : step[th] \in {"drain", "discard", "close"} => service = 0
    /\ ~connected => Quiet /\ service = 0
    /\ service = 0 => count = 0 /\ \A th \in Thread : step[th] # "put"
    /\ service # 0 /\ ~Working(service) =>
         count = 0 /\ \E th \in Thread : step[th] \in {"await", "reset"}

\* No message is discarded.
NoneLost ==
  lapses = {} =>
    \A th \in Thread : \A n \in 1 .. published[th] : Somewhere([from |-> th, n |-> n])

\* The inductive invariant.
AsyncInv ==
  /\ TypeOK /\ Q!QueueInv /\ (destroyed => ~connected)
  /\ CallsFit /\ ServicesFit /\ OnePublisher /\ InLine /\ Served /\ NoneLost
=============================================================================
