# GMSEC API: specifications, model checking and proofs

The GMSEC API (C++ framework under `framework/`, middleware wrappers under `wrapper/`)
gives applications one `Connection` class over many message-oriented middlewares.
This directory holds TLA+ modules of its concurrent core, the TLC configurations that
check them, and TLAPS proofs about them.  Paths below are relative to the repository;
`internal/X.cpp` stands for `framework/src/gmsec5/internal/X.cpp`, and InternalConnection
is `internal/InternalConnection.cpp`.

## 1. Inventory

### The system

An application thread calls a `Connection`, which forwards to one `InternalConnection`.
That object keeps the state machine NOT_CONNECTED / CONNECTED, four `TicketMutex`es
(read, write, event, counter), and starts up to five threads of its own: the
auto-dispatcher, the request thread, the asynchronous publisher, the message aggregation
thread and the performance logger.  It calls a middleware object (`mwConnect`,
`mwSubscribe`, `mwPublish`, `mwReceive`, ...), which may call back from threads of the
middleware (`onReply`, `onEvent`).

| Component | State | Operations | Interacts with | Correct when |
|---|---|---|---|---|
| TicketMutex (`internal/TicketMutex.cpp`) | `head`, `tail` (32 bits), a condition | enter, leave | everything | exclusive; first come, first served; nobody is left asleep; wraps |
| Request/reply (`internal/RequestThread.cpp`, `request()`, `onReply()`) | `m_pending`, `m_replies`, one condition with a reason register, per request its flags, times and IDs | request (two forms), deliver, expire, republish, shutdown | middleware threads, disconnect | every request is resolved, once, by its own reply; silent afterwards |
| Subscriptions (`subscribe()`, `unsubscribe()`, `dispatch()`) | `m_subscriptions`, `CallbackLookup`, `ConnectionCallbackCache` | subscribe, unsubscribe, response subscription, dispatch, renewal at connect | read ticket, middleware, ActiveSubscriptions | the registers agree; no deleted callback is called; what is subscribed is forwarded |
| ActiveSubscriptions (`internal/ActiveSubscriptions.cpp`) | a count per topic, the topics reported | add, remove | all Connections of a process; heartbeats | reports only topics in use |
| Auto-dispatcher (`internal/AutoDispatcher.cpp`, `internal/Dispatcher.cpp`) | `m_dispatcherRunning`, a shared object with `running` and two latches | start, stop, the thread's loop | read and write tickets, connect, disconnect, destructor | one at a time; `true` from stop means stopped; ends before the Connection does |
| BoundedQueue (`util/BoundedQueue.h`) | a ring, one mutex, one condition | take, poll, put, offer (two forms) | publisher, loopback, performance logger, wrappers | a bounded FIFO; callers make progress |
| Asynchronous publisher (`internal/AsyncPublisher.cpp`, `publish()`, `disconnectAux()`) | the service pointer, its alive flag and latch, the queue | publish, the thread's loop, stop, drain | BoundedQueue, connect, disconnect, destructor | order kept; nothing lost by disconnect; nothing runs on freed objects |
| Message aggregation (`internal/MessageAggregationToolkit.cpp`) | bins, flush times, the publish status, queue of unpacked messages, one condition | addMessage, the thread's loop, unpack, shutdown | publish, receive, connect, disconnect | order kept; nothing lost in silence; bins emptied in time |
| Bolt client (`wrapper/bolt/src`, `wrapper/bolt/gmsec/BoltConnection.cpp`) | `Shared`: state, mode, socket; the list of subscriptions | connect, disconnect, subscribe, unsubscribe, publish; set-up and renewal of a link | its reader and manager threads, the server, the Connection above | a lost link is renewed with its subscriptions; messages whole and once |
| Bolt server (`wrapper/bolt/java/bolt`) | clients, the Processor's queue, the Distributor's tree | assign, consume, process, cleanup | its clients | the tree is what the clients subscribed to, and agrees with the client's matching |
| Generators (`internal/InternalHeartbeatGenerator.cpp`, `internal/InternalResourceGenerator.cpp`) | alive flag, latches, counter (16 bits) | start, stop, set fields | their own Connection | one thread; stop means stopped; counter valid |
| Performance logger (`internal/PerformanceLogger.cpp`) | queue of entries, file, latch | log, run, shutdown | receive, disconnect | never writes after shutdown |
| Loopback middleware (`wrapper/loopback`) | subscriptions and one queue shared by all connections | the `mw*` calls | Connection | messages reach their subscriber |
| Filters (`internal/UniqueFilter.cpp`, `internal/ExclusionFilter.cpp`, `internal/Subject.cpp`) | last ID per connection, excluded subjects | update, match | receive | matching is as documented |

The rest of the repository - messages and fields, specifications and validation, encoding,
configuration, the loading of middleware libraries, the wrappers of vendors' clients, the MB server,
policy, logging, the C interface, the language bindings, tools, examples, tests - is listed
as `not_modelled` in `PROJECT.json` with the reason.

### What is hard

- *One reason register per condition* (`internal/util/InternalCondition.cpp`): a broadcast
  stores its reason, and the woken thread reads whatever was stored last.
- *Timers against answers*: a reply against the expiry of its request, `stop()` against
  its own 1 ms or 3 s, the teardown wait against a slow middleware.
- *Check, then act*: `subscribe()`, `startRequestThread()`, `publish()` and
  `AutoDispatcher::start()` look at shared state and change it in separate sections or
  without a lock.
- *Teardown*: five threads must have ended, or be harmless, before the destructor frees
  what they use; `StdThread` detaches instead of joining, and every wait has a time limit.
- *Partial failure*: the middleware may refuse any call, with an exception that leaves
  bookkeeping half done.
- *Links that fail*: the Bolt client renews a lost connection from one thread while a second
  reads it and a third uses it, and what is left of a packet, a subscription or a state may
  come from the link before; the server may still serve the old one.
- *Numbers*: ticket counters and rings that wrap.

Every such place has an entry under `hazards` in `PROJECT.json`, with its line.

## 2. Modules

| Module | Models | Checked by | Proved in |
|---|---|---|---|
| `FifoLock` | abstract first-come-first-served lock | - | - |
| `TicketMutex` | `internal/TicketMutex.cpp` | `ticket_mutex` | `TicketMutex_proofs` |
| `RequestReply` | `internal/RequestThread.cpp` and its users | `rr_safe`, `rr_live`, `rr_reply_lost` | `RequestReply_proofs` |
| `ActiveSubscriptions` | `internal/ActiveSubscriptions.cpp` | through `Subscriptions` | `Subscriptions_proofs` |
| `Subscriptions` | subscriptions of one Connection | `subs`, `subs_lost` | `Subscriptions_proofs` |
| `SubscriptionsAlone` | the same with a history of overlaps and failed renewals | `subs` | `Subscriptions_proofs` |
| `AutoDispatcher` | `AutoDispatcher.cpp`, `Dispatcher.cpp` | `dispatcher` | `AutoDispatcher_proofs` |
| `BoundedFifo` | abstract bounded FIFO | - | - |
| `BoundedQueue` | `util/BoundedQueue.h` | `bounded_queue`, `queue_over` | `BoundedQueue_proofs` |
| `AsyncPublish` | asynchronous publishing, over an instance of `BoundedQueue` | `async_publish` | `AsyncPublish_proofs` |
| `MessageAggregation` | `internal/MessageAggregationToolkit.cpp` and its users | `aggregation` | `MessageAggregation_proofs` |
| `BoltWire` | the links between a Bolt client and the server, packets, subject matching | `bolt` | `Bolt_proofs` |
| `BoltDistributor` | the server's tree of subscriptions, and its walk | `bolt` | `Bolt_proofs` |
| `BoltServer` | acceptor, IOManager, Processor | `bolt` | `Bolt_proofs` |
| `BoltClient` | `Shared`, reader, manager, one application thread | `bolt` | `Bolt_proofs` |
| `Bolt` | client, links and server together | `bolt` | `Bolt_proofs` |
| `BoltInvariant` | (the inductive invariant of `Bolt`) | - | `Bolt_proofs` |

`MC<Module>` gives a module's constants their values.  `Subscriptions` instantiates
`ActiveSubscriptions` and implements it; `AsyncPublish` instantiates `BoundedQueue` and uses
its actions; `Bolt` extends `BoltClient` and `BoltServer`, which share the links of `BoltWire`,
and `BoltServer` instantiates `BoltDistributor`; `TicketMutex` implements `FifoLock`, and `BoundedQueue` implements
`BoundedFifo`, each by a refinement mapping stated in the module.

Conventions.  An action is the stretch of code between two points at which another thread
can matter: from taking a mutex to leaving it or to a wait on its condition, or from one
unprotected access to shared state to the next.  `map` in `PROJECT.json` names the lines of
each definition.  Operators called `X_Something` next to an action `X` are *mutants*: the
same operation with a plausible mistake, kept to show that the property listed with it
notices.  Variables under `\* history` are not in the code.

### TicketMutex

`Enter` draws a ticket from `tail` and goes in or waits; `Leave` advances `head` and
broadcasts; `Wake` is a notified thread that has the mutex back and tests again;
`Spurious` is what `pthread_cond_wait` may do.  The counters wrap at `Top`, which is
2^32 - 1 in the code; the assumption `TicketAssumption` (no more threads than counter
values) is what makes tickets distinct.

### RequestReply

`pending` and `replies` are the two lists; `status` is the reason register; `run` is the
request thread (`RequestShared::run`), whose section is cut into one step per list
element; `caller[r]` is the application thread inside the `request()` of `r`; `mw` holds a reply that
a middleware thread is delivering.  A request without callback is in `Sync`, one with a
callback in `Async`; `Forever` and `Republish` say how it was made.  Time is reduced to
"has expired" and "is due".  `RefusedIterator` is the erase followed by an increment of
`sendRequests()`, whose result past the end is undefined and therefore a choice.
`caller[r] = "crashed"` is the null pointer of a `request()` overtaken by
`disconnect()`; nothing is asked of the system after it.  A `request()` that comes later, while
`disconnect()` is still at work or after a reconnection, creates another `RequestShared`
(`shared = "other"`); who adds a request to that one is `"elsewhere"`, and not followed.

### ActiveSubscriptions and Subscriptions

A subscription is a record with a number, a topic and a callback, and stands for the
`SubscriptionInfo` and the `ConnectionCallback` made for it.  `subscribe()` is four
steps: test under the ticket, middleware call, registration under the ticket;
`unsubscribe()` is one.  A dispatch takes the ticket, collects the callbacks of an
arbitrary set of matching patterns, calls them one by one, and lets the ticket go.  The
middleware, modelled on the loopback wrapper, may refuse the calls named in `Refuses`.
`connect()` is cut where another thread can come between: `mwConnect()` with the state that follows,
the policy's `authenticate()`, and the loop over `m_subscriptions`, which goes on without the read ticket while the state
is CONNECTED already: reading an entry, `mwSubscribe()` for it, and the step to the next are three
actions.  `unsubscribe()` may delete the entry the loop is at.  From then on (`freed`) what the loop
reads is undefined, and in the model any topic and any entry (`Patterns`, `After`).  `RegistersAgree`, `BatchIsAlive`
and the list of active topics are claimed all the same; `NoOrphans`, that no topic is left
behind, only as long as no entry was deleted under the loop.  The history variable of `SubscriptionsAlone`
records that two operations overlapped or that a renewal failed: two properties hold only
as long as that has not happened, and `subs_lost` shows that one of them then fails.

### AutoDispatcher

Each `DispatchShared` object has a number, since a timed-out `stop()` may leave an old one
behind.  Calls of several threads overlap: nothing in the code keeps `start()`, `stop()` and
`disconnect()` apart but the tickets that `stop()` takes twice.  `lapses` records how a wait on a latch ended that had
not been counted down, by its timeout or by a spurious wakeup, which `CountDownLatch::await(int)` takes for the
end; that a call began during another (`"overlap"`); and that a `start()` found no object while another was about to
create one (`"race"`).  Properties that only hold without such an event say so.  The uniqueness of the
dispatcher is claimed with timeouts and overlaps, the race and the spurious wakeup excepted; the answer
`true` of `stop()` with timeouts; the others of calls in time that do not overlap.

### BoundedQueue

The ring with `front`, `rear` and `count`; `asleep` are the threads blocked in
`condition.wait()`, `woken` those that have been signalled and do not have the mutex yet.  A
signal may go to any sleeping thread, producer or consumer.

### AsyncPublish

Publishers are numbered like dispatchers, because `publish()` creates one whenever it finds
no service, without a lock.  `lapses` records what the code does not provide for: two publishers
created at once (`race`), a teardown wait that ran out (`timeout`), a `publish()` or
`disconnect()` that overlaps with another thread's (`overlap`).  Which threads may call
`connect()` and `disconnect()` is the constant `Owner`: one thread, in the run.  The Connection is one without message
bins.  The destructor of `AsyncPublisher` never runs while its thread does, because the thread
holds a copy of the shared pointer; `m_hardKill` therefore stays false and is not in the
model.

### MessageAggregation

`bins` are the keys of `m_messageBins`: those of the configuration, or, without any
(`all`), one for each subject, made on demand.  `messages`, `ready` and `late` are a bin's
list, its mark, and whether its flush time is past.  `reason` is the register of
the toolkit's one condition, and `waits` says how each thread is in or coming out of a wait, so
that a broadcast between a timeout and the return from the wait is lost as it is in the code.
`publish()` is `Publish`, `CheckStatus`, `AddMessage`, `PublishNow`: the test of the state,
`getPublishStatus()`, the bin, and the middleware.  `Process` is `processBin()` for a set of
bins: an aggregated message for each subject, each through `publish()`.
The status `failed`, once set, is never cleared, since only a successful `publish()` would
and none gets that far: the property asks that such messages be reported.  `Shutdown`,
`Awaited`, `Reset` and `Close` are `disconnect()`.  After it the
Connection's pointer to the toolkit is null (`shared`), and the steps whose names end in
`Crashes` are its uses on a Connection that was connected again; the model ends there.
`lapses` holds `"overlap"` (a `publish()` during a `disconnect()`) and
`"unstopped"` (three waits were over and the thread was not).  Abstracted: the
encoding of an aggregated message, whose unpacking by the receiver is `Carried` and `Earlier`; the
constructor's wait for the thread to start, and the toolkit's destructor.

### Bolt

A *link* is one successful `connect()` of the client's socket and carries packets
both ways in order until it breaks; then each direction has delivered all, nothing, or
the header of one packet.  `state`, `mode` and `sock` are `fState`, `fMode` and the
socket of `Shared`, `subs` the list of `Connection`.  Three threads use them.  The *reader* (`rd`)
reads packets, answers them in `handle()` while a link is set up (`Welcome`,
`Negotiated`, `Resubscribe`, `Resubscribed`) and exposes messages afterwards.  The *manager*
renews a lost link (`Reconnect`) and pings.  The *application* (`user`) calls through
`BoltConnection` and `SingleConnection`.  `connect()`, `disconnect()`, `handle()` and the
manager hold the mutex of `Shared`; `put()`, `read()` and the `ioError()` they end in
do not, so that `ioError()` is two steps, `IoClose` and `IoState`, between which
a new link may have been made.  The *server* names a `Client` after its link: `Assign` sends the
WELCOME, `Consume` passes packets to the Processor's queue, and `Answer`, `Distribute`,
`ServerUnsubscribe`, `ServerSubscribe`, `Fetch`, `Register` are the Processor, which
`Cleanup`, by the IOManager's thread, may overtake between `Fetch` and `Register`.

The distributor's tree is a function from patterns to sets of clients; its walk
(`Walk`, a recursive function over the elements) is compared in every state with `Matches`, the matching of
`internal/Subject.cpp` that decides on the client's side.  `lapses` records what the
code does not prevent: a connection "made" on a socket that is still open (`"still open"`), a
message written again after an error (`"rewritten"`), an `unsubscribe()` between
the copy of `resubscribe()` and its packet (`"copied"`), a pattern that enters the list
after the link it was sent on has gone (`"pushed late"`).  A ping is a step only when its
write fails; `TimesOut` is the end of the 10 s without packets, which the pings of a sound
link prevent.

## 3. Runs

| Run | Instance | Shows |
|---|---|---|
| `ticket_mutex` | 4 threads, counters of 4 values | exclusion, no lost wakeup, tickets in line across wraps, everybody is served; implements `FifoLock` |
| `rr_safe` | 2 asynchronous requests, one republished, several responses, 2 transmissions, 2 replies | bookkeeping consistent; a resolved request is silent; nothing after shutdown |
| `rr_live` | 1 synchronous, 1 asynchronous request | a caller gets its own reply only; every request with a timeout ends |
| `rr_reply_lost` | 1 request that waits for ever, 1 asynchronous | *violated*: the reply is there and the caller waits on |
| `subs` | 2 threads, 2 topics, 1 callback, 3 subscriptions, 2 connections, any middleware call may fail | registers agree; no deleted callback called; no topic forwarded for nobody, unless `connect()` used a deleted subscription; list of active topics follows; without overlaps, what is subscribed is forwarded, and one receiver without callback per topic |
| `subs_lost` | 2 threads, 1 topic | *violated*: a subscription the middleware does not know of |
| `dispatcher` | 2 application threads, 2 dispatchers, one call that begins during another | one dispatcher, also when calls overlap; without overlaps, the five other safety properties, and that `stop()` returns |
| `bounded_queue` | 2 producers (put, offer), 1 consumer (poll), 2 items, capacity 2 | implements `BoundedFifo`; puts make progress |
| `queue_over` | 2 producers (offer with and without timeout), 1 consumer | *violated*: more items than the capacity |
| `async_publish` | 2 threads, 1 and 2 messages, capacity 1, 2 publishers, 1 reconnection | order, nothing lost, nothing outlives, both calls return |
| `aggregation` | 2 threads with 1 and 2 messages, 2 subjects that share a bin or have one each, 1 excluded subject, bins of 2, 1 failure, 2 connections | order kept and nothing twice; nothing lost in silence; bins emptied in time |
| `bolt` | 1 client, 2 links, 1 fault, 3 calls, 1 message, 2 patterns that match its subject, Processor queue of 1 | client and server agree when it is quiet; what is published comes back, whole and once; the tree agrees with the matching; a lost link is restored |

Bounds.  Four threads on four tickets let every ticket be in use at a wrap.  Two requests are
what it takes for one request's broadcast to hide another's, and two transmissions for a
reply to the wrong one.  Three subscriptions on two topics contain the case that the last
one of a topic leaves while another topic stays, and that a second one arrives; two connections contain a
renewal.  Two dispatchers contain an old one beside a new one.  With `MeetAgain` FALSE one call begins
during another, which is what `OneDispatcher` is exposed to; without the bound (4.9 million states, TLC finds no violation of the safety
properties and of `ObjectInv`) the check of liveness would take too long.  A queue of one or two items is empty,
partly full, full and wrapped within a few operations, and with capacity 1 a producer and a consumer
compete for a signal.  A bin of two messages is full,
partly full and split between subjects with three messages, and one failure suffices to spoil the
publish status for good; nothing is begun after a lapse (`Bounded`).  Two links are an old one and its renewal,
and one fault is what separates them; three calls are enough to connect, subscribe and do one thing more
while the link is lost.  Of the two patterns one ends in a wildcard that also matches nothing, and they share
no node of the tree; the model ends with the last link (`LinksLeft`).  `MaxSends`, `MaxReplies`, `MaxEvents`, `MaxInfos`, `MaxLinks`,
`MaxUse`, `MaxRuns`, `MaxServices`, `MaxFailures`, `MaxFaults`, `MaxOps`, `MaxMsgs`,
`ProcessorQueue`, `Quota` and `MeetAgain` bound what would otherwise grow; they are
guards of the actions that count.  `CHECK_DEADLOCK FALSE` is given where an application may
have made all its calls.  Symmetry is used only in runs without liveness properties.

Fairness.  `TicketMutex`: a notified thread runs, and a holder leaves.  `RequestReply`:
threads run, and time passes; strong fairness where a thread competes for the mutex with
one that takes it again and again but sleeps in between, and for a timed wait that other
wakeups start over: they are assumed not to come for ever.  `AutoDispatcher`: threads run, callbacks
return, the read ticket is handed out in order (proved of `TicketMutex`'s safety and checked
for its liveness), which justifies strong fairness; no timer.  `BoundedQueue`,
`AsyncPublish`: threads run, the middleware returns, and the timeout of `poll()` goes off; the teardown timer
is not relied on.  `MessageAggregation`: threads run, the clock and the timers go on, and
the toolkit's wait times out in the end although spurious wakeups, assumed not to come for
ever, start it over; a stream of full bins that never ends would put the expiry of the others off
for ever, as it would in the code, and is excluded by `Quota`.  `Bolt`: each thread runs, a call that
was made goes on, and of the connections the manager tries one is accepted in the end;
the network's faults are bounded and not fair.  Applications owe nothing, except in `bounded_queue`, where the consumer goes on
polling.

### Disagreements between code and documentation

Runs that expect a violation, with the lines in `findings`:

1. `rr_reply_lost`: a reply may be stored and its reason overwritten, after which
   `request(..., GMSEC_WAIT_FOREVER, ...)` waits although the reply is there.
2. `subs_lost`: `subscribe()` relies on a middleware subscription that a concurrent
   `unsubscribe()` ends.
3. `queue_over`: `offer(item, ms)` inserts into a full ring after its wait.

Seen in the models and not given a run: a callback may be registered twice for a topic when
another subscription of that topic comes later in the list (InternalConnection:324, 1732); a
queued reply may be dropped in favour of a timeout (RequestThread.cpp:77); a refused transmission is
reported as a timeout or not at all (RequestThread.cpp:211); a re-added topic may be
missing from heartbeats (ActiveSubscriptions.cpp:47); two publishers created at once can
leave `publish()` blocked on an empty queue; when two threads call `disconnect()` at once, the second finds the
publisher's alive flag already false, does not wait for it and closes, so that after a `connect()` a new publisher may
overtake the message the old one still holds (a run of `AsyncPublish` with two owners violates `OrderKept`); with `take()` instead of
`poll()`, producers and consumers of a `BoundedQueue` can all be asleep; a `stopAutoDispatch(false)` that needs more
than 1 ms leaves the Connection believing that the dispatcher runs (Dispatcher.cpp:75; `RefusalsJustified`
excludes it by name); with bins, a
Connection used after it was connected again goes through a null pointer (InternalConnection:2235, 511, 1572), and
after one failure every later `publish()` throws (MessageAggregationToolkit.cpp:511); the loop of `connect()` over the
subscriptions is not protected from `unsubscribe()`: it may use a deleted `SubscriptionInfo` and leave its topic
with the middleware (InternalConnection:1489; without `freed` in it, `NoOrphans` is violated after nine steps); QUIT may fall into the
gap between a timeout and the return from the wait, so that the toolkit's thread outlives `disconnect()`
(MessageAggregationToolkit.cpp:233, 339); `connect()` on a socket that is open is taken for success
(TCPSocket.cpp:104), so that the client waits on a link whose set-up does not come again; a Bolt client may
be entered in the server's tree after its cleanup (Client.java:375).

## 4. Proofs

Checked by TLAPS for every value of the constants that satisfies the module's `ASSUME`s.

- `TicketMutex_proofs`.  The inductive invariant `TicketInv` adds to the properties that
  whoever is inside holds the ticket `head` shows (`InsideIsServed`), and that outstanding tickets
  are exactly the interval from `head` to `tail` modulo `Top + 1` (`TicketsInLine`).
  Exclusion follows because tickets are distinct.  The cardinality arguments need the threads
  to be finite and no more than `Top + 1`.  `TicketsImplementFifo` is the refinement of `FifoLock`: the
  waiting line is read off the counters (place i belongs to whoever holds the ticket i places after `head`),
  and `EveryPlaceTaken`, by the pigeonhole principle, says that it has no gaps; so drawing a ticket appends to the line,
  going in takes its head, and a spurious wakeup, or the broadcast itself, changes nothing.
- `RequestReply_proofs`.  `RequestInv` is type correctness with `PendingConsistent`,
  `CallersConsistent` (who waits is a synchronous request, and a request not issued has left no
  trace) and `DoneConsistent` (whatever ended a request marked it done, and a stored reply is its
  own).  The two action properties, `ResolvedIsQuiet` and
  `QuietAfterShutdown`, are proved from it step by step; without `DoneConsistent` a request might be
  called back once more after its final reply.
- `AutoDispatcher_proofs`.  Two invariants, both of all behaviours.  `ObjectInv` is what survives calls that overlap: one `start()` at a time
  gets past its test (`OneStarter`), so that an object is created only when there is none; and
  (`OneObject`) the only thread that works, and the only `running` flag, is that of the object `m_dispatchShared`; of several
  `stop()`s one gets to clear the flag, and it alone lets the object go, when the thread has ended.  `OneDispatcher` follows,
  excepting by name two `start()`s at once and a spurious wakeup.  `ThreadsFit` makes it inductive: a thread
  that sets `running` has not been told to end yet.  `SerialInv` is about the behaviours before the first overlap: there one call
  at most is under way, and `DispatchInv` relates the objects to the Connection: what the latches of one tell of its
  thread (`ObjectsFit`), what a call under way can rely on (`CallsFit`), that only the thread of the object that is there
  has not ended (`OnlyShared`), and what `isRunning()` tells (`InStep`).  The five other safety properties follow.
- `Subscriptions_proofs`.  `SubsInv` is the conjunction of the safety properties with
  `Bookkeeping`: subscriptions are numbered in order, so that a new one is new; nothing is
  both registered and stuck; a batch exists only during a dispatch; the loop of a `connect()` is at an entry of the list, or one was
  deleted under it (`LoopsInList`), which is the exception that `NoOrphans` makes.  The list of active topics is proved
  about as the instance `Active`, with the connection's subscriptions for its uses: `ActiveInv` says that a count never exceeds
  the subscriptions there really are and that what is reported is counted, which survives `clear()`, since forgetting only
  lowers the counts.  `OnlyUsedReported` takes `NeverOverReports` through the refinement.  `AloneInv`, of `SubscriptionsAlone`, is about
  the stretch of a run before the first overlap or failed renewal: there one thread at most is in a call, the loop of `connect()` has
  renewed whatever is before its entry, no other subscription
  is made between its check and its registration, and every topic subscribed to is forwarded or about to be renewed.
  `ServedAlone` and `OneReceiverAlone` follow.
- `BoundedQueue_proofs`.  `QueueTypes` holds of every queue, also of one that overflows.  `QueueInv`
  adds that `rear` is `count` places after `front` and that there are no more items than slots;
  it is inductive where `offer(item, ms)` is not used, which the other theorems assume
  (`queue_over` shows why they must).  From it `QueueIsFifo`: an insertion writes the one slot that is
  not part of `Contents` and so appends, a removal drops the first item, and every other step
  leaves `Contents` alone.  The provers know little of `%` by a constant that has no value: the lemma
  `Turn` replaces it by a case distinction once and for all.
- `AsyncPublish_proofs`.  `AsyncInv` stands on the queue as a FIFO (`OperationLemma` and `BeginLemma` of `BoundedQueue_proofs`,
  taken through the instance).  `OnePublisher`: unless a lapse has happened, one publisher works, and the service pointer is
  its own.  `InLine`: what was sent, what the publisher holds, the queue, and the messages still to be put on it
  stand in the order in which each thread published them.  `Served` and `NoneLost`: what is on the queue has a publisher, and a
  message that was published is somewhere on this way.  From these `OrderKept`, `Flushed` and `NothingOutlives`.
  `OrderIsKept` assumes `OneOwner`; with two owners it is false (section 3).
- `MessageAggregation_proofs`.  `AggregationInv`: a message in hand is the last of its thread (`InHand`); a message in a bin
  is in that of its subject, and one that goes into no bin leaves none of its subject behind (`RightBin`); what the
  middleware was given, the bins, and what is in hand stand in the order of publication (`InLine`); a message accepted
  is in a bin, has gone out or was reported (`NoneLost`); and unless a `publish()` overlaps, `disconnect()` finds the bins
  empty and leaves them so (`Alone`).  From it `InOrder` and `Flushed`.  `Flushes`, that bins are emptied in time, is
  liveness and stays with TLC.

- `Bolt_proofs`, for any number of links, faults, calls and messages, any patterns and subjects, and any queue.  The
  invariant `BoltInv` (module `BoltInvariant`) has three layers.
  (1) *What is where.*  `LinksFit`: the socket's link is the only one that is up or has something to read.
  `ServerFits`: as long as a `Client` is served, its own list and the tree agree; after `Cleanup` the Processor may still
  enter it in either, and this is said of no dead client.  `ReadingFits`: a header without its content is the last thing read from
  a link, so that what is put together from two links is met while the new one is `STARTING`, which
  discards it.  `Once`: a published message is at one place at most, of the application's call, the packets
  of the links, the Processor's queue, the reader's hand and what was exposed.
  (2) *What will be.*  `Line` is the Processor's queue with the client's unread packets behind it, and `WillServe` what
  the server will have subscribed for the link when it has worked through a part of it.  A step of the server changes neither
  the end (`ServerMoves`), nor does an entry of another link (`FlowInsert`); a packet the client sends is applied to
  it (`FlowAppend`).  So the client's list is compared not with the server's of now but with the one at the end
  (`FlowFits`): before `Resubscribe`, that is a last part of the list, those subscribed since the link was made; after it,
  the whole, but for a pattern whose `subscribe()` or `unsubscribe()` has changed one side only.  Since the server stops at the
  first topic it has already, `RestIsServed` is needed: whatever follows a topic it has, it has too.
  (3) *What comes back.*  `Arriving`: a message that is due has been exposed, is on its way down, or stands in the line behind
  a subscription that matches it.  When nothing is under way, (2) is `Settled` and (3) is `PublishedArrives`.
  `ExposedOnce` follows from `Once`.  `DistributesAsMatched` rests on `WalkMatches`: for every tree and every
  subject the recursive walk finds a client exactly if one of its patterns matches.

Each `TypeOK` of a module with proofs is proved, as part of or beside its invariant.

`theorems` in `PROJECT.json` lists the results with the properties they establish.  TLC was given `BoltInv` (with the positions of `Place` bounded), like
the other invariants, before it was proved; the run `bolt` checks the properties that follow from it.

Only model-checked: every liveness property (TLAPS has no rule for fairness and ENABLED
here), that is `EveryTicketServed`, `AsyncResolved`, `SyncReturns`, `PutsProgress`, `StopReturns`, `PublishEnds`, `DisconnectEnds`, `Flushes` and
`Restored`.  The induction theorems of the library take an operator for a parameter, which the
installed provers cannot instantiate; the one recursive definition there is a proof about, `Walk`, is dealt with by
the least number for which a statement fails (`LeastNumber`, from the well-founded order of the naturals).
Modules with theorems use recursive functions or none.

## 5. Not modelled

- Callbacks that call into their Connection: `Callback.h` forbids them to change its state, and the
  read ticket is not re-entrant, so that they would wait for themselves.
- The data of messages: subjects match or do not (but for `Bolt`, where they are sequences of
  elements), replies carry the ID of a transmission.  This leaves out messages and fields, specifications and
  their validation, encoding and configuration, which are the larger part of the repository's
  lines: conversions without state shared by threads, whose faults are in details a model would
  have to copy.
- Creation of the request thread by two first requests at once, and what becomes of a further `RequestShared`, created after `disconnect()`
  has let the first one go (InternalConnection:2142); `receive()` and `getNextMsg()`, with
  the subtraction of waiting time (InternalConnection:1608) and the messages left over
  from an aggregated one; tracking fields; validation; events other than the timeout of a request.
- Message bins together with asynchronous publishing, where `disconnectAux()` flushes the bins
  after it has stopped the publisher (InternalConnection:1526).
- A topic whose count came down to zero and that is added again (ActiveSubscriptions.cpp:47) is in
  the model as the code has it; no property asks that it be reported.
- The generators of heartbeats and resource messages, the performance logger, the unique filter, and
  the queue that loopback connections share: the hazards found there are listed without a property.
- In `Subscriptions`, a step between the `mwDisconnect()` of `disconnect()`, or of a `connect()` that the policy refuses, and the
  change of `m_state` after it; a second call inside it.
- Bolt: `Write` appends a whole packet or none.  In the code `Shared::write()` (236) takes several steps for a long packet, writers
  are not kept apart, and a packet begun on one link may be continued on the next.  A `TCPSocket::connect()` that fails while the socket
  is open (TCPSocket.cpp:102, 374) closes it and leaves `connected` true with handle 0, so that descriptor 0 is
  read from then on: `ConnectRefused` asks for a closed socket.  `Cleanup` is one step, also where `Client::cleanup()` iterates a list
  that the Processor changes.
- Bolt: requests and replies through MW-REPLY_TO, `MultipleConnection`, `shutdown()` by the
  destructor, options and statistics, the wake-ups of the server's selector, and acknowledgements.
- Exceptions thrown by callbacks (they are caught and logged) and failures of memory or threads.
- Windows-specific code; conditions are those of pthreads.
- The wrappers of vendors' middleware: a middleware accepts or refuses a call and forwards
  messages for topics it was told of.

## 6. Plan

Done, in this order: `TicketMutex`; `RequestReply`; `ActiveSubscriptions` and
`Subscriptions`; `AutoDispatcher`; `BoundedQueue` and `AsyncPublish`; `Bolt` with its parts; the conditional
properties of `Subscriptions`; `MessageAggregation`; proofs of every safety property that a run checks and that holds.

Theorem to come: what holds of `AsyncPublish` without `OneOwner`.

Modules that would come next: the queue shared by loopback connections, as an instance of
`BoundedQueue`; the generators, with one flag, two latches and a 16-bit counter; the performance logger;
the first request; bins composed with asynchronous publishing.
