---------------------------- MODULE RequestReply ----------------------------
(***************************************************************************)
(* Request/reply of one Connection: gmsec5/internal/RequestThread.cpp and  *)
(* the request(), onReply(), startRequestThread() and stopRequestThread()  *)
(* of gmsec5/internal/InternalConnection.cpp.                              *)
(*                                                                         *)
(* The actors are the application threads, each inside one request(); the  *)
(* request thread (RequestShared::run); a middleware thread that hands     *)
(* replies over (InternalConnection::onReply); and the thread that calls   *)
(* disconnect().  They share the lists m_pending and m_replies and ONE     *)
(* condition, whose `status` is a register: each broadcast overwrites the  *)
(* reason, and a woken thread reads it only when it has the mutex again    *)
(* (util/InternalCondition.cpp).  Whoever broadcasts in between wins.      *)
(*                                                                         *)
(* The condition's mutex is held from one wait to the next: an action of   *)
(* an application or middleware thread is one such section.  The request   *)
(* thread's section is cut into one action per list element ("deliver" and *)
(* "send"); the mutex is Free in its other states.                         *)
(*                                                                         *)
(* Time is two facts per request: whether its expiry time has passed and   *)
(* whether its next publication is due.                                    *)
(***************************************************************************)
EXTENDS Naturals, Sequences, SequencesExt

CONSTANTS Sync,       \* requests made with request(req, timeout, republish)
          Async,      \* requests made with request(req, timeout, cb, republish)
          Forever,    \* those made with GMSEC_WAIT_FOREVER
          Republish,  \* those with a republish interval
          Multi,      \* m_requestSpecs.multiResponse
          MaxSends,   \* bound: transmissions of one request
          MaxReplies, \* bound: replies the middleware delivers
          MaxEvents,  \* bound: expirations of one request
          None

Req == Sync \cup Async

ASSUME RequestAssumption ==
  /\ Sync \cap Async = {}
  /\ Forever \subseteq Req /\ Republish \subseteq Req
  /\ Multi \in BOOLEAN
  /\ MaxSends \in Nat /\ MaxReplies \in Nat /\ MaxEvents \in Nat
  /\ None \notin Req

VARIABLES
  conn,      \* RequestShared::m_connection # 0
  shared,    \* InternalConnection::m_requestShared: "none", "set", "reset", or
             \* "other", a further object, with a thread, lists and condition of its own
  status,    \* the condition's reason register
  run,       \* the request thread
  cursor,    \* the iterator of sendRequests()
  pending,   \* m_pending
  replies,   \* m_replies
  sentOnce, isDone, needToSend, id, reply,  \* fields of PendingRequest
  expired,   \* now > expireTime_s
  due,       \* now >= publishTime_s
  caller,    \* the application thread of each request
  mw,        \* the reply a middleware thread holds inside onReply()
  \* history
  answered,  \* replies passed to the ReplyCallback
  final,     \* a reply that ends the request was passed to it
  events,    \* REQUEST_TIMEOUT_EVENTs raised
  failed,    \* the middleware refused to send the request
  received   \* replies the middleware delivered

fields == <<sentOnce, isDone, needToSend, id, reply, expired, due>>
history == <<answered, final, events, failed>>
vars == <<conn, shared, status, run, cursor, pending, replies, fields,
          caller, mw, history, received>>

\* A reply carries the unique ID of one transmission of a request; `more` is a
\* RESPONSE-STATUS that announces further replies; `inTime` records that it
\* was queued before the request expired.
Reply == [req : Req, n : 1 .. MaxSends, more : BOOLEAN, inTime : BOOLEAN]

Reason == {"INVALID", "QUIT", "MANAGED", "REQUEST", "RECEIVE_REPLY", "DELIVER_REPLY"}

Returned == {"reply", "timeout", "quit"}

TypeOK ==
  /\ conn \in BOOLEAN
  /\ shared \in {"none", "set", "reset", "other"}
  /\ status \in Reason
  /\ run \in {"none", "starting", "waiting", "woken", "timedout",
              "deliver", "send", "ended", "crashed"}
  /\ cursor \in Nat \ {0}
  /\ pending \in Seq(Req)
  /\ replies \in Seq(Reply)
  /\ sentOnce \in [Req -> BOOLEAN]
  /\ isDone \in [Req -> BOOLEAN]
  /\ needToSend \in [Req -> BOOLEAN]
  /\ id \in [Req -> 0 .. MaxSends]
  /\ reply \in [Req -> Reply \cup {None}]
  /\ expired \in [Req -> BOOLEAN]
  /\ due \in [Req -> BOOLEAN]
  /\ caller \in [Req -> {"idle", "begun", "waiting", "woken", "timedout",
                         "issued", "elsewhere", "crashed"} \cup Returned]
  /\ mw \in Reply \cup {None}
  /\ answered \in [Async -> Nat]
  /\ final \in [Async -> BOOLEAN]
  /\ events \in [Req -> Nat]
  /\ failed \in [Req -> BOOLEAN]
  /\ received \in 0 .. MaxReplies

Init ==
  /\ conn = TRUE
  /\ shared = "none"
  /\ status = "INVALID"
  /\ run = "none"
  /\ cursor = 1
  /\ pending = <<>>
  /\ replies = <<>>
  /\ sentOnce = [r \in Req |-> FALSE]
  /\ isDone = [r \in Req |-> FALSE]
  /\ needToSend = [r \in Req |-> TRUE]
  /\ id = [r \in Req |-> 0]
  /\ reply = [r \in Req |-> None]
  /\ expired = [r \in Req |-> FALSE]
  /\ due = [r \in Req |-> TRUE]
  /\ caller = [r \in Req |-> "idle"]
  /\ mw = None
  /\ answered = [r \in Async |-> 0]
  /\ final = [r \in Async |-> FALSE]
  /\ events = [r \in Req |-> 0]
  /\ failed = [r \in Req |-> FALSE]
  /\ received = 0

\* The mutex of the condition is free.
Free == run \notin {"deliver", "send"}

\* Condition::broadcast(reason) where c is the callers' state besides.
Broadcast(reason, c) ==
  /\ status' = reason
  /\ run' = IF run = "waiting" THEN "woken" ELSE run
  /\ caller' = [r \in Req |-> IF c[r] = "waiting" THEN "woken" ELSE c[r]]
-----------------------------------------------------------------------------
\* The application's side.

\* startRequestThread(): the first request creates the shared object and starts
\* the thread; so does the first one after disconnect() has reset it, while the
\* state is still CONNECTED or after a reconnection.  That further object is not
\* followed.  The wait for MANAGED has no effect whatever its outcome: the caller
\* goes on to add its request.
Begin(r) ==
  /\ caller[r] = "idle"
  /\ caller' = [caller EXCEPT ![r] = "begun"]
  /\ \/ shared = "none" /\ shared' = "set" /\ run' = "starting"
     \/ shared = "reset" /\ shared' = "other" /\ UNCHANGED run
     \/ shared \in {"set", "other"} /\ UNCHANGED <<shared, run>>
  /\ UNCHANGED <<conn, status, cursor, pending, replies, fields, mw, history, received>>

\* Asynchronous request(): RequestShared::add under the mutex.
IssueAsync(r) ==
  /\ r \in Async
  /\ caller[r] = "begun"
  /\ shared = "set" /\ Free
  /\ pending' = Append(pending, r)
  /\ Broadcast("REQUEST", [caller EXCEPT ![r] = "issued"])
  /\ UNCHANGED <<conn, shared, cursor, replies, fields, mw, history, received>>

\* Synchronous request(): add, then wait on the condition without letting the
\* mutex go in between, so its own broadcast does not wake it.
IssueSync(r) ==
  /\ r \in Sync
  /\ caller[r] = "begun"
  /\ shared = "set" /\ Free
  /\ pending' = Append(pending, r)
  /\ status' = "REQUEST"
  /\ run' = IF run = "waiting" THEN "woken" ELSE run
  /\ caller' = [q \in Req |-> IF q = r THEN "waiting"
                              ELSE IF caller[q] = "waiting" THEN "woken" ELSE caller[q]]
  /\ UNCHANGED <<conn, shared, cursor, replies, fields, mw, history, received>>

\* disconnect() reset m_requestShared since startRequestThread() looked at it:
\* request() goes through a null pointer, or finds the object that another
\* request() has created since.
IssueAfterReset(r) ==
  /\ caller[r] = "begun"
  /\ \/ shared = "reset" /\ caller' = [caller EXCEPT ![r] = "crashed"]
     \/ shared = "other" /\ caller' = [caller EXCEPT ![r] = "elsewhere"]
  /\ UNCHANGED <<conn, shared, status, run, cursor, pending, replies, fields, mw, history, received>>

\* The timed wait of a synchronous request runs out: after `timeout` ms, which
\* is then past the expiry time, or after 10 s when it waits forever.  Once the
\* expiry has been moved by a republish interval the two are unrelated.
CallerTimeout(r) ==
  /\ r \in Sync
  /\ caller[r] = "waiting"
  /\ r \notin Forever \cup Republish => expired[r]
  /\ caller' = [caller EXCEPT ![r] = "timedout"]
  /\ UNCHANGED <<conn, shared, status, run, cursor, pending, replies, fields, mw, history, received>>

\* reason == DELIVER_REPLY with a reply of its own: the request is over, and
\* its expiry time is put in the past.
TakeReply(r) ==
  /\ caller[r] = "woken" /\ Free
  /\ status = "DELIVER_REPLY" /\ reply[r] # None
  /\ caller' = [caller EXCEPT ![r] = "reply"]
  /\ expired' = [expired EXCEPT ![r] = TRUE]
  /\ UNCHANGED <<conn, shared, status, run, cursor, pending, replies, sentOnce, isDone,
                 needToSend, id, reply, due, mw, history, received>>

TakeQuit(r) ==
  /\ caller[r] = "woken" /\ Free
  /\ status = "QUIT"
  /\ caller' = [caller EXCEPT ![r] = "quit"]
  /\ UNCHANGED <<conn, shared, status, run, cursor, pending, replies, fields, mw, history, received>>

\* Mutant: a timed-out request without republication keeps waiting.
CallerExpire_KeepsWaiting(r) ==
  /\ caller[r] = "timedout" /\ Free
  /\ r \notin Forever /\ expired[r]
  /\ events' = [events EXCEPT ![r] = @ + 1]
  /\ caller' = [caller EXCEPT ![r] = "waiting"]
  /\ expired' = [expired EXCEPT ![r] = FALSE]
  /\ UNCHANGED <<conn, shared, status, run, cursor, pending, replies, sentOnce, isDone,
                 needToSend, id, reply, due, mw, answered, final, failed, received>>

\* reason == TIMEOUT past the expiry time: a REQUEST_TIMEOUT_EVENT, and the end
\* of the request unless it is republished, which postpones the expiry.
CallerExpire(r) ==
  /\ caller[r] = "timedout" /\ Free
  /\ r \notin Forever /\ expired[r]
  /\ events' = [events EXCEPT ![r] = @ + 1]
  /\ IF r \in Republish
       THEN /\ caller' = [caller EXCEPT ![r] = "waiting"]
            /\ expired' = [expired EXCEPT ![r] = FALSE]
       ELSE /\ caller' = [caller EXCEPT ![r] = "timeout"]
            /\ UNCHANGED expired
  /\ UNCHANGED <<conn, shared, status, run, cursor, pending, replies, sentOnce, isDone,
                 needToSend, id, reply, due, mw, answered, final, failed, received>>

\* Any other reason: back to waiting, for the whole timeout again.
WaitAgain(r) ==
  /\ Free
  /\ \/ /\ caller[r] = "woken"
        /\ status # "QUIT"
        /\ status = "DELIVER_REPLY" => reply[r] = None
     \/ /\ caller[r] = "timedout"
        /\ r \in Forever \/ ~expired[r]
  /\ caller' = [caller EXCEPT ![r] = "waiting"]
  /\ UNCHANGED <<conn, shared, status, run, cursor, pending, replies, fields, mw, history, received>>

\* stopRequestThread(), first half: RequestShared::shutdown().
Shutdown ==
  /\ shared = "set" /\ conn /\ Free
  /\ conn' = FALSE
  /\ Broadcast("QUIT", caller)
  /\ UNCHANGED <<shared, cursor, pending, replies, fields, mw, history, received>>

\* stopRequestThread(), second half: m_requestShared.reset().
Reset ==
  /\ shared = "set" /\ ~conn
  /\ shared' = "reset"
  /\ UNCHANGED <<conn, status, run, cursor, pending, replies, fields, caller, mw, history, received>>
-----------------------------------------------------------------------------
\* The middleware's side.

\* A reply to any transmission made so far arrives, and onReply() copies the
\* pointer to the shared object; without one the reply is deleted.
Arrive(r, n, more) ==
  /\ mw = None /\ received < MaxReplies
  /\ n \in 1 .. id[r]
  /\ more => Multi
  /\ received' = received + 1
  /\ mw' = IF shared = "set"
             THEN [req |-> r, n |-> n, more |-> more, inTime |-> FALSE] ELSE None
  /\ UNCHANGED <<conn, shared, status, run, cursor, pending, replies, fields, caller, history>>

\* RequestShared::onReply.
OnReply ==
  /\ mw # None /\ Free
  /\ replies' = Append(replies, [mw EXCEPT !.inTime = ~expired[mw.req]])
  /\ mw' = None
  /\ Broadcast("RECEIVE_REPLY", caller)
  /\ UNCHANGED <<conn, shared, cursor, pending, fields, history, received>>
-----------------------------------------------------------------------------
\* The request thread.

\* First lock of run(): announce that the thread manages requests, then wait.
RunStart ==
  /\ run = "starting"
  /\ run' = "waiting"
  /\ status' = "MANAGED"
  /\ caller' = [r \in Req |-> IF caller[r] = "waiting" THEN "woken" ELSE caller[r]]
  /\ UNCHANGED <<conn, shared, cursor, pending, replies, fields, mw, history, received>>

\* The wait of waitLimit_ms() runs out; the limit is never above a minute.
RunTimeout ==
  /\ run = "waiting"
  /\ run' = "timedout"
  /\ UNCHANGED <<conn, shared, status, cursor, pending, replies, fields, caller, mw, history, received>>

\* A condition wait may also end with nobody having notified.
Spurious ==
  /\ \/ run = "waiting" /\ run' = "woken" /\ UNCHANGED caller
     \/ \E r \in Sync : /\ caller[r] = "waiting"
                        /\ caller' = [caller EXCEPT ![r] = "woken"]
                        /\ UNCHANGED run
  /\ UNCHANGED <<conn, shared, status, cursor, pending, replies, fields, mw, history, received>>

\* Mutant: the test of m_connection before sendRequests() is missing.
AfterDelivery_NoTest == "send"

\* Where the loop of run() goes after the reason has been dealt with.
AfterDelivery == IF conn THEN "send" ELSE "waiting"

\* The loop of run() from its wait to the first list it walks.
RunWake ==
  /\ run \in {"woken", "timedout"}
  /\ run' = IF run = "timedout" THEN AfterDelivery
            ELSE CASE status = "QUIT" -> "ended"
                   [] status = "RECEIVE_REPLY" -> "deliver"
                   [] OTHER -> AfterDelivery
  /\ cursor' = 1
  /\ UNCHANGED <<conn, shared, status, pending, replies, fields, caller, mw, history, received>>

\* Mutant: a reply is taken by any request that was sent.
Matches_AnySent(m) == {r \in ToSet(pending) : sentOnce[r]}

\* findPending(): the request in m_pending whose current ID the reply carries.
Matches(m) == {r \in ToSet(pending) : r = m.req /\ id[r] = m.n}

AllowMoreResponses(r, m) == ~isDone[r] /\ Multi /\ r \in Async /\ m.more

\* deliverReply() for a callback: the user's onReply() runs here.
DeliverToCallback(r, m) ==
  /\ r \in Async /\ ~isDone[r] /\ conn
  /\ answered' = [answered EXCEPT ![r] = @ + 1]
  /\ final' = [final EXCEPT ![r] = ~AllowMoreResponses(r, m)]
  /\ isDone' = [isDone EXCEPT ![r] = ~AllowMoreResponses(r, m)]
  /\ UNCHANGED <<run, status, caller, reply>>

\* deliverReply() for a callback when shutdown() has cleared m_connection: a
\* call through a null pointer.
DeliverToNothing(r) ==
  /\ r \in Async /\ ~isDone[r] /\ ~conn
  /\ run' = "crashed"
  /\ UNCHANGED <<answered, final, isDone, status, caller, reply>>

\* deliverReply() for a thread that waits in a synchronous request().
DeliverToCaller(r, m) ==
  /\ r \in Sync /\ ~isDone[r]
  /\ reply' = [reply EXCEPT ![r] = m]
  /\ isDone' = [isDone EXCEPT ![r] = TRUE]
  /\ Broadcast("DELIVER_REPLY", caller)
  /\ UNCHANGED <<answered, final>>

\* deliverReply() for a reply nobody waits for.
DropReply(m) ==
  /\ \A r \in Matches(m) : isDone[r]
  /\ UNCHANGED <<answered, final, isDone, run, status, caller, reply>>

\* One round of the loop of deliverReplies().
DeliverOne ==
  /\ run = "deliver" /\ replies # <<>>
  /\ LET m == Head(replies)
     IN  \/ \E r \in Matches(m) : DeliverToCallback(r, m) \/ DeliverToNothing(r) \/ DeliverToCaller(r, m)
         \/ DropReply(m)
  /\ replies' = Tail(replies)
  /\ UNCHANGED <<conn, shared, cursor, pending, sentOnce, needToSend, id, expired, due,
                 mw, events, failed, received>>

DeliverEnd ==
  /\ run = "deliver" /\ replies = <<>>
  /\ run' = AfterDelivery
  /\ cursor' = 1
  /\ UNCHANGED <<conn, shared, status, pending, replies, fields, caller, mw, history, received>>

\* The request the iterator of sendRequests() is at.
Current == pending[cursor]

\* It was sent, is not done, and its expiry time has passed.
TimedOut(r) == sentOnce[r] /\ ~isDone[r] /\ expired[r]

\* Mutant: a request that timed out is not marked as done.
DoneNow_TimeoutForgotten(r) == isDone[r]

\* isDone after the check of the expiry time.
DoneNow(r) == isDone[r] \/ (TimedOut(r) /\ r \notin Republish)

\* Mutant: a timeout raises no event.
CheckExpiry_Silent(r) ==
  /\ isDone' = [isDone EXCEPT ![r] = DoneNow(r)]
  /\ UNCHANGED events
  /\ expired' = IF TimedOut(r) /\ r \in Async /\ r \in Republish
                THEN [expired EXCEPT ![r] = FALSE] ELSE expired

\* The check of the expiry time at the head of the loop: an asynchronous
\* request gets its timeout event, and its expiry moved if it is republished.
CheckExpiry(r) ==
  /\ isDone' = [isDone EXCEPT ![r] = DoneNow(r)]
  /\ events' = IF TimedOut(r) /\ r \in Async THEN [events EXCEPT ![r] = @ + 1] ELSE events
  /\ expired' = IF TimedOut(r) /\ r \in Async /\ r \in Republish
                THEN [expired EXCEPT ![r] = FALSE] ELSE expired

\* A request that is done leaves the list.
EraseDone ==
  /\ run = "send" /\ cursor <= Len(pending)
  /\ sentOnce[Current] /\ DoneNow(Current)
  /\ CheckExpiry(Current)
  /\ pending' = RemoveAt(pending, cursor)
  /\ UNCHANGED <<conn, shared, status, run, cursor, replies, sentOnce, needToSend, id, reply,
                 due, caller, mw, answered, final, failed, received>>

\* One that was sent and whose next publication is not due stays.
KeepPending ==
  /\ run = "send" /\ cursor <= Len(pending)
  /\ sentOnce[Current] /\ ~DoneNow(Current)
  /\ needToSend[Current] => ~due[Current]
  /\ CheckExpiry(Current)
  /\ cursor' = cursor + 1
  /\ UNCHANGED <<conn, shared, status, run, pending, replies, sentOnce, needToSend, id, reply,
                 due, caller, mw, answered, final, failed, received>>

\* The others are transmitted ...
MustSend(r) == \/ ~sentOnce[r]
               \/ ~DoneNow(r) /\ needToSend[r] /\ due[r]

\* ... and given the ID of the transmission: replies to an earlier one no
\* longer find the request.
Transmit ==
  /\ run = "send" /\ cursor <= Len(pending)
  /\ MustSend(Current)
  /\ id[Current] < MaxSends
  /\ CheckExpiry(Current)
  /\ id' = [id EXCEPT ![Current] = @ + 1]
  /\ sentOnce' = [sentOnce EXCEPT ![Current] = TRUE]
  /\ IF Current \in Republish
       THEN due' = [due EXCEPT ![Current] = FALSE] /\ UNCHANGED needToSend
       ELSE needToSend' = [needToSend EXCEPT ![Current] = FALSE] /\ UNCHANGED due
  /\ cursor' = cursor + 1
  /\ UNCHANGED <<conn, shared, status, run, pending, replies, reply, caller, mw,
                 answered, final, failed, received>>

\* ... unless the middleware refuses: the request is erased, the iterator is
\* advanced once more, which skips the next request, and nobody is told.
\* Advancing it past the end is undefined; the list being circular in libstdc++
\* it comes round to the first element, and elsewhere the walk may just end.
RefusedIterator == IF cursor < Len(pending) THEN {cursor + 1} ELSE {1, cursor}

\* Mutant: a request the middleware refused stays in the list.
TransmitFails_Kept ==
  /\ run = "send" /\ cursor <= Len(pending)
  /\ MustSend(Current)
  /\ \E r \in Req : r = Current /\ ~failed[r] /\ failed' = [failed EXCEPT ![r] = TRUE]
  /\ CheckExpiry(Current)
  /\ cursor' = cursor + 1
  /\ UNCHANGED <<conn, shared, status, run, pending, replies, sentOnce, needToSend, id, reply, due,
                 caller, mw, answered, final, received>>

TransmitFails ==
  /\ run = "send" /\ cursor <= Len(pending)
  /\ MustSend(Current)
  /\ \E r \in Req : r = Current /\ ~failed[r] /\ failed' = [failed EXCEPT ![r] = TRUE]
  /\ CheckExpiry(Current)
  /\ pending' = RemoveAt(pending, cursor)
  /\ cursor' \in RefusedIterator
  /\ UNCHANGED <<conn, shared, status, run, replies, sentOnce, needToSend, id, reply, due,
                 caller, mw, answered, final, received>>

SendEnd ==
  /\ run = "send" /\ cursor > Len(pending)
  /\ run' = "waiting"
  /\ UNCHANGED <<conn, shared, status, cursor, pending, replies, fields, caller, mw, history, received>>
-----------------------------------------------------------------------------
\* Time.  sendRequests() reads the clock for the whole walk, so what falls due
\* during a section of the request thread counts as falling due before or after.
Expire(r) ==
  /\ Free /\ r \notin Forever /\ ~expired[r]
  /\ r \in ToSet(pending) \/ caller[r] \in {"waiting", "woken", "timedout"}
  /\ events[r] < MaxEvents
  /\ expired' = [expired EXCEPT ![r] = TRUE]
  /\ UNCHANGED <<conn, shared, status, run, cursor, pending, replies, sentOnce, isDone,
                 needToSend, id, reply, due, caller, mw, history, received>>

FallDue(r) ==
  /\ Free /\ ~due[r] /\ id[r] < MaxSends
  /\ due' = [due EXCEPT ![r] = TRUE]
  /\ UNCHANGED <<conn, shared, status, run, cursor, pending, replies, sentOnce, isDone,
                 needToSend, id, reply, expired, caller, mw, history, received>>
-----------------------------------------------------------------------------
Crashed == run = "crashed" \/ \E r \in Req : caller[r] = "crashed"

RequestThread == \/ RunStart \/ RunTimeout \/ RunWake
                 \/ DeliverOne \/ DeliverEnd
                 \/ EraseDone \/ KeepPending \/ Transmit \/ TransmitFails \/ SendEnd

CallerWake(r) == TakeReply(r) \/ TakeQuit(r) \/ CallerExpire(r) \/ WaitAgain(r)

Application == \/ \E r \in Req : Begin(r) \/ IssueAsync(r) \/ IssueSync(r) \/ IssueAfterReset(r)
               \/ \E r \in Req : CallerTimeout(r) \/ CallerWake(r)
               \/ Shutdown \/ Reset

Middleware == OnReply \/ \E r \in Req, n \in 1 .. MaxSends, more \in BOOLEAN : Arrive(r, n, more)

Clock == \E r \in Req : Expire(r) \/ FallDue(r)

Next == ~Crashed /\ (RequestThread \/ Application \/ Middleware \/ Spurious \/ Clock)

\* The scheduler runs every thread that can run, and time passes.  A thread that
\* waits for the mutex gets it at last, although the request thread takes it again
\* and again: that thread sleeps at least MINIMUM_DELAY_ms between two sections.
\* A timed wait that is started over by wakeups runs out at last: they do not come
\* forever.  Hence strong fairness.  Applications, responders and disconnect() owe
\* nothing.
Fairness ==
  /\ WF_vars(~Crashed /\ RequestThread)
  /\ SF_vars(~Crashed /\ OnReply)
  /\ \A r \in Sync : /\ SF_vars(~Crashed /\ CallerTimeout(r))
                     /\ SF_vars(~Crashed /\ CallerWake(r))
  /\ \A r \in Req : /\ SF_vars(~Crashed /\ (IssueAsync(r) \/ IssueSync(r) \/ IssueAfterReset(r)))
                    /\ SF_vars(~Crashed /\ Expire(r))

Spec == Init /\ [][Next]_vars
FairSpec == Spec /\ Fairness
-----------------------------------------------------------------------------
\* An asynchronous request is resolved by a final reply, or by its timeout when
\* it is not republished.
Resolved(r) == final[r] \/ (events[r] > 0 /\ r \notin Republish)

\* Once an asynchronous request is resolved, its ReplyCallback is never called
\* again - neither onReply() nor onEvent() - and the request is never
\* transmitted again: a late reply, a second reply and the expiry time all race
\* with the resolution (deliverReply and sendRequests, isDone).
ResolvedIsQuiet ==
  [][\A r \in Async : Resolved(r) =>
       answered'[r] = answered[r] /\ events'[r] = events[r] /\ id'[r] = id[r]]_vars

\* After shutdown() no request is transmitted and no callback of the application
\* is called from the request thread, although it may go on running: the
\* connection it would use is being torn down (the test of m_connection in run()
\* and the lock in sendRequests()).
QuietAfterShutdown ==
  [][~conn => /\ id' = id /\ answered' = answered
              /\ \A r \in Async : events'[r] = events[r]]_vars

\* What a request has been through agrees with its flags: it has an ID exactly
\* when it was sent, and is done only if it was; it is in m_pending at most once,
\* and not after it was refused.
PendingConsistent ==
  /\ \A r \in Req : (id[r] > 0) = sentOnce[r]
  /\ \A r \in Req : isDone[r] => sentOnce[r]
  /\ \A i, j \in DOMAIN pending : pending[i] = pending[j] => i = j
  /\ \A i \in DOMAIN pending : ~failed[pending[i]]

\* Who waits on the condition is a synchronous request, and a request not yet
\* added has left no trace.
CallersConsistent ==
  \A r \in Req :
    /\ caller[r] \in {"waiting", "woken", "timedout"} \cup Returned => r \in Sync
    /\ caller[r] \in {"idle", "begun"} =>
         ~failed[r] /\ ~sentOnce[r] /\ \A i \in DOMAIN pending : pending[i] # r

\* Whatever ended a request marked it as done, and requests are sent only over a
\* connection that is up.
DoneConsistent ==
  /\ \A r \in Async : Resolved(r) => isDone[r]
  /\ \A r \in Sync : reply[r] # None => reply[r].req = r /\ isDone[r]
  /\ \A r \in Sync : caller[r] = "reply" => reply[r] # None
  /\ run = "send" => conn

\* The inductive invariant.
RequestInv == TypeOK /\ PendingConsistent /\ CallersConsistent /\ DoneConsistent

\* A synchronous request returns the reply that its own transmission got, and
\* only a request that was answered returns one.
ReturnsOwnReply ==
  \A r \in Sync : caller[r] = "reply" => reply[r] # None /\ reply[r].req = r /\ isDone[r]

\* An asynchronous request with a timeout always comes to something: a reply, a
\* timeout event, a refusal by the middleware, or the end of the connection.
AsyncResolved ==
  \A r \in Async \ Forever :
    caller[r] = "issued" ~> \/ answered[r] > 0 \/ events[r] > 0
                           \/ failed[r] \/ ~conn \/ Crashed

\* A synchronous request with a timeout and no republication always returns, also
\* when the reason meant for it is overwritten, the middleware refuses to send,
\* or the connection goes down meanwhile; one made after that is not followed.
SyncReturns ==
  \A r \in Sync \ (Forever \cup Republish) :
    caller[r] = "begun" ~> caller[r] \in Returned \cup {"elsewhere"} \/ Crashed

\* Connection.h:452-453: "block until the reply is received or the timeout is
\* reached".  A request whose reply came in time is given it.
ReplyEndsTheWait ==
  \A r \in Sync : reply[r] # None /\ reply[r].inTime ~> caller[r] = "reply" \/ ~conn
=============================================================================
