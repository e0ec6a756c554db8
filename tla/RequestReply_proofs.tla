------------------------ MODULE RequestReply_proofs ------------------------
(***************************************************************************)
(* Proofs about RequestReply, for every set of requests and every bound.   *)
(***************************************************************************)
EXTENDS RequestReply, SequenceTheorems, TLAPS

\* What erasing the i-th element leaves of a list.
LEMMA RemoveAtLemma ==
  ASSUME NEW S, NEW s \in Seq(S), NEW i \in 1 .. Len(s)
  PROVE  /\ RemoveAt(s, i) \in Seq(S)
         /\ Len(RemoveAt(s, i)) = Len(s) - 1
         /\ \A j \in 1 .. Len(s) - 1 :
              RemoveAt(s, i)[j] = IF j < i THEN s[j] ELSE s[j + 1]
<1> DEFINE a == SubSeq(s, 1, i - 1)
           b == SubSeq(s, i + 1, Len(s))
<1>1. Len(s) \in Nat /\ \A j \in 1 .. Len(s) : s[j] \in S
  OBVIOUS
<1>2. /\ a \in Seq(S) /\ Len(a) = i - 1
      /\ \A j \in 1 .. i - 1 : a[j] = s[j]
  <2>1. \A j \in 1 .. i - 1 : s[j] \in S
    BY <1>1
  <2>2. /\ SubSeq(s, 1, i - 1) \in Seq(S)
        /\ Len(SubSeq(s, 1, i - 1)) = IF 1 <= i - 1 THEN (i - 1) - 1 + 1 ELSE 0
        /\ \A j \in 1 .. (i - 1) - 1 + 1 : SubSeq(s, 1, i - 1)[j] = s[1 + j - 1]
    BY <2>1, SubSeqProperties
  <2> QED
    BY <2>2
<1>3. /\ b \in Seq(S) /\ Len(b) = Len(s) - i
      /\ \A j \in 1 .. Len(s) - i : b[j] = s[i + j]
  <2>1. \A j \in i + 1 .. Len(s) : s[j] \in S
    BY <1>1
  <2>2. /\ SubSeq(s, i + 1, Len(s)) \in Seq(S)
        /\ Len(SubSeq(s, i + 1, Len(s))) = IF i + 1 <= Len(s) THEN Len(s) - (i + 1) + 1 ELSE 0
        /\ \A j \in 1 .. Len(s) - (i + 1) + 1 :
             SubSeq(s, i + 1, Len(s))[j] = s[(i + 1) + j - 1]
    BY <2>1, <1>1, SubSeqProperties
  <2> QED
    BY <2>2, <1>1
<1>4. /\ a \o b \in Seq(S)
      /\ Len(a \o b) = Len(a) + Len(b)
      /\ \A j \in 1 .. Len(a) + Len(b) :
           (a \o b)[j] = IF j <= Len(a) THEN a[j] ELSE b[j - Len(a)]
  BY <1>2, <1>3, ConcatProperties
<1>5. RemoveAt(s, i) = a \o b
  BY DEF RemoveAt
<1> HIDE DEF a, b
<1>6. Len(a \o b) = Len(s) - 1
  BY <1>1, <1>2, <1>3, <1>4
<1>7. \A j \in 1 .. Len(s) - 1 : (a \o b)[j] = IF j < i THEN s[j] ELSE s[j + 1]
  <2> SUFFICES ASSUME NEW j \in 1 .. Len(s) - 1
               PROVE  (a \o b)[j] = IF j < i THEN s[j] ELSE s[j + 1]
    OBVIOUS
  <2>1. (a \o b)[j] = IF j <= i - 1 THEN a[j] ELSE b[j - (i - 1)]
    BY <1>1, <1>2, <1>3, <1>4
  <2>2. CASE j < i
    BY <2>1, <2>2, <1>2
  <2>3. CASE ~(j < i)
    <3>1. /\ j - (i - 1) \in 1 .. Len(s) - i
          /\ i + (j - (i - 1)) = j + 1
          /\ ~(j <= i - 1)
      BY <2>3, <1>1
    <3>2. b[j - (i - 1)] = s[i + (j - (i - 1))]
      BY <3>1, <1>3
    <3> QED
      BY <2>1, <2>3, <3>1, <3>2
  <2> QED
    BY <2>2, <2>3
<1> QED
  BY <1>4, <1>5, <1>6, <1>7

\* The first request creates the thread; nothing about any request changes.
LEMMA BeginInv ==
  ASSUME RequestInv, NEW r \in Req, Begin(r)
  PROVE  RequestInv'
  BY RequestAssumption DEF Begin, RequestInv, TypeOK, PendingConsistent, CallersConsistent, DoneConsistent,
     Resolved, Returned, Req, fields, history

\* Adding a request: it was not in m_pending, so it is there once.
LEMMA IssueAsyncInv ==
  ASSUME RequestInv, NEW r \in Req, IssueAsync(r)
  PROVE  RequestInv'
  BY RequestAssumption DEF IssueAsync, RequestInv, TypeOK, PendingConsistent, CallersConsistent, DoneConsistent,
     Resolved, Returned, Req, fields, history, Broadcast, Reason, Free

\* The same for a synchronous one, which starts to wait.
LEMMA IssueSyncInv ==
  ASSUME RequestInv, NEW r \in Req, IssueSync(r)
  PROVE  RequestInv'
  BY RequestAssumption DEF IssueSync, RequestInv, TypeOK, PendingConsistent, CallersConsistent, DoneConsistent,
     Resolved, Returned, Req, fields, history, Reason, Free

LEMMA IssueAfterResetInv ==
  ASSUME RequestInv, NEW r \in Req, IssueAfterReset(r)
  PROVE  RequestInv'
<1> USE RequestAssumption DEF IssueAfterReset, RequestInv, TypeOK, PendingConsistent, CallersConsistent,
        DoneConsistent, Resolved, Returned, Req, fields, history
<1>1. CASE caller' = [caller EXCEPT ![r] = "crashed"]
  BY <1>1
<1>2. CASE caller' = [caller EXCEPT ![r] = "elsewhere"]
  BY <1>2
<1> QED
  BY <1>1, <1>2

LEMMA CallerTimeoutInv ==
  ASSUME RequestInv, NEW r \in Req, CallerTimeout(r)
  PROVE  RequestInv'
  BY RequestAssumption DEF CallerTimeout, RequestInv, TypeOK, PendingConsistent, CallersConsistent, DoneConsistent,
     Resolved, Returned, Req, fields, history

LEMMA TakeReplyInv ==
  ASSUME RequestInv, NEW r \in Req, TakeReply(r)
  PROVE  RequestInv'
  BY RequestAssumption DEF TakeReply, RequestInv, TypeOK, PendingConsistent, CallersConsistent, DoneConsistent,
     Resolved, Returned, Req, fields, history, Returned

LEMMA TakeQuitInv ==
  ASSUME RequestInv, NEW r \in Req, TakeQuit(r)
  PROVE  RequestInv'
  BY RequestAssumption DEF TakeQuit, RequestInv, TypeOK, PendingConsistent, CallersConsistent, DoneConsistent,
     Resolved, Returned, Req, fields, history, Returned

LEMMA WaitAgainInv ==
  ASSUME RequestInv, NEW r \in Req, WaitAgain(r)
  PROVE  RequestInv'
  BY RequestAssumption DEF WaitAgain, RequestInv, TypeOK, PendingConsistent, CallersConsistent, DoneConsistent,
     Resolved, Returned, Req, fields, history

LEMMA ShutdownInv ==
  ASSUME RequestInv, Shutdown
  PROVE  RequestInv'
  BY RequestAssumption DEF Shutdown, RequestInv, TypeOK, PendingConsistent, CallersConsistent, DoneConsistent,
     Resolved, Returned, Req, fields, history, Broadcast, Reason, Free

LEMMA ResetInv ==
  ASSUME RequestInv, Reset
  PROVE  RequestInv'
  BY RequestAssumption DEF Reset, RequestInv, TypeOK, PendingConsistent, CallersConsistent, DoneConsistent,
     Resolved, Returned, Req, fields, history

LEMMA ArriveInv ==
  ASSUME RequestInv, NEW r \in Req, NEW n \in 1 .. MaxSends,
         NEW more \in BOOLEAN, Arrive(r, n, more)
  PROVE  RequestInv'
  BY RequestAssumption DEF Arrive, RequestInv, TypeOK, PendingConsistent, CallersConsistent, DoneConsistent,
     Resolved, Returned, Req, fields, history, Reply

LEMMA RunStartInv ==
  ASSUME RequestInv, RunStart
  PROVE  RequestInv'
  BY RequestAssumption DEF RunStart, RequestInv, TypeOK, PendingConsistent, CallersConsistent, DoneConsistent,
     Resolved, Returned, Req, fields, history, Reason

LEMMA RunTimeoutInv ==
  ASSUME RequestInv, RunTimeout
  PROVE  RequestInv'
  BY RequestAssumption DEF RunTimeout, RequestInv, TypeOK, PendingConsistent, CallersConsistent, DoneConsistent,
     Resolved, Returned, Req, fields, history

\* The walk over m_pending starts only while the connection is up.
LEMMA RunWakeInv ==
  ASSUME RequestInv, RunWake
  PROVE  RequestInv'
  BY RequestAssumption DEF RunWake, RequestInv, TypeOK, PendingConsistent, CallersConsistent, DoneConsistent,
     Resolved, Returned, Req, fields, history, AfterDelivery

LEMMA DeliverEndInv ==
  ASSUME RequestInv, DeliverEnd
  PROVE  RequestInv'
  BY RequestAssumption DEF DeliverEnd, RequestInv, TypeOK, PendingConsistent, CallersConsistent, DoneConsistent,
     Resolved, Returned, Req, fields, history, AfterDelivery

LEMMA SendEndInv ==
  ASSUME RequestInv, SendEnd
  PROVE  RequestInv'
  BY RequestAssumption DEF SendEnd, RequestInv, TypeOK, PendingConsistent, CallersConsistent, DoneConsistent,
     Resolved, Returned, Req, fields, history

LEMMA ExpireInv ==
  ASSUME RequestInv, NEW r \in Req, Expire(r)
  PROVE  RequestInv'
  BY RequestAssumption DEF Expire, RequestInv, TypeOK, PendingConsistent, CallersConsistent, DoneConsistent,
     Resolved, Returned, Req, fields, history

LEMMA FallDueInv ==
  ASSUME RequestInv, NEW r \in Req, FallDue(r)
  PROVE  RequestInv'
  BY RequestAssumption DEF FallDue, RequestInv, TypeOK, PendingConsistent, CallersConsistent, DoneConsistent,
     Resolved, Returned, Req, fields, history

\* The thread of a synchronous request raises its timeout event: no asynchronous
\* request is concerned.
LEMMA CallerExpireInv ==
  ASSUME RequestInv, NEW r \in Req, CallerExpire(r)
  PROVE  RequestInv'
<1>0. /\ TypeOK /\ PendingConsistent /\ CallersConsistent /\ DoneConsistent
  BY DEF RequestInv
<1>1. r \in Sync /\ r \notin Async
  BY <1>0, RequestAssumption DEF CallerExpire, CallersConsistent
<1>2. TypeOK'
  <2>1. events' \in [Req -> Nat]
    BY <1>0 DEF CallerExpire, TypeOK
  <2>2. caller' \in [Req -> {"idle", "begun", "waiting", "woken", "timedout",
                             "issued", "elsewhere", "crashed"} \cup Returned]
    <3>1. \/ caller' = [caller EXCEPT ![r] = "waiting"]
          \/ caller' = [caller EXCEPT ![r] = "timeout"]
      BY DEF CallerExpire
    <3> QED
      BY <1>0, <3>1 DEF TypeOK, Returned
  <2>3. expired' \in [Req -> BOOLEAN]
    BY <1>0 DEF CallerExpire, TypeOK
  <2> QED
    BY <1>0, <2>1, <2>2, <2>3 DEF CallerExpire, TypeOK
<1>3. PendingConsistent'
  BY <1>0 DEF CallerExpire, PendingConsistent
<1>4. CallersConsistent'
  BY <1>0, <1>1 DEF CallerExpire, CallersConsistent, Returned, TypeOK
<1>5. DoneConsistent'
  <2>1. \A q \in Async : Resolved(q)' = Resolved(q)
    BY <1>0, <1>1 DEF CallerExpire, Resolved, TypeOK, Req
  <2>2. \A q \in Sync : caller'[q] = "reply" => caller[q] = "reply"
    BY <1>0 DEF CallerExpire, TypeOK, Req
  <2> QED
    BY <1>0, <2>1, <2>2 DEF CallerExpire, DoneConsistent
<1> QED
  BY <1>2, <1>3, <1>4, <1>5 DEF RequestInv

\* Queueing a reply touches no request.
LEMMA OnReplyInv ==
  ASSUME RequestInv, OnReply
  PROVE  RequestInv'
<1>0. TypeOK /\ PendingConsistent /\ CallersConsistent /\ DoneConsistent
  BY DEF RequestInv
<1>1. [mw EXCEPT !.inTime = ~expired[mw.req]] \in Reply
  BY <1>0 DEF OnReply, TypeOK, Reply
<1>2. replies' \in Seq(Reply)
  BY <1>0, <1>1 DEF OnReply, TypeOK
<1>3. TypeOK'
  <2>1. status' \in Reason
    BY DEF OnReply, Broadcast, Reason
  <2>2. run' \in {"none", "starting", "waiting", "woken", "timedout",
                  "deliver", "send", "ended", "crashed"}
    BY <1>0 DEF OnReply, Broadcast, TypeOK
  <2>3. caller' \in [Req -> {"idle", "begun", "waiting", "woken", "timedout",
                             "issued", "elsewhere", "crashed"} \cup Returned]
    BY <1>0 DEF OnReply, Broadcast, TypeOK
  <2> QED
    BY <1>0, <1>2, <2>1, <2>2, <2>3 DEF OnReply, TypeOK, fields, history
<1>4. PendingConsistent'
  BY <1>0 DEF OnReply, PendingConsistent, fields, history
<1>5. CallersConsistent'
  BY <1>0 DEF OnReply, Broadcast, CallersConsistent, Returned, fields, history
<1>6. DoneConsistent'
  BY <1>0 DEF OnReply, Broadcast, DoneConsistent, Resolved, Req, fields, history
<1> QED
  BY <1>3, <1>4, <1>5, <1>6 DEF RequestInv

\* A wakeup for nothing.
LEMMA SpuriousInv ==
  ASSUME RequestInv, Spurious
  PROVE  RequestInv'
<1>0. TypeOK /\ PendingConsistent /\ CallersConsistent /\ DoneConsistent
  BY DEF RequestInv
<1>1. CASE run = "waiting" /\ run' = "woken" /\ UNCHANGED caller
  BY <1>0, <1>1 DEF Spurious, RequestInv, TypeOK, PendingConsistent, CallersConsistent,
     DoneConsistent, Resolved, fields, history
<1>2. ASSUME NEW r \in Sync, caller[r] = "waiting",
             caller' = [caller EXCEPT ![r] = "woken"], UNCHANGED run
      PROVE  RequestInv'
  BY <1>0, <1>2 DEF Spurious, RequestInv, TypeOK, PendingConsistent, CallersConsistent,
     DoneConsistent, Resolved, Req, fields, history
<1> QED
  BY <1>1, <1>2 DEF Spurious

\* A reply ends the request it is for, or finds nobody.
LEMMA DeliverOneInv ==
  ASSUME RequestInv, DeliverOne
  PROVE  RequestInv'
<1> DEFINE m == Head(replies)
<1>0. TypeOK /\ PendingConsistent /\ CallersConsistent /\ DoneConsistent
  BY DEF RequestInv
<1>1. m \in Reply /\ replies' \in Seq(Reply)
  BY <1>0 DEF DeliverOne, TypeOK
<1>2. Matches(m) \subseteq Req /\ \A r \in Matches(m) : r = m.req /\ id[r] > 0
  <2>1. \A r \in Matches(m) : r = m.req /\ id[r] = m.n
    BY DEF Matches
  <2> QED
    BY <2>1, <1>1, <1>0 DEF Reply, TypeOK
<1>3. /\ UNCHANGED <<conn, shared, cursor, pending, sentOnce, needToSend, id, expired, due,
                     mw, events, failed, received>>
      /\ run = "deliver"
  BY DEF DeliverOne
<1> HIDE DEF m
<1>4. ASSUME NEW r \in Matches(m), DeliverToCallback(r, m)
      PROVE  RequestInv'
  <2>1. r \in Req /\ r \in Async /\ r \notin Sync /\ sentOnce[r]
    BY <1>0, <1>2, <1>4, RequestAssumption DEF DeliverToCallback, PendingConsistent
  <2>2. AllowMoreResponses(r, m) \in BOOLEAN
    BY DEF AllowMoreResponses
  <2>3. TypeOK'
    BY <1>0, <1>1, <1>3, <1>4, <2>1, <2>2 DEF DeliverToCallback, TypeOK
  <2>4. PendingConsistent'
    BY <1>0, <1>3, <1>4, <2>1 DEF DeliverToCallback, PendingConsistent, TypeOK
  <2>5. CallersConsistent'
    BY <1>0, <1>3, <1>4 DEF DeliverToCallback, CallersConsistent
  <2>6. DoneConsistent'
    BY <1>0, <1>3, <1>4, <2>1, <2>2 DEF DeliverToCallback, DoneConsistent, Resolved, TypeOK, Req
  <2> QED
    BY <2>3, <2>4, <2>5, <2>6 DEF RequestInv
<1>5. ASSUME NEW r \in Matches(m), DeliverToNothing(r)
      PROVE  RequestInv'
  BY <1>0, <1>1, <1>3, <1>5 DEF DeliverToNothing, RequestInv, TypeOK, PendingConsistent,
     CallersConsistent, DoneConsistent, Resolved
<1>6. ASSUME NEW r \in Matches(m), DeliverToCaller(r, m)
      PROVE  RequestInv'
  <2>1. r \in Req /\ r \in Sync /\ r \notin Async /\ sentOnce[r] /\ m.req = r
    BY <1>0, <1>2, <1>6, RequestAssumption DEF DeliverToCaller, PendingConsistent
  <2>2. /\ status' = "DELIVER_REPLY" /\ run' = "deliver"
        /\ caller' = [q \in Req |-> IF caller[q] = "waiting" THEN "woken" ELSE caller[q]]
    BY <1>3, <1>6 DEF DeliverToCaller, Broadcast
  <2>3. TypeOK'
    <3>1. status' \in Reason
      BY <2>2 DEF Reason
    <3>2. caller' \in [Req -> {"idle", "begun", "waiting", "woken", "timedout",
                               "issued", "elsewhere", "crashed"} \cup Returned]
      BY <1>0, <2>2 DEF TypeOK
    <3>3. reply' \in [Req -> Reply \cup {None}] /\ isDone' \in [Req -> BOOLEAN]
      BY <1>0, <1>1, <1>6 DEF TypeOK, DeliverToCaller
    <3> QED
      BY <1>0, <1>1, <1>3, <1>6, <2>2, <3>1, <3>2, <3>3 DEF DeliverToCaller, TypeOK
  <2>4. PendingConsistent'
    BY <1>0, <1>3, <1>6, <2>1 DEF DeliverToCaller, PendingConsistent, TypeOK
  <2>5. CallersConsistent'
    BY <1>0, <1>3, <2>2 DEF CallersConsistent, Returned
  <2>6. DoneConsistent'
    BY <1>0, <1>3, <1>6, <2>1, <2>2 DEF DeliverToCaller, DoneConsistent, Resolved, TypeOK, Req
  <2> QED
    BY <2>3, <2>4, <2>5, <2>6 DEF RequestInv
<1>7. CASE DropReply(m)
  BY <1>0, <1>1, <1>3, <1>7 DEF DropReply, RequestInv, TypeOK, PendingConsistent,
     CallersConsistent, DoneConsistent, Resolved
<1> QED
  BY <1>4, <1>5, <1>6, <1>7 DEF DeliverOne, m

\* What the check of the expiry time does to the request at the iterator.
LEMMA CheckExpiryLemma ==
  ASSUME RequestInv, NEW r \in Req, CheckExpiry(r)
  PROVE  /\ isDone' \in [Req -> BOOLEAN] /\ events' \in [Req -> Nat] /\ expired' \in [Req -> BOOLEAN]
         /\ \A q \in Req : isDone[q] => isDone'[q]
         /\ \A q \in Req : isDone'[q] /\ ~isDone[q] => q = r /\ sentOnce[r]
         /\ \A q \in Req : events'[q] > 0 /\ events[q] = 0 /\ q \notin Republish => isDone'[q]
<1>0. TypeOK
  BY DEF RequestInv
<1>1. DoneNow(r) \in BOOLEAN /\ TimedOut(r) \in BOOLEAN
  BY <1>0 DEF DoneNow, TimedOut, TypeOK
<1>2. isDone' = [isDone EXCEPT ![r] = DoneNow(r)] /\ isDone' \in [Req -> BOOLEAN]
  BY <1>0, <1>1 DEF CheckExpiry, TypeOK
<1>3. events' \in [Req -> Nat] /\ expired' \in [Req -> BOOLEAN]
  BY <1>0 DEF CheckExpiry, TypeOK
<1>4. \A q \in Req : isDone[q] => isDone'[q]
  BY <1>0, <1>2 DEF DoneNow, TypeOK
<1>5. \A q \in Req : isDone'[q] /\ ~isDone[q] => q = r /\ sentOnce[r]
  <2>1. \A q \in Req : q # r => isDone'[q] = isDone[q]
    BY <1>0, <1>2 DEF TypeOK
  <2>2. isDone'[r] /\ ~isDone[r] => sentOnce[r]
    <3>1. isDone'[r] = DoneNow(r)
      BY <1>0, <1>2 DEF TypeOK
    <3>2. DoneNow(r) /\ ~isDone[r] => sentOnce[r]
      BY DEF DoneNow, TimedOut
    <3> QED
      BY <3>1, <3>2
  <2> QED
    BY <2>1, <2>2
<1>6. \A q \in Req : events'[q] > 0 /\ events[q] = 0 /\ q \notin Republish => isDone'[q]
  <2>1. CASE TimedOut(r)
    <3>1. \A q \in Req : q # r => events'[q] = events[q]
      BY <1>0 DEF CheckExpiry, TypeOK
    <3>2. r \notin Republish => isDone'[r]
      <4>1. r \notin Republish => DoneNow(r)
        BY <2>1 DEF DoneNow
      <4>2. isDone'[r] = DoneNow(r)
        BY <1>0, <1>2 DEF TypeOK
      <4> QED
        BY <4>1, <4>2
    <3> QED
      BY <3>1, <3>2
  <2>2. CASE ~TimedOut(r)
    BY <2>2, <1>0 DEF CheckExpiry, TypeOK
  <2> QED
    BY <2>1, <2>2
<1> QED
  BY <1>2, <1>3, <1>4, <1>5, <1>6

\* The iterator of sendRequests() is at a request of the list, which is not
\* elsewhere in it.
LEMMA CurrentLemma ==
  ASSUME RequestInv, cursor <= Len(pending)
  PROVE  /\ cursor \in 1 .. Len(pending) /\ Current \in Req /\ ~failed[Current]
         /\ RemoveAt(pending, cursor) \in Seq(Req)
         /\ \A i \in DOMAIN RemoveAt(pending, cursor) :
              /\ RemoveAt(pending, cursor)[i] # Current
              /\ \E j \in DOMAIN pending : RemoveAt(pending, cursor)[i] = pending[j]
         /\ \A i, j \in DOMAIN RemoveAt(pending, cursor) :
              RemoveAt(pending, cursor)[i] = RemoveAt(pending, cursor)[j] => i = j
<1>0. TypeOK /\ PendingConsistent
  BY DEF RequestInv
<1>1. cursor \in 1 .. Len(pending) /\ pending \in Seq(Req)
  BY <1>0 DEF TypeOK
<1>2. Current \in Req /\ ~failed[Current]
  BY <1>0, <1>1 DEF Current, PendingConsistent
<1>3. /\ RemoveAt(pending, cursor) \in Seq(Req)
      /\ Len(RemoveAt(pending, cursor)) = Len(pending) - 1
      /\ \A j \in 1 .. Len(pending) - 1 :
           RemoveAt(pending, cursor)[j] = IF j < cursor THEN pending[j] ELSE pending[j + 1]
  BY <1>1, RemoveAtLemma
<1>4. DOMAIN RemoveAt(pending, cursor) = 1 .. Len(pending) - 1 /\ DOMAIN pending = 1 .. Len(pending)
      /\ Len(pending) \in Nat
  BY <1>1, <1>3
<1> DEFINE src(i) == IF i < cursor THEN i ELSE i + 1
<1>5. ASSUME NEW i \in 1 .. Len(pending) - 1
      PROVE  /\ src(i) \in 1 .. Len(pending) /\ src(i) # cursor
             /\ RemoveAt(pending, cursor)[i] = pending[src(i)]
  BY <1>1, <1>3, <1>4
<1>6. \A i \in 1 .. Len(pending) - 1 :
        /\ RemoveAt(pending, cursor)[i] # Current
        /\ \E j \in 1 .. Len(pending) : RemoveAt(pending, cursor)[i] = pending[j]
  BY <1>0, <1>1, <1>4, <1>5 DEF Current, PendingConsistent
<1>7. \A i, j \in 1 .. Len(pending) - 1 :
        RemoveAt(pending, cursor)[i] = RemoveAt(pending, cursor)[j] => i = j
  <2> SUFFICES ASSUME NEW i \in 1 .. Len(pending) - 1, NEW j \in 1 .. Len(pending) - 1,
                      RemoveAt(pending, cursor)[i] = RemoveAt(pending, cursor)[j]
               PROVE  i = j
    OBVIOUS
  <2>1. src(i) = src(j)
    BY <1>0, <1>4, <1>5 DEF PendingConsistent
  <2> QED
    BY <2>1, <1>1, <1>4
<1> QED
  BY <1>1, <1>2, <1>3, <1>4, <1>6, <1>7

\* What an action of the walk preserves: it changes no caller, marks as done only
\* a request that was sent, and takes requests out of the list only.
LEMMA WalkInv ==
  ASSUME RequestInv, run = "send", cursor <= Len(pending), CheckExpiry(Current),
         UNCHANGED <<conn, shared, status, run, replies, reply, caller, mw,
                     answered, final, received>>,
         cursor' \in Nat \ {0},
         pending' \in Seq(Req),
         \A i, j \in DOMAIN pending' : pending'[i] = pending'[j] => i = j,
         \A i \in DOMAIN pending' : \E j \in DOMAIN pending : pending'[i] = pending[j],
         \A i \in DOMAIN pending' : ~failed'[pending'[i]],
         failed' \in [Req -> BOOLEAN],
         \A r \in Req : failed'[r] # failed[r] => r = Current,
         sentOnce' \in [Req -> BOOLEAN], needToSend' \in [Req -> BOOLEAN],
         id' \in [Req -> 0 .. MaxSends], due' \in [Req -> BOOLEAN],
         \A r \in Req : (id'[r] > 0) = sentOnce'[r],
         \A r \in Req : sentOnce[r] => sentOnce'[r],
         \A r \in Req : sentOnce'[r] /\ ~sentOnce[r] => r = Current
  PROVE  RequestInv'
<1>0. TypeOK /\ PendingConsistent /\ CallersConsistent /\ DoneConsistent
  BY DEF RequestInv
<1>1. cursor \in 1 .. Len(pending) /\ Current \in Req
  BY CurrentLemma
<1>2. /\ isDone' \in [Req -> BOOLEAN] /\ events' \in [Req -> Nat] /\ expired' \in [Req -> BOOLEAN]
      /\ \A q \in Req : isDone[q] => isDone'[q]
      /\ \A q \in Req : isDone'[q] /\ ~isDone[q] => q = Current /\ sentOnce[Current]
      /\ \A q \in Req : events'[q] > 0 /\ events[q] = 0 /\ q \notin Republish => isDone'[q]
  BY <1>1, CheckExpiryLemma
<1>3. TypeOK'
  BY <1>0, <1>2 DEF TypeOK
<1>4. PendingConsistent'
  <2>1. \A q \in Req : isDone'[q] => sentOnce'[q]
    BY <1>0, <1>2 DEF PendingConsistent
  <2> QED
    BY <2>1 DEF PendingConsistent
<1>5. CallersConsistent'
  <2>1. \A q \in Req : caller[q] \in {"idle", "begun"} => q # Current
    BY <1>0, <1>1 DEF CallersConsistent, Current, TypeOK
  <2>2. ASSUME NEW q \in Req, caller[q] \in {"idle", "begun"}
        PROVE  ~failed'[q] /\ ~sentOnce'[q] /\ \A i \in DOMAIN pending' : pending'[i] # q
    <3>1. ~failed[q] /\ ~sentOnce[q] /\ \A i \in DOMAIN pending : pending[i] # q
      BY <1>0, <2>2 DEF CallersConsistent
    <3>2. ~failed'[q]
      BY <2>1, <2>2, <3>1
    <3>3. ~sentOnce'[q]
      BY <2>1, <2>2, <3>1
    <3>4. \A i \in DOMAIN pending' : pending'[i] # q
      BY <3>1
    <3> QED
      BY <3>2, <3>3, <3>4
  <2>3. caller' = caller
    OBVIOUS
  <2>4. \A q \in Req : caller[q] \in {"waiting", "woken", "timedout"} \cup Returned => q \in Sync
    BY <1>0 DEF CallersConsistent
  <2> QED
    BY <2>2, <2>3, <2>4 DEF CallersConsistent
<1>6. DoneConsistent'
  <2>1. ASSUME NEW q \in Async, Resolved(q)' PROVE isDone'[q]
    <3>0. q \in Req /\ events[q] \in Nat /\ final' = final
      BY <1>0 DEF Req, TypeOK
    <3>1. CASE Resolved(q)
      BY <3>0, <3>1, <1>0, <1>2 DEF DoneConsistent
    <3>2. CASE ~Resolved(q)
      BY <3>0, <3>2, <2>1, <1>2 DEF Resolved
    <3> QED
      BY <3>1, <3>2
  <2>2. \A q \in Sync : reply'[q] # None => reply'[q].req = q /\ isDone'[q]
    BY <1>0, <1>2 DEF DoneConsistent, Req
  <2> QED
    BY <1>0, <2>1, <2>2 DEF DoneConsistent
<1> QED
  BY <1>3, <1>4, <1>5, <1>6 DEF RequestInv

LEMMA EraseDoneInv ==
  ASSUME RequestInv, EraseDone
  PROVE  RequestInv'
<1>0. TypeOK /\ PendingConsistent
  BY DEF RequestInv
<1>1. run = "send" /\ cursor <= Len(pending) /\ CheckExpiry(Current) /\ pending' = RemoveAt(pending, cursor)
      /\ UNCHANGED <<conn, shared, status, run, cursor, replies, sentOnce, needToSend, id, reply,
                     due, caller, mw, answered, final, failed, received>>
  BY DEF EraseDone
<1>2. /\ pending' \in Seq(Req)
      /\ \A i \in DOMAIN pending' : \E j \in DOMAIN pending : pending'[i] = pending[j]
      /\ \A i, j \in DOMAIN pending' : pending'[i] = pending'[j] => i = j
  BY <1>1, CurrentLemma
<1>3. \A i \in DOMAIN pending' : ~failed'[pending'[i]]
  BY <1>0, <1>1, <1>2 DEF PendingConsistent
<1>4. cursor' \in Nat \ {0} /\ failed' \in [Req -> BOOLEAN]
      /\ sentOnce' \in [Req -> BOOLEAN] /\ needToSend' \in [Req -> BOOLEAN]
      /\ id' \in [Req -> 0 .. MaxSends] /\ due' \in [Req -> BOOLEAN]
  BY <1>0, <1>1 DEF TypeOK
<1>5. \A r \in Req : (id'[r] > 0) = sentOnce'[r]
  BY <1>0, <1>1 DEF PendingConsistent
<1> QED
  BY <1>1, <1>2, <1>3, <1>4, <1>5, WalkInv

LEMMA KeepPendingInv ==
  ASSUME RequestInv, KeepPending
  PROVE  RequestInv'
<1>0. TypeOK /\ PendingConsistent
  BY DEF RequestInv
<1>1. run = "send" /\ cursor <= Len(pending) /\ CheckExpiry(Current) /\ cursor' = cursor + 1
      /\ UNCHANGED <<conn, shared, status, run, pending, replies, sentOnce, needToSend, id, reply,
                     due, caller, mw, answered, final, failed, received>>
  BY DEF KeepPending
<1>2. cursor' \in Nat \ {0} /\ failed' \in [Req -> BOOLEAN] /\ pending' \in Seq(Req)
      /\ sentOnce' \in [Req -> BOOLEAN] /\ needToSend' \in [Req -> BOOLEAN]
      /\ id' \in [Req -> 0 .. MaxSends] /\ due' \in [Req -> BOOLEAN]
  BY <1>0, <1>1 DEF TypeOK
<1>3. /\ \A i, j \in DOMAIN pending' : pending'[i] = pending'[j] => i = j
      /\ \A i \in DOMAIN pending' : ~failed'[pending'[i]]
      /\ \A r \in Req : (id'[r] > 0) = sentOnce'[r]
  BY <1>0, <1>1 DEF PendingConsistent
<1> QED
  BY <1>1, <1>2, <1>3, WalkInv

LEMMA TransmitInv ==
  ASSUME RequestInv, Transmit
  PROVE  RequestInv'
<1>0. TypeOK /\ PendingConsistent
  BY DEF RequestInv
<1>1. /\ run = "send" /\ cursor <= Len(pending) /\ CheckExpiry(Current) /\ cursor' = cursor + 1
      /\ id[Current] < MaxSends
      /\ id' = [id EXCEPT ![Current] = @ + 1]
      /\ sentOnce' = [sentOnce EXCEPT ![Current] = TRUE]
      /\ \/ due' = [due EXCEPT ![Current] = FALSE] /\ UNCHANGED needToSend
         \/ needToSend' = [needToSend EXCEPT ![Current] = FALSE] /\ UNCHANGED due
      /\ UNCHANGED <<conn, shared, status, run, pending, replies, reply, caller, mw,
                     answered, final, failed, received>>
  BY DEF Transmit
<1>2. Current \in Req
  BY <1>1, CurrentLemma
<1>3. /\ cursor' \in Nat \ {0} /\ failed' \in [Req -> BOOLEAN] /\ pending' \in Seq(Req)
      /\ sentOnce' \in [Req -> BOOLEAN] /\ needToSend' \in [Req -> BOOLEAN] /\ due' \in [Req -> BOOLEAN]
  <2>1. cursor' \in Nat \ {0} /\ failed' \in [Req -> BOOLEAN] /\ pending' \in Seq(Req)
    BY <1>0, <1>1 DEF TypeOK
  <2>2. sentOnce' \in [Req -> BOOLEAN]
    BY <1>0, <1>1 DEF TypeOK
  <2>3. needToSend' \in [Req -> BOOLEAN] /\ due' \in [Req -> BOOLEAN]
    BY <1>0, <1>1 DEF TypeOK
  <2> QED
    BY <2>1, <2>2, <2>3
<1>4. id' \in [Req -> 0 .. MaxSends]
  <2>1. id[Current] \in 0 .. MaxSends /\ MaxSends \in Nat /\ id \in [Req -> 0 .. MaxSends]
    BY <1>0, <1>2, RequestAssumption DEF TypeOK
  <2>2. id[Current] + 1 \in 0 .. MaxSends
    BY <1>1, <2>1
  <2>3. id' = [id EXCEPT ![Current] = id[Current] + 1]
    BY <1>1
  <2> QED
    BY <1>2, <2>1, <2>2, <2>3
<1>5. /\ \A i, j \in DOMAIN pending' : pending'[i] = pending'[j] => i = j
      /\ \A i \in DOMAIN pending' : ~failed'[pending'[i]]
  BY <1>0, <1>1 DEF PendingConsistent
<1>6. \A r \in Req : (id'[r] > 0) = sentOnce'[r]
  <2>1. id'[Current] > 0 /\ sentOnce'[Current] = TRUE
    <3>1. id[Current] \in Nat /\ id'[Current] = id[Current] + 1
      BY <1>0, <1>1, <1>2 DEF TypeOK
    <3>2. sentOnce'[Current] = TRUE
      BY <1>0, <1>1, <1>2 DEF TypeOK
    <3> QED
      BY <3>1, <3>2
  <2>2. \A r \in Req : r # Current => id'[r] = id[r] /\ sentOnce'[r] = sentOnce[r]
    BY <1>0, <1>1, <1>2 DEF TypeOK
  <2>3. \A r \in Req : (id[r] > 0) = sentOnce[r]
    BY <1>0 DEF PendingConsistent
  <2> QED
    BY <2>1, <2>2, <2>3
<1>7. \A r \in Req : /\ sentOnce[r] => sentOnce'[r]
                     /\ sentOnce'[r] /\ ~sentOnce[r] => r = Current
  BY <1>0, <1>1, <1>2 DEF TypeOK
<1> QED
  BY <1>1, <1>3, <1>4, <1>5, <1>6, <1>7, WalkInv

LEMMA TransmitFailsInv ==
  ASSUME RequestInv, TransmitFails
  PROVE  RequestInv'
<1>0. TypeOK /\ PendingConsistent
  BY DEF RequestInv
<1>1. /\ run = "send" /\ cursor <= Len(pending) /\ CheckExpiry(Current)
      /\ cursor' \in RefusedIterator
      /\ failed' = [failed EXCEPT ![Current] = TRUE]
      /\ pending' = RemoveAt(pending, cursor)
      /\ UNCHANGED <<conn, shared, status, run, replies, sentOnce, needToSend, id, reply, due,
                     caller, mw, answered, final, received>>
  BY DEF TransmitFails
<1>2. /\ Current \in Req
      /\ pending' \in Seq(Req)
      /\ \A i \in DOMAIN pending' : pending'[i] # Current /\ \E j \in DOMAIN pending : pending'[i] = pending[j]
      /\ \A i, j \in DOMAIN pending' : pending'[i] = pending'[j] => i = j
  BY <1>1, CurrentLemma
<1>3. \A i \in DOMAIN pending' : ~failed'[pending'[i]]
  BY <1>0, <1>1, <1>2 DEF PendingConsistent, TypeOK
<1>4. cursor' \in Nat \ {0}
  BY <1>0, <1>1 DEF TypeOK, RefusedIterator
<1>5. /\ failed' \in [Req -> BOOLEAN]
      /\ sentOnce' \in [Req -> BOOLEAN] /\ needToSend' \in [Req -> BOOLEAN]
      /\ id' \in [Req -> 0 .. MaxSends] /\ due' \in [Req -> BOOLEAN]
  BY <1>0, <1>1 DEF TypeOK
<1>6. \A r \in Req : (id'[r] > 0) = sentOnce'[r]
  BY <1>0, <1>1 DEF PendingConsistent
<1>7. \A r \in Req : failed'[r] # failed[r] => r = Current
  BY <1>0, <1>1 DEF TypeOK
<1> QED
  BY <1>1, <1>2, <1>3, <1>4, <1>5, <1>6, <1>7, WalkInv

\* Init satisfies the invariant.
LEMMA InitRequestInv == Init => RequestInv
<1> SUFFICES ASSUME Init PROVE RequestInv
  OBVIOUS
<1>1. pending \in Seq(Req) /\ Len(pending) = 0 /\ replies \in Seq(Reply)
  BY DEF Init
<1>2. /\ conn \in BOOLEAN /\ shared \in {"none", "set", "reset", "other"} /\ status \in Reason
      /\ run = "none" /\ cursor \in Nat \ {0} /\ received \in 0 .. MaxReplies
      /\ mw \in Reply \cup {None}
  BY RequestAssumption DEF Init, Reason
<1>3. /\ sentOnce \in [Req -> BOOLEAN] /\ isDone \in [Req -> BOOLEAN]
      /\ needToSend \in [Req -> BOOLEAN] /\ id \in [Req -> 0 .. MaxSends]
      /\ expired \in [Req -> BOOLEAN] /\ due \in [Req -> BOOLEAN]
  BY RequestAssumption DEF Init
<1>4. /\ reply \in [Req -> Reply \cup {None}]
      /\ caller \in [Req -> {"idle", "begun", "waiting", "woken", "timedout",
                             "issued", "elsewhere", "crashed"} \cup Returned]
  BY DEF Init
<1>5. /\ answered \in [Async -> Nat] /\ final \in [Async -> BOOLEAN]
      /\ events \in [Req -> Nat] /\ failed \in [Req -> BOOLEAN]
  BY DEF Init
<1>6. TypeOK
  BY <1>1, <1>2, <1>3, <1>4, <1>5 DEF TypeOK
<1>7. PendingConsistent
  <2>1. \A r \in Req : id[r] = 0 /\ sentOnce[r] = FALSE /\ isDone[r] = FALSE
    BY DEF Init
  <2>2. \A r \in Req : (id[r] > 0) = FALSE
    BY <2>1
  <2>3. DOMAIN pending = {}
    BY <1>1
  <2> QED
    BY <2>1, <2>2, <2>3 DEF PendingConsistent
<1>8. CallersConsistent
  BY <1>1 DEF Init, CallersConsistent, Returned
<1>9. DoneConsistent
  <2>1. \A r \in Async : ~final[r] /\ ~(events[r] > 0)
    BY DEF Init, Req
  <2>2. \A r \in Sync : reply[r] = None /\ caller[r] = "idle"
    BY DEF Init, Req
  <2>3. \A r \in Async : Resolved(r) => isDone[r]
    BY <2>1 DEF Resolved
  <2> QED
    BY <2>2, <2>3, <1>2 DEF DoneConsistent
<1> QED
  BY <1>6, <1>7, <1>8, <1>9 DEF RequestInv

\* Every step of every thread preserves it.
LEMMA NextRequestInv == RequestInv /\ [Next]_vars => RequestInv'
<1> SUFFICES ASSUME RequestInv, [Next]_vars PROVE RequestInv'
  OBVIOUS
<1>1. CASE RequestThread
  BY <1>1, RunStartInv, RunTimeoutInv, RunWakeInv, DeliverOneInv, DeliverEndInv, EraseDoneInv,
     KeepPendingInv, TransmitInv, TransmitFailsInv, SendEndInv DEF RequestThread
<1>2. CASE Application
  BY <1>2, BeginInv, IssueAsyncInv, IssueSyncInv, IssueAfterResetInv, CallerTimeoutInv,
     TakeReplyInv, TakeQuitInv, CallerExpireInv, WaitAgainInv, ShutdownInv, ResetInv
     DEF Application, CallerWake
<1>3. CASE Middleware
  BY <1>3, OnReplyInv, ArriveInv DEF Middleware
<1>4. CASE Spurious
  BY <1>4, SpuriousInv
<1>5. CASE Clock
  BY <1>5, ExpireInv, FallDueInv DEF Clock
<1>6. CASE UNCHANGED vars
  BY <1>6 DEF vars, fields, history, RequestInv, TypeOK, PendingConsistent, CallersConsistent,
     DoneConsistent, Resolved
<1> QED
  BY <1>1, <1>2, <1>3, <1>4, <1>5, <1>6 DEF Next

\* Every reachable state satisfies the inductive invariant.
THEOREM RequestInvariant == Spec => []RequestInv
  BY InitRequestInv, NextRequestInv, PTL DEF Spec

\* Type correctness of RequestReply.
THEOREM RequestTypes == Spec => []TypeOK
<1>1. RequestInv => TypeOK
  BY DEF RequestInv
<1> QED
  BY <1>1, RequestInvariant, PTL

\* m_pending holds each request once, none that was refused, and the flags of a
\* request agree with what it has been through.
THEOREM PendingIsConsistent == Spec => []PendingConsistent
<1>1. RequestInv => PendingConsistent
  BY DEF RequestInv
<1> QED
  BY <1>1, RequestInvariant, PTL

\* A synchronous request() returns a reply to itself.
THEOREM OwnReply == Spec => []ReturnsOwnReply
<1>1. RequestInv => ReturnsOwnReply
  BY DEF RequestInv, DoneConsistent, ReturnsOwnReply
<1> QED
  BY <1>1, RequestInvariant, PTL

\* One step of the system leaves a resolved request alone.
LEMMA QuietStep ==
  ASSUME RequestInv, [Next]_vars, NEW r \in Async, Resolved(r)
  PROVE  answered'[r] = answered[r] /\ events'[r] = events[r] /\ id'[r] = id[r]
<1>0. TypeOK /\ PendingConsistent /\ CallersConsistent /\ DoneConsistent
  BY DEF RequestInv
<1>1. r \in Req /\ isDone[r] /\ sentOnce[r] /\ r \notin Sync
  BY <1>0, RequestAssumption DEF Req, DoneConsistent, PendingConsistent
<1>2. ASSUME CheckExpiry(Current), Current \in Req PROVE events'[r] = events[r]
  BY <1>0, <1>1, <1>2 DEF CheckExpiry, TimedOut, TypeOK
<1>3. CASE DeliverOne
  BY <1>3, <1>0, <1>1 DEF DeliverOne, DeliverToCallback, DeliverToNothing, DeliverToCaller,
     DropReply, TypeOK
<1>4. CASE EraseDone
  BY <1>4, <1>2, CurrentLemma DEF EraseDone
<1>5. CASE KeepPending
  BY <1>5, <1>2, CurrentLemma DEF KeepPending
<1>6. CASE Transmit
  <2>1. Current \in Req /\ CheckExpiry(Current) /\ answered' = answered
        /\ id' = [id EXCEPT ![Current] = @ + 1]
    BY <1>6, CurrentLemma DEF Transmit
  <2>2. MustSend(Current)
    BY <1>6 DEF Transmit
  <2>3. Current # r
    BY <1>1, <2>2 DEF MustSend, DoneNow
  <2> QED
    BY <1>0, <1>1, <1>2, <2>1, <2>3 DEF TypeOK
<1>7. CASE TransmitFails
  BY <1>7, <1>2, CurrentLemma DEF TransmitFails
<1>8. ASSUME NEW q \in Req, CallerExpire(q)
      PROVE  answered'[r] = answered[r] /\ events'[r] = events[r] /\ id'[r] = id[r]
  <2>1. q # r
    BY <1>8, <1>0, <1>1 DEF CallerExpire, CallersConsistent
  <2> QED
    BY <1>8, <2>1, <1>0, <1>1 DEF CallerExpire, TypeOK
<1>9. CASE \/ RunStart \/ RunTimeout \/ RunWake \/ DeliverEnd \/ SendEnd
           \/ Shutdown \/ Reset \/ Middleware \/ Spurious \/ Clock
  BY <1>9 DEF RunStart, RunTimeout, RunWake, DeliverEnd, SendEnd, Shutdown, Reset, Middleware,
     OnReply, Arrive, Spurious, Clock, Expire, FallDue, fields, history
<1>10. ASSUME NEW q \in Req,
              \/ Begin(q) \/ IssueAsync(q) \/ IssueSync(q) \/ IssueAfterReset(q)
              \/ CallerTimeout(q) \/ TakeReply(q) \/ TakeQuit(q) \/ WaitAgain(q)
       PROVE  answered'[r] = answered[r] /\ events'[r] = events[r] /\ id'[r] = id[r]
  BY <1>10 DEF Begin, IssueAsync, IssueSync, IssueAfterReset, CallerTimeout, TakeReply, TakeQuit,
     WaitAgain, fields, history
<1>11. CASE UNCHANGED vars
  BY <1>11 DEF vars, fields, history
<1> QED
  BY <1>3, <1>4, <1>5, <1>6, <1>7, <1>8, <1>9, <1>10, <1>11
  DEF Next, RequestThread, Application, CallerWake

\* A resolved asynchronous request stays resolved and silent, whatever replies,
\* expirations, republications and shutdowns race with its resolution.
THEOREM ResolvedStaysQuiet == Spec => ResolvedIsQuiet
<1>1. RequestInv /\ [Next]_vars =>
        [\A r \in Async : Resolved(r) =>
           answered'[r] = answered[r] /\ events'[r] = events[r] /\ id'[r] = id[r]]_vars
  BY QuietStep
<1> QED
  BY <1>1, RequestInvariant, PTL DEF Spec, ResolvedIsQuiet

\* One step after shutdown() uses the connection no more.
LEMMA DownStep ==
  ASSUME RequestInv, [Next]_vars, ~conn
  PROVE  /\ id' = id /\ answered' = answered
         /\ \A r \in Async : events'[r] = events[r]
<1>0. TypeOK /\ CallersConsistent /\ DoneConsistent
  BY DEF RequestInv
<1>1. run # "send"
  BY <1>0 DEF DoneConsistent
<1>2. CASE DeliverOne
  BY <1>2 DEF DeliverOne, DeliverToCallback, DeliverToNothing, DeliverToCaller, DropReply
<1>3. CASE EraseDone \/ KeepPending \/ Transmit \/ TransmitFails
  BY <1>1, <1>3 DEF EraseDone, KeepPending, Transmit, TransmitFails
<1>4. ASSUME NEW q \in Req, CallerExpire(q)
      PROVE  /\ id' = id /\ answered' = answered
             /\ \A r \in Async : events'[r] = events[r]
  <2>1. q \notin Async
    BY <1>4, <1>0, RequestAssumption DEF CallerExpire, CallersConsistent
  <2> QED
    BY <1>4, <2>1, <1>0 DEF CallerExpire, TypeOK, Req
<1>5. CASE \/ RunStart \/ RunTimeout \/ RunWake \/ DeliverEnd \/ SendEnd
           \/ Shutdown \/ Reset \/ Middleware \/ Spurious \/ Clock
  BY <1>5 DEF RunStart, RunTimeout, RunWake, DeliverEnd, SendEnd, Shutdown, Reset, Middleware,
     OnReply, Arrive, Spurious, Clock, Expire, FallDue, fields, history
<1>6. ASSUME NEW q \in Req,
             \/ Begin(q) \/ IssueAsync(q) \/ IssueSync(q) \/ IssueAfterReset(q)
             \/ CallerTimeout(q) \/ TakeReply(q) \/ TakeQuit(q) \/ WaitAgain(q)
      PROVE  /\ id' = id /\ answered' = answered
             /\ \A r \in Async : events'[r] = events[r]
  BY <1>6 DEF Begin, IssueAsync, IssueSync, IssueAfterReset, CallerTimeout, TakeReply, TakeQuit,
     WaitAgain, fields, history
<1>7. CASE UNCHANGED vars
  BY <1>7 DEF vars, fields, history
<1> QED
  BY <1>2, <1>3, <1>4, <1>5, <1>6, <1>7 DEF Next, RequestThread, Application, CallerWake

\* After shutdown() the request thread sends nothing and calls nobody.
THEOREM ShutdownIsQuiet == Spec => QuietAfterShutdown
<1>1. RequestInv /\ [Next]_vars =>
        [~conn => /\ id' = id /\ answered' = answered
                  /\ \A r \in Async : events'[r] = events[r]]_vars
  BY DownStep
<1> QED
  BY <1>1, RequestInvariant, PTL DEF Spec, QuietAfterShutdown

=============================================================================
