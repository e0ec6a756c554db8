------------------------ MODULE AsyncPublish_proofs ------------------------
(***************************************************************************)
(* Proofs about AsyncPublish: for any number of threads, a queue of any    *)
(* capacity and any number of publishers, what publish() has put into the  *)
(* queue stays in line until the middleware has it, and disconnect()       *)
(* leaves neither a message nor a publisher at work.  What the queue does  *)
(* in a step is taken from BoundedQueue_proofs.                            *)
(***************************************************************************)
EXTENDS AsyncPublish, FiniteSetTheorems, SequenceTheorems, TLAPS

QP == INSTANCE BoundedQueue_proofs WITH
  Thread <- Thread \cup Service, Item <- Message, Producer <- Thread,
  Putting <- {"put"}, Getting <- {"poll"}

\* What a step inside an operation of the queue does.
Takes(th) ==
  /\ call[th].kind \in {"take", "poll"} /\ count > 0
  /\ count' = count - 1
  /\ \A i \in 1 .. count' : Queued'[i] = Queued[i + 1]
  /\ call' = [call EXCEPT ![th] = None] /\ result' = [result EXCEPT ![th] = Queued[1]]

Puts(th) ==
  /\ call[th].kind \in {"put", "offer"}
  /\ count' = count + 1
  /\ \A i \in 1 .. count : Queued'[i] = Queued[i]
  /\ Queued'[count + 1] = call[th].item
  /\ call' = [call EXCEPT ![th] = None] /\ result' = [result EXCEPT ![th] = call[th].item]

Waits == UNCHANGED <<count, Queued, call, result>>

GivesUp(th) ==
  /\ call[th].kind \in {"poll", "offer"}
  /\ UNCHANGED <<count, Queued>>
  /\ call' = [call EXCEPT ![th] = None] /\ result' = [result EXCEPT ![th] = None]

Sleepers == \A u \in asleep : call[u] # None

\* The queue of BoundedQueue_proofs is that of AsyncPublish: what it assumes holds,
LEMMA QueueAssumed == QP!QueueAssumption
  BY AsyncAssumption DEF QP!QueueAssumption

\* it holds the same,
LEMMA SameContents == Queued = QP!Contents /\ Queued' = QP!Contents'
  BY DEF Queued, Q!Contents, QP!Contents

\* has the same invariant,
LEMMA SameInv == (Q!QueueInv <=> QP!QueueInv) /\ ((Q!QueueInv)' <=> (QP!QueueInv)')
  BY DEF Q!QueueInv, QP!QueueInv, Q!TypeOK, QP!TypeOK, Q!Untimed, QP!Untimed, Q!Slot, QP!Slot,
         Q!Call, QP!Call

\* the same waiting threads,
LEMMA SameSleepers == (Sleepers <=> QP!Sleepers) /\ (Sleepers' <=> (QP!Sleepers)')
  BY DEF Sleepers, QP!Sleepers

\* and makes the same steps
LEMMA SameSteps ==
  ASSUME NEW th
  PROVE  /\ Q!Proceed(th) <=> QP!Proceed(th)
         /\ Q!TimesOut(th) <=> QP!TimesOut(th)
  BY DEF Q!Proceed, QP!Proceed, Q!TimesOut, QP!TimesOut, Q!Get, QP!Get, Q!AwaitItem,
         QP!AwaitItem, Q!Insert, QP!Insert, Q!AwaitRoom, QP!AwaitRoom, Q!Refuse, QP!Refuse,
         Q!Returns, QP!Returns, Q!Runs, QP!Runs, Q!HasRoom, QP!HasRoom, Q!Signal, QP!Signal,
         Q!Sleep, QP!Sleep, Q!After, QP!After, Q!ring, QP!ring

\* from the same beginnings.
LEMMA SameBegin ==
  ASSUME NEW th, NEW c
  PROVE  Q!Begin(th, c) <=> QP!Begin(th, c)
  BY DEF Q!Begin, QP!Begin, Q!ring, QP!ring

\* A step inside an operation takes, puts, waits or gives up.
LEMMA OperationStep ==
  ASSUME Q!QueueInv, Sleepers, NEW th \in Thread \cup Service, Q!Proceed(th) \/ Q!TimesOut(th)
  PROVE  /\ (Q!QueueInv)' /\ Sleepers' /\ call[th] # None
         /\ Takes(th) \/ Puts(th) \/ Waits \/ GivesUp(th)
<1>1. "offer_for" \notin {"put"}
  OBVIOUS
<1>3. QP!QueueInv /\ QP!Sleepers /\ (QP!Proceed(th) \/ QP!TimesOut(th))
  BY SameInv, SameSleepers, SameSteps
<1>2. /\ QP!QueueInv' /\ QP!Sleepers' /\ call[th] # None
      /\ QP!Takes(th) \/ QP!Puts(th) \/ QP!Waits \/ QP!GivesUp(th)
  BY <1>1, <1>3, QueueAssumed, QP!OperationLemma
<1> QED
  BY <1>2, SameContents, SameInv, SameSleepers DEF QP!Takes, QP!Puts, QP!Waits, QP!GivesUp,
                                                   Takes, Puts, Waits, GivesUp

\* The beginning of an operation leaves the contents alone.
LEMMA BeginStep ==
  ASSUME Q!QueueInv, Sleepers, NEW th \in Thread \cup Service,
         NEW c \in Q!Call, c.kind # "offer_for", Q!Begin(th, c)
  PROVE  (Q!QueueInv)' /\ Sleepers' /\ UNCHANGED <<count, Queued>>
<1>1. c \in QP!Call /\ QP!Begin(th, c)
  BY SameBegin DEF Q!Call, QP!Call
<1>2. QP!QueueInv /\ QP!Sleepers
  BY SameInv, SameSleepers
<1>3. /\ QP!QueueInv' /\ QP!Sleepers' /\ UNCHANGED <<count, QP!Contents>>
  BY <1>1, <1>2, QueueAssumed, QP!BeginLemma
<1> QED
  BY <1>3, SameContents, SameInv, SameSleepers

\* What the queue keeps when no step is made on it.
LEMMA QueueStands ==
  ASSUME AsyncInv, UNCHANGED queue
  PROVE  /\ (Q!QueueInv)' /\ Sleepers'
         /\ UNCHANGED <<count, Queued, call, result>>
<1>1. UNCHANGED <<data, front, rear, count, call, asleep, woken, result>>
  BY DEF queue
<1>2. Q!QueueInv /\ Sleepers
  BY DEF AsyncInv, CallsFit, Sleepers
<1> QED
  BY <1>1, <1>2 DEF Q!QueueInv, Q!TypeOK, Q!Untimed, Sleepers, Queued, Q!Contents

\* What the invariant says of the messages on their way, piece by piece.
LEMMA Carried ==
  ASSUME AsyncInv
  PROVE  /\ \A i \in 1 .. Len(sent) : sent[i] \in Message
         /\ \A j \in 1 .. count : Queued[j] \in Message
         /\ \A k \in Service : Holds(k) => result[k] \in Message
         /\ \A m \in Message : m.from \in Thread /\ m.n \in Nat \ {0}
         /\ published \in [Thread -> Nat] /\ count \in Nat /\ Len(sent) \in Nat
         /\ \A th \in Thread : Given(th) \in Int
<1>1. \A i \in 1 .. Len(sent) : sent[i] \in Message
  BY DEF AsyncInv, TypeOK
<1>2. /\ \A j \in 1 .. count : Queued[j] \in Message
      /\ \A k \in Service : Holds(k) => result[k] \in Message
  BY DEF AsyncInv, TypeOK, Q!TypeOK, CallsFit, Holds
<1>3. \A m \in Message : m.from \in Thread /\ m.n \in Nat \ {0}
  BY DEF Message
<1>4. published \in [Thread -> Nat] /\ count \in Nat /\ Len(sent) \in Nat
  BY DEF AsyncInv, TypeOK, Q!TypeOK
<1>5. \A th \in Thread : Given(th) \in Int
  BY <1>4 DEF Given
<1> QED
  BY <1>1, <1>2, <1>3, <1>4, <1>5

\* A step that moves no message.
LEMMA InLineKept ==
  ASSUME AsyncInv, Calm' => Calm, UNCHANGED <<sent, count, Queued>>,
         \A k \in Service : Holds(k)' => Holds(k) /\ result'[k] = result[k],
         \A th \in Thread : Given(th)' = Given(th)
  PROVE  InLine'
<1> SUFFICES ASSUME Calm'
             PROVE  InLine'
  BY DEF InLine
<1>1. /\ \A i, j \in 1 .. Len(sent') : i < j => Before(sent'[i], sent'[j])
      /\ \A i, j \in 1 .. count' : i < j => Before(Queued'[i], Queued'[j])
      /\ \A i \in 1 .. Len(sent'), j \in 1 .. count' : Before(sent'[i], Queued'[j])
  BY DEF AsyncInv, InLine
<1>2. \A m \in Message : m.n <= Given(m.from) => (m.n <= Given(m.from))'
  BY Carried DEF Given, Pending
<1>3. /\ (\A i \in 1 .. Len(sent) : sent[i].n <= Given(sent[i].from))'
      /\ (\A j \in 1 .. count : Queued[j].n <= Given(Queued[j].from))'
  BY <1>2, Carried DEF AsyncInv, InLine, Given, Pending
<1>4. ASSUME NEW k \in Service, Holds(k)'
      PROVE  /\ \A i \in 1 .. Len(sent') : Before(sent'[i], result'[k])
             /\ \A j \in 1 .. count' : Before(result'[k], Queued'[j])
             /\ (result[k].n <= Given(result[k].from))'
  <2>1. Holds(k) /\ result'[k] = result[k]
    BY <1>4
  <2>2. (result[k].n <= Given(result[k].from))'
    BY <1>2, <2>1, Carried DEF AsyncInv, InLine, Given, Pending
  <2> QED
    BY <2>1, <2>2 DEF AsyncInv, InLine
<1> QED
  BY <1>1, <1>3, <1>4 DEF InLine, Before

\* No message is lost when none moves,
LEMMA NoneLostKept ==
  ASSUME AsyncInv, lapses' = {} => lapses = {}, UNCHANGED <<sent, count, Queued, published>>,
         \A k \in Service : Holds(k) => Holds(k)' /\ result'[k] = result[k],
         \A th \in Thread : Pending(th) => Pending(th)'
  PROVE  NoneLost'
<1>1. ASSUME NEW th \in Thread, NEW n \in Nat, Somewhere([from |-> th, n |-> n])
      PROVE  Somewhere([from |-> th, n |-> n])'
  BY <1>1 DEF Somewhere
<1>2. ASSUME NEW th \in Thread, NEW n \in 1 .. published'[th], lapses' = {}
      PROVE  Somewhere([from |-> th, n |-> n])'
  <2>1. n \in Nat /\ n \in 1 .. published[th]
    BY <1>2, Carried
  <2>2. Somewhere([from |-> th, n |-> n])
    BY <1>2, <2>1 DEF AsyncInv, NoneLost
  <2> QED
    BY <1>1, <2>1, <2>2
<1> QED
  BY <1>2 DEF NoneLost

\* The message of a thread is published, but not on the queue yet.
LEMMA EnqueueLemma ==
  ASSUME AsyncInv, NEW th \in Thread, step[th] \in {"find", "create"}, Enqueue(th)
  PROVE  /\ (Q!QueueInv)' /\ Sleepers' /\ UNCHANGED <<count, Queued, stopping>>
         /\ step' = [step EXCEPT ![th] = "put"]
         /\ published' \in [Thread -> Nat] /\ published'[th] = published[th] + 1
         /\ call[th] = None /\ call'[th] # None
         /\ call'[th] = [kind |-> "put", item |-> [from |-> th, n |-> published'[th]]]
         /\ \A u \in (Thread \cup Service) \ {th} : call'[u] = call[u] /\ result'[u] = result[u]
         /\ \A u \in Thread \ {th} : published'[u] = published[u]
         /\ \A u \in Thread : Given(u)' = Given(u)
         /\ th \notin Service
<1> DEFINE c == [kind |-> "put", item |-> NextMessage(th)]
<1>1. published \in [Thread -> Nat] /\ step \in [Thread -> Step] /\ th \notin Service
  BY AsyncAssumption DEF AsyncInv, TypeOK
<1>2. NextMessage(th) \in Message
  BY <1>1 DEF NextMessage, Message
<1>3. c \in Q!Call /\ c.kind # "offer_for"
  BY <1>2 DEF Q!Call
<1>4. Q!QueueInv /\ Sleepers
  BY DEF AsyncInv, CallsFit, Sleepers
<1>5. Q!Begin(th, c)
  BY DEF Enqueue
<1>6. (Q!QueueInv)' /\ Sleepers' /\ UNCHANGED <<count, Queued>>
  <2> HIDE DEF c
  <2> QED
    BY <1>3, <1>4, <1>5, BeginStep
<1>7. /\ call \in [Thread \cup Service -> Q!Call \cup {None}]
      /\ result \in [Thread \cup Service -> Message \cup {None}]
  BY <1>4 DEF Q!QueueInv, Q!TypeOK
<1>8. /\ call[th] = None /\ call'[th] = c
      /\ \A u \in (Thread \cup Service) \ {th} : call'[u] = call[u] /\ result'[u] = result[u]
  BY <1>5, <1>7 DEF Q!Begin
<1>9. c # None
  BY <1>2, AsyncAssumption
<1>10. /\ step' = [step EXCEPT ![th] = "put"] /\ UNCHANGED stopping
       /\ published' = [published EXCEPT ![th] = @ + 1]
  BY DEF Enqueue, Goes
<1>11. /\ published' \in [Thread -> Nat] /\ published'[th] = published[th] + 1
       /\ \A u \in Thread \ {th} : published'[u] = published[u]
  BY <1>1, <1>10
<1>12. c = [kind |-> "put", item |-> [from |-> th, n |-> published'[th]]]
  BY <1>11 DEF NextMessage
<1>13. call'[th] # None
  BY <1>8, <1>9
<1>14. \A u \in Thread : Given(u)' = Given(u)
  BY <1>1, <1>8, <1>10, <1>11, <1>13 DEF Given, Pending
<1> QED
  BY <1>1, <1>6, <1>8, <1>10, <1>11, <1>12, <1>13, <1>14

\* nor when one is given to put().
LEMMA NoneLostEnqueue ==
  ASSUME AsyncInv, lapses' = {} => lapses = {}, UNCHANGED sent,
         NEW th \in Thread, step[th] \in {"find", "create"}, Enqueue(th),
         \A k \in Service : Holds(k) => Holds(k)'
  PROVE  NoneLost'
<1>0. /\ UNCHANGED <<count, Queued>>
      /\ step' = [step EXCEPT ![th] = "put"] /\ step \in [Thread -> Step]
      /\ published \in [Thread -> Nat] /\ published'[th] = published[th] + 1
      /\ call[th] = None /\ call'[th] # None
      /\ \A u \in (Thread \cup Service) \ {th} : call'[u] = call[u] /\ result'[u] = result[u]
      /\ \A u \in Thread \ {th} : published'[u] = published[u]
      /\ th \notin Service
  BY EnqueueLemma, Carried DEF AsyncInv, TypeOK
<1>1. ASSUME NEW u \in Thread, NEW n \in Nat, Somewhere([from |-> u, n |-> n])
      PROVE  Somewhere([from |-> u, n |-> n])'
  <2>1. CASE Pending(u) /\ n = published[u]
    <3>1. u # th
      BY <1>0, <2>1 DEF Pending
    <3>2. Pending(u)' /\ n = published'[u]
      BY <1>0, <2>1, <3>1 DEF Pending
    <3> QED
      BY <3>2 DEF Somewhere
  <2>2. CASE \E k \in Service : Holds(k) /\ result[k] = [from |-> u, n |-> n]
    <3>1. \E k \in Service : Holds(k)' /\ result'[k] = [from |-> u, n |-> n]
      BY <1>0, <2>2
    <3> QED
      BY <3>1 DEF Somewhere
  <2>3. CASE \/ \E i \in 1 .. Len(sent) : sent[i] = [from |-> u, n |-> n]
             \/ \E j \in 1 .. count : Queued[j] = [from |-> u, n |-> n]
    BY <1>0, <2>3 DEF Somewhere
  <2> QED
    BY <1>1, <2>1, <2>2, <2>3 DEF Somewhere
<1>2. ASSUME NEW n \in Nat, n = published[th] + 1
      PROVE  Somewhere([from |-> th, n |-> n])'
  <2>1. Pending(th)'
    BY <1>0 DEF Pending
  <2> QED
    BY <1>0, <1>2, <2>1 DEF Somewhere
<1>3. ASSUME NEW u \in Thread, NEW n \in 1 .. published'[u], lapses' = {}
      PROVE  Somewhere([from |-> u, n |-> n])'
  <2>1. CASE n \in 1 .. published[u]
    BY <1>0, <1>1, <1>3, <2>1 DEF AsyncInv, NoneLost
  <2>2. CASE n \notin 1 .. published[u]
    <3>1. u = th /\ n \in Nat /\ n = published[th] + 1
      BY <1>0, <1>3, <2>2
    <3> QED
      BY <1>2, <3>1
  <2> QED
    BY <2>1, <2>2
<1> QED
  BY <1>3 DEF NoneLost

\* Threads that may yet create a publisher.
LEMMA CreatingMore ==
  ASSUME AsyncInv, NEW th \in Thread, step[th] = "idle", step' = [step EXCEPT ![th] = "find"]
  PROVE  IsFiniteSet(Creating') /\ Cardinality(Creating') = Cardinality(Creating) + 1
<1>1. Creating' = Creating \cup {th} /\ th \notin Creating
  BY DEF Creating, AsyncInv, TypeOK
<1> QED
  BY <1>1, FS_AddElement DEF AsyncInv, ServicesFit

\* A thread that has created its publisher, or found one, is no longer about to.
LEMMA CreatingLess ==
  ASSUME AsyncInv, NEW th \in Thread, step[th] \in {"find", "create"},
         step' = [step EXCEPT ![th] = "put"]
  PROVE  /\ IsFiniteSet(Creating') /\ Cardinality(Creating') = Cardinality(Creating) - 1
         /\ Cardinality(Creating) \in Nat \ {0}
<1>1. Creating' = Creating \ {th} /\ th \in Creating
  BY DEF Creating, AsyncInv, TypeOK
<1>2. IsFiniteSet(Creating)
  BY DEF AsyncInv, ServicesFit
<1>3. Cardinality(Creating) \in Nat /\ Cardinality(Creating) # 0
  BY <1>1, <1>2, FS_CardinalityType, FS_EmptySet
<1> QED
  BY <1>1, <1>2, <1>3, FS_RemoveElement

\* Otherwise the room for publishers stays what it was.
LEMMA CreatingSame ==
  ASSUME AsyncInv, Creating' = Creating, UNCHANGED created
  PROVE  IsFiniteSet(Creating') /\ created' + Cardinality(Creating') <= MaxServices
  BY DEF AsyncInv, ServicesFit

\* A poll of the queue begins.
LEMMA BeginPoll ==
  ASSUME AsyncInv, NEW th \in Thread \cup Service, Q!Begin(th, [kind |-> "poll"])
  PROVE  /\ (Q!QueueInv)' /\ Sleepers' /\ UNCHANGED <<count, Queued>>
         /\ call[th] = None /\ call'[th] = [kind |-> "poll"] /\ call'[th] # None
         /\ result'[th] = None
         /\ \A u \in (Thread \cup Service) \ {th} : call'[u] = call[u] /\ result'[u] = result[u]
<1>1. [kind |-> "poll"] \in Q!Call /\ [kind |-> "poll"].kind # "offer_for"
  BY DEF Q!Call
<1>2. Q!QueueInv /\ Sleepers
  BY DEF AsyncInv, CallsFit, Sleepers
<1>3. (Q!QueueInv)' /\ Sleepers' /\ UNCHANGED <<count, Queued>>
  BY <1>1, <1>2, BeginStep
<1>4. /\ call \in [Thread \cup Service -> Q!Call \cup {None}]
      /\ result \in [Thread \cup Service -> Message \cup {None}]
  BY <1>2 DEF Q!QueueInv, Q!TypeOK
<1>5. [kind |-> "poll"] # None
  BY AsyncAssumption
<1> QED
  BY <1>3, <1>4, <1>5 DEF Q!Begin

\* One lemma per action: it keeps the invariant.
LEMMA PublishInv ==
  ASSUME AsyncInv, NEW th \in Thread, Publish(th)
  PROVE  AsyncInv'
<1> USE AsyncAssumption DEF AsyncInv, Publish, queue, services, link, history, Bounded
<1>1. (Q!QueueInv)' /\ Sleepers' /\ UNCHANGED <<count, Queued, call, result>>
  BY QueueStands
<1>2. TypeOK'
  BY <1>1 DEF TypeOK, Step, Goes, Q!QueueInv
<1>3. CallsFit'
  BY <1>1 DEF CallsFit, Goes
<1>4. ServicesFit'
  <2>1. IsFiniteSet(Creating') /\ Cardinality(Creating') = Cardinality(Creating) + 1
    BY CreatingMore DEF Goes
  <2>2. Cardinality(Creating) \in Nat /\ created \in Nat /\ MaxServices \in Nat
    BY FS_CardinalityType DEF ServicesFit, TypeOK
  <2>3. created + Cardinality(Creating) < MaxServices
    BY DEF Creating
  <2>4. created' + Cardinality(Creating') <= MaxServices
    BY <2>1, <2>2, <2>3
  <2> QED
    BY <2>1, <2>4 DEF ServicesFit, Disconnecting, Goes, TypeOK
<1>5. OnePublisher'
  BY <1>1 DEF OnePublisher, Calm, Disconnecting, Working, Goes
<1>6. InLine'
  BY <1>1, <1>2, InLineKept DEF Calm, Holds, Given, Pending, Goes
<1>7. Served'
  BY <1>1 DEF Served, Goes, Disconnecting, Working, ServicesFit
<1>8. NoneLost'
  BY <1>1, <1>2, NoneLostKept DEF Holds, Pending, Goes
<1>9. destroyed' => ~connected'
  OBVIOUS
<1> QED
  BY <1>1, <1>2, <1>3, <1>4, <1>5, <1>6, <1>7, <1>8, <1>9

\* publish() looks for a publisher,
LEMMA FindServiceInv ==
  ASSUME AsyncInv, NEW th \in Thread, FindService(th)
  PROVE  AsyncInv'
<1> USE AsyncAssumption DEF AsyncInv, FindService, services, link
<1>1. CASE service = 0
  <2> USE <1>1
  <2>1. (Q!QueueInv)' /\ Sleepers' /\ UNCHANGED <<count, Queued, call, result, published>>
    BY QueueStands
  <2>2. step' = [step EXCEPT ![th] = "create"] /\ UNCHANGED stopping
    BY DEF Goes
  <2>3. TypeOK'
    BY <2>1, <2>2 DEF TypeOK, Step, Q!QueueInv
  <2>4. CallsFit'
    BY <2>1, <2>2 DEF CallsFit, TypeOK, Sleepers
  <2>5. ServicesFit'
    <3>1. Creating' = Creating
      BY <2>2 DEF Creating, TypeOK
    <3> QED
      BY <2>2, <3>1, CreatingSame DEF ServicesFit, Disconnecting, TypeOK
  <2>6. OnePublisher'
    BY <2>2 DEF OnePublisher, Calm, Disconnecting, Working, TypeOK
  <2>7. InLine'
    BY <2>1, <2>2, InLineKept DEF Calm, Holds, Given, Pending, TypeOK
  <2>8. Served'
    BY <2>1, <2>2 DEF Served, Disconnecting, Working, Quiet, TypeOK
  <2>9. NoneLost'
    BY <2>1, <2>2, NoneLostKept DEF Holds, Pending, TypeOK
  <2> QED
    BY <2>1, <2>3, <2>4, <2>5, <2>6, <2>7, <2>8, <2>9
<1>2. CASE service # 0
  <2> USE <1>2
  <2>1. /\ (Q!QueueInv)' /\ Sleepers' /\ UNCHANGED <<count, Queued, stopping>>
        /\ step' = [step EXCEPT ![th] = "put"]
        /\ published' \in [Thread -> Nat] /\ published'[th] = published[th] + 1
        /\ call[th] = None /\ call'[th] # None
        /\ call'[th] = [kind |-> "put", item |-> [from |-> th, n |-> published'[th]]]
        /\ \A u \in (Thread \cup Service) \ {th} : call'[u] = call[u] /\ result'[u] = result[u]
        /\ \A u \in Thread \ {th} : published'[u] = published[u]
        /\ \A u \in Thread : Given(u)' = Given(u)
        /\ th \notin Service
    BY EnqueueLemma
  <2>2. TypeOK'
    BY <2>1 DEF TypeOK, Step, Q!QueueInv
  <2>3. CallsFit'
    <3>1. published'[th] > 0 /\ step'[th] = "put"
      BY <2>1 DEF TypeOK
    <3>2. \A u \in Thread \ {th} : step'[u] = step[u]
      BY <2>1 DEF TypeOK
    <3>3. \A u \in Thread : call'[u] # None =>
            \/ /\ step'[u] = "put" /\ published'[u] > 0
               /\ call'[u] = [kind |-> "put", item |-> [from |-> u, n |-> published'[u]]]
            \/ step'[u] = "discard" /\ call'[u] = [kind |-> "poll"]
      BY <2>1, <3>1, <3>2 DEF CallsFit
    <3> QED
      BY <2>1, <3>3 DEF CallsFit, Sleepers
  <2>4. ServicesFit'
    <3>1. /\ IsFiniteSet(Creating') /\ Cardinality(Creating') = Cardinality(Creating) - 1
          /\ Cardinality(Creating) \in Nat
      BY <2>1, CreatingLess
    <3>2. created' + Cardinality(Creating') <= MaxServices
      BY <3>1 DEF ServicesFit, TypeOK
    <3> QED
      BY <2>1, <3>1, <3>2 DEF ServicesFit, Disconnecting, TypeOK
  <2>5. OnePublisher'
    BY <2>1 DEF OnePublisher, Calm, Disconnecting, Working, TypeOK
  <2>6. InLine'
    BY <2>1, InLineKept DEF Calm, Holds, TypeOK
  <2>7. Served'
    BY <2>1 DEF Served, Disconnecting, Working, Quiet, TypeOK
  <2>8. NoneLost'
    BY <2>1, NoneLostEnqueue DEF Holds, TypeOK
  <2> QED
    BY <2>1, <2>2, <2>3, <2>4, <2>5, <2>6, <2>7, <2>8
<1> QED
  BY <1>1, <1>2

\* creates one where there was none,
LEMMA CreateServiceInv ==
  ASSUME AsyncInv, NEW th \in Thread, CreateService(th)
  PROVE  AsyncInv'
<1> USE AsyncAssumption DEF AsyncInv, CreateService, link
<1>1. /\ (Q!QueueInv)' /\ Sleepers' /\ UNCHANGED <<count, Queued, stopping>>
      /\ step' = [step EXCEPT ![th] = "put"]
      /\ published' \in [Thread -> Nat] /\ published'[th] = published[th] + 1
      /\ call[th] = None /\ call'[th] # None
      /\ call'[th] = [kind |-> "put", item |-> [from |-> th, n |-> published'[th]]]
      /\ \A u \in (Thread \cup Service) \ {th} : call'[u] = call[u] /\ result'[u] = result[u]
      /\ \A u \in Thread \ {th} : published'[u] = published[u]
      /\ \A u \in Thread : Given(u)' = Given(u)
      /\ th \notin Service
  BY EnqueueLemma
<1>10. created' \in Service /\ created' = created + 1 /\ at[created'] = "none" /\ alive[created']
  <2>1. Cardinality(Creating) \in Nat \ {0} /\ created + Cardinality(Creating) <= MaxServices
    BY <1>1, CreatingLess DEF ServicesFit
  <2>2. created \in Nat /\ MaxServices \in Nat /\ created' = created + 1
    BY DEF TypeOK
  <2>3. created' \in Service /\ created' > created
    BY <2>1, <2>2 DEF Service
  <2> QED
    BY <2>2, <2>3 DEF ServicesFit
<1>2. TypeOK'
  BY <1>1, <1>10 DEF TypeOK, Step, Q!QueueInv, Service
<1>3. CallsFit'
  <2>1. published'[th] > 0 /\ step'[th] = "put"
    BY <1>1 DEF TypeOK
  <2>2. \A u \in Thread \ {th} : step'[u] = step[u]
    BY <1>1 DEF TypeOK
  <2>3. \A u \in Thread : call'[u] # None =>
          \/ /\ step'[u] = "put" /\ published'[u] > 0
             /\ call'[u] = [kind |-> "put", item |-> [from |-> u, n |-> published'[u]]]
          \/ step'[u] = "discard" /\ call'[u] = [kind |-> "poll"]
    BY <1>1, <2>1, <2>2 DEF CallsFit
  <2>4. \A k \in Service : at'[k] = at[k] \/ (at'[k] = "test" /\ call[k] = None)
    BY <1>10 DEF CallsFit, TypeOK
  <2> QED
    BY <1>1, <2>3, <2>4 DEF CallsFit, Sleepers
<1>4. ServicesFit'
  <2>1. /\ IsFiniteSet(Creating') /\ Cardinality(Creating') = Cardinality(Creating) - 1
        /\ Cardinality(Creating) \in Nat
    BY <1>1, CreatingLess
  <2>2. created' + Cardinality(Creating') <= MaxServices
    BY <1>10, <2>1, AsyncAssumption DEF ServicesFit, TypeOK
  <2>3. \A u \in Thread : Disconnecting(u)' => u \in Owner
    BY <1>1 DEF Disconnecting, ServicesFit, TypeOK
  <2>4. service' <= created'
    BY <1>10 DEF TypeOK
  <2>5. ASSUME NEW k \in Service
        PROVE  /\ IF k > created' THEN at'[k] = "none" /\ alive'[k] ELSE at'[k] # "none"
               /\ latch'[k] => at'[k] = "ended"
    BY <1>10, <2>5 DEF ServicesFit, TypeOK, Service
  <2> QED
    BY <2>1, <2>2, <2>3, <2>4, <2>5 DEF ServicesFit
<1>5. OnePublisher'
  <2> SUFFICES ASSUME Calm'
               PROVE  OnePublisher'
    BY DEF OnePublisher
  <2>1. Calm /\ service = 0
    BY DEF Calm, TypeOK
  <2>2. \A k \in Service : ~Working(k)
    BY <2>1 DEF OnePublisher, Service
  <2>3. \A k \in Service : Working(k)' => k = service'
    BY <1>10, <2>2 DEF Working, TypeOK
  <2>4. /\ service' # 0 /\ alive'[service']
        /\ \A u \in Thread : step'[u] \notin {"await", "reset"}
    BY <1>1, <1>10, <2>1 DEF OnePublisher, TypeOK, Service
  <2>5. \A t, u \in Thread : Disconnecting(t)' /\ Disconnecting(u)' => t = u
    BY <1>1, <2>1 DEF OnePublisher, Disconnecting, TypeOK
  <2> QED
    BY <2>3, <2>4, <2>5 DEF OnePublisher
<1>6. InLine'
  BY <1>1, <1>10, InLineKept DEF Calm, Holds, TypeOK
<1>7. Served'
  BY <1>1, <1>10 DEF Served, Working, Disconnecting, Quiet, TypeOK, Service
<1>8. NoneLost'
  BY <1>1, <1>10, NoneLostEnqueue DEF Holds, TypeOK
<1>9. destroyed' => ~connected'
  OBVIOUS
<1> QED
  BY <1>1, <1>2, <1>3, <1>4, <1>5, <1>6, <1>7, <1>8, <1>9

\* and returns.
LEMMA PublishReturnsInv ==
  ASSUME AsyncInv, NEW th \in Thread, PublishReturns(th)
  PROVE  AsyncInv'
<1> USE AsyncAssumption DEF AsyncInv, PublishReturns, queue, services, link, history
<1>1. (Q!QueueInv)' /\ Sleepers' /\ UNCHANGED <<count, Queued, call, result>>
  BY QueueStands
<1>2. TypeOK'
  BY <1>1 DEF TypeOK, Step, Goes, Q!QueueInv
<1>3. CallsFit'
  BY <1>1 DEF CallsFit, Goes
<1>4. ServicesFit'
  BY <1>1 DEF ServicesFit, Goes, Creating, Disconnecting
<1>5. OnePublisher'
  BY <1>1 DEF OnePublisher, Calm, Disconnecting, Working, Goes
<1>6. InLine'
  BY <1>1, <1>2, InLineKept DEF Calm, Holds, Given, Pending, Goes
<1>7. Served'
  BY <1>1 DEF Served, Goes, Disconnecting, Working
<1>8. NoneLost'
  BY <1>1, <1>2, NoneLostKept DEF Holds, Pending, Goes
<1>9. destroyed' => ~connected'
  OBVIOUS
<1> QED
  BY <1>1, <1>2, <1>3, <1>4, <1>5, <1>6, <1>7, <1>8, <1>9

\* disconnect() begins,
LEMMA DisconnectInv ==
  ASSUME AsyncInv, NEW th \in Owner, Disconnect(th)
  PROVE  AsyncInv'
<1> USE AsyncAssumption DEF AsyncInv, Disconnect, queue, services, link, history
<1>1. (Q!QueueInv)' /\ Sleepers' /\ UNCHANGED <<count, Queued, call, result>>
  BY QueueStands
<1>2. TypeOK'
  BY <1>1 DEF TypeOK, Step, Goes, Q!QueueInv
<1>3. CallsFit'
  BY <1>1 DEF CallsFit, Goes
<1>4. ServicesFit'
  BY <1>1 DEF ServicesFit, Goes, Creating, Disconnecting
<1>5. OnePublisher'
  <2> SUFFICES ASSUME Calm'
               PROVE  OnePublisher'
    BY DEF OnePublisher
  <2>1. Calm /\ th \in Thread /\ step' = [step EXCEPT ![th] = "stop"]
    BY DEF Calm, Goes
  <2>2. \A u \in Thread \ {th} : ~Disconnecting(u) /\ step'[u] = step[u]
    <3>1. CASE \A u \in Thread \ {th} : step[u] = "idle"
      BY <2>1, <3>1 DEF Disconnecting, TypeOK
    <3>2. CASE ~\A u \in Thread \ {th} : step[u] = "idle"
      <4>1. OneOwner
        BY <3>2 DEF Calm
      <4> QED
        BY <2>1, <4>1 DEF OneOwner, ServicesFit, TypeOK
    <3> QED
      BY <3>1, <3>2
  <2>3. step'[th] = "stop" /\ step[th] = "idle"
    BY <2>1 DEF TypeOK
  <2>4. \A k \in Service : Working(k)' => k = service'
    BY <2>1 DEF OnePublisher, Working
  <2> QED
    BY <2>1, <2>2, <2>3, <2>4 DEF OnePublisher, Disconnecting, Working
<1>6. InLine'
  BY <1>1, <1>2, InLineKept DEF Calm, Holds, Given, Pending, Goes
<1>7. Served'
  <2> SUFFICES ASSUME lapses' = {}
               PROVE  Served'
    BY DEF Served
  <2>1. lapses = {} /\ \A u \in Thread \ {th} : step[u] = "idle"
    OBVIOUS
  <2>2. step' = [step EXCEPT ![th] = "stop"] /\ th \in Thread
    BY DEF Goes
  <2> QED
    BY <1>1, <2>1, <2>2 DEF Served, Disconnecting, Working, Quiet, TypeOK
<1>8. NoneLost'
  BY <1>1, <1>2, NoneLostKept DEF Holds, Pending, Goes
<1>9. destroyed' => ~connected'
  OBVIOUS
<1> QED
  BY <1>1, <1>2, <1>3, <1>4, <1>5, <1>6, <1>7, <1>8, <1>9

\* stops the publisher,
LEMMA StopInv ==
  ASSUME AsyncInv, NEW th \in Thread, Stop(th)
  PROVE  AsyncInv'
<1> USE AsyncAssumption DEF AsyncInv, Stop, queue, link, history
<1>1. (Q!QueueInv)' /\ Sleepers' /\ UNCHANGED <<count, Queued, call, result>>
  BY QueueStands
<1>goes. \E there \in {"drain", "await", "reset"} :
        /\ step' = [step EXCEPT ![th] = there]
        /\ \/ service = 0 /\ there = "drain" /\ UNCHANGED <<alive, stopping>>
           \/ /\ service # 0 /\ there = IF alive[service] THEN "await" ELSE "reset"
              /\ service \in Service
              /\ stopping' = [stopping EXCEPT ![th] = service]
              /\ alive' = [alive EXCEPT ![service] = FALSE]
  <2>1. CASE service = 0
    BY <2>1 DEF Goes
  <2>2. CASE service # 0
    BY <2>2 DEF TypeOK, Service
  <2> QED
    BY <2>1, <2>2
<1>2. TypeOK'
  <2>1. step' \in [Thread -> Step]
    BY <1>goes DEF TypeOK, Step
  <2>2. stopping' \in [Thread -> 0 .. MaxServices]
    BY <1>goes DEF TypeOK
  <2>3. alive' \in [Service -> BOOLEAN]
    <3>1. CASE service = 0
      BY <1>goes, <3>1 DEF TypeOK
    <3>2. CASE service # 0
      BY <1>goes, <3>2 DEF TypeOK
    <3> QED
      BY <3>1, <3>2
  <2> QED
    BY <1>1, <2>1, <2>2, <2>3 DEF TypeOK, Q!QueueInv
<1>3. CallsFit'
  BY <1>1 DEF CallsFit, TypeOK, Goes
<1>4. ServicesFit'
  <2>1. Creating' = Creating
    BY <1>goes DEF Creating, TypeOK
  <2>2. \A k \in Service : k > created => alive'[k]
    <3>1. CASE service = 0
      BY <1>goes, <3>1 DEF ServicesFit
    <3>2. CASE service # 0
      <4>1. \A k \in Service : k # service => alive'[k] = alive[k]
        BY <1>goes, <3>2 DEF TypeOK
      <4>2. \A k \in Service : k > created => k # service
        BY DEF ServicesFit, TypeOK, Service
      <4> QED
        BY <4>1, <4>2 DEF ServicesFit
    <3> QED
      BY <3>1, <3>2
  <2>3. \A u \in Thread : Disconnecting(u)' => u \in Owner
    BY <1>goes DEF ServicesFit, Disconnecting, TypeOK
  <2> QED
    BY <2>1, <2>2, <2>3, CreatingSame DEF ServicesFit
<1>5. OnePublisher'
  <2> SUFFICES ASSUME Calm'
               PROVE  OnePublisher'
    BY DEF OnePublisher
  <2>1. Calm
    BY DEF Calm
  <2>2. \A u \in Thread \ {th} : ~Disconnecting(u)
    BY <2>1 DEF OnePublisher, Disconnecting
  <2>3. \A u \in Thread \ {th} : step'[u] = step[u]
    BY <1>goes
  <2>4. \A t, u \in Thread : Disconnecting(t)' /\ Disconnecting(u)' => t = u
    BY <2>2, <2>3 DEF Disconnecting
  <2>5. service # 0 => alive[service]
    BY <2>1, <2>2 DEF OnePublisher, Disconnecting
  <2>6. step'[th] = IF service = 0 THEN "drain" ELSE "await"
    BY <1>goes, <2>5 DEF TypeOK
  <2>7. service # 0 => stopping'[th] = service
    BY <1>goes DEF TypeOK
  <2>8. \A k \in Service : Working(k)' => k = service'
    BY <2>1 DEF OnePublisher, Working
  <2> QED
    BY <2>2, <2>3, <2>4, <2>6, <2>7, <2>8 DEF OnePublisher, Disconnecting
<1>6. InLine'
  BY <1>1, <1>2, InLineKept DEF Calm, Holds, Given, Pending, TypeOK, Goes
<1>7. Served'
  BY <1>1 DEF Served, OnePublisher, CallsFit, TypeOK, Goes, Calm, Disconnecting, Working, Quiet
<1>8. NoneLost'
  BY <1>1, <1>2, NoneLostKept DEF Holds, Pending, TypeOK, Goes
<1>9. destroyed' => ~connected'
  OBVIOUS
<1> QED
  BY <1>1, <1>2, <1>3, <1>4, <1>5, <1>6, <1>7, <1>8, <1>9

\* sees it ended
LEMMA StopAwaitedInv ==
  ASSUME AsyncInv, NEW th \in Thread, StopAwaited(th)
  PROVE  AsyncInv'
<1> USE AsyncAssumption DEF AsyncInv, StopAwaited, queue, services, link, history
<1>1. (Q!QueueInv)' /\ Sleepers' /\ UNCHANGED <<count, Queued, call, result>>
  BY QueueStands
<1>2. TypeOK'
  BY <1>1 DEF TypeOK, Step, Goes, Q!QueueInv
<1>3. CallsFit'
  BY <1>1 DEF CallsFit, Goes
<1>4. ServicesFit'
  BY <1>1 DEF ServicesFit, TypeOK, Goes, Creating, Disconnecting
<1>5. OnePublisher'
  <2> SUFFICES ASSUME Calm'
               PROVE  OnePublisher'
    BY DEF OnePublisher
  <2>1. Calm
    BY DEF Calm
  <2>2. step' = [step EXCEPT ![th] = "reset"]
    BY DEF Goes
  <2>3. service # 0 /\ service \in Service /\ latch[service]
    BY <2>1 DEF OnePublisher, TypeOK, Service
  <2>4. ~Working(service)
    BY <2>3 DEF ServicesFit, Working
  <2>5. \A u \in Thread \ {th} : ~Disconnecting(u) /\ step'[u] = step[u]
    BY <2>1, <2>2 DEF OnePublisher, Disconnecting, TypeOK
  <2>6. step'[th] = "reset"
    BY <2>2 DEF TypeOK
  <2>7. \A k \in Service : Working(k)' => k = service'
    BY <2>1 DEF OnePublisher, Working
  <2> QED
    BY <2>3, <2>4, <2>5, <2>6, <2>7 DEF OnePublisher, Disconnecting, Working
<1>6. InLine'
  BY <1>1, <1>2, InLineKept DEF Calm, Holds, Given, Pending, Goes
<1>7. Served'
  BY <1>1 DEF Served, OnePublisher, Goes, Calm, Disconnecting, Working
<1>8. NoneLost'
  BY <1>1, <1>2, NoneLostKept DEF Holds, Pending, Goes
<1>9. destroyed' => ~connected'
  OBVIOUS
<1> QED
  BY <1>1, <1>2, <1>3, <1>4, <1>5, <1>6, <1>7, <1>8, <1>9

\* or gives up on it (a lapse),
LEMMA StopTimesOutInv ==
  ASSUME AsyncInv, NEW th \in Thread, StopTimesOut(th)
  PROVE  AsyncInv'
<1> USE AsyncAssumption DEF AsyncInv, StopTimesOut, queue, services, link, history
<1>1. (Q!QueueInv)' /\ Sleepers' /\ UNCHANGED <<count, Queued, call, result>>
  BY QueueStands
<1>2. TypeOK'
  BY <1>1 DEF TypeOK, Step, Goes, Q!QueueInv
<1>3. CallsFit'
  BY <1>1 DEF CallsFit, Goes
<1>4. ServicesFit'
  BY <1>1 DEF ServicesFit, TypeOK, Goes, Creating, Disconnecting
<1>5. OnePublisher'
  BY <1>1 DEF OnePublisher, Calm
<1>6. InLine'
  BY <1>1, <1>2, InLineKept DEF Calm, Holds, Given, Pending, Goes
<1>7. Served'
  BY <1>1 DEF Served
<1>8. NoneLost'
  BY <1>1, <1>2, NoneLostKept DEF Holds, Pending, Goes
<1>9. destroyed' => ~connected'
  OBVIOUS
<1> QED
  BY <1>1, <1>2, <1>3, <1>4, <1>5, <1>6, <1>7, <1>8, <1>9

\* forgets it,
LEMMA ResetInv ==
  ASSUME AsyncInv, NEW th \in Thread, Reset(th)
  PROVE  AsyncInv'
<1> USE AsyncAssumption DEF AsyncInv, Reset, queue, link, history
<1>1. (Q!QueueInv)' /\ Sleepers' /\ UNCHANGED <<count, Queued, call, result>>
  BY QueueStands
<1>2. TypeOK'
  BY <1>1 DEF TypeOK, Step, Goes, Q!QueueInv
<1>3. CallsFit'
  BY <1>1 DEF CallsFit, Goes
<1>4. ServicesFit'
  <2>1. Creating' = Creating
    BY DEF Creating, TypeOK, Goes
  <2>2. \A u \in Thread : Disconnecting(u)' => u \in Owner
    BY DEF ServicesFit, Disconnecting, TypeOK, Goes
  <2>3. service' <= created'
    BY DEF TypeOK
  <2> QED
    BY <2>1, <2>2, <2>3, CreatingSame DEF ServicesFit
<1>5. OnePublisher'
  BY <1>1 DEF OnePublisher, Calm, Disconnecting, Working, TypeOK, Goes
<1>6. InLine'
  BY <1>1, <1>2, InLineKept DEF Calm, Holds, Given, Pending, Goes
<1>7. Served'
  BY <1>1 DEF Served, OnePublisher, Goes, Calm, Disconnecting
<1>8. NoneLost'
  BY <1>1, <1>2, NoneLostKept DEF Holds, Pending, Goes
<1>9. destroyed' => ~connected'
  OBVIOUS
<1> QED
  BY <1>1, <1>2, <1>3, <1>4, <1>5, <1>6, <1>7, <1>8, <1>9

\* polls what is left,
LEMMA DrainInv ==
  ASSUME AsyncInv, NEW th \in Thread, Drain(th)
  PROVE  AsyncInv'
<1> USE AsyncAssumption DEF AsyncInv, Drain, services, link, history
<1>1. /\ (Q!QueueInv)' /\ Sleepers' /\ UNCHANGED <<count, Queued>>
      /\ call[th] = None /\ call'[th] = [kind |-> "poll"] /\ call'[th] # None
      /\ result'[th] = None
      /\ \A u \in (Thread \cup Service) \ {th} : call'[u] = call[u] /\ result'[u] = result[u]
  BY BeginPoll
<1>2. TypeOK'
  BY <1>1 DEF TypeOK, Step, Goes, Q!QueueInv
<1>3. CallsFit'
  <2>1. /\ step' = [step EXCEPT ![th] = "discard"] /\ step \in [Thread -> Step]
        /\ UNCHANGED <<published, at>> /\ th \notin Service
    BY DEF Goes, TypeOK
  <2>2. \A u \in Thread : call'[u] # None =>
          \/ /\ step'[u] = "put" /\ published'[u] > 0
             /\ call'[u] = [kind |-> "put", item |-> [from |-> u, n |-> published'[u]]]
          \/ step'[u] = "discard" /\ call'[u] = [kind |-> "poll"]
    BY <1>1, <2>1 DEF CallsFit
  <2>3. \A k \in Service : call'[k] = call[k] /\ result'[k] = result[k]
    BY <1>1, <2>1
  <2> QED
    BY <1>1, <2>1, <2>2, <2>3 DEF CallsFit, Sleepers
<1>4. ServicesFit'
  BY <1>1 DEF ServicesFit, TypeOK, Goes, Creating, Disconnecting
<1>5. OnePublisher'
  BY <1>1 DEF OnePublisher, Calm, Disconnecting, Working, Goes
<1>6. InLine'
  BY <1>1, <1>2, InLineKept DEF Calm, Holds, Given, Pending, Goes
<1>7. Served'
  BY <1>1 DEF Served
<1>8. NoneLost'
  BY <1>1, <1>2, NoneLostKept DEF Holds, Pending, Goes
<1>9. destroyed' => ~connected'
  OBVIOUS
<1> QED
  BY <1>1, <1>2, <1>3, <1>4, <1>5, <1>6, <1>7, <1>8, <1>9

\* throws it away,
LEMMA DiscardInv ==
  ASSUME AsyncInv, NEW th \in Thread, Discard(th)
  PROVE  AsyncInv'
<1> USE AsyncAssumption DEF AsyncInv, Discard, queue, services, link, history
<1>1. (Q!QueueInv)' /\ Sleepers' /\ UNCHANGED <<count, Queued, call, result>>
  BY QueueStands
<1>2. TypeOK'
  BY <1>1 DEF TypeOK, Step, Goes, Q!QueueInv
<1>3. CallsFit'
  BY <1>1 DEF CallsFit, Goes
<1>4. ServicesFit'
  BY <1>1 DEF ServicesFit, TypeOK, Goes, Creating, Disconnecting
<1>5. OnePublisher'
  BY <1>1 DEF OnePublisher, Calm, Disconnecting, Working, Goes
<1>6. InLine'
  BY <1>1, <1>2, InLineKept DEF Calm, Holds, Given, Pending, Goes
<1>7. Served'
  BY <1>1 DEF Served, Goes, Disconnecting, Quiet
<1>8. NoneLost'
  BY <1>1, <1>2, NoneLostKept DEF Holds, Pending, Goes
<1>9. destroyed' => ~connected'
  OBVIOUS
<1> QED
  BY <1>1, <1>2, <1>3, <1>4, <1>5, <1>6, <1>7, <1>8, <1>9

\* and closes the connection.
LEMMA CloseInv ==
  ASSUME AsyncInv, NEW th \in Thread, Close(th)
  PROVE  AsyncInv'
<1> USE AsyncAssumption DEF AsyncInv, Close, queue, services, history
<1>1. (Q!QueueInv)' /\ Sleepers' /\ UNCHANGED <<count, Queued, call, result>>
  BY QueueStands
<1>2. TypeOK'
  BY <1>1 DEF TypeOK, Step, Goes, Q!QueueInv
<1>3. CallsFit'
  BY <1>1 DEF CallsFit, Goes
<1>4. ServicesFit'
  BY <1>1 DEF ServicesFit, TypeOK, Goes, Creating, Disconnecting
<1>5. OnePublisher'
  BY <1>1 DEF OnePublisher, Calm, Disconnecting, Working, Goes
<1>6. InLine'
  BY <1>1, <1>2, InLineKept DEF Calm, Holds, Given, Pending, Goes
<1>7. Served'
  BY <1>1 DEF Served, TypeOK, Goes, Disconnecting, Quiet
<1>8. NoneLost'
  BY <1>1, <1>2, NoneLostKept DEF Holds, Pending, Goes
<1>9. destroyed' => ~connected'
  OBVIOUS
<1> QED
  BY <1>1, <1>2, <1>3, <1>4, <1>5, <1>6, <1>7, <1>8, <1>9

\* A new connection finds no publisher at work.
LEMMA ConnectInv ==
  ASSUME AsyncInv, NEW th \in Owner, Connect(th)
  PROVE  AsyncInv'
<1> USE AsyncAssumption DEF AsyncInv, Connect, queue, services, history, threads, Bounded
<1>1. (Q!QueueInv)' /\ Sleepers' /\ UNCHANGED <<count, Queued, call, result>>
  BY QueueStands
<1>2. TypeOK'
  BY <1>1 DEF TypeOK, Q!QueueInv
<1>3. CallsFit'
  BY <1>1 DEF CallsFit
<1>4. ServicesFit'
  BY <1>1 DEF ServicesFit, Creating, Disconnecting
<1>5. OnePublisher'
  BY <1>1 DEF OnePublisher, Calm, Disconnecting, Working
<1>6. InLine'
  BY <1>1, <1>2, InLineKept DEF Calm, Holds, Given, Pending
<1>7. Served'
  BY <1>1 DEF Served, Disconnecting
<1>8. NoneLost'
  BY <1>1, <1>2, NoneLostKept DEF Holds, Pending
<1>9. destroyed' => ~connected'
  OBVIOUS
<1> QED
  BY <1>1, <1>2, <1>3, <1>4, <1>5, <1>6, <1>7, <1>8, <1>9

\* The Connection is freed.
LEMMA DestroyInv ==
  ASSUME AsyncInv, Destroy
  PROVE  AsyncInv'
<1> USE AsyncAssumption DEF AsyncInv, Destroy, queue, services, history, threads
<1>1. (Q!QueueInv)' /\ Sleepers' /\ UNCHANGED <<count, Queued, call, result>>
  BY QueueStands
<1>2. TypeOK'
  BY <1>1 DEF TypeOK, Q!QueueInv
<1>3. CallsFit'
  BY <1>1 DEF CallsFit
<1>4. ServicesFit'
  BY <1>1 DEF ServicesFit, Creating, Disconnecting
<1>5. OnePublisher'
  BY <1>1 DEF OnePublisher, Calm, Disconnecting, Working
<1>6. InLine'
  BY <1>1, <1>2, InLineKept DEF Calm, Holds, Given, Pending
<1>7. Served'
  BY <1>1 DEF Served, Quiet
<1>8. NoneLost'
  BY <1>1, <1>2, NoneLostKept DEF Holds, Pending
<1>9. destroyed' => ~connected'
  OBVIOUS
<1> QED
  BY <1>1, <1>2, <1>3, <1>4, <1>5, <1>6, <1>7, <1>8, <1>9

\* A publisher begins to poll the queue,
LEMMA PollInv ==
  ASSUME AsyncInv, NEW k \in Service, Poll(k)
  PROVE  AsyncInv'
<1> USE AsyncAssumption DEF AsyncInv, Poll, link, history, threads
<1>1. /\ (Q!QueueInv)' /\ Sleepers' /\ UNCHANGED <<count, Queued>>
      /\ call[k] = None /\ call'[k] = [kind |-> "poll"] /\ call'[k] # None
      /\ result'[k] = None
      /\ \A u \in (Thread \cup Service) \ {k} : call'[u] = call[u] /\ result'[u] = result[u]
  BY BeginPoll
<1>2. TypeOK'
  BY <1>1 DEF TypeOK, Q!QueueInv
<1>3. CallsFit'
  BY <1>1 DEF CallsFit, TypeOK, Sleepers
<1>4. ServicesFit'
  BY <1>1 DEF ServicesFit, Creating, Disconnecting
<1>5. OnePublisher'
  BY <1>1 DEF OnePublisher, Calm, Disconnecting, Working
<1>6. InLine'
  <2>1. \A j \in Service : Holds(j)' => Holds(j) /\ result'[j] = result[j]
    BY <1>1 DEF Holds, TypeOK
  <2>2. \A u \in Thread : Given(u)' = Given(u)
    BY <1>1 DEF Given, Pending, TypeOK
  <2> QED
    BY <1>1, <2>1, <2>2, InLineKept DEF Calm
<1>7. Served'
  BY <1>1 DEF Served, Disconnecting, Working, Quiet
<1>8. NoneLost'
  BY <1>1, <1>2, NoneLostKept DEF Holds, Pending
<1>9. destroyed' => ~connected'
  OBVIOUS
<1> QED
  BY <1>1, <1>2, <1>3, <1>4, <1>5, <1>6, <1>7, <1>8, <1>9

\* returns with a message or without,
LEMMA PolledInv ==
  ASSUME AsyncInv, NEW k \in Service, Polled(k)
  PROVE  AsyncInv'
<1> USE AsyncAssumption DEF AsyncInv, Polled, queue, link, history, threads
<1>1. (Q!QueueInv)' /\ Sleepers' /\ UNCHANGED <<count, Queued, call, result>>
  BY QueueStands
<1>2. TypeOK'
  BY <1>1 DEF TypeOK, Q!QueueInv
<1>3. CallsFit'
  BY <1>1 DEF CallsFit
<1>4. ServicesFit'
  BY <1>1 DEF ServicesFit, Creating, Disconnecting
<1>5. OnePublisher'
  BY <1>1 DEF OnePublisher, Calm, Disconnecting, Working
<1>6. InLine'
  BY <1>1, <1>2, InLineKept DEF Calm, Holds, Given, Pending
<1>7. Served'
  BY <1>1 DEF Served, Disconnecting, Working, Quiet
<1>8. NoneLost'
  BY <1>1, <1>2, NoneLostKept DEF Holds, Pending
<1>9. destroyed' => ~connected'
  OBVIOUS
<1> QED
  BY <1>1, <1>2, <1>3, <1>4, <1>5, <1>6, <1>7, <1>8, <1>9

\* gives its message to the middleware,
LEMMA MwPublishInv ==
  ASSUME AsyncInv, NEW k \in Service, MwPublish(k)
  PROVE  AsyncInv'
<1> USE AsyncAssumption DEF AsyncInv, MwPublish, queue, link, threads
<1>1. (Q!QueueInv)' /\ Sleepers' /\ UNCHANGED <<count, Queued, call, result>>
  BY QueueStands
<1>sent. /\ result[k] \in Message /\ Holds(k) /\ sent \in Seq(Message)
      /\ \/ UNCHANGED sent
         \/ /\ Len(sent') = Len(sent) + 1 /\ sent' \in Seq(Message)
            /\ \A i \in 1 .. Len(sent) : sent'[i] = sent[i]
            /\ sent'[Len(sent) + 1] = result[k]
  <2>1. result[k] \in Message /\ Holds(k) /\ sent \in Seq(Message)
    BY Carried DEF Holds, TypeOK
  <2>2. CASE connected
    BY <2>1, <2>2, AppendProperties
  <2>3. CASE ~connected
    BY <2>1, <2>3
  <2> QED
    BY <2>1, <2>2, <2>3
<1>held. \A j \in Service : Holds(j)' => Holds(j) /\ j # k
  BY <1>1 DEF Holds, TypeOK
<1>given. \A u \in Thread : Given(u)' = Given(u)
  BY <1>1 DEF Given, Pending
<1>2. TypeOK'
  BY <1>sent, <1>1 DEF TypeOK, Q!QueueInv
<1>3. CallsFit'
  BY <1>1 DEF CallsFit
<1>4. ServicesFit'
  BY <1>1 DEF ServicesFit, Creating, Disconnecting
<1>5. OnePublisher'
  BY <1>1 DEF OnePublisher, Calm, Disconnecting, Working
<1>6. InLine'
  <2>1. CASE UNCHANGED sent
    BY <1>1, <1>held, <1>given, <2>1, InLineKept DEF Calm
  <2>2. CASE ~UNCHANGED sent
    <3> SUFFICES ASSUME Calm PROVE InLine'
      BY DEF InLine, Calm
    <3>0. /\ Len(sent') = Len(sent) + 1 /\ sent' \in Seq(Message) /\ Len(sent) \in Nat
          /\ \A i \in 1 .. Len(sent) : sent'[i] = sent[i]
          /\ sent'[Len(sent) + 1] = result[k]
      BY <1>sent, <2>2
    <3>1. \A i \in 1 .. Len(sent') : i \in 1 .. Len(sent) \/ i = Len(sent) + 1
      BY <3>0
    <3>2. \A i, j \in 1 .. Len(sent') : i < j => Before(sent'[i], sent'[j])
      <4>1. ASSUME NEW i \in 1 .. Len(sent'), NEW j \in 1 .. Len(sent'), i < j
            PROVE  Before(sent'[i], sent'[j])
        <5>1. i \in 1 .. Len(sent)
          BY <3>0, <4>1
        <5>2. CASE j \in 1 .. Len(sent)
          BY <3>0, <4>1, <5>1, <5>2 DEF InLine
        <5>3. CASE j = Len(sent) + 1
          BY <1>sent, <3>0, <5>1, <5>3 DEF InLine
        <5> QED
          BY <3>1, <5>2, <5>3
      <4> QED
        BY <4>1
    <3>3. \A i \in 1 .. Len(sent'), j \in 1 .. count' : Before(sent'[i], Queued'[j])
      BY <1>sent, <1>1, <3>0, <3>1 DEF InLine
    <3>4. \A i \in 1 .. Len(sent') : sent'[i] \in Message /\ sent'[i].n <= Given(sent'[i].from)
      BY <1>sent, <3>0, <3>1, Carried DEF InLine
    <3>5. (\A i \in 1 .. Len(sent) : sent[i].n <= Given(sent[i].from))'
      BY <1>1, <3>4 DEF Given, Pending
    <3>6. (\A j \in 1 .. count : Queued[j].n <= Given(Queued[j].from))'
      BY <1>1 DEF InLine, Given, Pending
    <3>7. \A j \in Service : ~Holds(j)'
      <4>1. \A j \in Service : Holds(j) => Working(j)
        BY DEF Holds, Working
      <4> QED
        BY <1>sent, <1>held, <4>1 DEF OnePublisher
    <3>8. (\A i, j \in 1 .. count : i < j => Before(Queued[i], Queued[j]))'
      BY <1>1 DEF InLine, Before
    <3> QED
      BY <3>2, <3>3, <3>5, <3>6, <3>7, <3>8 DEF InLine, Before
  <2> QED
    BY <2>1, <2>2
<1>7. Served'
  BY <1>1 DEF Served, Disconnecting, Working, Quiet
<1>8. NoneLost'
  <2> SUFFICES ASSUME lapses = {} PROVE NoneLost'
    BY DEF NoneLost
  <2>1. connected
    <3>1. Calm /\ Working(k)
      BY DEF Calm, Working
    <3> QED
      BY <3>1 DEF OnePublisher, Served, Service
  <2>2. /\ Len(sent') = Len(sent) + 1 /\ Len(sent) \in Nat
        /\ \A i \in 1 .. Len(sent) : sent'[i] = sent[i]
        /\ sent'[Len(sent) + 1] = result[k]
    BY <1>sent, <2>1, AppendProperties
  <2>3. ASSUME NEW th \in Thread, NEW n \in Nat, Somewhere([from |-> th, n |-> n])
        PROVE  Somewhere([from |-> th, n |-> n])'
    <3> DEFINE m == [from |-> th, n |-> n]
    <3>1. CASE \E i \in 1 .. Len(sent) : sent[i] = m
      <4>1. \E i \in 1 .. Len(sent') : sent'[i] = m
        BY <2>2, <3>1
      <4> QED
        BY <4>1 DEF Somewhere
    <3>2. CASE \E j \in Service : Holds(j) /\ result[j] = m
      <4>1. PICK j \in Service : Holds(j) /\ result[j] = m
        BY <3>2
      <4>2. CASE j = k
        <5>1. \E i \in 1 .. Len(sent') : sent'[i] = m
          BY <2>2, <4>1, <4>2
        <5> QED
          BY <5>1 DEF Somewhere
      <4>3. CASE j # k
        BY <1>1, <4>1, <4>3 DEF Somewhere, Holds, TypeOK
      <4> QED
        BY <4>2, <4>3
    <3>3. CASE \E j \in 1 .. count : Queued[j] = m
      BY <1>1, <3>3 DEF Somewhere
    <3>4. CASE Pending(th) /\ n = published[th]
      BY <1>1, <3>4 DEF Somewhere, Pending
    <3> QED
      BY <2>3, <3>1, <3>2, <3>3, <3>4 DEF Somewhere
  <2>4. ASSUME NEW th \in Thread, NEW n \in 1 .. published'[th]
        PROVE  Somewhere([from |-> th, n |-> n])'
    <3>1. n \in Nat /\ n \in 1 .. published[th]
      BY Carried
    <3> QED
      BY <2>3, <3>1 DEF NoneLost
  <2> QED
    BY <2>4 DEF NoneLost
<1>9. destroyed' => ~connected'
  OBVIOUS
<1> QED
  BY <1>1, <1>2, <1>3, <1>4, <1>5, <1>6, <1>7, <1>8, <1>9

\* and ends when it was stopped.
LEMMA EndsInv ==
  ASSUME AsyncInv, NEW k \in Service, Ends(k)
  PROVE  AsyncInv'
<1> USE AsyncAssumption DEF AsyncInv, Ends, queue, link, history, threads
<1>1. (Q!QueueInv)' /\ Sleepers' /\ UNCHANGED <<count, Queued, call, result>>
  BY QueueStands
<1>2. TypeOK'
  BY <1>1 DEF TypeOK, Q!QueueInv
<1>3. CallsFit'
  BY <1>1 DEF CallsFit
<1>4. ServicesFit'
  BY <1>1 DEF ServicesFit, TypeOK, Creating, Disconnecting
<1>5. OnePublisher'
  BY <1>1 DEF OnePublisher, Calm, Disconnecting, Working
<1>6. InLine'
  BY <1>1, <1>2, InLineKept DEF Calm, Holds, Given, Pending
<1>7. Served'
  <2> SUFFICES ASSUME lapses = {}
               PROVE  Served'
    BY DEF Served
  <2>1. Calm /\ Working(k)
    BY DEF Calm, Working
  <2>2. k = service /\ service # 0
    BY <2>1 DEF OnePublisher, Service
  <2>3. count = 0 /\ ~alive[k]
    BY DEF StaysAlive
  <2>4. \E th \in Thread : step[th] \in {"await", "reset"}
    BY <2>1, <2>2, <2>3 DEF OnePublisher
  <2> QED
    BY <1>1, <2>2, <2>3, <2>4 DEF Served, Working, Disconnecting, Quiet
<1>8. NoneLost'
  BY <1>1, <1>2, NoneLostKept DEF Holds, Pending
<1>9. destroyed' => ~connected'
  OBVIOUS
<1> QED
  BY <1>1, <1>2, <1>3, <1>4, <1>5, <1>6, <1>7, <1>8, <1>9

\* A step of the queue leaves the publishers and the threads where they are.
LEMMA OperationCommon ==
  ASSUME AsyncInv, NEW th \in Thread \cup Service, QueueStep(th)
  PROVE  /\ (Q!QueueInv)' /\ Sleepers' /\ call[th] # None
         /\ Takes(th) \/ Puts(th) \/ Waits \/ GivesUp(th)
         /\ TypeOK' /\ ServicesFit' /\ OnePublisher' /\ (destroyed' => ~connected')
<1> USE DEF AsyncInv, QueueStep, services, link, threads, history
<1>1. /\ (Q!QueueInv)' /\ Sleepers' /\ call[th] # None
      /\ Takes(th) \/ Puts(th) \/ Waits \/ GivesUp(th)
  BY OperationStep DEF CallsFit, Sleepers
<1>2. TypeOK'
  BY <1>1 DEF TypeOK, Q!QueueInv
<1>3. ServicesFit'
  BY DEF ServicesFit, Creating, Disconnecting
<1>4. OnePublisher'
  BY DEF OnePublisher, Calm, Disconnecting, Working
<1> QED
  BY <1>1, <1>2, <1>3, <1>4

\* Who is in which operation.
LEMMA Operations ==
  ASSUME AsyncInv, NEW th \in Thread \cup Service, call[th] # None
  PROVE  \/ /\ th \in Thread /\ th \notin Service /\ step[th] = "put" /\ published[th] > 0
            /\ call[th].kind = "put" /\ call[th].item = [from |-> th, n |-> published[th]]
         \/ th \in Thread /\ th \notin Service /\ step[th] = "discard" /\ call[th].kind = "poll"
         \/ th \in Service /\ th \notin Thread /\ at[th] = "poll" /\ call[th].kind = "poll"
<1>1. CASE th \in Thread
  <2>1. th \notin Service
    BY <1>1, AsyncAssumption
  <2>2. CASE step[th] = "discard" /\ call[th] = [kind |-> "poll"]
    BY <1>1, <2>1, <2>2
  <2>3. CASE /\ step[th] = "put" /\ published[th] > 0
             /\ call[th] = [kind |-> "put", item |-> [from |-> th, n |-> published[th]]]
    BY <1>1, <2>1, <2>3
  <2> QED
    BY <1>1, <2>2, <2>3 DEF AsyncInv, CallsFit
<1>2. CASE th \in Service
  <2>1. th \notin Thread
    BY <1>2, AsyncAssumption
  <2>2. at[th] = "poll" /\ call[th] = [kind |-> "poll"]
    BY <1>2 DEF AsyncInv, CallsFit
  <2> QED
    BY <1>2, <2>1, <2>2
<1> QED
  BY <1>1, <1>2

\* A thread that begins to wait, or whose poll has come to nothing.
LEMMA NothingMovedInv ==
  ASSUME AsyncInv, NEW th \in Thread \cup Service, QueueStep(th), Waits \/ GivesUp(th)
  PROVE  AsyncInv'
<1> USE DEF QueueStep, services, link, threads, history
<1>1. /\ UNCHANGED <<count, Queued>> /\ call[th] # None /\ Sleepers'
      /\ \A u \in (Thread \cup Service) \ {th} : call'[u] = call[u] /\ result'[u] = result[u]
      /\ \/ call'[th] = call[th] /\ result'[th] = result[th]
         \/ call'[th] = None /\ result'[th] = None /\ call[th].kind \in {"poll", "offer"}
  BY OperationCommon DEF Waits, GivesUp, AsyncInv, Q!QueueInv, Q!TypeOK
<1>2. CallsFit'
  BY <1>1, Operations DEF AsyncInv, CallsFit, Sleepers
<1>3. \A k \in Service : Holds(k)' <=> Holds(k)
  BY <1>1, Operations DEF Holds
<1>4. \A k \in Service : Holds(k) => result'[k] = result[k]
  BY <1>1, Operations DEF Holds
<1>5. \A u \in Thread : Pending(u)' <=> Pending(u)
  BY <1>1, Operations DEF Pending
<1>6. \A u \in Thread : Given(u)' = Given(u)
  BY <1>5 DEF Given
<1>7. InLine'
  BY <1>1, <1>3, <1>4, <1>6, InLineKept DEF Calm
<1>8. Served'
  BY <1>1 DEF AsyncInv, Served, Disconnecting, Working, Quiet
<1>9. NoneLost'
  <2>1. ASSUME NEW u \in Thread, NEW n \in Nat, Somewhere([from |-> u, n |-> n])
        PROVE  Somewhere([from |-> u, n |-> n])'
    BY <1>1, <1>3, <1>4, <1>5, <2>1 DEF Somewhere, Holds, Pending
  <2>2. ASSUME NEW u \in Thread, NEW n \in 1 .. published'[u], lapses' = {}
        PROVE  Somewhere([from |-> u, n |-> n])'
    <3>1. n \in Nat /\ n \in 1 .. published[u]
      BY <2>2, Carried
    <3> QED
      BY <2>1, <2>2, <3>1 DEF AsyncInv, NoneLost
  <2> QED
    BY <2>2 DEF NoneLost
<1> QED
  BY <1>2, <1>7, <1>8, <1>9, OperationCommon DEF AsyncInv

\* The oldest message goes to the publisher, or is thrown away by disconnect().
LEMMA TakesInv ==
  ASSUME AsyncInv, NEW th \in Thread \cup Service, QueueStep(th), Takes(th)
  PROVE  AsyncInv'
<1> USE DEF QueueStep, services, link, threads, history
<1>1. /\ Sleepers' /\ call[th] # None /\ count \in Nat /\ count > 0 /\ count' = count - 1
      /\ \A i \in 1 .. count' : Queued'[i] = Queued[i + 1]
      /\ \A u \in (Thread \cup Service) \ {th} : call'[u] = call[u] /\ result'[u] = result[u]
      /\ call'[th] = None /\ result'[th] = Queued[1] /\ Queued[1] \in Message /\ Queued[1] # None
      /\ call[th].kind = "poll"
  <2>1. /\ Sleepers' /\ call[th] # None /\ count \in Nat
    BY OperationCommon, Carried
  <2>2. Queued[1] \in Message /\ Queued[1] # None
    BY <2>1, Carried, AsyncAssumption DEF Takes
  <2>3. call[th].kind = "poll"
    BY <2>1, Operations DEF Takes
  <2> QED
    BY <2>1, <2>2, <2>3 DEF Takes, AsyncInv, Q!QueueInv, Q!TypeOK
<1>2. /\ \A i \in 1 .. count' : i + 1 \in 1 .. count /\ Queued'[i] = Queued[i + 1]
      /\ 1 \in 1 .. count /\ \A i \in 1 .. count' : 1 < i + 1
  BY <1>1
<1>3. CallsFit'
  <2>1. \A u \in Thread : call'[u] # None =>
          \/ /\ step'[u] = "put" /\ published'[u] > 0
             /\ call'[u] = [kind |-> "put", item |-> [from |-> u, n |-> published'[u]]]
          \/ step'[u] = "discard" /\ call'[u] = [kind |-> "poll"]
    BY <1>1 DEF AsyncInv, CallsFit
  <2>2. /\ \A k \in Service : call'[k] # None => at'[k] = "poll" /\ call'[k] = [kind |-> "poll"]
        /\ \A k \in Service : at'[k] = "publish" => result'[k] # None
    BY <1>1 DEF AsyncInv, CallsFit
  <2>3. \A i \in 1 .. count' : Queued'[i] \in Message
    BY <1>2 DEF AsyncInv, CallsFit
  <2> QED
    BY <1>1, <2>1, <2>2, <2>3 DEF CallsFit, Sleepers
<1>4. /\ \A k \in Service \ {th} : (Holds(k)' <=> Holds(k)) /\ result'[k] = result[k]
      /\ th \in Service => Holds(th)' /\ ~Holds(th)
  BY <1>1, Operations DEF Holds
<1>5. \A u \in Thread : Pending(u)' <=> Pending(u)
  BY <1>1, Operations DEF Pending
<1>6. \A m \in Message : (m.n <= Given(m.from))' <=> m.n <= Given(m.from)
  BY <1>5, Carried DEF Given, Pending
<1>7. InLine'
  <2> SUFFICES ASSUME Calm
               PROVE  InLine'
    BY DEF InLine, Calm
  <2>1. (\A i, j \in 1 .. Len(sent) : i < j => Before(sent[i], sent[j]))'
    BY DEF AsyncInv, InLine, Before
  <2>2. \A i, j \in 1 .. count' : i < j => Before(Queued'[i], Queued'[j])
    BY <1>1, <1>2 DEF AsyncInv, InLine
  <2>3. \A i \in 1 .. Len(sent), j \in 1 .. count' : Before(sent[i], Queued'[j])
    BY <1>2 DEF AsyncInv, InLine
  <2>4. (\A i \in 1 .. Len(sent) : sent[i].n <= Given(sent[i].from))'
    BY <1>6, Carried DEF AsyncInv, InLine, Given, Pending
  <2>5. \A j \in 1 .. count : (Queued[j].n <= Given(Queued[j].from))
    BY DEF AsyncInv, InLine
  <2>6. (\A j \in 1 .. count : Queued[j].n <= Given(Queued[j].from))'
    <3>1. \A m \in Message : m.n <= Given(m.from) => (m.n <= Given(m.from))'
      BY <1>6
    <3>2. \A j \in 1 .. count' : Queued'[j] \in Message /\ Queued'[j].n <= Given(Queued[j + 1].from)
      BY <1>2, <2>5, Carried
    <3> QED
      BY <1>2, <2>5, <3>1, <3>2, Carried DEF Given, Pending
  <2>7. ASSUME NEW k \in Service, Holds(k)'
        PROVE  /\ \A i \in 1 .. Len(sent) : Before(sent[i], result'[k])
               /\ \A j \in 1 .. count' : Before(result'[k], Queued'[j])
               /\ (result[k].n <= Given(result[k].from))'
    <3>1. CASE k # th
      <4>1. Holds(k) /\ result'[k] = result[k] /\ result[k] \in Message
        BY <1>4, <2>7, <3>1, Carried
      <4>2. /\ \A i \in 1 .. Len(sent) : Before(sent[i], result[k])
            /\ \A j \in 1 .. count' : Before(result[k], Queued[j + 1])
            /\ result[k].n <= Given(result[k].from)
        BY <1>2, <4>1 DEF AsyncInv, InLine
      <4>3. (result[k].n <= Given(result[k].from))'
        BY <1>6, <4>1, <4>2 DEF Given, Pending
      <4> QED
        BY <1>2, <4>1, <4>2, <4>3
    <3>2. CASE k = th
      <4>1. result'[k] = Queued[1]
        BY <1>1, <3>2
      <4>2. /\ \A i \in 1 .. Len(sent) : Before(sent[i], Queued[1])
            /\ \A j \in 1 .. count' : Before(Queued[1], Queued[j + 1])
            /\ Queued[1].n <= Given(Queued[1].from)
        BY <1>2 DEF AsyncInv, InLine
      <4>3. (result[k].n <= Given(result[k].from))'
        BY <1>1, <1>6, <4>1, <4>2 DEF Given, Pending
      <4> QED
        BY <1>2, <4>1, <4>2, <4>3
    <3> QED
      BY <3>1, <3>2
  <2> QED
    BY <2>1, <2>2, <2>3, <2>4, <2>6, <2>7 DEF InLine, Before
<1>8. lapses = {} => th \in Service
  <2> SUFFICES ASSUME lapses = {}, th \notin Service
               PROVE  FALSE
    OBVIOUS
  <2>1. th \in Thread /\ step[th] = "discard"
    BY <1>1, Operations
  <2>2. service = 0
    BY <2>1 DEF AsyncInv, Served
  <2>3. count = 0
    BY <2>2 DEF AsyncInv, Served
  <2> QED
    BY <1>1, <2>3
<1>9. Served'
  <2> SUFFICES ASSUME lapses = {}
               PROVE  Served'
    BY DEF Served
  <2>1. service # 0 /\ Working(service)
    BY <1>1 DEF AsyncInv, Served
  <2> QED
    BY <2>1 DEF AsyncInv, Served, Disconnecting, Working, Quiet
<1>10. NoneLost'
  <2> SUFFICES ASSUME lapses = {}
               PROVE  NoneLost'
    BY DEF NoneLost
  <2>1. ASSUME NEW u \in Thread, NEW n \in Nat, Somewhere([from |-> u, n |-> n])
        PROVE  Somewhere([from |-> u, n |-> n])'
    <3> DEFINE m == [from |-> u, n |-> n]
    <3>1. CASE \E i \in 1 .. Len(sent) : sent[i] = m
      BY <3>1 DEF Somewhere
    <3>2. CASE \E k \in Service : Holds(k) /\ result[k] = m
      <4>1. \E k \in Service : Holds(k)' /\ result'[k] = m
        BY <1>4, <3>2
      <4> QED
        BY <4>1 DEF Somewhere
    <3>3. CASE \E j \in 1 .. count : Queued[j] = m
      <4>1. PICK j \in 1 .. count : Queued[j] = m
        BY <3>3
      <4>2. CASE j = 1
        <5>1. Holds(th)' /\ result'[th] = m /\ th \in Service
          BY <1>1, <1>4, <1>8, <4>1, <4>2
        <5> QED
          BY <5>1 DEF Somewhere
      <4>3. CASE j # 1
        <5>1. j - 1 \in 1 .. count' /\ Queued'[j - 1] = Queued[(j - 1) + 1] /\ (j - 1) + 1 = j
          BY <1>1, <4>1, <4>3
        <5>2. \E i \in 1 .. count' : Queued'[i] = m
          BY <4>1, <5>1
        <5> QED
          BY <5>2 DEF Somewhere
      <4> QED
        BY <4>2, <4>3
    <3>4. CASE Pending(u) /\ n = published[u]
      <4>1. Pending(u)'
        BY <1>5, <3>4
      <4> QED
        BY <3>4, <4>1 DEF Somewhere
    <3> QED
      BY <2>1, <3>1, <3>2, <3>3, <3>4 DEF Somewhere
  <2>2. ASSUME NEW u \in Thread, NEW n \in 1 .. published'[u]
        PROVE  Somewhere([from |-> u, n |-> n])'
    <3>1. n \in Nat /\ n \in 1 .. published[u]
      BY Carried
    <3> QED
      BY <2>1, <3>1 DEF AsyncInv, NoneLost
  <2> QED
    BY <2>2 DEF NoneLost
<1> QED
  BY <1>3, <1>7, <1>9, <1>10, OperationCommon DEF AsyncInv

\* A message is put on the queue, after all those published before it.
LEMMA PutsInv ==
  ASSUME AsyncInv, NEW th \in Thread \cup Service, QueueStep(th), Puts(th)
  PROVE  AsyncInv'
<1> USE DEF QueueStep, services, link, threads, history
<1> DEFINE x == [from |-> th, n |-> published[th]]
<1>1. /\ Sleepers' /\ call[th] # None /\ count \in Nat /\ count' = count + 1
      /\ th \in Thread /\ th \notin Service /\ step[th] = "put"
      /\ x \in Message /\ x.from = th /\ x.n = published[th] /\ Queued'[count + 1] = x
      /\ \A i \in 1 .. count : Queued'[i] = Queued[i]
      /\ \A u \in (Thread \cup Service) \ {th} : call'[u] = call[u] /\ result'[u] = result[u]
      /\ call'[th] = None
  <2>1. Sleepers' /\ call[th] # None /\ count \in Nat /\ published \in [Thread -> Nat]
    BY OperationCommon, Carried
  <2>2. /\ th \in Thread /\ th \notin Service /\ step[th] = "put" /\ published[th] > 0
        /\ call[th].item = x
    BY <2>1, Operations DEF Puts
  <2>3. x \in Message
    BY <2>1, <2>2 DEF Message
  <2> QED
    BY <2>1, <2>2, <2>3 DEF Puts, AsyncInv, Q!QueueInv, Q!TypeOK
<1>2. \A i \in 1 .. count' : i \in 1 .. count \/ i = count + 1
  BY <1>1
<1>3. CallsFit'
  <2>1. \A u \in Thread : call'[u] # None =>
          \/ /\ step'[u] = "put" /\ published'[u] > 0
             /\ call'[u] = [kind |-> "put", item |-> [from |-> u, n |-> published'[u]]]
          \/ step'[u] = "discard" /\ call'[u] = [kind |-> "poll"]
    BY <1>1 DEF AsyncInv, CallsFit
  <2>2. /\ \A k \in Service : call'[k] # None => at'[k] = "poll" /\ call'[k] = [kind |-> "poll"]
        /\ \A k \in Service : at'[k] = "publish" => result'[k] # None
    BY <1>1 DEF AsyncInv, CallsFit
  <2>3. \A i \in 1 .. count' : Queued'[i] \in Message
    BY <1>1, <1>2 DEF AsyncInv, CallsFit
  <2> QED
    BY <1>1, <2>1, <2>2, <2>3 DEF CallsFit, Sleepers
<1>4. \A k \in Service : (Holds(k)' <=> Holds(k)) /\ result'[k] = result[k]
  BY <1>1 DEF Holds
<1>5. Pending(th) /\ ~Pending(th)' /\ \A u \in Thread \ {th} : Pending(u)' <=> Pending(u)
  BY <1>1 DEF Pending
<1>6. /\ Given(th) = published[th] - 1
      /\ \A m \in Message : m.n <= Given(m.from) => (m.n <= Given(m.from))'
      /\ (\A m \in Message : m = x => m.n <= Given(m.from))'
  <2>1. Given(th) = published[th] - 1
    BY <1>5 DEF Given
  <2>2. \A m \in Message : m.n <= Given(m.from) => (m.n <= Given(m.from))'
    BY <1>5, Carried DEF Given, Pending
  <2>3. (\A m \in Message : m = x => m.n <= Given(m.from))'
    BY <1>1, <1>5, Carried DEF Given, Pending
  <2> QED
    BY <2>1, <2>2, <2>3
<1> HIDE DEF x
<1>7. InLine'
  <2> SUFFICES ASSUME Calm
               PROVE  InLine'
    BY DEF InLine, Calm
  <2>1. \A m \in Message : m.n <= Given(m.from) => Before(m, x)
    BY <1>1, <1>6, Carried DEF Before
  <2>2. (\A i, j \in 1 .. Len(sent) : i < j => Before(sent[i], sent[j]))'
    BY DEF AsyncInv, InLine, Before
  <2>3. \A i, j \in 1 .. count' : i < j => Before(Queued'[i], Queued'[j])
    <3>1. ASSUME NEW i \in 1 .. count', NEW j \in 1 .. count', i < j
          PROVE  Before(Queued'[i], Queued'[j])
      <4>1. i \in 1 .. count
        BY <1>1, <3>1
      <4>2. CASE j \in 1 .. count
        BY <1>1, <3>1, <4>1, <4>2 DEF AsyncInv, InLine
      <4>3. CASE j = count + 1
        BY <1>1, <2>1, <4>1, <4>3, Carried DEF AsyncInv, InLine
      <4> QED
        BY <1>2, <4>2, <4>3
    <3> QED
      BY <3>1
  <2>4. \A i \in 1 .. Len(sent), j \in 1 .. count' : Before(sent[i], Queued'[j])
    BY <1>1, <1>2, <2>1, Carried DEF AsyncInv, InLine
  <2>5. (\A i \in 1 .. Len(sent) : sent[i].n <= Given(sent[i].from))'
    BY <1>6, Carried DEF AsyncInv, InLine, Given, Pending
  <2>6. (\A j \in 1 .. count : Queued[j].n <= Given(Queued[j].from))'
    <3>1. ASSUME NEW j \in 1 .. count', NEW m \in Message, m = Queued'[j]
          PROVE  (m.n <= Given(m.from))'
      <4>1. CASE j \in 1 .. count
        <5>1. m = Queued[j]
          BY <1>1, <3>1, <4>1
        <5>2. m.n <= Given(m.from)
          BY <4>1, <5>1 DEF AsyncInv, InLine
        <5> QED
          BY <1>6, <5>2
      <4>2. CASE j = count + 1
        <5>1. m = x
          BY <1>1, <3>1, <4>2
        <5> QED
          BY <1>1, <1>6, <5>1, Carried DEF Given, Pending
      <4> QED
        BY <1>2, <4>1, <4>2
    <3>2. \A j \in 1 .. count' : Queued'[j] \in Message
      BY <1>1, <1>2, Carried
    <3> QED
      BY <3>1, <3>2 DEF Given, Pending
  <2>7. ASSUME NEW k \in Service, Holds(k)'
        PROVE  /\ \A i \in 1 .. Len(sent) : Before(sent[i], result'[k])
               /\ \A j \in 1 .. count' : Before(result'[k], Queued'[j])
               /\ (result[k].n <= Given(result[k].from))'
    <3>1. Holds(k) /\ result'[k] = result[k] /\ result[k] \in Message
      BY <1>4, <2>7, Carried
    <3>2. /\ \A i \in 1 .. Len(sent) : Before(sent[i], result[k])
          /\ \A j \in 1 .. count : Before(result[k], Queued[j])
          /\ result[k].n <= Given(result[k].from)
      BY <3>1 DEF AsyncInv, InLine
    <3>3. (result[k].n <= Given(result[k].from))'
      BY <1>6, <3>1, <3>2 DEF Given, Pending
    <3>4. \A j \in 1 .. count' : Before(result[k], Queued'[j])
      BY <1>1, <1>2, <2>1, <3>1, <3>2
    <3> QED
      BY <3>1, <3>2, <3>3, <3>4
  <2> QED
    BY <2>2, <2>3, <2>4, <2>5, <2>6, <2>7 DEF InLine, Before
<1>8. Served'
  <2> SUFFICES ASSUME lapses = {}
               PROVE  Served'
    BY DEF Served
  <2>1. service # 0 /\ Working(service)
    <3>1. service # 0
      BY <1>1 DEF AsyncInv, Served
    <3>2. ASSUME NEW u \in Thread, step[u] \in {"await", "reset"}
          PROVE  FALSE
      BY <1>1, <3>2 DEF AsyncInv, Served, Disconnecting
    <3> QED
      BY <3>1, <3>2 DEF AsyncInv, Served
  <2> QED
    BY <2>1 DEF AsyncInv, Served, Disconnecting, Working, Quiet
<1>9. NoneLost'
  <2> SUFFICES ASSUME lapses = {}
               PROVE  NoneLost'
    BY DEF NoneLost
  <2>1. ASSUME NEW u \in Thread, NEW n \in Nat, Somewhere([from |-> u, n |-> n])
        PROVE  Somewhere([from |-> u, n |-> n])'
    <3> DEFINE m == [from |-> u, n |-> n]
    <3>1. CASE \E i \in 1 .. Len(sent) : sent[i] = m
      BY <3>1 DEF Somewhere
    <3>2. CASE \E k \in Service : Holds(k) /\ result[k] = m
      <4>1. \E k \in Service : Holds(k)' /\ result'[k] = m
        BY <1>4, <3>2
      <4> QED
        BY <4>1 DEF Somewhere
    <3>3. CASE \E j \in 1 .. count : Queued[j] = m
      <4>1. \E j \in 1 .. count' : Queued'[j] = m
        BY <1>1, <3>3
      <4> QED
        BY <4>1 DEF Somewhere
    <3>4. CASE Pending(u) /\ n = published[u] /\ u # th
      <4>1. Pending(u)'
        BY <1>5, <3>4
      <4> QED
        BY <3>4, <4>1 DEF Somewhere
    <3>5. CASE n = published[u] /\ u = th
      <4>1. count + 1 \in 1 .. count' /\ Queued'[count + 1] = m
        BY <1>1, <3>5 DEF x
      <4>2. \E j \in 1 .. count' : Queued'[j] = m
        BY <4>1
      <4> QED
        BY <4>2 DEF Somewhere
    <3> QED
      BY <2>1, <3>1, <3>2, <3>3, <3>4, <3>5 DEF Somewhere
  <2>2. ASSUME NEW u \in Thread, NEW n \in 1 .. published'[u]
        PROVE  Somewhere([from |-> u, n |-> n])'
    <3>1. n \in Nat /\ n \in 1 .. published[u]
      BY Carried
    <3> QED
      BY <2>1, <3>1 DEF AsyncInv, NoneLost
  <2> QED
    BY <2>2 DEF NoneLost
<1> QED
  BY <1>3, <1>7, <1>8, <1>9, OperationCommon DEF AsyncInv

\* Any step inside an operation of the queue keeps the invariant.
LEMMA QueueStepInv ==
  ASSUME AsyncInv, NEW th \in Thread \cup Service, QueueStep(th)
  PROVE  AsyncInv'
  BY OperationCommon, NothingMovedInv, TakesInv, PutsInv
-----------------------------------------------------------------------------
\* The invariant holds to begin with.
LEMMA InitInv ==
  ASSUME Init
  PROVE  AsyncInv
<1> USE AsyncAssumption DEF Init, Q!Init
<1>1. TypeOK
  <2>1. Q!TypeOK
    BY DEF Q!TypeOK, Q!Slot
  <2>2. /\ step \in [Thread -> Step] /\ 0 \in 0 .. MaxServices /\ 0 \in 0 .. MaxLinks
        /\ at \in [Service -> {"none", "test", "poll", "publish", "ended"}]
        /\ sent \in Seq(Message)
    BY DEF Step
  <2> QED
    BY <2>1, <2>2 DEF TypeOK
<1>2. Q!QueueInv
  BY <1>1 DEF TypeOK, Q!QueueInv, Q!Untimed
<1>3. CallsFit
  BY DEF CallsFit
<1>4. ServicesFit
  <2>1. Creating = {}
    BY DEF Creating
  <2> QED
    BY <2>1, FS_EmptySet DEF ServicesFit, Disconnecting, Service
<1>5. OnePublisher /\ Served
  BY DEF OnePublisher, Served, Disconnecting, Working, Quiet
<1>6. InLine /\ NoneLost
  BY DEF InLine, NoneLost, Holds
<1> QED
  BY <1>1, <1>2, <1>3, <1>4, <1>5, <1>6 DEF AsyncInv

\* Every step keeps the invariant.
LEMMA StepInv ==
  ASSUME AsyncInv, [Next]_vars
  PROVE  AsyncInv'
<1>1. ASSUME NEW th \in Thread, Publish(th) \/ StopTimesOut(th)
      PROVE  AsyncInv'
  BY <1>1, PublishInv, StopTimesOutInv
<1>2. ASSUME NEW th \in Thread, PublishSteps(th)
      PROVE  AsyncInv'
  BY <1>2, FindServiceInv, CreateServiceInv, PublishReturnsInv DEF PublishSteps
<1>3. ASSUME NEW th \in Thread, DisconnectSteps(th)
      PROVE  AsyncInv'
  BY <1>3, StopInv, StopAwaitedInv, ResetInv, DrainInv, DiscardInv, CloseInv DEF DisconnectSteps
<1>4. ASSUME NEW th \in Owner, Disconnect(th) \/ Connect(th)
      PROVE  AsyncInv'
  BY <1>4, DisconnectInv, ConnectInv
<1>5. ASSUME NEW k \in Service, ServiceSteps(k)
      PROVE  AsyncInv'
  BY <1>5, PollInv, PolledInv, MwPublishInv, EndsInv, QueueStepInv DEF ServiceSteps
<1>6. CASE Destroy
  BY <1>6, DestroyInv
<1>7. CASE UNCHANGED vars
  <2> USE <1>7 DEF vars, services, link, threads, history
  <2>1. (Q!QueueInv)' /\ Sleepers' /\ UNCHANGED <<count, Queued, call, result>>
    BY QueueStands
  <2>2. TypeOK' /\ CallsFit'
    BY <2>1 DEF AsyncInv, TypeOK, Q!QueueInv, CallsFit, Sleepers
  <2>3. ServicesFit' /\ OnePublisher' /\ Served'
    BY <2>1 DEF AsyncInv, ServicesFit, OnePublisher, Served, Creating, Disconnecting, Working,
                Calm, Quiet
  <2>4. InLine' /\ NoneLost'
    BY <2>1, InLineKept, NoneLostKept DEF Calm, Holds, Given, Pending
  <2> QED
    BY <2>1, <2>2, <2>3, <2>4 DEF AsyncInv
<1>8. ASSUME NEW th \in Thread, CallerSteps(th)
      PROVE  AsyncInv'
  BY <1>2, <1>3, <1>8, QueueStepInv DEF CallerSteps
<1> QED
  BY <1>1, <1>4, <1>5, <1>6, <1>7, <1>8 DEF Next

\* The inductive invariant of asynchronous publishing, for every capacity, number of
\* threads and number of publishers.
THEOREM AsyncHolds == Spec => []AsyncInv
<1>1. Init => AsyncInv
  BY InitInv
<1>2. AsyncInv /\ [Next]_vars => AsyncInv'
  BY StepInv
<1> QED
  BY <1>1, <1>2, PTL DEF Spec

\* When one thread alone connects and disconnects, the messages of a thread reach the
\* middleware in the order it published them, whatever publishes of others they overlap
\* with, disconnect() included.
THEOREM OrderIsKept ==
  ASSUME OneOwner
  PROVE  Spec => []OrderKept
<1>1. AsyncInv => OrderKept
  <2> SUFFICES ASSUME AsyncInv, lapses \cap {"race", "timeout"} = {}
               PROVE  \A i, j \in 1 .. Len(sent) :
                        i < j /\ sent[i].from = sent[j].from => sent[i].n < sent[j].n
    BY DEF OrderKept
  <2>1. Calm
    BY DEF Calm
  <2> QED
    BY <2>1 DEF AsyncInv, InLine, Before
<1> QED
  BY <1>1, AsyncHolds, PTL

\* Once disconnect() has returned, every message whose publish() had returned has
\* been handed to the middleware.
THEOREM DisconnectFlushes == Spec => []Flushed
<1>1. ASSUME AsyncInv, lapses = {}, ~connected, NEW th \in Thread, NEW n \in 1 .. published[th]
      PROVE  \E i \in 1 .. Len(sent) : sent[i] = [from |-> th, n |-> n]
  <2>1. Calm /\ service = 0 /\ count = 0 /\ step[th] # "put"
    BY <1>1 DEF AsyncInv, Calm, Served
  <2>2. \A k \in Service : ~Working(k)
    BY <1>1, <2>1 DEF AsyncInv, OnePublisher, Service
  <2>3. \A k \in Service : ~Holds(k)
    BY <2>2 DEF Holds, Working
  <2>4. Somewhere([from |-> th, n |-> n])
    BY <1>1 DEF AsyncInv, NoneLost
  <2> QED
    BY <2>1, <2>3, <2>4 DEF Somewhere, Pending
<1>2. AsyncInv => Flushed
  BY <1>1 DEF Flushed
<1> QED
  BY <1>2, AsyncHolds, PTL

\* No publisher's thread uses the queue or the middleware of a Connection that has
\* been freed.
THEOREM NothingDoesOutlive == Spec => []NothingOutlives
<1>1. ASSUME AsyncInv, lapses = {}, destroyed
      PROVE  \A k \in Service : ~Working(k)
  <2>1. Calm /\ service = 0
    BY <1>1 DEF AsyncInv, Calm, Served
  <2> QED
    BY <1>1, <2>1 DEF AsyncInv, OnePublisher, Service
<1>2. AsyncInv => NothingOutlives
  BY <1>1 DEF NothingOutlives
<1> QED
  BY <1>2, AsyncHolds, PTL
=============================================================================
