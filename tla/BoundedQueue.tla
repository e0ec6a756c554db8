---------------------------- MODULE BoundedQueue ----------------------------
(***************************************************************************)
(* util/BoundedQueue.h: a ring of items with one mutex and one condition,  *)
(* on which both those that want an item and those that want room wait,    *)
(* and which is signalled for one of them after every change.  Operations  *)
(* hold the mutex, so that each stretch from taking it to leaving it, or   *)
(* to a wait on the condition, is one step.                                *)
(*                                                                         *)
(* A call ends with `result`: the item it has moved, or None.              *)
(***************************************************************************)
EXTENDS Integers, Sequences, FiniteSets

CONSTANTS Thread,
          Item,
          None,
          Capacity,  \* size given to the constructor
          Producer,  \* threads that put or offer; the others take or poll
          Putting,   \* the calls made by producers: "put", "offer", "offer_for"
          Getting    \* those of the others: "take", "poll"

ASSUME QueueAssumption ==
  /\ Capacity \in Nat \ {0} /\ None \notin Item
  /\ Producer \subseteq Thread
  /\ Putting \subseteq {"put", "offer", "offer_for"} /\ Getting \subseteq {"take", "poll"}

VARIABLES
  data, front, rear, count,  \* the ring
  call,    \* the operation each thread is in
  asleep,  \* threads blocked in condition.wait()
  woken,   \* threads that have been signalled but do not have the mutex yet
  result   \* what the last call of each thread has moved

ring == <<data, front, rear, count>>
vars == <<ring, call, asleep, woken, result>>

Slot == 0 .. Capacity - 1

Call == [kind : {"put", "offer", "offer_for"}, item : Item] \cup [kind : {"take", "poll"}]

TypeOK ==
  /\ data \in [Slot -> Item \cup {None}]
  /\ front \in Slot /\ rear \in Slot /\ count \in Nat
  /\ call \in [Thread -> Call \cup {None}]
  /\ asleep \subseteq Thread /\ woken \subseteq Thread
  /\ result \in [Thread -> Item \cup {None}]

Init ==
  /\ data = [s \in Slot |-> None]
  /\ front = 0 /\ rear = 0 /\ count = 0
  /\ call = [th \in Thread |-> None]
  /\ asleep = {} /\ woken = {}
  /\ result = [th \in Thread |-> None]
-----------------------------------------------------------------------------
\* The thread has, or can take, the mutex inside an operation of these kinds.
Runs(th, kinds) == th \notin asleep /\ call[th] # None /\ call[th].kind \in kinds

Begin(th, c) ==
  /\ call[th] = None
  /\ call' = [call EXCEPT ![th] = c]
  /\ result' = [result EXCEPT ![th] = None]
  /\ UNCHANGED <<ring, asleep, woken>>

Returns(th, x) ==
  /\ call' = [call EXCEPT ![th] = None]
  /\ result' = [result EXCEPT ![th] = x]

\* condition.signal(): one of those that wait, if any does.
Signal(th) ==
  \/ /\ asleep = {}
     /\ woken' = woken \ {th}
     /\ UNCHANGED asleep
  \/ \E u \in asleep : /\ asleep' = asleep \ {u}
                       /\ woken' = (woken \ {th}) \cup {u}

Sleep(th) ==
  /\ asleep' = asleep \cup {th}
  /\ woken' = woken \ {th}
  /\ UNCHANGED <<ring, call, result>>

After(slot) == (slot + 1) % Capacity

\* Mutant: those that wait are only told of new items.
Get_NoSignal(th) ==
  /\ Runs(th, {"take", "poll"}) /\ count # 0
  /\ front' = After(front)
  /\ count' = count - 1
  /\ woken' = woken \ {th}
  /\ Returns(th, data[front])
  /\ UNCHANGED <<data, rear, asleep>>

\* pollCommon(), for take() and poll().
Get(th) ==
  /\ Runs(th, {"take", "poll"}) /\ count # 0
  /\ front' = After(front)
  /\ count' = count - 1
  /\ Signal(th)
  /\ Returns(th, data[front])
  /\ UNCHANGED <<data, rear>>

AwaitItem(th) ==
  /\ Runs(th, {"take", "poll"}) /\ count = 0
  /\ Sleep(th)

\* Mutant: nor does put() look again.
HasRoom_Once(th) == count # Capacity \/ th \in woken

\* put() and offer(item) look whether the queue is full; offer(item, ms) does not
\* look again after its wait.
HasRoom(th) == count # Capacity \/ (call[th].kind = "offer_for" /\ th \in woken)

\* offerCommon().
Insert(th) ==
  /\ Runs(th, {"put", "offer", "offer_for"}) /\ HasRoom(th)
  /\ data' = [data EXCEPT ![rear] = call[th].item]
  /\ rear' = After(rear)
  /\ count' = count + 1
  /\ Signal(th)
  /\ Returns(th, call[th].item)
  /\ UNCHANGED front

AwaitRoom(th) ==
  /\ Runs(th, {"put", "offer_for"}) /\ ~HasRoom(th)
  /\ Sleep(th)

Refuse(th) ==
  /\ Runs(th, {"offer"}) /\ ~HasRoom(th)
  /\ Returns(th, None)
  /\ UNCHANGED <<ring, asleep, woken>>

\* The wait of poll() or offer(item, ms) times out: the queue is not looked at.
TimesOut(th) ==
  /\ th \in asleep /\ call[th].kind \in {"poll", "offer_for"}
  /\ asleep' = asleep \ {th}
  /\ Returns(th, None)
  /\ UNCHANGED <<ring, woken>>

SpuriousWakeup(th) ==
  /\ th \in asleep
  /\ asleep' = asleep \ {th}
  /\ woken' = woken \cup {th}
  /\ UNCHANGED <<ring, call, result>>
-----------------------------------------------------------------------------
\* What a thread does once it is in an operation.
Proceed(th) == Get(th) \/ AwaitItem(th) \/ Insert(th) \/ AwaitRoom(th) \/ Refuse(th)

BeginPut(th) == \E k \in Putting, x \in Item : Begin(th, [kind |-> k, item |-> x])

BeginGet(th) == \E k \in Getting : Begin(th, [kind |-> k])

Next == \/ \E th \in Producer : BeginPut(th)
        \/ \E th \in Thread \ Producer : BeginGet(th)
        \/ \E th \in Thread : Proceed(th) \/ TimesOut(th) \/ SpuriousWakeup(th)

Spec == Init /\ [][Next]_vars

\* Threads run, timers go off, and whoever takes items does not stop doing so.
FairSpec ==
  /\ Spec
  /\ \A th \in Thread : WF_vars(Proceed(th)) /\ WF_vars(TimesOut(th))
  /\ \A th \in Thread \ Producer : WF_vars(BeginGet(th))
-----------------------------------------------------------------------------
Contents == [i \in 1 .. count |-> data[(front + i - 1) % Capacity]]

Fifo == INSTANCE BoundedFifo WITH queue <- Contents

\* However puts, takes and timeouts interleave, the ring is a bounded FIFO.
ImplementsFifo == Fifo!Spec

\* Nobody is in offer(item, ms).
Untimed == \A th \in Thread : call[th] # None => call[th].kind # "offer_for"

\* The inductive invariant, where offer(item, ms) is not used: the items lie from
\* front up to rear, and there are no more of them than slots.
QueueInv ==
  /\ TypeOK /\ Untimed
  /\ count <= Capacity
  /\ rear = IF front + count < Capacity THEN front + count ELSE front + count - Capacity

\* BoundedQueue.h:68: "The maximum size of the queue".
WithinCapacity == count <= Capacity

PutWaits == \E th \in Producer : call[th] # None /\ call[th].kind = "put"

PutReturns == \E th \in Producer : result[th] = None /\ result'[th] # None

\* While somebody is in put(), some put() or offer() returns again and again: a
\* signal that goes to another producer instead of the consumer is made up for by
\* the timeout of its poll().
PutsProgress == []<>~PutWaits \/ []<><<PutReturns>>_vars
=============================================================================
