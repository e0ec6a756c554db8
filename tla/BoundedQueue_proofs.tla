------------------------ MODULE BoundedQueue_proofs ------------------------
(***************************************************************************)
(* BoundedQueue is a bounded FIFO for every capacity, number of threads    *)
(* and set of items, as long as offer(item, milliseconds) is not used.     *)
(***************************************************************************)
EXTENDS BoundedQueue, SequenceTheorems, TLAPS

\* Arithmetic of the ring: a position less than two turns ahead.
LEMMA Turn ==
  ASSUME NEW C \in Nat \ {0}, NEW n \in 0 .. 2 * C - 1
  PROVE  n % C = IF n < C THEN n ELSE n - C
<1>1. CASE n < C
  BY <1>1
<1>2. CASE n >= C
  <2> DEFINE m == n - C
  <2>1. m \in 0 .. C - 1 /\ n = m + C
    BY <1>2
  <2>2. (m + C) % C = m
    BY <2>1
  <2> QED BY <2>1, <2>2, <1>2
<1> QED BY <1>1, <1>2

\* The next slot, for front and for rear.
LEMMA AfterLemma ==
  ASSUME NEW s \in Slot
  PROVE  After(s) = (IF s + 1 = Capacity THEN 0 ELSE s + 1) /\ After(s) \in Slot
<1>1. Capacity \in Nat \ {0} /\ s \in 0 .. Capacity - 1
  BY QueueAssumption DEF Slot
<1>2. s + 1 \in 0 .. 2 * Capacity - 1
  BY <1>1
<1>3. \A n \in 0 .. 2 * Capacity - 1 : n % Capacity = IF n < Capacity THEN n ELSE n - Capacity
  BY <1>1, Turn
<1>4. After(s) = IF s + 1 = Capacity THEN 0 ELSE s + 1
  BY <1>1, <1>2, <1>3 DEF After
<1> QED BY <1>1, <1>4 DEF Slot

\* Type correctness, for every way of putting.
LEMMA TypesKept ==
  ASSUME TypeOK, [Next]_vars
  PROVE  TypeOK'
<1> USE DEF TypeOK, ring
<1>1. ASSUME NEW th \in Thread, NEW c \in Call, Begin(th, c)
      PROVE  TypeOK'
  BY <1>1 DEF Begin
<1>2. ASSUME NEW th \in Thread, Get(th)
      PROVE  TypeOK'
  <2>1. front' \in Slot /\ count' \in Nat
    BY <1>2, AfterLemma DEF Get
  <2>2. asleep' \subseteq Thread /\ woken' \subseteq Thread
    BY <1>2 DEF Get, Signal
  <2>3. data[front] \in Item \cup {None}
    OBVIOUS
  <2> QED BY <1>2, <2>1, <2>2, <2>3 DEF Get, Returns
<1>3. ASSUME NEW th \in Thread, Insert(th)
      PROVE  TypeOK'
  <2>1. rear' \in Slot /\ count' \in Nat
    BY <1>3, AfterLemma DEF Insert
  <2>2. asleep' \subseteq Thread /\ woken' \subseteq Thread
    BY <1>3 DEF Insert, Signal
  <2>3. call[th].item \in Item
    BY <1>3, QueueAssumption DEF Insert, Runs, Call
  <2> QED BY <1>3, <2>1, <2>2, <2>3 DEF Insert, Returns
<1>4. ASSUME NEW th \in Thread, AwaitItem(th) \/ AwaitRoom(th) \/ SpuriousWakeup(th)
      PROVE  TypeOK'
  BY <1>4 DEF AwaitItem, AwaitRoom, SpuriousWakeup, Sleep
<1>5. ASSUME NEW th \in Thread, Refuse(th) \/ TimesOut(th)
      PROVE  TypeOK'
  BY <1>5 DEF Refuse, TimesOut, Returns
<1>6. ASSUME NEW th \in Thread, BeginPut(th) \/ BeginGet(th)
      PROVE  TypeOK'
  <2>1. PICK c \in Call : Begin(th, c)
    BY <1>6, QueueAssumption DEF BeginPut, BeginGet, Call
  <2> QED BY <2>1, <1>1
<1>7. CASE UNCHANGED vars
  BY <1>7 DEF vars
<1> QED
  BY <1>2, <1>3, <1>4, <1>5, <1>6, <1>7, QueueAssumption DEF Next, Proceed

\* TypeOK holds in every behaviour, also of the queue that overflows.
THEOREM QueueTypes == Spec => []TypeOK
<1>1. Init => TypeOK
  BY QueueAssumption DEF Init, TypeOK, Slot
<1> QED BY <1>1, TypesKept, PTL DEF Spec
-----------------------------------------------------------------------------
\* Without offer(item, ms), a producer inserts only while there is room.
LEMMA InvKept ==
  ASSUME "offer_for" \notin Putting, QueueInv, [Next]_vars
  PROVE  QueueInv'
<1>0. TypeOK /\ TypeOK' /\ Untimed
  BY TypesKept DEF QueueInv
<1>a. Capacity \in Nat \ {0} /\ front \in 0 .. Capacity - 1 /\ count \in 0 .. Capacity
  BY <1>0, QueueAssumption DEF QueueInv, TypeOK, Slot
<1>b. rear = IF front + count < Capacity THEN front + count ELSE front + count - Capacity
  BY DEF QueueInv
<1>1. ASSUME NEW th \in Thread, Get(th)
      PROVE  QueueInv'
  <2>1. count # 0 /\ count' = count - 1 /\ rear' = rear /\ front' = After(front)
    BY <1>1 DEF Get
  <2>2. front' = IF front + 1 = Capacity THEN 0 ELSE front + 1
    BY <1>0, <2>1, AfterLemma DEF TypeOK
  <2>3. rear' = IF front' + count' < Capacity THEN front' + count' ELSE front' + count' - Capacity
    BY <1>a, <1>b, <2>1, <2>2
  <2>4. Untimed'
    BY <1>0, <1>1 DEF Untimed, Get, Returns, TypeOK
  <2>5. count' <= Capacity
    BY <1>a, <2>1
  <2> QED BY <1>0, <2>3, <2>4, <2>5 DEF QueueInv
<1>2. ASSUME NEW th \in Thread, Insert(th)
      PROVE  QueueInv'
  <2>1. count # Capacity
    BY <1>0, <1>2 DEF Insert, HasRoom, Runs, Untimed
  <2>2. count' = count + 1 /\ rear' = After(rear) /\ front' = front
    BY <1>2 DEF Insert
  <2>3. rear' = IF rear + 1 = Capacity THEN 0 ELSE rear + 1
    BY <1>0, <2>2, AfterLemma DEF TypeOK
  <2>4. rear' = IF front' + count' < Capacity THEN front' + count' ELSE front' + count' - Capacity
    BY <1>a, <1>b, <2>1, <2>2, <2>3
  <2>5. Untimed'
    BY <1>0, <1>2 DEF Untimed, Insert, Returns, TypeOK
  <2>6. count' <= Capacity
    BY <1>a, <2>1, <2>2
  <2> QED BY <1>0, <2>4, <2>5, <2>6 DEF QueueInv
<1>3. ASSUME NEW th \in Thread, BeginPut(th) \/ BeginGet(th)
      PROVE  QueueInv'
  <2>1. PICK c \in Call : Begin(th, c) /\ c.kind # "offer_for"
    <3>1. CASE BeginPut(th)
      <4>1. PICK k \in Putting, x \in Item : Begin(th, [kind |-> k, item |-> x])
        BY <3>1 DEF BeginPut
      <4>2. [kind |-> k, item |-> x] \in Call /\ k # "offer_for"
        BY <4>1, QueueAssumption DEF Call
      <4> QED BY <4>1, <4>2
    <3>2. CASE BeginGet(th)
      <4>1. PICK k \in Getting : Begin(th, [kind |-> k])
        BY <3>2 DEF BeginGet
      <4>2. [kind |-> k] \in Call /\ k # "offer_for"
        BY <4>1, QueueAssumption DEF Call
      <4> QED BY <4>1, <4>2
    <3> QED BY <1>3, <3>1, <3>2
  <2>2. Untimed'
    BY <1>0, <2>1 DEF Untimed, Begin, TypeOK
  <2> QED BY <1>0, <2>1, <2>2 DEF QueueInv, Begin, ring
<1>4. ASSUME NEW th \in Thread, AwaitItem(th) \/ AwaitRoom(th) \/ SpuriousWakeup(th)
      PROVE  QueueInv'
  BY <1>0, <1>4 DEF QueueInv, Untimed, AwaitItem, AwaitRoom, SpuriousWakeup, Sleep, ring
<1>5. ASSUME NEW th \in Thread, Refuse(th) \/ TimesOut(th)
      PROVE  QueueInv'
  <2>1. Untimed'
    BY <1>0, <1>5 DEF Untimed, Refuse, TimesOut, Returns, TypeOK
  <2> QED BY <1>0, <1>5, <2>1 DEF QueueInv, Refuse, TimesOut, Returns, ring
<1>6. CASE UNCHANGED vars
  BY <1>0, <1>6 DEF QueueInv, Untimed, vars, ring
<1> QED
  BY <1>1, <1>2, <1>3, <1>4, <1>5, <1>6, QueueAssumption DEF Next, Proceed

\* The inductive invariant, for queues without timed offers.
THEOREM QueueInvariant ==
  ASSUME "offer_for" \notin Putting
  PROVE  Spec => []QueueInv
<1>1. Init => QueueInv
  <2> SUFFICES ASSUME Init PROVE QueueInv
    OBVIOUS
  <2>1. TypeOK /\ Untimed
    BY QueueAssumption DEF Init, TypeOK, Untimed, Slot
  <2> QED BY <2>1, QueueAssumption DEF Init, QueueInv
<1>2. QueueInv /\ [Next]_vars => QueueInv'
  BY InvKept
<1> QED BY <1>1, <1>2, PTL DEF Spec

\* Such a queue never holds more than its size (the property that timed offers
\* break).
THEOREM NeverOverfull ==
  ASSUME "offer_for" \notin Putting
  PROVE  Spec => []WithinCapacity
<1>1. QueueInv => WithinCapacity
  BY DEF QueueInv, WithinCapacity
<1> QED BY <1>1, QueueInvariant, PTL
-----------------------------------------------------------------------------
\* Where the i-th item of a ring lies that begins at slot f.
Place(f, i) == (f + i - 1) % Capacity

\* The i-th slot from f on, round the ring,
LEMMA PlaceLemma ==
  ASSUME NEW f \in Slot, NEW i \in 1 .. Capacity + 1
  PROVE  /\ Place(f, i) = IF f + i - 1 < Capacity THEN f + i - 1 ELSE f + i - 1 - Capacity
         /\ Place(f, i) \in Slot
<1>1. Capacity \in Nat \ {0} /\ f \in 0 .. Capacity - 1
  BY QueueAssumption DEF Slot
<1>2. \A n \in 0 .. 2 * Capacity - 1 : n % Capacity = IF n < Capacity THEN n ELSE n - Capacity
  BY <1>1, Turn
<1>3. f + i - 1 \in 0 .. 2 * Capacity - 1
  BY <1>1
<1>4. Place(f, i) = IF f + i - 1 < Capacity THEN f + i - 1 ELSE f + i - 1 - Capacity
  <2> DEFINE n == f + i - 1
  <2>1. n \in 0 .. 2 * Capacity - 1
    BY <1>3
  <2> HIDE DEF n
  <2>2. n % Capacity = IF n < Capacity THEN n ELSE n - Capacity
    BY <1>2, <2>1
  <2>3. Place(f, i) = n % Capacity
    BY DEF n, Place
  <2>4. Place(f, i) = IF n < Capacity THEN n ELSE n - Capacity
    BY <2>2, <2>3
  <2> QED BY <1>1, <2>4 DEF n
<1> QED BY <1>1, <1>4 DEF Slot

\* The items of a ring d that begins at slot f and holds n of them.
Ring(d, f, n) == [i \in 1 .. n |-> d[Place(f, i)]]

\* and what the n slots from f on hold.
LEMMA RingLemma ==
  ASSUME NEW d \in [Slot -> Item \cup {None}], NEW f \in Slot, NEW n \in 0 .. Capacity
  PROVE  /\ Ring(d, f, n) \in Seq(Item \cup {None})
         /\ Len(Ring(d, f, n)) = n
         /\ \A i \in 1 .. n : Ring(d, f, n)[i] = d[Place(f, i)]
<1>1. n \in Nat /\ 1 .. n \subseteq 1 .. Capacity + 1
  BY QueueAssumption
<1>2. \A i \in 1 .. n : d[Place(f, i)] \in Item \cup {None}
  BY <1>1, PlaceLemma
<1> HIDE DEF Place
<1>3. Ring(d, f, n) \in [1 .. n -> Item \cup {None}]
  BY <1>2 DEF Ring
<1>4. Ring(d, f, n) \in Seq(Item \cup {None}) /\ Len(Ring(d, f, n)) = n
  BY <1>1, <1>3
<1> QED BY <1>4 DEF Ring

\* The contents of the queue are what the slots from front on hold.
LEMMA ContentsAreRing == /\ Contents = Ring(data, front, count)
                         /\ Contents' = Ring(data', front', count')
BY DEF Contents, Ring, Place

\* take() and poll() remove the oldest item.
LEMMA GetTakes ==
  ASSUME QueueInv, QueueInv', NEW th \in Thread, Get(th)
  PROVE  Fifo!Take
<1>1. /\ count \in 1 .. Capacity /\ count' = count - 1 /\ count' \in 0 .. Capacity
      /\ data' = data /\ data \in [Slot -> Item \cup {None}]
      /\ front \in Slot /\ front' \in Slot
      /\ front' = IF front + 1 = Capacity THEN 0 ELSE front + 1
  BY QueueAssumption, AfterLemma DEF Get, QueueInv, TypeOK
<1>2. ASSUME NEW i \in 1 .. count'
      PROVE  Place(front', i) = Place(front, i + 1)
  <2>1. Capacity \in Nat \ {0} /\ i \in 1 .. Capacity + 1 /\ i + 1 \in 1 .. Capacity + 1
    BY <1>1, QueueAssumption
  <2>2. Place(front', i) = IF front' + i - 1 < Capacity THEN front' + i - 1 ELSE front' + i - 1 - Capacity
    BY <1>1, <2>1, PlaceLemma
  <2>3. Place(front, i + 1) = IF front + i < Capacity THEN front + i ELSE front + i - Capacity
    <3>1. Place(front, i + 1) = IF front + (i + 1) - 1 < Capacity
                                  THEN front + (i + 1) - 1 ELSE front + (i + 1) - 1 - Capacity
      BY <1>1, <2>1, PlaceLemma
    <3> QED BY <1>1, <2>1, <3>1 DEF Slot
  <2> QED BY <1>1, <2>1, <2>2, <2>3 DEF Slot
<1> DEFINE S == Item \cup {None}
           before == Contents
           after == Contents'
<1>3. /\ before \in Seq(S) /\ Len(before) = count
      /\ \A i \in 1 .. count : before[i] = data[Place(front, i)]
  BY <1>1, ContentsAreRing, RingLemma
<1>4. /\ after \in Seq(S) /\ Len(after) = count'
      /\ \A i \in 1 .. count' : after[i] = data[Place(front', i)]
  BY <1>1, ContentsAreRing, RingLemma
<1> HIDE DEF S, before, after
<1>5. before # <<>>
  BY <1>1, <1>3, EmptySeq
<1>6. /\ Tail(before) \in Seq(S) /\ Len(Tail(before)) = count'
      /\ \A i \in 1 .. count' : Tail(before)[i] = before[i + 1]
  BY <1>1, <1>3, <1>5, HeadTailProperties
<1>7. \A i \in 1 .. count' : after[i] = Tail(before)[i]
  <2> SUFFICES ASSUME NEW i \in 1 .. count' PROVE after[i] = Tail(before)[i]
    OBVIOUS
  <2>1. i + 1 \in 1 .. count
    BY <1>1
  <2> QED BY <2>1, <1>2, <1>3, <1>4, <1>6
<1>8. after = Tail(before)
  BY <1>4, <1>6, <1>7, SeqEqual
<1> QED BY <1>5, <1>8 DEF Fifo!Take, before, after

\* put() and offer() append an item.
LEMMA InsertPuts ==
  ASSUME QueueInv, QueueInv', NEW th \in Thread, Insert(th)
  PROVE  Fifo!Put /\ Contents' = Append(Contents, call[th].item)
<1>1. call[th].item \in Item
  BY QueueAssumption DEF QueueInv, TypeOK, Insert, Runs, Call
<1>2. /\ count \in 0 .. Capacity /\ count' = count + 1 /\ count' \in 0 .. Capacity
      /\ data' = [data EXCEPT ![rear] = call[th].item]
      /\ data \in [Slot -> Item \cup {None}] /\ data' \in [Slot -> Item \cup {None}]
      /\ front \in Slot /\ front' = front /\ rear \in Slot
      /\ rear = IF front + count < Capacity THEN front + count ELSE front + count - Capacity
  BY QueueAssumption DEF Insert, QueueInv, TypeOK
<1>3. Capacity \in Nat \ {0} /\ count < Capacity
  BY <1>2, QueueAssumption
<1>4. Place(front, count + 1) = rear
  <2>1. count + 1 \in 1 .. Capacity + 1
    BY <1>2, <1>3
  <2>2. Place(front, count + 1) = IF front + (count + 1) - 1 < Capacity
                                    THEN front + (count + 1) - 1 ELSE front + (count + 1) - 1 - Capacity
    BY <1>2, <2>1, PlaceLemma
  <2> QED BY <1>2, <1>3, <2>2 DEF Slot
<1>5. ASSUME NEW i \in 1 .. count
      PROVE  Place(front, i) \in Slot \ {rear}
  <2>1. i \in 1 .. Capacity + 1
    BY <1>2, <1>3
  <2>2. /\ Place(front, i) = IF front + i - 1 < Capacity THEN front + i - 1 ELSE front + i - 1 - Capacity
        /\ Place(front, i) \in Slot
    BY <1>2, <2>1, PlaceLemma
  <2> QED BY <1>2, <1>3, <2>1, <2>2 DEF Slot
<1> DEFINE S == Item \cup {None}
           before == Contents
           after == Contents'
           x == call[th].item
<1>6. /\ before \in Seq(S) /\ Len(before) = count
      /\ \A i \in 1 .. count : before[i] = data[Place(front, i)]
  BY <1>2, ContentsAreRing, RingLemma
<1>7. /\ after \in Seq(S) /\ Len(after) = count'
      /\ \A i \in 1 .. count' : after[i] = data'[Place(front, i)]
  <2> DEFINE d == data'
             n == count'
  <2>1. after = Ring(d, front, n)
    BY <1>2, ContentsAreRing
  <2>2. d \in [Slot -> Item \cup {None}] /\ n \in 0 .. Capacity
    BY <1>2
  <2> HIDE DEF S, after, d, n
  <2>3. /\ Ring(d, front, n) \in Seq(S) /\ Len(Ring(d, front, n)) = n
        /\ \A i \in 1 .. n : Ring(d, front, n)[i] = d[Place(front, i)]
    <3>1. front \in Slot
      BY <1>2
    <3> QED BY <2>2, <3>1, RingLemma DEF S
  <2>4. /\ after \in Seq(S) /\ Len(after) = n
        /\ \A i \in 1 .. n : after[i] = d[Place(front, i)]
    BY <2>1, <2>3
  <2> QED BY <2>4 DEF d, n
<1>8. x \in S /\ x \in Item
  BY <1>1
<1>9. \A s \in Slot : data'[s] = IF s = rear THEN x ELSE data[s]
  BY <1>2
<1> HIDE DEF S, before, after, x
<1>10. /\ Append(before, x) \in Seq(S) /\ Len(Append(before, x)) = count'
       /\ \A i \in 1 .. count : Append(before, x)[i] = before[i]
       /\ Append(before, x)[count + 1] = x
  BY <1>2, <1>6, <1>8, AppendProperties
<1>11. \A i \in 1 .. count' : after[i] = Append(before, x)[i]
  <2> SUFFICES ASSUME NEW i \in 1 .. count' PROVE after[i] = Append(before, x)[i]
    OBVIOUS
  <2>1. CASE i = count + 1
    BY <2>1, <1>2, <1>4, <1>7, <1>9, <1>10
  <2>2. CASE i \in 1 .. count
    BY <2>2, <1>5, <1>6, <1>7, <1>9, <1>10
  <2>3. i = count + 1 \/ i \in 1 .. count
    BY <1>2
  <2> QED BY <2>1, <2>2, <2>3
<1>12. after = Append(before, x)
  BY <1>7, <1>10, <1>11, SeqEqual
<1>13. Len(before) < Capacity
  BY <1>3, <1>6
<1> QED BY <1>8, <1>12, <1>13 DEF Fifo!Put, before, after, x

\* Every step that moves an item is a Put or a Take; all others stutter.
THEOREM QueueIsFifo ==
  ASSUME "offer_for" \notin Putting
  PROVE  Spec => ImplementsFifo
<1>1. Init => Fifo!Init
  <2> SUFFICES ASSUME Init PROVE Contents = <<>>
    BY DEF Fifo!Init
  <2>1. count = 0 /\ front \in Slot /\ data \in [Slot -> Item \cup {None}] /\ 0 \in 0 .. Capacity
    BY QueueAssumption DEF Init, Slot
  <2>2. Contents \in Seq(Item \cup {None}) /\ Len(Contents) = 0
    BY <2>1, ContentsAreRing, RingLemma
  <2> QED BY <2>2, EmptySeq
<1>2. QueueInv /\ QueueInv' /\ [Next]_vars => [Fifo!Put \/ Fifo!Take]_Contents
  <2> SUFFICES ASSUME QueueInv, QueueInv', [Next]_vars
               PROVE  Fifo!Put \/ Fifo!Take \/ UNCHANGED Contents
    OBVIOUS
  <2>1. ASSUME NEW th \in Thread, Get(th) PROVE Fifo!Take
    BY <2>1, GetTakes
  <2>2. ASSUME NEW th \in Thread, Insert(th) PROVE Fifo!Put
    BY <2>2, InsertPuts
  <2>3. ASSUME UNCHANGED ring PROVE UNCHANGED Contents
    BY <2>3 DEF ring, Contents
  <2>4. ASSUME NEW th \in Thread,
               \/ AwaitItem(th) \/ AwaitRoom(th) \/ Refuse(th) \/ TimesOut(th)
               \/ SpuriousWakeup(th) \/ BeginPut(th) \/ BeginGet(th)
        PROVE  UNCHANGED ring
    BY <2>4 DEF AwaitItem, AwaitRoom, Sleep, Refuse, TimesOut, SpuriousWakeup, BeginPut,
                BeginGet, Begin
  <2>5. CASE UNCHANGED vars
    BY <2>3, <2>5 DEF vars
  <2> QED
    BY <2>1, <2>2, <2>3, <2>4, <2>5, QueueAssumption DEF Next, Proceed
<1> QED BY <1>1, <1>2, QueueInvariant, PTL DEF Spec, ImplementsFifo, Fifo!Spec
-----------------------------------------------------------------------------
\* The steps of an operation as those see them that put it to use: what they do to
\* the contents and to the thread's call.
LEMMA ContentsLemma ==
  ASSUME QueueInv
  PROVE  Contents \in Seq(Item \cup {None}) /\ Len(Contents) = count /\ count \in 0 .. Capacity
<1>1. /\ data \in [Slot -> Item \cup {None}] /\ front \in Slot /\ count \in 0 .. Capacity
  BY QueueAssumption DEF QueueInv, TypeOK
<1> QED
  BY <1>1, ContentsAreRing, RingLemma

Takes(th) ==
  /\ call[th].kind \in {"take", "poll"} /\ count > 0
  /\ count' = count - 1
  /\ \A i \in 1 .. count' : Contents'[i] = Contents[i + 1]
  /\ call' = [call EXCEPT ![th] = None] /\ result' = [result EXCEPT ![th] = Contents[1]]

Puts(th) ==
  /\ call[th].kind \in {"put", "offer"}
  /\ count' = count + 1
  /\ \A i \in 1 .. count : Contents'[i] = Contents[i]
  /\ Contents'[count + 1] = call[th].item
  /\ call' = [call EXCEPT ![th] = None] /\ result' = [result EXCEPT ![th] = call[th].item]

Waits == UNCHANGED <<count, Contents, call, result>>

GivesUp(th) ==
  /\ call[th].kind \in {"poll", "offer"}
  /\ UNCHANGED <<count, Contents>>
  /\ call' = [call EXCEPT ![th] = None] /\ result' = [result EXCEPT ![th] = None]

\* What Get() does to the caller and to the contents,
LEMMA GetIsTakes ==
  ASSUME QueueInv, QueueInv', NEW th \in Thread, Get(th)
  PROVE  Takes(th)
<1>1. count \in 1 .. Capacity /\ count' = count - 1 /\ data[front] = Contents[1]
  <2>1. /\ data \in [Slot -> Item \cup {None}] /\ front \in Slot /\ count \in 1 .. Capacity
        /\ Capacity \in Nat \ {0} /\ count' = count - 1
    BY QueueAssumption DEF QueueInv, TypeOK, Get
  <2>2. 1 \in 1 .. count /\ 1 \in 1 .. Capacity + 1 /\ count \in 0 .. Capacity
    BY <2>1
  <2>3. Contents[1] = data[Place(front, 1)]
    BY <2>1, <2>2, ContentsAreRing, RingLemma
  <2>4. Place(front, 1) = front
    <3>1. Place(front, 1) = IF front + 1 - 1 < Capacity THEN front + 1 - 1 ELSE front + 1 - 1 - Capacity
      BY <2>1, <2>2, PlaceLemma
    <3> QED
      BY <2>1, <3>1 DEF Slot
  <2> QED
    BY <2>1, <2>3, <2>4
<1>2. /\ Contents \in Seq(Item \cup {None}) /\ Len(Contents) = count /\ Contents # <<>>
      /\ Contents' = Tail(Contents)
  BY GetTakes, ContentsLemma DEF Fifo!Take
<1>3. \A i \in 1 .. count' : Contents'[i] = Contents[i + 1]
  <2> DEFINE S == Item \cup {None}
             before == Contents
             after == Contents'
  <2>1. before \in Seq(S) /\ Len(before) = count /\ before # <<>> /\ after = Tail(before)
    BY <1>2
  <2> HIDE DEF S, before, after
  <2>2. \A i \in 1 .. count' : after[i] = before[i + 1]
    BY <1>1, <2>1, HeadTailProperties
  <2> QED
    BY <2>2 DEF before, after
<1> QED
  BY <1>1, <1>3 DEF Takes, Get, Runs, Returns

\* and what Insert() does.
LEMMA InsertIsPuts ==
  ASSUME QueueInv, QueueInv', NEW th \in Thread, Insert(th)
  PROVE  Puts(th)
<1>1. /\ call[th].item \in Item
      /\ call[th].kind \in {"put", "offer"}
  BY QueueAssumption DEF QueueInv, TypeOK, Untimed, Insert, Runs, Call
<1>2. /\ Contents \in Seq(Item \cup {None}) /\ Len(Contents) = count /\ count \in 0 .. Capacity
      /\ Contents' = Append(Contents, call[th].item)
  BY InsertPuts, ContentsLemma
<1>3. /\ \A i \in 1 .. count : Contents'[i] = Contents[i]
      /\ Contents'[count + 1] = call[th].item
  <2> DEFINE S == Item \cup {None}
             before == Contents
             after == Contents'
             x == call[th].item
  <2>1. /\ before \in Seq(S) /\ Len(before) = count /\ count \in Nat /\ x \in S
        /\ after = Append(before, x)
    BY <1>1, <1>2
  <2> HIDE DEF S, before, after, x
  <2>2. (\A i \in 1 .. count : after[i] = before[i]) /\ after[count + 1] = x
    BY <2>1, AppendProperties
  <2> QED
    BY <2>2 DEF before, after, x
<1> QED
  BY <1>1, <1>3 DEF Puts, Insert, Returns

\* Only a thread in a call sleeps.
Sleepers == \A u \in asleep : call[u] # None

\* A step inside an operation takes the oldest item, puts one behind all others, gives
\* up, or moves nothing.
LEMMA OperationLemma ==
  ASSUME "offer_for" \notin Putting, QueueInv, Sleepers,
         NEW th \in Thread, Proceed(th) \/ TimesOut(th)
  PROVE  /\ QueueInv' /\ Sleepers' /\ call[th] # None
         /\ Takes(th) \/ Puts(th) \/ Waits \/ GivesUp(th)
<1>1. QueueInv'
  BY InvKept DEF Next
<1>2. call[th] # None
  BY DEF Proceed, Get, AwaitItem, Insert, AwaitRoom, Refuse, Runs, TimesOut, Sleepers
<1>3. Sleepers'
  <2>1. call \in [Thread -> Call \cup {None}] /\ asleep \subseteq Thread
    BY DEF QueueInv, TypeOK
  <2>2. CASE Get(th) \/ Insert(th)
    BY <2>1, <2>2 DEF Get, Insert, Runs, Signal, Returns, Sleepers
  <2>3. CASE AwaitItem(th) \/ AwaitRoom(th)
    BY <1>2, <2>3 DEF AwaitItem, AwaitRoom, Sleep, Sleepers
  <2>4. CASE Refuse(th) \/ TimesOut(th)
    BY <2>1, <2>4 DEF Refuse, TimesOut, Runs, Returns, Sleepers
  <2> QED
    BY <2>2, <2>3, <2>4 DEF Proceed
<1>4. CASE Get(th)
  BY <1>1, <1>2, <1>3, <1>4, GetIsTakes
<1>5. CASE Insert(th)
  BY <1>1, <1>2, <1>3, <1>5, InsertIsPuts
<1>6. CASE AwaitItem(th) \/ AwaitRoom(th)
  <2>1. Waits
    BY <1>6 DEF AwaitItem, AwaitRoom, Sleep, Waits, ring, Contents
  <2> QED
    BY <1>1, <1>2, <1>3, <2>1
<1>7. CASE Refuse(th) \/ TimesOut(th)
  <2>1. call[th].kind \in {"poll", "offer"}
    BY <1>2, <1>7 DEF Refuse, TimesOut, Runs, QueueInv, Untimed
  <2>2. GivesUp(th)
    BY <1>7, <2>1 DEF Refuse, TimesOut, Returns, GivesUp, ring, Contents
  <2> QED
    BY <1>1, <1>2, <1>3, <2>2
<1> QED
  BY <1>4, <1>5, <1>6, <1>7 DEF Proceed

\* An operation that begins.
LEMMA BeginLemma ==
  ASSUME QueueInv, Sleepers, NEW th \in Thread, NEW c \in Call, c.kind # "offer_for", Begin(th, c)
  PROVE  QueueInv' /\ Sleepers' /\ UNCHANGED <<count, Contents>>
<1>1. TypeOK'
  BY DEF QueueInv, TypeOK, Begin, ring
<1>2. Untimed' /\ Sleepers'
  BY QueueAssumption DEF QueueInv, TypeOK, Untimed, Sleepers, Begin
<1> QED
  BY <1>1, <1>2 DEF QueueInv, Begin, ring, Contents
=============================================================================
