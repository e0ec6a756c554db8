------------------------- MODULE TicketMutex_proofs -------------------------
(***************************************************************************)
(* Proofs about TicketMutex, for every set of threads and every width of   *)
(* the ticket counters that satisfy TicketAssumption; at the end, that it  *)
(* implements the FIFO lock.                                               *)
(***************************************************************************)
EXTENDS TicketMutex, FiniteSetTheorems, SequenceTheorems, TLAPS

\* The threads in line are finitely many, and no more than there are tickets.
LEMMA OutstandingCount ==
  ASSUME TypeOK
  PROVE  /\ IsFiniteSet(Outstanding)
         /\ Cardinality(Outstanding) \in Nat
         /\ Cardinality(Outstanding) <= Top + 1
<1>1. Outstanding \subseteq Thread
  BY DEF Outstanding
<1>2. /\ IsFiniteSet(Outstanding)
      /\ Cardinality(Outstanding) <= Cardinality(Thread)
  BY <1>1, FS_Subset, TicketAssumption
<1>3. Cardinality(Outstanding) \in Nat /\ Cardinality(Thread) \in Nat
  BY <1>2, FS_CardinalityType, TicketAssumption
<1> QED
  BY <1>2, <1>3, TicketAssumption

\* Two threads inside would hold the same ticket.
LEMMA InvImpliesExclusion == TicketInv => MutualExclusion
  BY DEF TicketInv, TicketsInLine, InsideIsServed, MutualExclusion, Outstanding

\* Nobody is in line to begin with.
LEMMA InitInv == Init => TicketInv
<1> SUFFICES ASSUME Init PROVE TicketInv
  OBVIOUS
<1>1. TypeOK
  BY TicketAssumption DEF Init, TypeOK, Value, PC
<1>2. Outstanding = {}
  BY DEF Init, Outstanding
<1>3. Cardinality(Outstanding) = 0
  BY <1>2, FS_EmptySet
<1>4. TicketsInLine
  BY <1>2, <1>3, TicketAssumption DEF Init, TicketsInLine
<1> QED
  BY <1>1, <1>4 DEF Init, TicketInv, InsideIsServed, NoLostWakeup

\* Drawing a ticket: the new one is the only one of its value.
LEMMA EnterInv ==
  ASSUME TicketInv, NEW p \in Thread, Enter(p)
  PROVE  TicketInv'
<1> USE TicketAssumption
<1> DEFINE n == Cardinality(Outstanding)
<1>0. TypeOK /\ TicketsInLine /\ InsideIsServed /\ NoLostWakeup
  BY DEF TicketInv
<1>1. TypeOK'
  BY <1>0 DEF TypeOK, Enter, Bump, Value, PC
<1>2. p \notin Outstanding /\ Outstanding' = Outstanding \cup {p}
  BY <1>0 DEF Outstanding, Enter, TypeOK
<1>3. n \in Nat /\ IsFiniteSet(Outstanding)
  BY <1>0, OutstandingCount
<1>4. Cardinality(Outstanding') = n + 1
  BY <1>2, <1>3, FS_AddElement
<1>5. n <= Top
  <2>1. Outstanding' \subseteq Thread
    BY <1>2 DEF Outstanding
  <2>2. Cardinality(Outstanding') <= Cardinality(Thread)
    BY <2>1, FS_Subset
  <2>3. Cardinality(Thread) \in Nat
    BY FS_CardinalityType
  <2> QED
    BY <1>3, <1>4, <2>2, <2>3
<1>6. /\ head' = head /\ head \in 0 .. Top /\ tail \in 0 .. Top
      /\ ticket' = [ticket EXCEPT ![p] = tail]
      /\ tail' = Bump(tail)
      /\ tail = IF head + n > Top THEN head + n - Top - 1 ELSE head + n
  BY <1>0 DEF Enter, TypeOK, Value, TicketsInLine
<1>7. ASSUME NEW q \in Outstanding
      PROVE  /\ ticket'[q] = ticket[q] /\ ticket[q] \in 0 .. Top
             /\ Ahead(q) < n /\ Ahead(q)' = Ahead(q)
             /\ ticket[q] # tail
  <2>1. q \in Thread /\ q # p /\ ticket[q] \in 0 .. Top /\ ticket'[q] = ticket[q]
    BY <1>0, <1>2, <1>6 DEF Outstanding, TypeOK, Value
  <2>2. Ahead(q) < n
    BY <1>0 DEF TicketsInLine
  <2>3. ticket[q] # tail
    BY <2>1, <2>2, <1>3, <1>5, <1>6 DEF Ahead
  <2> QED
    BY <2>1, <2>2, <2>3, <1>6 DEF Ahead
<1>8. ticket'[p] = tail /\ Ahead(p)' = n
  <2>1. ticket'[p] = tail
    BY <1>0, <1>6 DEF TypeOK
  <2> QED
    BY <2>1, <1>3, <1>5, <1>6 DEF Ahead
<1>9. TicketsInLine'
  <2>1. \A q, r \in Outstanding' : ticket'[q] = ticket'[r] => q = r
    BY <1>0, <1>2, <1>7, <1>8 DEF TicketsInLine
  <2>2. \A q \in Outstanding' : Ahead(q)' < n + 1
    <3> SUFFICES ASSUME NEW q \in Outstanding' PROVE Ahead(q)' < n + 1
      OBVIOUS
    <3>1. CASE q = p
      BY <3>1, <1>8, <1>3
    <3>2. CASE q \in Outstanding
      <4>1. Ahead(q) \in Int
        BY <3>2, <1>7, <1>6 DEF Ahead
      <4> QED
        BY <3>2, <4>1, <1>7, <1>3
    <3> QED
      BY <3>1, <3>2, <1>2
  <2>3. tail' = IF head' + (n + 1) > Top THEN head' + (n + 1) - Top - 1
                ELSE head' + (n + 1)
    BY <1>3, <1>5, <1>6 DEF Bump
  <2> QED
    BY <2>1, <2>2, <2>3, <1>4 DEF TicketsInLine
<1>10. InsideIsServed' /\ NoLostWakeup'
  BY <1>0, <1>6, <1>8 DEF InsideIsServed, NoLostWakeup, Enter, TypeOK
<1> QED
  BY <1>1, <1>9, <1>10 DEF TicketInv

\* Leaving: everybody in line moves up by one, and everybody is notified.
LEMMA LeaveInv ==
  ASSUME TicketInv, NEW p \in Thread, Leave(p)
  PROVE  TicketInv'
<1> USE TicketAssumption
<1> DEFINE n == Cardinality(Outstanding)
<1>0. TypeOK /\ TicketsInLine /\ InsideIsServed /\ NoLostWakeup
  BY DEF TicketInv
<1>1. TypeOK'
  BY <1>0 DEF TypeOK, Leave, Bump, Value, PC, Broadcast
<1>2. p \in Outstanding /\ Outstanding' = Outstanding \ {p}
  BY <1>0 DEF Outstanding, Leave, Broadcast, TypeOK
<1>3. n \in Nat /\ IsFiniteSet(Outstanding) /\ n <= Top + 1
  BY <1>0, OutstandingCount
<1>4. Cardinality(Outstanding') = n - 1
  BY <1>2, <1>3, FS_RemoveElement
<1>5. /\ head' = Bump(head) /\ head \in 0 .. Top /\ tail \in 0 .. Top
      /\ ticket' = ticket /\ tail' = tail
      /\ tail = IF head + n > Top THEN head + n - Top - 1 ELSE head + n
      /\ ticket[p] = head
  BY <1>0 DEF Leave, TypeOK, Value, TicketsInLine, InsideIsServed
<1>6. n >= 1
  <2>1. Ahead(p) = 0
    BY <1>5 DEF Ahead
  <2> QED
    BY <2>1, <1>0, <1>2, <1>3 DEF TicketsInLine
<1>7. ASSUME NEW q \in Outstanding'
      PROVE  Ahead(q)' < n - 1
  <2>1. q \in Outstanding /\ q # p /\ ticket[q] \in 0 .. Top
    BY <1>0, <1>2 DEF Outstanding, TypeOK, Value
  <2>2. ticket[q] # head
    BY <2>1, <1>0, <1>2, <1>5 DEF TicketsInLine
  <2>3. Ahead(q) < n
    BY <2>1, <1>0 DEF TicketsInLine
  <2>4. Ahead(q)' = Ahead(q) - 1
    BY <2>1, <2>2, <1>5 DEF Ahead, Bump
  <2>5. Ahead(q) \in Int
    BY <2>1, <1>5 DEF Ahead
  <2> QED
    BY <2>3, <2>4, <2>5, <1>3
<1>8. TicketsInLine'
  <2>1. \A q, r \in Outstanding' : ticket'[q] = ticket'[r] => q = r
    BY <1>0, <1>2, <1>5 DEF TicketsInLine
  <2>2. tail' = IF head' + (n - 1) > Top THEN head' + (n - 1) - Top - 1
                ELSE head' + (n - 1)
    BY <1>3, <1>5, <1>6 DEF Bump
  <2> QED
    BY <2>1, <2>2, <1>4, <1>7 DEF TicketsInLine
<1>9. InsideIsServed'
  <2>1. MutualExclusion
    BY InvImpliesExclusion
  <2>2. \A q \in Thread : pc'[q] # "in"
    BY <2>1, <1>0 DEF MutualExclusion, Leave, Broadcast, TypeOK
  <2> QED
    BY <2>2 DEF InsideIsServed
<1>10. NoLostWakeup'
  BY <1>0 DEF NoLostWakeup, Leave, Broadcast, TypeOK
<1> QED
  BY <1>1, <1>8, <1>9, <1>10 DEF TicketInv

\* Waking up, for a notification or for nothing, only re-tests the ticket.
LEMMA WakeInv ==
  ASSUME TicketInv, NEW p \in Thread, Wake(p) \/ Spurious(p)
  PROVE  TicketInv'
<1>0. TypeOK /\ TicketsInLine /\ InsideIsServed /\ NoLostWakeup
  BY DEF TicketInv
<1>1. TypeOK'
  BY <1>0 DEF TypeOK, Wake, Spurious, PC
<1>2. Outstanding' = Outstanding
  BY <1>0 DEF Outstanding, Wake, Spurious, TypeOK
<1>3. head' = head /\ tail' = tail /\ ticket' = ticket
  BY DEF Wake, Spurious
<1>4. TicketsInLine'
  BY <1>0, <1>2, <1>3 DEF TicketsInLine, Ahead
<1>5. InsideIsServed' /\ NoLostWakeup'
  BY <1>0 DEF InsideIsServed, NoLostWakeup, Wake, Spurious, TypeOK
<1> QED
  BY <1>1, <1>4, <1>5 DEF TicketInv

\* Every state of the lock satisfies the inductive invariant.
THEOREM TicketInvariant == Spec => []TicketInv
<1>1. Init => TicketInv
  BY InitInv
<1>2. TicketInv /\ [Next]_vars => TicketInv'
  <2> SUFFICES ASSUME TicketInv, [Next]_vars PROVE TicketInv'
    OBVIOUS
  <2>1. ASSUME NEW p \in Thread, Enter(p) PROVE TicketInv'
    BY <2>1, EnterInv
  <2>2. ASSUME NEW p \in Thread, Leave(p) PROVE TicketInv'
    BY <2>2, LeaveInv
  <2>3. ASSUME NEW p \in Thread, Wake(p) \/ Spurious(p) PROVE TicketInv'
    BY <2>3, WakeInv
  <2>4. CASE UNCHANGED vars
    BY <2>4 DEF vars, TicketInv, TypeOK, TicketsInLine, InsideIsServed,
                NoLostWakeup, Outstanding, Ahead
  <2> QED
    BY <2>1, <2>2, <2>3, <2>4 DEF Next
<1> QED
  BY <1>1, <1>2, PTL DEF Spec

\* Type correctness of TicketMutex.
THEOREM TypeCorrect == Spec => []TypeOK
<1>1. TicketInv => TypeOK
  BY DEF TicketInv
<1> QED
  BY <1>1, TicketInvariant, PTL

\* At most one thread is between enter() and leave(), for every number of
\* threads and every counter width that can tell them apart.
THEOREM Exclusion == Spec => []MutualExclusion
  BY InvImpliesExclusion, TicketInvariant, PTL

\* The broadcast in leave() never misses the thread whose turn has come.
THEOREM WakeupKept == Spec => []NoLostWakeup
<1>1. TicketInv => NoLostWakeup
  BY DEF TicketInv
<1> QED
  BY <1>1, TicketInvariant, PTL

\* The tickets in use are the consecutive values from head to tail.
THEOREM TicketsConsecutive == Spec => []TicketsInLine
<1>1. TicketInv => TicketsInLine
  BY DEF TicketInv
<1> QED
  BY <1>1, TicketInvariant, PTL
-----------------------------------------------------------------------------
\* The threads in line have different places, of those there are.
LEMMA AheadFits ==
  ASSUME TicketInv
  PROVE  \A p, q \in Outstanding :
           /\ Ahead(p) \in 0 .. Cardinality(Outstanding) - 1
           /\ Ahead(p) = Ahead(q) => p = q
<1>1. head \in 0 .. Top /\ Top \in Nat /\ \A p \in Outstanding : ticket[p] \in 0 .. Top
  BY TicketAssumption DEF TicketInv, TypeOK, Value, Outstanding
<1>2. \A p \in Outstanding : Ahead(p) \in Nat /\ Ahead(p) < Cardinality(Outstanding)
  BY <1>1 DEF Ahead, TicketInv, TicketsInLine
<1>3. \A p, q \in Outstanding : Ahead(p) = Ahead(q) => ticket[p] = ticket[q]
  BY <1>1 DEF Ahead
<1>4. Cardinality(Outstanding) \in Nat
  BY OutstandingCount DEF TicketInv
<1> QED
  BY <1>2, <1>3, <1>4 DEF TicketInv, TicketsInLine

\* There are as many of them as places: none is empty.
LEMMA EveryPlaceTaken ==
  ASSUME TicketInv, NEW v \in 0 .. Cardinality(Outstanding) - 1
  PROVE  \E p \in Outstanding : Ahead(p) = v
<1> DEFINE n == Cardinality(Outstanding)
           others == (0 .. n - 1) \ {v}
           place == [p \in Outstanding |-> Ahead(p)]
<1>1. n \in Nat /\ IsFiniteSet(Outstanding) /\ n > 0
  BY OutstandingCount DEF TicketInv
<1>2. IsFiniteSet(others) /\ Cardinality(others) = n - 1
  <2>1. IsFiniteSet(0 .. n - 1) /\ Cardinality(0 .. n - 1) = n
    <3>1. 0 \in Int /\ n - 1 \in Int /\ ~(0 > n - 1)
      BY <1>1
    <3> QED
      BY <1>1, <3>1, FS_Interval
  <2> QED
    BY <2>1, FS_RemoveElement
<1> SUFFICES ASSUME \A p \in Outstanding : Ahead(p) # v
             PROVE  FALSE
  OBVIOUS
<1>3. place \in [Outstanding -> others]
  BY AheadFits
<1>4. \E p, q \in Outstanding : p # q /\ place[p] = place[q]
  <2>1. Cardinality(others) < Cardinality(Outstanding)
    BY <1>1, <1>2
  <2> HIDE DEF others, place
  <2> QED
    BY <1>1, <1>2, <1>3, <2>1, FS_PigeonHole
<1> QED
  BY <1>4, AheadFits

\* Every thread in line has one place in Line, and every place one thread.
LineFits ==
  /\ Line \in Seq(Thread) /\ Len(Line) = Cardinality(Outstanding) /\ Len(Line) \in Nat
  /\ \A i \in 1 .. Len(Line) : Line[i] \in Outstanding /\ Ahead(Line[i]) = i - 1
  /\ \A p \in Outstanding :
       Ahead(p) \in Int /\ Ahead(p) + 1 \in 1 .. Len(Line) /\ Line[Ahead(p) + 1] = p

\* In every state of the lock.
LEMMA LineLemma == TicketInv => LineFits
<1> SUFFICES ASSUME TicketInv
             PROVE  LineFits
  OBVIOUS
<1> DEFINE n == Cardinality(Outstanding)
<1>1. n \in Nat /\ Outstanding \subseteq Thread
  BY OutstandingCount DEF TicketInv, Outstanding
<1>2. \A i \in 1 .. n : Line[i] \in Outstanding /\ Ahead(Line[i]) = i - 1
  <2> SUFFICES ASSUME NEW i \in 1 .. n
               PROVE  Line[i] \in Outstanding /\ Ahead(Line[i]) = i - 1
    OBVIOUS
  <2>1. \E p \in Outstanding : Ahead(p) = i - 1
    BY <1>1, EveryPlaceTaken
  <2>2. Line[i] = CHOOSE p \in Outstanding : Ahead(p) = i - 1
    BY DEF Line
  <2> QED
    BY <2>1, <2>2
<1>3. Line \in Seq(Thread) /\ Len(Line) = n
  <2>1. Line = [i \in 1 .. n |-> Line[i]]
    BY DEF Line
  <2> HIDE DEF n
  <2> QED
    BY <1>1, <1>2, <2>1, IsASeq
<1>4. ASSUME NEW p \in Outstanding
      PROVE  Ahead(p) \in Int /\ Ahead(p) + 1 \in 1 .. n /\ Line[Ahead(p) + 1] = p
  <2>1. Ahead(p) \in Int /\ Ahead(p) + 1 \in 1 .. n /\ (Ahead(p) + 1) - 1 = Ahead(p)
    BY <1>1, AheadFits
  <2> QED
    BY <1>2, <2>1, AheadFits
<1> QED
  BY <1>1, <1>2, <1>3, <1>4 DEF LineFits

\* A step that leaves head and the tickets alone leaves the line alone.
LEMMA LineStays ==
  ASSUME TicketInv, TicketInv', UNCHANGED <<head, ticket>>, Outstanding' = Outstanding
  PROVE  Line' = Line
<1>1. LineFits /\ LineFits'
  BY LineLemma, PTL
<1>2. \A p : Ahead(p)' = Ahead(p)
  BY DEF Ahead
<1>3. \A i \in 1 .. Len(Line) : Line'[i] = Line[i]
  BY <1>1, <1>2, AheadFits DEF LineFits
<1>4. Len(Line') = Len(Line)
  BY <1>1 DEF LineFits
<1> QED
  BY <1>1, <1>3, <1>4, SeqEqual DEF LineFits

\* A thread that finds nobody in line goes in at once; any other joins the line.
LEMMA EnterAsks ==
  ASSUME TicketInv, NEW p \in Thread, Enter(p)
  PROVE  FifoOrder!Ask(p) \/ FifoOrder!AskAndGrant(p)
<1> DEFINE n == Cardinality(Outstanding)
<1>1. TicketInv'
  BY EnterInv
<1>2. LineFits /\ LineFits'
  BY <1>1, LineLemma, PTL
<1>3. p \notin Outstanding /\ Outstanding' = Outstanding \cup {p}
  BY DEF Outstanding, Enter, TicketInv, TypeOK
<1>4. IsFiniteSet(Outstanding) /\ n \in Nat /\ Cardinality(Outstanding') = n + 1
  BY <1>3, OutstandingCount, FS_AddElement DEF TicketInv
<1>5. /\ head' = head /\ head \in 0 .. Top /\ Top \in Nat
      /\ ticket' = [ticket EXCEPT ![p] = tail] /\ ticket \in [Thread -> 0 .. Top]
      /\ tail = IF head + n > Top THEN head + n - Top - 1 ELSE head + n
  BY TicketAssumption DEF Enter, TicketInv, TypeOK, Value, TicketsInLine
<1>6. n <= Top
  <2>1. Cardinality(Outstanding') <= Cardinality(Thread) /\ Cardinality(Thread) <= Top + 1
    BY <1>3, FS_Subset, TicketAssumption DEF Outstanding
  <2>2. Cardinality(Thread) \in Nat
    BY FS_CardinalityType, TicketAssumption
  <2> QED
    BY <1>4, <1>5, <2>1, <2>2
<1>7. tail = head <=> n = 0
  BY <1>4, <1>5, <1>6
<1>8. Line' = Append(Line, p)
  <2>1. \A q \in Outstanding : q # p /\ q \in Outstanding' /\ Ahead(q)' = Ahead(q)
    BY <1>3, <1>5 DEF Ahead, Outstanding
  <2>2. \A i \in 1 .. n : Line'[i] = Line[i]
    BY <1>2, <1>4, <2>1 DEF LineFits
  <2>3. Line'[n + 1] = p
    <3>1. Ahead(p)' = n
      BY <1>4, <1>5, <1>6 DEF Ahead
    <3> QED
      BY <1>2, <1>3, <3>1 DEF LineFits
  <2>4. /\ Append(Line, p) \in Seq(Thread) /\ Len(Append(Line, p)) = n + 1
        /\ \A i \in 1 .. n : Append(Line, p)[i] = Line[i]
        /\ Append(Line, p)[n + 1] = p
    BY <1>2, AppendProperties DEF LineFits
  <2>5. Line' \in Seq(Thread) /\ Len(Line') = n + 1
    BY <1>2, <1>4 DEF LineFits
  <2>6. \A i \in 1 .. n + 1 : Line'[i] = Append(Line, p)[i]
    BY <1>4, <2>2, <2>3, <2>4
  <2> HIDE DEF n
  <2> QED
    BY <2>4, <2>5, <2>6, SeqEqual
<1>9. CASE n = 0
  <2>1. Line = <<>>
    BY <1>2, <1>9, EmptySeq DEF LineFits
  <2>2. Line' = <<p>>
    BY <1>8, <2>1
  <2>3. Inside' = {p}
    <3>1. Outstanding = {}
      BY <1>4, <1>9, FS_EmptySet
    <3>2. pc' = [pc EXCEPT ![p] = "in"] /\ pc \in [Thread -> PC]
      BY <1>7, <1>9 DEF Enter, TicketInv, TypeOK
    <3> QED
      BY <3>1, <3>2 DEF Inside, Outstanding
  <2> QED
    BY <2>1, <2>2, <2>3 DEF FifoOrder!AskAndGrant
<1>10. CASE n # 0
  <2>1. \A i \in DOMAIN Line : Line[i] # p
    BY <1>2, <1>3, LenProperties DEF LineFits
  <2>2. Inside' = Inside
    <3>1. pc' = [pc EXCEPT ![p] = "waiting"] /\ pc \in [Thread -> PC] /\ pc[p] = "out"
      BY <1>7, <1>10 DEF Enter, TicketInv, TypeOK
    <3> QED
      BY <3>1 DEF Inside
  <2> QED
    BY <1>8, <2>1, <2>2 DEF FifoOrder!Ask
<1> QED
  BY <1>9, <1>10

\* A thread that wakes goes in when it is the first in line, and waits on otherwise.
LEMMA WakeGrants ==
  ASSUME TicketInv, NEW p \in Thread, Wake(p)
  PROVE  FifoOrder!Grant(p) \/ UNCHANGED <<Line, Inside>>
<1>1. TicketInv'
  BY WakeInv
<1>2. /\ UNCHANGED <<head, ticket>> /\ pc \in [Thread -> PC] /\ pc[p] = "woken"
      /\ pc' = [pc EXCEPT ![p] = IF ticket[p] = head THEN "in" ELSE "waiting"]
  BY DEF Wake, TicketInv, TypeOK
<1>3. Outstanding' = Outstanding /\ p \in Outstanding
  BY <1>2 DEF Outstanding
<1>4. Line' = Line
  BY <1>1, <1>2, <1>3, LineStays
<1>5. CASE ticket[p] # head
  <2>1. Inside' = Inside
    BY <1>2, <1>5 DEF Inside
  <2> QED
    BY <1>4, <2>1
<1>6. CASE ticket[p] = head
  <2>1. LineFits
    BY LineLemma
  <2>2. Ahead(p) = 0
    BY <1>6, TicketAssumption DEF Ahead, TicketInv, TypeOK, Value
  <2>3. 1 \in 1 .. Len(Line) /\ Line[1] = p
    BY <1>3, <2>1, <2>2 DEF LineFits
  <2>4. Line # <<>> /\ Head(Line) = p
    BY <2>1, <2>3, EmptySeq DEF LineFits
  <2>5. Inside = {}
    BY <1>2, <1>3, <1>6
       DEF Inside, Outstanding, TicketInv, InsideIsServed, TicketsInLine
  <2>6. Inside' = {p}
    BY <1>2, <1>6, <2>5 DEF Inside
  <2> QED
    BY <1>4, <2>4, <2>5, <2>6 DEF FifoOrder!Grant
<1> QED
  BY <1>5, <1>6

\* The thread that leaves is the first in line, and everybody moves up by one.
LEMMA LeaveReleases ==
  ASSUME TicketInv, NEW p \in Thread, Leave(p)
  PROVE  FifoOrder!Release(p)
<1> DEFINE n == Cardinality(Outstanding)
<1>1. TicketInv'
  BY LeaveInv
<1>2. LineFits /\ LineFits'
  BY <1>1, LineLemma, PTL
<1>3. /\ pc[p] = "in" /\ pc \in [Thread -> PC] /\ pc' = [Broadcast EXCEPT ![p] = "out"]
      /\ head' = Bump(head) /\ ticket' = ticket /\ ticket[p] = head
      /\ head \in 0 .. Top /\ ticket \in [Thread -> 0 .. Top] /\ Top \in Nat
  BY TicketAssumption DEF Leave, TicketInv, TypeOK, Value, InsideIsServed
<1>4. p \in Outstanding /\ Outstanding' = Outstanding \ {p}
  BY <1>3 DEF Outstanding, Broadcast
<1>5. n \in Nat /\ Cardinality(Outstanding') = n - 1
  BY <1>4, OutstandingCount, FS_RemoveElement DEF TicketInv
<1>6. Inside = {p} /\ Inside' = {}
  <2>1. MutualExclusion
    BY InvImpliesExclusion
  <2>2. Inside = {p}
    BY <1>3, <2>1 DEF Inside, MutualExclusion
  <2> QED
    BY <1>3, <2>2 DEF Inside, Broadcast
<1>7. ASSUME NEW q \in Outstanding'
      PROVE  q \in Outstanding /\ Ahead(q)' = Ahead(q) - 1
  <2>1. q \in Outstanding /\ q # p /\ q \in Thread
    BY <1>4 DEF Outstanding
  <2>2. ticket[q] # head
    BY <1>3, <1>4, <2>1 DEF TicketInv, TicketsInLine
  <2> QED
    BY <1>3, <2>1, <2>2 DEF Ahead, Bump
<1>8. Line' = Tail(Line)
  <2>1. Line # <<>>
    BY <1>2, <1>4, EmptySeq DEF LineFits
  <2>2. /\ Tail(Line) \in Seq(Thread) /\ Len(Tail(Line)) = n - 1
        /\ \A i \in 1 .. n - 1 : Tail(Line)[i] = Line[i + 1]
    BY <1>2, <2>1, HeadTailProperties DEF LineFits
  <2>3. Line' \in Seq(Thread) /\ Len(Line') = n - 1
    BY <1>2, <1>5 DEF LineFits
  <2>4. ASSUME NEW i \in 1 .. n - 1
        PROVE  Line'[i] = Line[i + 1]
    <3>1. PICK q \in Outstanding' : q = Line'[i] /\ Ahead(q)' = i - 1
      BY <1>2, <2>3 DEF LineFits
    <3>2. q \in Outstanding /\ Ahead(q) \in Int /\ Ahead(q) - 1 = i - 1
      BY <1>2, <1>7, <3>1 DEF LineFits
    <3>3. Ahead(q) + 1 = i + 1
      BY <1>5, <3>2
    <3> QED
      BY <1>2, <3>1, <3>2, <3>3 DEF LineFits
  <2>5. \A i \in 1 .. n - 1 : Line'[i] = Tail(Line)[i]
    BY <2>2, <2>4
  <2> HIDE DEF n
  <2> QED
    BY <2>2, <2>3, <2>5, SeqEqual
<1> QED
  BY <1>6, <1>8 DEF FifoOrder!Release

\* TicketMutex implements the FIFO lock: at most one thread at a time, in the order of
\* the calls of enter(), however often the counters have wrapped and whatever wakes the
\* waiting threads.
THEOREM TicketsImplementFifo == Spec => ImplementsFifoLock
<1>1. Init => FifoOrder!LockInit
  <2> SUFFICES ASSUME Init
               PROVE  FifoOrder!LockInit
    OBVIOUS
  <2>1. Outstanding = {} /\ Inside = {}
    BY DEF Init, Outstanding, Inside
  <2>2. LineFits
    BY InitInv, LineLemma
  <2>3. Line = <<>>
    BY <2>1, <2>2, FS_EmptySet, EmptySeq DEF LineFits
  <2> QED
    BY <2>1, <2>3 DEF FifoOrder!LockInit
<1>2. TicketInv /\ [Next]_vars => [FifoOrder!LockNext]_(FifoOrder!lockVars)
  <2> SUFFICES ASSUME TicketInv, [Next]_vars
               PROVE  FifoOrder!LockNext \/ UNCHANGED <<Line, Inside>>
    BY DEF FifoOrder!lockVars
  <2>1. ASSUME NEW p \in Thread, Enter(p)
        PROVE  FifoOrder!LockNext
    BY <2>1, EnterAsks DEF FifoOrder!LockNext
  <2>2. ASSUME NEW p \in Thread, Wake(p)
        PROVE  FifoOrder!LockNext \/ UNCHANGED <<Line, Inside>>
    BY <2>2, WakeGrants DEF FifoOrder!LockNext
  <2>3. ASSUME NEW p \in Thread, Leave(p)
        PROVE  FifoOrder!LockNext
    BY <2>3, LeaveReleases DEF FifoOrder!LockNext
  <2>4. ASSUME NEW p \in Thread, Spurious(p)
        PROVE  UNCHANGED <<Line, Inside>>
    <3>1. TicketInv' /\ UNCHANGED <<head, ticket>> /\ Outstanding' = Outstanding
      BY <2>4, WakeInv DEF Spurious, Outstanding, TicketInv, TypeOK
    <3>2. Inside' = Inside
      BY <2>4 DEF Spurious, Inside, TicketInv, TypeOK
    <3> QED
      BY <3>1, <3>2, LineStays
  <2>5. CASE UNCHANGED vars
    BY <2>5 DEF vars, Line, Inside, Outstanding, Ahead
  <2> QED
    BY <2>1, <2>2, <2>3, <2>4, <2>5 DEF Next
<1> QED
  BY <1>1, <1>2, TicketInvariant, PTL DEF Spec, ImplementsFifoLock, FifoOrder!LockSpec
=============================================================================
