---------------------------- MODULE TicketMutex ----------------------------
(***************************************************************************)
(* gmsec5/internal/TicketMutex.cpp: the FIFO mutex that guards reads,      *)
(* writes, events and the message counter of a Connection.                 *)
(*                                                                         *)
(* A thread draws a ticket from `tail` and waits on the condition until    *)
(* `head` shows that ticket; leaving advances `head` and wakes every       *)
(* waiter.  The condition's mutex is held during each of the steps below,  *)
(* and released only inside condition.wait(), so each step is one action:  *)
(*   Enter  - draw a ticket, then go in or start waiting                   *)
(*   Wake   - a notified waiter reacquires the mutex and re-tests          *)
(*   Leave  - advance head, broadcast                                      *)
(* `head` and `tail` are GMSEC_U32 and wrap; Top is the largest value.     *)
(***************************************************************************)
EXTENDS Integers, FiniteSets, Sequences

CONSTANTS Thread,  \* the threads that use one TicketMutex
          Top      \* largest value of head and tail, 2^32 - 1 in the code

\* Tickets are told apart only while there are no more threads than values.
ASSUME TicketAssumption == /\ IsFiniteSet(Thread)
                           /\ Top \in Nat \ {0}
                           /\ Cardinality(Thread) <= Top + 1

VARIABLES head,    \* the ticket being served
          tail,    \* the next ticket to hand out
          ticket,  \* ticket[p]: the local variable `id` of enter()
          pc       \* pc[p]: where p is

vars == <<head, tail, ticket, pc>>

Value == 0 .. Top

\* "out": not using the lock; "waiting": blocked in condition.wait();
\* "woken": notified, and waiting to get the condition's mutex back;
\* "in": between enter() and leave(), AutoTicket::owned is true.
PC == {"out", "waiting", "woken", "in"}

TypeOK == /\ head \in Value
          /\ tail \in Value
          /\ ticket \in [Thread -> Value]
          /\ pc \in [Thread -> PC]

\* Mutant: the counter stops at its largest value.
Bump_Saturates(n) == IF n = Top THEN Top ELSE n + 1

\* ++ on an unsigned counter
Bump(n) == IF n = Top THEN 0 ELSE n + 1

Init == /\ head = 0
        /\ tail = 0
        /\ ticket = [p \in Thread |-> 0]
        /\ pc = [p \in Thread |-> "out"]

\* Mutant: the ticket is drawn with ++tail.
Enter_PreIncrement(p) ==
  /\ pc[p] = "out"
  /\ tail' = Bump(tail)
  /\ ticket' = [ticket EXCEPT ![p] = Bump(tail)]
  /\ pc' = [pc EXCEPT ![p] = IF Bump(tail) = head THEN "in" ELSE "waiting"]
  /\ UNCHANGED head

\* Mutant: a thread that finds nobody inside goes in without looking at its turn.
Enter_Barges(p) ==
  /\ pc[p] = "out"
  /\ tail' = Bump(tail)
  /\ ticket' = [ticket EXCEPT ![p] = tail]
  /\ pc' = [pc EXCEPT ![p] = IF \A q \in Thread : pc[q] # "in" THEN "in" ELSE "waiting"]
  /\ UNCHANGED head

Enter(p) ==
  /\ pc[p] = "out"
  /\ tail' = Bump(tail)
  /\ ticket' = [ticket EXCEPT ![p] = tail]
  /\ pc' = [pc EXCEPT ![p] = IF tail = head THEN "in" ELSE "waiting"]
  /\ UNCHANGED head

\* pthread_cond_wait may also return with nobody having notified.
Spurious(p) ==
  /\ pc[p] = "waiting"
  /\ pc' = [pc EXCEPT ![p] = "woken"]
  /\ UNCHANGED <<head, tail, ticket>>

\* Mutant: `if` in place of `while` around condition.wait().
Wake_NoRetest(p) ==
  /\ pc[p] = "woken"
  /\ pc' = [pc EXCEPT ![p] = "in"]
  /\ UNCHANGED <<head, tail, ticket>>

Wake(p) ==
  /\ pc[p] = "woken"
  /\ pc' = [pc EXCEPT ![p] = IF ticket[p] = head THEN "in" ELSE "waiting"]
  /\ UNCHANGED <<head, tail, ticket>>

\* Condition::broadcast: every blocked thread is notified.
Broadcast == [q \in Thread |-> IF pc[q] = "waiting" THEN "woken" ELSE pc[q]]

\* Mutant: signal() in place of broadcast(): one waiter is notified.
Leave_Signal(p) ==
  /\ pc[p] = "in"
  /\ head' = Bump(head)
  /\ LET waiting == {q \in Thread : pc[q] = "waiting"}
     IN  IF waiting = {} THEN pc' = [pc EXCEPT ![p] = "out"]
         ELSE \E q \in waiting : pc' = [pc EXCEPT ![p] = "out", ![q] = "woken"]
  /\ UNCHANGED <<tail, ticket>>

Leave(p) ==
  /\ pc[p] = "in"
  /\ head' = Bump(head)
  /\ pc' = [Broadcast EXCEPT ![p] = "out"]
  /\ UNCHANGED <<tail, ticket>>

Next == \E p \in Thread : Enter(p) \/ Spurious(p) \/ Wake(p) \/ Leave(p)

\* The scheduler runs a notified thread, and what a thread does inside ends.
Fairness == \A p \in Thread : WF_vars(Wake(p)) /\ WF_vars(Leave(p))

Spec == Init /\ [][Next]_vars
FairSpec == Spec /\ Fairness
-----------------------------------------------------------------------------
Outstanding == {p \in Thread : pc[p] # "out"}

\* The place of p in line: how many tickets are served before its own.
Ahead(p) == IF ticket[p] >= head THEN ticket[p] - head
            ELSE ticket[p] - head + Top + 1

\* The lock is held by at most one thread at a time, whatever the number of
\* times the ticket counters have wrapped.
MutualExclusion == \A p, q \in Thread : pc[p] = "in" /\ pc[q] = "in" => p = q

\* leave() never strands the next thread: one whose turn has come is not left
\* blocked in condition.wait() (it is inside, or notified and about to look).
NoLostWakeup == \A p \in Thread : pc[p] = "waiting" => ticket[p] # head

\* The tickets drawn and not yet returned are exactly the values from head up
\* to tail, each held by one thread: no ticket is skipped, which would stop
\* the line, and none is held twice after a wrap.
TicketsInLine ==
  /\ \A p, q \in Outstanding : ticket[p] = ticket[q] => p = q
  /\ \A p \in Outstanding : Ahead(p) < Cardinality(Outstanding)
  /\ tail = IF head + Cardinality(Outstanding) > Top
            THEN head + Cardinality(Outstanding) - Top - 1
            ELSE head + Cardinality(Outstanding)

\* Whoever is inside is the thread whose ticket is being served.
InsideIsServed == \A p \in Thread : pc[p] = "in" => ticket[p] = head

\* The inductive invariant: what every step of the lock preserves.
TicketInv == TypeOK /\ TicketsInLine /\ InsideIsServed /\ NoLostWakeup

\* A thread that called enter() is served, if each holder leaves.
EveryTicketServed == \A p \in Thread : pc[p] # "out" ~> pc[p] = "in"

Line == [i \in 1 .. Cardinality(Outstanding) |-> CHOOSE p \in Outstanding : Ahead(p) = i - 1]

Inside == {p \in Thread : pc[p] = "in"}

\* TicketMutex implements the FIFO lock: the line is the outstanding threads
\* in the order of their tickets.
FifoOrder == INSTANCE FifoLock WITH line <- Line, inside <- Inside
ImplementsFifoLock == FifoOrder!LockSpec
=============================================================================
