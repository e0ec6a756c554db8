------------------------ MODULE ActiveSubscriptions ------------------------
(***************************************************************************)
(* gmsec5/internal/ActiveSubscriptions.cpp: the topics that all the        *)
(* connections of a process are subscribed to, which a heartbeat message   *)
(* reports.  Each operation holds the object's TicketMutex throughout, so  *)
(* it is one step, whichever connection and thread it comes from.          *)
(*                                                                         *)
(* `inUse` is no state of the object: it counts the subscriptions there    *)
(* really are.                                                             *)
(***************************************************************************)
EXTENDS Integers

CONSTANTS Topic,
          MaxUse   \* bound: subscriptions of one topic

VARIABLES registered,  \* m_registered: the subscriptions counted per topic
          topics,      \* m_topics: the topics reported
          inUse

activeVars == <<registered, topics, inUse>>

\* A count may fall below zero once clear() has forgotten subscriptions.
TypeOK == /\ DOMAIN registered \subseteq Topic
          /\ registered \in [DOMAIN registered -> Int]
          /\ topics \subseteq Topic
          /\ inUse \in [Topic -> Nat]

Counted(t) == t \in DOMAIN registered

Init == /\ registered = [t \in {} |-> 0]
        /\ topics = {}
        /\ inUse = [t \in Topic |-> 0]

\* A topic is reported from its first registration on.
AddTopic(t) ==
  \/ /\ ~Counted(t)
     /\ registered' = [u \in DOMAIN registered \cup {t} |-> IF u = t THEN 1 ELSE registered[u]]
     /\ topics' = topics \cup {t}
  \/ /\ Counted(t)
     /\ registered' = [registered EXCEPT ![t] = @ + 1]
     /\ UNCHANGED topics

\* Mutant: the count is looked at before it is decremented.
LastUse_Off(t) == Counted(t) /\ registered[t] = 0

\* Removing the last registration of a topic ends its report.
LastUse(t) == Counted(t) /\ registered[t] = 1

Reported(t) == IF LastUse(t) THEN topics \ {t} ELSE topics

\* The counts are dropped with the last reported topic.
RemoveTopic(t) ==
  /\ topics' = Reported(t)
  /\ registered' = IF Reported(t) = {} THEN [u \in {} |-> 0]
                   ELSE IF Counted(t) THEN [registered EXCEPT ![t] = @ - 1]
                   ELSE registered

\* subscribe() and unsubscribe() of any connection.
Add(t) == /\ inUse[t] < MaxUse
          /\ inUse' = [inUse EXCEPT ![t] = @ + 1]
          /\ AddTopic(t)

Remove(t) == /\ inUse[t] > 0
             /\ inUse' = [inUse EXCEPT ![t] = @ - 1]
             /\ RemoveTopic(t)

Next == \E t \in Topic : Add(t) \/ Remove(t)

Spec == Init /\ [][Next]_activeVars
-----------------------------------------------------------------------------
\* The counts never run ahead of the subscriptions, although clear() and later
\* registrations let them fall behind, and a reported topic is counted.
CountsBehind == /\ \A t \in Topic : Counted(t) => registered[t] <= inUse[t]
                /\ \A t \in topics : Counted(t) /\ registered[t] >= 1

ActiveInv == TypeOK /\ CountsBehind

\* A topic nobody is subscribed to is never reported.
ReportedIsInUse == \A t \in topics : inUse[t] > 0
=============================================================================
