------------------------- MODULE SubscriptionsAlone -------------------------
(***************************************************************************)
(* What of Subscriptions holds only as long as the threads do not get in   *)
(* each other's way, stated with a history of the cases in which they did. *)
(***************************************************************************)
EXTENDS Subscriptions

VARIABLE lapses

\* A thread is inside a subscribe(), a request() or a connect().
Busy(th) == op[th] # None \/ conn[th] # None

\* Two threads are, or another thread does something at once while one is.
Overlap ==
  \/ \E th \in Thread : /\ Busy(th) /\ Busy(th)'
                       /\ op'[th] = op[th] /\ conn'[th] = conn[th]
                       /\ <<subs, connected, ready>>' # <<subs, connected, ready>>
  \/ \E th, other \in Thread : th # other /\ Busy(th)' /\ Busy(other)'

InitL == Init /\ lapses = {}

NextL ==
  /\ Next
  /\ lapses' = lapses \cup (IF Overlap THEN {"overlap"} ELSE {})
                      \cup (IF \E th \in Thread : RenewFails(th) THEN {"renewal"} ELSE {})

SpecL == InitL /\ [][NextL]_<<vars, lapses>>
-----------------------------------------------------------------------------
\* As long as no two operations overlap, and connect() renews
\* every subscription, the middleware forwards the topic of every subscription.
ServedAlone == lapses = {} => Served

\* As long as no two operations overlap, there is one subscription without callback
\* for a topic (InternalConnection.cpp:321-322).
OneReceiverAlone == "overlap" \notin lapses => OneReceiver
-----------------------------------------------------------------------------
\* No other subscription is made between the check for a receiver and its
\* registration.
StillFirst ==
  \A th \in Thread : op[th] # None /\ op[th].step # "check" /\ op[th].cb = None =>
    SameTopic(op[th].topic) = {}

OneAtATime ==
  "overlap" \notin lapses =>
    /\ \A th, other \in Thread : Busy(th) /\ Busy(other) => th = other
    /\ StillFirst

\* What a subscribe() that need not ask the middleware relies on: every topic
\* subscribed to is forwarded, or the loop of connect() has still to come to it.
Forwarded ==
  /\ ready <=> connected /\ \A th \in Thread : conn[th] = None
  /\ \A th \in Thread : conn[th] # None => (connected <=> conn[th].step # "connect")
  /\ \A th \in Thread : Walks(th) =>
       /\ conn[th].at \in subs
       /\ \A i \in subs : i.n > conn[th].at.n => i.topic \in mw
       /\ conn[th].step = "next" => conn[th].at.topic \in mw
  /\ \A th \in Thread : op[th] # None => connected
  /\ \A th \in Thread : op[th] # None /\ op[th].step = "register" => op[th].topic \in mw

AloneInv ==
  /\ SubsInv
  /\ \A th \in Thread : op[th] = None \/ conn[th] = None
  /\ OneAtATime /\ (lapses = {} => Forwarded) /\ ServedAlone /\ OneReceiverAlone
=============================================================================
