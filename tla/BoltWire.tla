------------------------------ MODULE BoltWire ------------------------------
(***************************************************************************)
(* The TCP links between a Bolt client and the Bolt server.  A link is one *)
(* successful connect of the client's socket; it carries packets in both   *)
(* directions, in order, until it goes down, and never comes back.         *)
(***************************************************************************)
EXTENDS Naturals, Sequences, SequencesExt

CONSTANTS MaxLinks,   \* bound: connections the client makes
          MaxFaults,  \* bound: failures of the network, and answers that come too late
          Pattern,    \* the patterns a client subscribes to, sequences of elements
          Subject,    \* the subjects it publishes on
          None

Link == 1 .. MaxLinks

\* A subject has an element, and ">" and "+" are the last element of a pattern
\* (isValidElement() of Subject.cpp).
ASSUME WireAssumption ==
  /\ MaxLinks \in Nat /\ MaxFaults \in Nat
  /\ Subject \subseteq Seq(STRING) \ {<<>>} /\ Pattern \subseteq Seq(STRING)
  /\ \A p \in Pattern : \A i \in 1 .. Len(p) - 1 : p[i] \notin {">", "+"}
  /\ None \notin [type : STRING, topics : Seq(Seq(STRING)), msg : Nat, cut : BOOLEAN]

VARIABLES
  lk,     \* "none", "up" or "down" for every link
  up,     \* packets on their way to the server
  down,   \* packets queued by the server or on their way to the client
  faults  \* history: how much went wrong

wire == <<lk, up, down, faults>>

\* A packet as far as anybody looks at it: `topics` are TOPIC, TOPIC-2, ... of
\* its metadata, `msg` tells published messages apart; of a packet that is cut only
\* the header arrives.
Packet(type, topics, msg) == [type |-> type, topics |-> topics, msg |-> msg, cut |-> FALSE]
Plain(type) == Packet(type, <<>>, 0)

\* doesSubjectMatchPattern() of gmsec5/internal/Subject.cpp, by which the client
\* side selects callbacks: its loop goes on while element and pattern agree, and
\* returns at a ">" or "+", or at a "+" that follows the last element.
Matches(s, p) ==
  \/ Len(p) = Len(s) /\ \A j \in 1 .. Len(s) : p[j] \in {"*", s[j]}
  \/ s # <<>> /\ \E i \in 1 .. Len(s) + 1 :
       /\ i <= Len(p) /\ (p[i] = "+" \/ (p[i] = ">" /\ i <= Len(s)))
       /\ \A j \in 1 .. i - 1 : p[j] \in {"*", s[j]}

WireInit ==
  /\ lk = [l \in Link |-> "none"]
  /\ up = [l \in Link |-> <<>>] /\ down = [l \in Link |-> <<>>]
  /\ faults = 0

\* The link that a successful connect makes.
Unused == {l \in Link : lk[l] = "none" /\ \A k \in Link : k < l => lk[k] # "none"}

\* What arrives of packets on their way when a link fails: all, none, or a part.
Remains(s) == {<<>>, s} \cup
              (IF s = <<>> THEN {} ELSE {<<[Head(s) EXCEPT !.cut = TRUE]>>})

Fault == faults < MaxFaults /\ faults' = faults + 1

\* The network fails, or one end is thought dead.
Break(l) ==
  /\ lk[l] = "up" /\ Fault
  /\ lk' = [lk EXCEPT ![l] = "down"]
  /\ \E s \in {<<>>, up[l]} : up' = [up EXCEPT ![l] = s]
  /\ \E s \in Remains(down[l]) : down' = [down EXCEPT ![l] = s]
=============================================================================
