-------------------- MODULE MessageAggregation_proofs --------------------
(***************************************************************************)
(* Proofs about MessageAggregation: for any threads, subjects, bins and    *)
(* bin sizes, and whatever the middleware refuses, the messages of a       *)
(* thread on a subject arrive in order and once, and none is lost in       *)
(* silence.                                                                *)
(***************************************************************************)
EXTENDS MessageAggregation, SequenceTheorems, TLAPS

\* What the variables hold, piece by piece.
LEMMA Pieces ==
  ASSUME AggregationInv
  PROVE  /\ \A b \in Key : messages[b] \in Seq(Message) /\ DOMAIN messages[b] = 1 .. Len(messages[b])
         /\ \A b \in Key : \A i \in DOMAIN messages[b] : messages[b][i] \in Message /\ i \in Nat \ {0}
         /\ \A s \in Subject : wire[s] \in Seq(Bundle) /\ DOMAIN wire[s] = 1 .. Len(wire[s])
         /\ \A s \in Subject : \A a \in DOMAIN wire[s] : \A i \in DOMAIN wire[s][a] :
              i \in Nat \ {0} /\ wire[s][a][i] \in Message
         /\ \A m \in Message : m.from \in Thread /\ m.n \in Nat \ {0} /\ m.subject \in Subject
         /\ \A th \in Thread : Given(th) \in Int /\ published[th] \in Nat
         /\ \A th \in Thread : msg[th] # None => msg[th] \in Message
         /\ None \notin Key
<1> USE DEF AggregationInv, TypeOK
<1>1. \A b \in Key : messages[b] \in Seq(Message) /\ DOMAIN messages[b] = 1 .. Len(messages[b])
  OBVIOUS
<1>2. \A b \in Key : \A i \in DOMAIN messages[b] : messages[b][i] \in Message /\ i \in Nat \ {0}
  BY <1>1
<1>3. \A s \in Subject : wire[s] \in Seq(Bundle) /\ DOMAIN wire[s] = 1 .. Len(wire[s])
  OBVIOUS
<1>4. ASSUME NEW s \in Subject, NEW a \in DOMAIN wire[s], NEW i \in DOMAIN wire[s][a]
      PROVE  i \in Nat \ {0} /\ wire[s][a][i] \in Message
  <2>1. wire[s][a] \in Bundle
    BY <1>3
  <2>2. PICK positions \in SUBSET (Nat \ {0}) : wire[s][a] \in [positions -> Message]
    BY <2>1 DEF Bundle
  <2> QED
    BY <2>2
<1>5. \A m \in Message : m.from \in Thread /\ m.n \in Nat \ {0} /\ m.subject \in Subject
  BY DEF Message
<1>6. \A th \in Thread : Given(th) \in Int /\ published[th] \in Nat
  BY DEF Given
<1>7. None \notin Key
  BY AggregationAssumption DEF Key
<1> QED
  BY <1>1, <1>2, <1>3, <1>4, <1>5, <1>6, <1>7

\* A message that has left its thread's hands comes before the one in hand.
LEMMA LastInHand ==
  ASSUME AggregationInv, NEW th \in Thread, msg[th] # None, NEW m \in Message, m.n <= Given(m.from)
  PROVE  Before(m, msg[th])
  BY Pieces DEF AggregationInv, InHand, Given, Before

\* What aggregates carry.
LEMMA AggregatedIs ==
  ASSUME AggregationInv, NEW b \in Key, NEW s \in Subject
  PROVE  /\ Aggregated(b, s) \in Bundle
         /\ \A i \in DOMAIN Aggregated(b, s) :
              /\ i \in DOMAIN messages[b] /\ messages[b][i].subject = s
              /\ Aggregated(b, s)[i] = messages[b][i]
         /\ \A i \in DOMAIN messages[b] :
              messages[b][i].subject = s => messages[b][i] \in Carried(Aggregated(b, s))
         /\ Carried(Aggregated(b, s)) \subseteq Message
<1> DEFINE positions == {j \in DOMAIN messages[b] : messages[b][j].subject = s}
<1>1. Aggregated(b, s) = [i \in positions |-> messages[b][i]]
  BY DEF Aggregated
<1>2. positions \in SUBSET (Nat \ {0}) /\ \A i \in positions : messages[b][i] \in Message
  BY Pieces
<1>3. Aggregated(b, s) \in [positions -> Message]
  BY <1>1, <1>2
<1>4. Aggregated(b, s) \in Bundle
  BY <1>2, <1>3 DEF Bundle
<1>5. DOMAIN Aggregated(b, s) = positions /\ \A i \in positions : Aggregated(b, s)[i] = messages[b][i]
  BY <1>1
<1> QED
  BY <1>2, <1>4, <1>5 DEF Carried

\* What processBin() does with the messages of the bins bs.
LEMMA ProcessLemma ==
  ASSUME AggregationInv, NEW bs, bs \subseteq bins, Process(bs)
  PROVE  /\ wire' \in [Subject -> Seq(Bundle)] /\ reported' \subseteq Message
         /\ failures' \in 0 .. MaxFailures /\ failed' \in BOOLEAN
         /\ \A s \in Subject :
              \/ wire'[s] = wire[s]
              \/ \E b \in bs : wire'[s] = Append(wire[s], Aggregated(b, s))
         /\ messages' = [b \in Key |-> IF b \in bs THEN <<>> ELSE messages[b]]
         /\ reported \subseteq reported'
         /\ \A m \in Message, b \in bs :
              (\E i \in DOMAIN messages[b] : messages[b][i] = m) => Arrived(m)' \/ m \in reported'
         /\ \A m \in Message : Arrived(m) => Arrived(m)'
<1> DEFINE aggregates == {p \in bs \X Subject : Carried(Aggregated(p[1], p[2])) # {}}
           refused == failed \/ ~connected
<1>1. PICK out \in SUBSET aggregates :
        /\ failures' = IF refused \/ out = aggregates THEN failures ELSE failures + 1
        /\ failures' <= MaxFailures
        /\ wire' = [s \in Subject |->
             IF \E p \in out : p[2] = s
             THEN Append(wire[s], Aggregated((CHOOSE p \in out : p[2] = s)[1], s))
             ELSE wire[s]]
        /\ reported' = reported \cup UNION {Carried(Aggregated(p[1], p[2])) : p \in aggregates \ out}
        /\ failed' = (failed \/ out # aggregates)
        /\ Emptied(bs)
  BY DEF Process
<1>2. /\ bs \subseteq Key /\ wire \in [Subject -> Seq(Bundle)] /\ reported \subseteq Message
      /\ failures \in 0 .. MaxFailures /\ failed \in BOOLEAN /\ MaxFailures \in Nat
  BY AggregationAssumption DEF AggregationInv, TypeOK
<1>3. \A s \in Subject :
        \/ wire'[s] = wire[s] /\ ~\E p \in out : p[2] = s
        \/ \E p \in out : p[2] = s /\ wire'[s] = Append(wire[s], Aggregated(p[1], s))
  BY <1>1
<1>4. \A p \in out : p[1] \in bs /\ p[2] \in Subject
  OBVIOUS
<1>5. \A s \in Subject :
        \/ wire'[s] = wire[s]
        \/ \E b \in bs : wire'[s] = Append(wire[s], Aggregated(b, s))
  BY <1>3, <1>4
<1>6. wire' \in [Subject -> Seq(Bundle)]
  <2>1. DOMAIN wire' = Subject /\ wire' = [s \in Subject |-> wire'[s]]
    BY <1>1
  <2>2. ASSUME NEW s \in Subject
        PROVE  wire'[s] \in Seq(Bundle)
    <3>1. wire[s] \in Seq(Bundle)
      BY <1>2
    <3>2. ASSUME NEW b \in bs, wire'[s] = Append(wire[s], Aggregated(b, s))
          PROVE  wire'[s] \in Seq(Bundle)
      <4>1. Aggregated(b, s) \in Bundle
        BY <1>2, AggregatedIs
      <4> HIDE DEF aggregates
      <4> QED
        BY <3>1, <3>2, <4>1, AppendProperties
    <3> QED
      BY <1>5, <3>1, <3>2
  <2> QED
    BY <2>1, <2>2
<1>7. reported' \subseteq Message /\ reported \subseteq reported'
  <2>1. \A p \in aggregates : Carried(Aggregated(p[1], p[2])) \subseteq Message
    <3>1. \A p \in aggregates : p[1] \in Key /\ p[2] \in Subject
      BY <1>2
    <3> QED
      BY <3>1, AggregatedIs
  <2>2. UNION {Carried(Aggregated(p[1], p[2])) : p \in aggregates \ out} \subseteq Message
    BY <2>1
  <2> QED
    BY <1>1, <1>2, <2>2
<1>8. failures' \in 0 .. MaxFailures /\ failed' \in BOOLEAN
  <2>1. (failures' = failures \/ failures' = failures + 1) /\ failures' <= MaxFailures
    BY <1>1
  <2>2. failures' \in 0 .. MaxFailures
    BY <1>2, <2>1
  <2>3. failed' \in BOOLEAN
    BY <1>1
  <2> QED
    BY <2>2, <2>3
<1>9. ASSUME NEW m \in Message, Arrived(m)
      PROVE  Arrived(m)'
  <2>1. m.subject \in Subject /\ wire[m.subject] \in Seq(Bundle)
    BY Pieces
  <2>2. PICK a \in DOMAIN wire[m.subject] : m \in Carried(wire[m.subject][a])
    BY <1>9 DEF Arrived
  <2>3. CASE wire'[m.subject] = wire[m.subject]
    BY <2>2, <2>3 DEF Arrived
  <2>4. ASSUME NEW b \in bs, wire'[m.subject] = Append(wire[m.subject], Aggregated(b, m.subject))
        PROVE  Arrived(m)'
    <3>1. a \in DOMAIN wire'[m.subject] /\ wire'[m.subject][a] = wire[m.subject][a]
      BY <2>1, <2>2, <2>4
    <3> QED
      BY <2>2, <3>1 DEF Arrived
  <2> QED
    BY <1>5, <2>1, <2>3, <2>4
<1>10. ASSUME NEW m \in Message, NEW b \in bs, NEW i \in DOMAIN messages[b], messages[b][i] = m
       PROVE  Arrived(m)' \/ m \in reported'
  <2>1. m = messages[b][i]
    BY <1>10
  <2>2. PICK s \in Subject : s = m.subject
    BY Pieces
  <2>3. m \in Carried(Aggregated(b, s)) /\ <<b, s>> \in aggregates
    BY <1>2, <2>1, <2>2, AggregatedIs
  <2>4. CASE <<b, s>> \notin out
    <3>1. PICK p \in aggregates \ out : p = <<b, s>>
      BY <2>3, <2>4
    <3>2. m \in Carried(Aggregated(p[1], p[2]))
      BY <2>3, <3>1
    <3>3. m \in UNION {Carried(Aggregated(q[1], q[2])) : q \in aggregates \ out}
      BY <3>2
    <3> QED
      BY <1>1, <3>3
  <2>5. CASE <<b, s>> \in out
    <3>1. PICK p \in out : p[2] = s /\ wire'[s] = Append(wire[s], Aggregated(p[1], s))
      BY <1>3, <2>5
    <3>2. p[1] \in bs /\ Carried(Aggregated(p[1], s)) # {}
      BY <3>1
    <3>3. p[1] = b
      <4>1. PICK j \in DOMAIN messages[p[1]] : messages[p[1]][j].subject = s
        BY <1>2, <3>2, AggregatedIs DEF Carried
      <4> QED
        BY <1>2, <2>1, <2>2, <3>2, <4>1 DEF AggregationInv, RightBin
    <3>4. wire[s] \in Seq(Bundle)
      BY Pieces
    <3>5. /\ Len(wire[s]) + 1 \in DOMAIN wire'[s]
          /\ wire'[s][Len(wire[s]) + 1] = Aggregated(b, s)
      BY <3>1, <3>3, <3>4, AppendProperties
    <3> QED
      BY <2>1, <2>2, <2>3, <3>5 DEF Arrived
  <2> QED
    BY <2>4, <2>5
<1> QED
  BY <1>1, <1>5, <1>6, <1>7, <1>8, <1>9, <1>10 DEF Emptied
-----------------------------------------------------------------------------
\* The order, when what has left the threads' hands stays where it is.
LEMMA InLineKept ==
  ASSUME AggregationInv, UNCHANGED <<messages, wire>>,
         \A th \in Thread : Given(th)' \in Int /\ Given(th)' >= Given(th)
  PROVE  InLine'
<1>1. ASSUME NEW m \in Message, m.n <= Given(m.from)
      PROVE  m.n <= Given(m.from)'
  BY <1>1, Pieces
<1>2. InOrder'
  BY DEF AggregationInv, InLine, InOrder, Earlier, Before
<1>3. (\A b \in Key : \A j \in DOMAIN messages[b] :
         messages[b][j].n <= Given(messages[b][j].from))'
  BY <1>1, Pieces DEF AggregationInv, InLine, Given
<1>4. (\A s \in Subject : \A a \in DOMAIN wire[s] : \A i \in DOMAIN wire[s][a] :
         wire[s][a][i].n <= Given(wire[s][a][i].from))'
  BY <1>1, Pieces DEF AggregationInv, InLine, Given
<1> QED
  BY <1>2, <1>3, <1>4 DEF AggregationInv, InLine, Before

\* Nothing is lost, when what arrived stays, and so do the bins but for what arrives
\* or is reported.
LEMMA NoneLostKept ==
  ASSUME AggregationInv, accepted' \subseteq Message,
         \A m \in accepted : Binned(m) => Binned(m)' \/ Arrived(m)' \/ m \in reported',
         \A m \in accepted : Arrived(m) => Arrived(m)',
         reported \subseteq reported',
         \A m \in accepted' \ accepted : Binned(m)' \/ Arrived(m)' \/ m \in reported'
  PROVE  NoneLost'
  BY DEF AggregationInv, NoneLost

\* A step that moves no message.
LEMMA Unmoved ==
  ASSUME AggregationInv, UNCHANGED <<bins, all, messages, wire, msg, published, accepted, reported>>,
         \A th \in Thread :
           /\ step'[th] \in {"status", "add", "direct"} <=> step[th] \in {"status", "add", "direct"}
           /\ step'[th] = "direct" => step[th] = "direct"
  PROVE  InHand' /\ RightBin' /\ InLine' /\ NoneLost'
<1>1. InHand'
  BY DEF AggregationInv, InHand
<1>2. RightBin'
  BY DEF AggregationInv, RightBin, BinOf
<1>3. \A th \in Thread : Given(th)' \in Int /\ Given(th)' >= Given(th)
  BY Pieces DEF Given
<1>4. InLine'
  BY <1>3, InLineKept
<1>5. NoneLost'
  BY DEF AggregationInv, NoneLost, Binned, Arrived, Carried
<1> QED
  BY <1>1, <1>2, <1>4, <1>5

\* The bins bs go to the middleware.
LEMMA ProcessInLine ==
  ASSUME AggregationInv, NEW bs, bs \subseteq bins, Process(bs), UNCHANGED <<msg, published>>
  PROVE  InLine'
<1> USE DEF AggregationInv
<1>1. /\ \A s \in Subject :
           \/ wire'[s] = wire[s]
           \/ \E b \in bs : wire'[s] = Append(wire[s], Aggregated(b, s))
      /\ messages' = [b \in Key |-> IF b \in bs THEN <<>> ELSE messages[b]]
      /\ bs \subseteq Key
  BY ProcessLemma DEF TypeOK
\* An aggregate on the wire is one that was there, or comes from a bin of bs.
<1>2. ASSUME NEW s \in Subject, NEW a \in DOMAIN wire'[s]
      PROVE  \/ a \in DOMAIN wire[s] /\ wire'[s][a] = wire[s][a]
             \/ /\ \A c \in DOMAIN wire'[s] : c <= a
                /\ \E b \in bs : wire'[s][a] = Aggregated(b, s)
  <2>1. wire[s] \in Seq(Bundle) /\ DOMAIN wire[s] = 1 .. Len(wire[s]) /\ Len(wire[s]) \in Nat
    BY Pieces
  <2>2. ASSUME NEW b \in bs, wire'[s] = Append(wire[s], Aggregated(b, s))
        PROVE  \/ a \in DOMAIN wire[s] /\ wire'[s][a] = wire[s][a]
               \/ (\A c \in DOMAIN wire'[s] : c <= a) /\ wire'[s][a] = Aggregated(b, s)
    <3>1. Aggregated(b, s) \in Bundle
      BY <1>1, AggregatedIs
    <3>2. /\ DOMAIN wire'[s] = 1 .. Len(wire[s]) + 1
          /\ wire'[s][Len(wire[s]) + 1] = Aggregated(b, s)
          /\ \A i \in 1 .. Len(wire[s]) : wire'[s][i] = wire[s][i]
      BY <2>1, <2>2, <3>1, AppendProperties
    <3>3. a \in 1 .. Len(wire[s]) \/ a = Len(wire[s]) + 1
      BY <1>2, <2>1, <3>2
    <3> QED
      BY <2>1, <3>2, <3>3
  <2> QED
    BY <1>1, <1>2, <2>2
\* What is left in the bins was there.
<1>3. ASSUME NEW b \in Key, NEW i \in DOMAIN messages'[b]
      PROVE  b \notin bs /\ messages'[b] = messages[b] /\ i \in DOMAIN messages[b]
  BY <1>1, <1>3
<1>4. \A th \in Thread : Given(th)' = Given(th)
  BY DEF Given
<1>5. ASSUME NEW s \in Subject, NEW a \in DOMAIN wire'[s], NEW c \in DOMAIN wire'[s],
             NEW i \in DOMAIN wire'[s][a], NEW j \in DOMAIN wire'[s][c], Earlier(a, i, c, j)
      PROVE  Before(wire'[s][a][i], wire'[s][c][j])
  <2>1. CASE a \in DOMAIN wire[s] /\ wire'[s][a] = wire[s][a]
    <3>1. CASE c \in DOMAIN wire[s] /\ wire'[s][c] = wire[s][c]
      BY <1>5, <2>1, <3>1 DEF InLine, InOrder
    <3>2. ASSUME NEW b \in bs, wire'[s][c] = Aggregated(b, s)
          PROVE  Before(wire'[s][a][i], wire'[s][c][j])
      <4>1. j \in DOMAIN messages[b] /\ messages[b][j].subject = s /\ wire'[s][c][j] = messages[b][j]
        BY <1>1, <1>5, <3>2, AggregatedIs
      <4> QED
        BY <1>1, <1>5, <2>1, <4>1 DEF InLine
    <3> QED
      BY <1>2, <3>1, <3>2
  <2>2. ASSUME NEW b \in bs, \A d \in DOMAIN wire'[s] : d <= a, wire'[s][a] = Aggregated(b, s)
        PROVE  Before(wire'[s][a][i], wire'[s][c][j])
    <3>1. a \in Int /\ c \in Int /\ c <= a
      BY <2>2, ProcessLemma
    <3>2. a = c /\ i < j
      BY <1>5, <3>1 DEF Earlier
    <3>3. /\ i \in DOMAIN messages[b] /\ wire'[s][a][i] = messages[b][i]
          /\ j \in DOMAIN messages[b] /\ wire'[s][a][j] = messages[b][j]
      BY <1>1, <1>5, <2>2, <3>2, AggregatedIs
    <3> QED
      BY <1>1, <3>2, <3>3 DEF InLine
  <2> QED
    BY <1>2, <2>1, <2>2
<1>6. ASSUME NEW s \in Subject, NEW a \in DOMAIN wire'[s], NEW i \in DOMAIN wire'[s][a]
      PROVE  /\ \A b \in Key : \A j \in DOMAIN messages'[b] :
                  messages'[b][j].subject = s => Before(wire'[s][a][i], messages'[b][j])
             /\ wire'[s][a][i] \in Message
             /\ wire'[s][a][i].n <= Given(wire'[s][a][i].from)
  <2>1. CASE a \in DOMAIN wire[s] /\ wire'[s][a] = wire[s][a]
    BY <1>3, <1>6, <2>1, Pieces DEF InLine
  <2>2. ASSUME NEW b \in bs, wire'[s][a] = Aggregated(b, s)
        PROVE  /\ \A d \in Key : \A j \in DOMAIN messages'[d] :
                    messages'[d][j].subject = s => Before(wire'[s][a][i], messages'[d][j])
               /\ wire'[s][a][i] \in Message
               /\ wire'[s][a][i].n <= Given(wire'[s][a][i].from)
    <3>1. i \in DOMAIN messages[b] /\ messages[b][i].subject = s /\ wire'[s][a][i] = messages[b][i]
      BY <1>1, <1>6, <2>2, AggregatedIs
    <3>2. ASSUME NEW d \in Key, NEW j \in DOMAIN messages'[d], messages'[d][j].subject = s
          PROVE  FALSE
      <4>1. d \notin bs /\ j \in DOMAIN messages[d] /\ messages[d][j].subject = s
        BY <1>3, <3>2
      <4>2. BinOf(s) = d /\ BinOf(s) = b
        BY <1>1, <3>1, <4>1 DEF RightBin
      <4> QED
        BY <4>1, <4>2
    <3> QED
      BY <1>1, <3>1, <3>2, Pieces DEF InLine
  <2> QED
    BY <1>2, <2>1, <2>2
<1>7. \A m \in Message : m.n <= Given(m.from) => (m.n <= Given(m.from))'
  BY <1>4, Pieces
<1>8. InOrder'
  BY <1>5 DEF InOrder, Before, Earlier
<1>9. (\A b \in Key : \A i, j \in DOMAIN messages[b] : i < j => Before(messages[b][i], messages[b][j]))'
  BY <1>3 DEF InLine, Before
<1>10. (\A s \in Subject : \A a \in DOMAIN wire[s] : \A i \in DOMAIN wire[s][a] :
          /\ \A b \in Key : \A j \in DOMAIN messages[b] :
               messages[b][j].subject = s => Before(wire[s][a][i], messages[b][j])
          /\ wire[s][a][i].n <= Given(wire[s][a][i].from))'
  BY <1>6, <1>7 DEF Before, Given
<1>11. (\A b \in Key : \A j \in DOMAIN messages[b] :
         messages[b][j].n <= Given(messages[b][j].from))'
  BY <1>3, <1>7, Pieces DEF InLine, Given
<1> QED
  BY <1>8, <1>9, <1>10, <1>11 DEF InLine
-----------------------------------------------------------------------------
\* publish() takes its message in hand.
LEMMA PublishInv ==
  ASSUME AggregationInv, NEW th \in Thread, NEW s \in Subject, Publish(th, s)
  PROVE  AggregationInv'
<1> USE DEF AggregationInv, Publish, store, link, sent, condition
<1>1. /\ step' = [step EXCEPT ![th] = "status"]
      /\ published' = [published EXCEPT ![th] = @ + 1] /\ published \in [Thread -> Nat]
      /\ msg' = [msg EXCEPT ![th] = [from |-> th, n |-> published[th] + 1, subject |-> s]]
      /\ step \in [Thread -> {"idle", "status", "add", "direct", "stop", "await", "reset", "close"}]
      /\ msg \in [Thread -> Message \cup {None}] /\ step[th] = "idle"
  BY DEF TypeOK
<1>2. [from |-> th, n |-> published[th] + 1, subject |-> s] \in Message
  <2>1. published[th] + 1 \in Nat \ {0}
    BY <1>1
  <2> QED
    BY <2>1 DEF Message
<1>11. msg[th] = None
  BY <1>1 DEF InHand
<1>3. [from |-> th, n |-> published[th] + 1, subject |-> s] # None
  BY <1>2, AggregationAssumption
<1>4. TypeOK'
  BY <1>1, <1>2 DEF TypeOK
<1>5. InHand'
  BY <1>1, <1>3 DEF InHand
<1>6. RightBin'
  BY <1>1 DEF RightBin, BinOf
<1>7. \A u \in Thread : Given(u)' \in Int /\ Given(u)' >= Given(u)
  BY <1>1, <1>3, <1>11, Pieces DEF Given
<1>8. InLine'
  BY <1>7, InLineKept
<1>9. NoneLost'
  BY DEF NoneLost, Binned, Arrived, Carried
<1>10. Alone'
  BY <1>1 DEF Alone, Disconnecting
<1> QED
  BY <1>4, <1>5, <1>6, <1>8, <1>9, <1>10

\* A message leaves its thread's hands for nowhere.
LEMMA ThrowsLemma ==
  ASSUME AggregationInv, NEW th \in Thread, Throws(th), step[th] \in {"status", "direct"},
         UNCHANGED <<store, link, wire, reported, condition, at, lapses>>,
         failures' \in 0 .. MaxFailures
  PROVE  AggregationInv'
<1> USE DEF AggregationInv, Throws, store, link, condition
<1>1. /\ step' = [step EXCEPT ![th] = "idle"] /\ msg' = [msg EXCEPT ![th] = None]
      /\ UNCHANGED <<tries, published, accepted>>
      /\ step \in [Thread -> {"idle", "status", "add", "direct", "stop", "await", "reset", "close"}]
      /\ msg \in [Thread -> Message \cup {None}]
  BY DEF TypeOK
<1>2. TypeOK'
  BY <1>1 DEF TypeOK
<1>3. InHand'
  BY <1>1 DEF InHand
<1>4. RightBin'
  BY <1>1 DEF RightBin, BinOf
<1>5. \A u \in Thread : Given(u)' \in Int /\ Given(u)' >= Given(u)
  BY <1>1, Pieces DEF Given
<1>6. InLine'
  BY <1>5, InLineKept
<1>7. NoneLost'
  BY DEF NoneLost, Binned, Arrived, Carried
<1>8. Alone'
  BY <1>1 DEF Alone, Disconnecting
<1> QED
  BY <1>2, <1>3, <1>4, <1>6, <1>7, <1>8

\* getPublishStatus().
LEMMA CheckStatusInv ==
  ASSUME AggregationInv, NEW th \in Thread, CheckStatus(th)
  PROVE  AggregationInv'
<1>1. CASE failed
  BY <1>1, ThrowsLemma DEF CheckStatus, AggregationInv, TypeOK, sent
<1>2. CASE ~failed
  <2> USE <1>2 DEF CheckStatus, Goes, store, link, sent, condition
  <2>1. /\ step' = [step EXCEPT ![th] = "add"] /\ step[th] = "status"
        /\ step \in [Thread -> {"idle", "status", "add", "direct", "stop", "await", "reset", "close"}]
    BY DEF AggregationInv, TypeOK
  <2>2. InHand' /\ RightBin' /\ InLine' /\ NoneLost'
    BY <2>1, Unmoved
  <2>3. TypeOK'
    BY <2>1 DEF AggregationInv, TypeOK
  <2>4. Alone'
    BY <2>1 DEF AggregationInv, Alone, Disconnecting
  <2> QED
    BY <2>2, <2>3, <2>4 DEF AggregationInv
<1> QED
  BY <1>1, <1>2

\* mwPublish() throws.
LEMMA PublishNowFailsInv ==
  ASSUME AggregationInv, NEW th \in Thread, PublishNowFails(th)
  PROVE  AggregationInv'
<1>1. failures' \in 0 .. MaxFailures
  BY AggregationAssumption DEF PublishNowFails, AggregationInv, TypeOK
<1> QED
  BY <1>1, ThrowsLemma DEF PublishNowFails

\* A message that goes into no bin goes to the middleware, behind all others.
LEMMA PublishNowInv ==
  ASSUME AggregationInv, NEW th \in Thread, PublishNow(th)
  PROVE  AggregationInv'
<1> USE DEF AggregationInv, PublishNow, Returns, store, link, condition
<1>0. step[th] = "direct" /\ msg[th] # None /\ msg[th] \in Message /\ step'[th] = "idle"
  BY Pieces DEF InHand, TypeOK
<1> PICK m \in Message : m = msg[th]
  BY <1>0
<1>1. /\ step' = [step EXCEPT ![th] = "idle"] /\ msg' = [msg EXCEPT ![th] = None]
      /\ UNCHANGED <<bins, messages, all, tries, published, reported>> /\ accepted' = accepted \cup {m}
      /\ step \in [Thread -> {"idle", "status", "add", "direct", "stop", "await", "reset", "close"}]
      /\ msg \in [Thread -> Message \cup {None}] /\ step[th] = "direct"
  BY DEF TypeOK
<1>2. m \in Message /\ m # None /\ BinOf(m.subject) = None /\ m.from = th /\ m.n = published[th]
  BY <1>0, AggregationAssumption DEF InHand, RightBin
<1>3. PICK s \in Subject : s = m.subject
  BY <1>2, Pieces
<1>4. wire' = [wire EXCEPT ![s] = Append(@, <<m>>)] /\ wire \in [Subject -> Seq(Bundle)]
  BY <1>3 DEF TypeOK
<1>5. <<m>> \in Bundle /\ DOMAIN <<m>> = {1} /\ <<m>>[1] = m
  <2>1. <<m>> \in [{1} -> Message] /\ {1} \in SUBSET (Nat \ {0})
    BY <1>2
  <2> QED
    BY <2>1 DEF Bundle
<1>6. /\ wire'[s] \in Seq(Bundle) /\ Len(wire[s]) \in Nat
      /\ DOMAIN wire'[s] = 1 .. Len(wire[s]) + 1 /\ DOMAIN wire[s] = 1 .. Len(wire[s])
      /\ wire'[s][Len(wire[s]) + 1] = <<m>>
      /\ \A a \in 1 .. Len(wire[s]) : wire'[s][a] = wire[s][a]
      /\ \A u \in Subject \ {s} : wire'[u] = wire[u]
  <2>1. wire[s] \in Seq(Bundle)
    BY <1>4
  <2>2. wire'[s] = Append(wire[s], <<m>>) /\ \A u \in Subject \ {s} : wire'[u] = wire[u]
    BY <1>4
  <2> QED
    BY <1>5, <2>1, <2>2, AppendProperties
<1>7. \A a \in DOMAIN wire'[s] : a \in DOMAIN wire[s] \/ a = Len(wire[s]) + 1
  BY <1>6
<1>8. TypeOK'
  <2>1. wire' \in [Subject -> Seq(Bundle)]
    BY <1>4, <1>6
  <2>2. step' \in [Thread -> {"idle", "status", "add", "direct", "stop", "await", "reset", "close"}]
    BY <1>1
  <2>3. msg' \in [Thread -> Message \cup {None}]
    BY <1>1
  <2> QED
    BY <1>1, <1>2, <2>1, <2>2, <2>3 DEF TypeOK
<1>9. InHand'
  BY <1>1 DEF InHand
<1>10. RightBin'
  BY <1>1 DEF RightBin, BinOf
<1>11. \A u \in Thread : Given(u)' \in Int /\ Given(u)' >= Given(u)
  BY <1>1, Pieces DEF Given
<1>12. /\ \A x \in Message : x.n <= Given(x.from) => (x.n <= Given(x.from))' /\ Before(x, m)
       /\ (m.n <= Given(m.from))'
  <2>1. ASSUME NEW x \in Message, x.n <= Given(x.from)
        PROVE  x.n <= Given(x.from)' /\ Before(x, m)
    BY <1>0, <1>11, <2>1, LastInHand, Pieces
  <2>2. Given(th)' = published[th]
    BY <1>1 DEF Given
  <2>3. m.n <= Given(m.from)'
    BY <1>2, <2>2, Pieces
  <2> QED
    BY <2>1, <2>3 DEF Given
<1>13. InLine'
  <2>1. ASSUME NEW u \in Subject, NEW a \in DOMAIN wire'[u], NEW c \in DOMAIN wire'[u],
               NEW i \in DOMAIN wire'[u][a], NEW j \in DOMAIN wire'[u][c], Earlier(a, i, c, j)
        PROVE  Before(wire'[u][a][i], wire'[u][c][j])
    <3>1. CASE u # s \/ (a \in DOMAIN wire[s] /\ c \in DOMAIN wire[s])
      BY <1>6, <2>1, <3>1 DEF InLine, InOrder
    <3>2. CASE u = s /\ a \notin DOMAIN wire[s]
      BY <1>5, <1>6, <1>7, <2>1, <3>2 DEF Earlier
    <3>3. CASE u = s /\ a \in DOMAIN wire[s] /\ c \notin DOMAIN wire[s]
      <4>1. wire'[u][a] = wire[s][a] /\ wire'[u][c] = <<m>> /\ j = 1
        BY <1>5, <1>6, <1>7, <2>1, <3>3
      <4>2. wire[s][a][i] \in Message /\ wire[s][a][i].n <= Given(wire[s][a][i].from)
        BY <2>1, <3>3, <4>1, Pieces DEF InLine
      <4> QED
        BY <1>5, <1>12, <4>1, <4>2
    <3> QED
      BY <3>1, <3>2, <3>3
  <2>2. ASSUME NEW u \in Subject, NEW a \in DOMAIN wire'[u], NEW i \in DOMAIN wire'[u][a]
        PROVE  /\ \A b \in Key : \A j \in DOMAIN messages[b] :
                    messages[b][j].subject = u => Before(wire'[u][a][i], messages[b][j])
               /\ wire'[u][a][i] \in Message
               /\ wire'[u][a][i] = m \/ wire'[u][a][i].n <= Given(wire'[u][a][i].from)
    <3>1. CASE u # s \/ a \in DOMAIN wire[s]
      BY <1>6, <2>2, <3>1, Pieces DEF InLine
    <3>2. CASE u = s /\ a \notin DOMAIN wire[s]
      <4>1. wire'[u][a][i] = m
        BY <1>5, <1>6, <1>7, <2>2, <3>2
      <4>2. \A b \in Key : \A j \in DOMAIN messages[b] : messages[b][j].subject # s
        BY <1>2, <1>3, Pieces DEF RightBin
      <4> QED
        BY <1>2, <3>2, <4>1, <4>2
    <3> QED
      BY <3>1, <3>2
  <2>3. InOrder'
    BY <2>1 DEF InOrder, Earlier, Before
  <2>4. (\A b \in Key : \A i, j \in DOMAIN messages[b] : i < j => Before(messages[b][i], messages[b][j]))'
    BY <1>1 DEF InLine, Before
  <2>5. (\A u \in Subject : \A a \in DOMAIN wire[u] : \A i \in DOMAIN wire[u][a] :
          /\ \A b \in Key : \A j \in DOMAIN messages[b] :
               messages[b][j].subject = u => Before(wire[u][a][i], messages[b][j])
          /\ wire[u][a][i].n <= Given(wire[u][a][i].from))'
    <3>1. ASSUME NEW u \in Subject, NEW a \in DOMAIN wire'[u], NEW i \in DOMAIN wire'[u][a]
          PROVE  (wire[u][a][i].n <= Given(wire[u][a][i].from))'
      <4> HIDE DEF AggregationInv, PublishNow, Returns, store, link, condition
      <4>1. PICK x \in Message : x = wire'[u][a][i]
        BY <2>2
      <4>2. (x.n <= Given(x.from))'
        BY <1>12, <2>2, <4>1
      <4> QED
        BY <4>1, <4>2 DEF Given
    <3>2. \A u \in Subject : \A a \in DOMAIN wire'[u] : \A i \in DOMAIN wire'[u][a] :
            \A b \in Key : \A j \in DOMAIN messages'[b] :
              messages'[b][j].subject = u => Before(wire'[u][a][i], messages'[b][j])
      BY <1>1, <2>2
    <3> QED
      BY <3>1, <3>2 DEF Before
  <2>6. (\A b \in Key : \A j \in DOMAIN messages[b] :
          messages[b][j].n <= Given(messages[b][j].from))'
    BY <1>1, <1>12, Pieces DEF InLine, Given
  <2> QED
    BY <2>3, <2>4, <2>5, <2>6 DEF InLine
<1>14. NoneLost'
  <2>1. ASSUME NEW x \in Message, Arrived(x)
        PROVE  Arrived(x)'
    <3>1. PICK a \in DOMAIN wire[x.subject] : x \in Carried(wire[x.subject][a])
      BY <2>1 DEF Arrived
    <3>2. a \in DOMAIN wire'[x.subject] /\ wire'[x.subject][a] = wire[x.subject][a]
      BY <1>6, <3>1, Pieces
    <3> QED
      BY <3>1, <3>2 DEF Arrived
  <2>2. \E a \in DOMAIN wire'[m.subject] : m \in Carried(wire'[m.subject][a])
    <3>1. Len(wire[s]) + 1 \in DOMAIN wire'[s] /\ m \in Carried(wire'[s][Len(wire[s]) + 1])
      BY <1>5, <1>6 DEF Carried
    <3> QED
      BY <1>3, <3>1
  <2>3. accepted \subseteq Message
    BY DEF TypeOK
  <2>4. \A x \in accepted' : x \in accepted \/ x = m
    BY <1>1
  <2>5. \A x \in accepted : (Binned(x) => Binned(x)') /\ (x \in reported => x \in reported')
    BY <1>1 DEF Binned
  <2>6. ASSUME NEW x \in accepted'
        PROVE  Binned(x)' \/ Arrived(x)' \/ x \in reported'
    <3>1. CASE x \in accepted
      BY <2>1, <2>3, <2>5, <3>1 DEF NoneLost
    <3>2. CASE x = m
      BY <2>2, <3>2 DEF Arrived
    <3> QED
      BY <2>4, <3>1, <3>2
  <2> QED
    BY <2>6 DEF NoneLost
<1>15. Alone'
  BY <1>1 DEF Alone, Disconnecting
<1> QED
  BY <1>8, <1>9, <1>10, <1>13, <1>14, <1>15

\* A message goes into its bin.
LEMMA AddMessageInv ==
  ASSUME AggregationInv, NEW th \in Thread, AddMessage(th)
  PROVE  AggregationInv'
<1> USE DEF AggregationInv, AddMessage, link, sent
<1>1. /\ step[th] = "add" /\ msg[th] # None /\ msg[th] \in Message
      /\ step \in [Thread -> {"idle", "status", "add", "direct", "stop", "await", "reset", "close"}]
      /\ msg \in [Thread -> Message \cup {None}]
      /\ UNCHANGED <<connected, shared, crashed, links, all, wire, reported, failures, at, lapses>>
  BY Pieces DEF InHand, TypeOK
<1> PICK m \in Message : m = msg[th]
  BY <1>1
<1> PICK b : b = BinOf(m.subject)
  OBVIOUS
<1>2. m.subject \in Subject /\ m.from = th /\ m.n = published[th] /\ m # None
  BY <1>1, Pieces DEF InHand
<1>3. CASE b = None
  <2> USE DEF Goes, store, condition
  <2>1. /\ step' = [step EXCEPT ![th] = "direct"]
        /\ UNCHANGED <<msg, tries, published, accepted, bins, messages, ready, late, failed, reason, waits>>
    BY <1>3
  <2>2. InHand'
    BY <1>1, <2>1 DEF InHand
  <2>3. RightBin'
    BY <1>1, <1>3, <2>1 DEF RightBin, BinOf
  <2>4. \A u \in Thread : Given(u)' \in Int /\ Given(u)' >= Given(u)
    BY <2>1, Pieces DEF Given
  <2>5. InLine'
    BY <1>1, <2>1, <2>4, InLineKept
  <2>6. NoneLost'
    BY <1>1, <2>1 DEF NoneLost, Binned, Arrived, Carried
  <2>7. TypeOK'
    BY <1>1, <2>1 DEF TypeOK
  <2>8. Alone'
    BY <1>1, <2>1 DEF Alone, Disconnecting
  <2> QED
    BY <2>2, <2>3, <2>5, <2>6, <2>7, <2>8
<1>4. CASE b # None
  <2>1. /\ bins' = bins \cup {b} /\ messages' = [messages EXCEPT ![b] = Append(@, m)]
        /\ late' = [late EXCEPT ![b] = @ /\ messages[b] # <<>>]
        /\ \/ ready' = [ready EXCEPT ![b] = TRUE] /\ reason' = "FLUSH_BIN" /\ waits' = Woken
           \/ UNCHANGED <<ready, reason, waits>>
        /\ failed' = failed
        /\ step' = [step EXCEPT ![th] = "idle"] /\ msg' = [msg EXCEPT ![th] = None]
        /\ accepted' = accepted \cup {m} /\ UNCHANGED <<tries, published>>
    BY <1>4 DEF Broadcast, Returns, condition
  <2>2. b \in Key /\ BinOf(m.subject) = b
    BY <1>2, <1>4, AggregationAssumption DEF BinOf, Key, TypeOK
  <2>3. \A s \in Subject : BinOf(s) # None => BinOf(s)' = BinOf(s)
    BY <1>1, <2>1 DEF BinOf
  <2>4. \A s \in Subject : BinOf(s)' = BinOf(s)
    <3>1. ASSUME NEW s \in Subject, BinOf(s) = None
          PROVE  BinOf(s)' = None
      BY <1>1, <1>2, <2>1, <2>2, <3>1, AggregationAssumption DEF BinOf
    <3> QED
      BY <2>3, <3>1
  <2>5. /\ messages'[b] \in Seq(Message) /\ Len(messages[b]) \in Nat
        /\ DOMAIN messages[b] = 1 .. Len(messages[b]) /\ DOMAIN messages'[b] = 1 .. Len(messages[b]) + 1
        /\ messages'[b][Len(messages[b]) + 1] = m
        /\ \A i \in 1 .. Len(messages[b]) : messages'[b][i] = messages[b][i]
        /\ \A c \in Key \ {b} : messages'[c] = messages[c]
    <3>1. messages[b] \in Seq(Message) /\ messages \in [Key -> Seq(Message)]
      BY <2>2 DEF TypeOK
    <3>2. messages'[b] = Append(messages[b], m) /\ \A c \in Key \ {b} : messages'[c] = messages[c]
      BY <2>1, <2>2, <3>1
    <3> QED
      BY <3>1, <3>2, AppendProperties
  \* A message in a bin was there, or is m, the last in b.
  <2>6. ASSUME NEW c \in Key, NEW i \in DOMAIN messages'[c]
        PROVE  \/ i \in DOMAIN messages[c] /\ messages'[c][i] = messages[c][i]
               \/ c = b /\ i = Len(messages[b]) + 1 /\ messages'[c][i] = m
    BY <2>5, <2>6
  <2>7. \A c \in Key : \A i \in DOMAIN messages[c] :
          i \in DOMAIN messages'[c] /\ messages'[c][i] = messages[c][i]
    BY <2>5
  <2>8. \A u \in Thread : Given(u)' \in Int /\ Given(u)' >= Given(u)
    BY <1>1, <2>1, Pieces DEF Given
  <2>9. /\ \A x \in Message : x.n <= Given(x.from) => (x.n <= Given(x.from))' /\ Before(x, m)
        /\ (m.n <= Given(m.from))'
    <3>1. ASSUME NEW x \in Message, x.n <= Given(x.from)
          PROVE  x.n <= Given(x.from)' /\ Before(x, m)
      BY <1>1, <2>8, <3>1, LastInHand, Pieces
    <3>2. Given(th)' = published[th]
      BY <1>1, <2>1 DEF Given
    <3>3. m.n <= Given(m.from)'
      BY <1>2, <3>2, Pieces
    <3> QED
      BY <3>1, <3>3 DEF Given
  <2>10. TypeOK'
    <3>1. messages' \in [Key -> Seq(Message)]
      BY <2>1, <2>2, <2>5 DEF TypeOK
    <3>2. waits' \in [Thread \cup {Toolkit} -> {"no", "asleep", "woken", "timeout"}]
      BY <2>1 DEF TypeOK, Woken
    <3>3. /\ step' \in [Thread -> {"idle", "status", "add", "direct", "stop", "await", "reset", "close"}]
          /\ msg' \in [Thread -> Message \cup {None}] /\ accepted' \subseteq Message
          /\ published' \in [Thread -> Nat] /\ tries' \in [Thread -> 0 .. 3]
      BY <1>1, <2>1 DEF TypeOK
    <3>4. /\ bins' \subseteq Key /\ failed' \in BOOLEAN
          /\ reason' \in {"INVALID", "UNMANAGED", "QUIT", "FLUSH_BIN", "MANAGED"}
          /\ {connected', shared', crashed', all'} \subseteq BOOLEAN
          /\ wire' \in [Subject -> Seq(Bundle)] /\ reported' \subseteq Message
          /\ failures' \in 0 .. MaxFailures /\ links' \in 0 .. MaxLinks
          /\ at' \in {"begin", "run", "ended"} /\ lapses' \subseteq {"overlap", "unstopped"}
      BY <1>1, <2>1, <2>2 DEF TypeOK
    <3>5. ready' \in [Key -> BOOLEAN]
      BY <2>1, <2>2 DEF TypeOK
    <3>6. late' \in [Key -> BOOLEAN]
      BY <2>1, <2>2 DEF TypeOK
    <3> QED
      BY <3>1, <3>2, <3>3, <3>4, <3>5, <3>6 DEF TypeOK
  <2>11. InHand'
    BY <1>1, <2>1 DEF InHand
  <2>12. RightBin'
    <3>1. ASSUME NEW c \in Key, NEW i \in DOMAIN messages'[c]
          PROVE  c \in bins' /\ \E s \in Subject : messages'[c][i].subject = s /\ BinOf(s)' = c
      <4>1. CASE i \in DOMAIN messages[c] /\ messages'[c][i] = messages[c][i]
        <5>1. c \in bins /\ BinOf(messages[c][i].subject) = c
          BY <4>1 DEF RightBin
        <5>2. messages[c][i].subject \in Subject
          BY <4>1, Pieces
        <5> QED
          BY <2>1, <2>4, <4>1, <5>1, <5>2
      <4>2. CASE c = b /\ messages'[c][i] = m
        BY <1>2, <2>1, <2>2, <2>4, <4>2
      <4> QED
        BY <2>6, <4>1, <4>2
    <3>2. (\A c \in Key : \A i \in DOMAIN messages[c] :
             c \in bins /\ BinOf(messages[c][i].subject) = c)'
      BY <3>1 DEF BinOf
    <3>3. ASSUME NEW u \in Thread, step'[u] = "direct"
          PROVE  u # th /\ msg'[u] = msg[u] /\ BinOf(msg[u].subject) = None /\ msg[u].subject \in Subject
      BY <1>1, <2>1, <3>3, Pieces DEF RightBin, InHand
    <3>4. (\A u \in Thread : step[u] = "direct" => BinOf(msg[u].subject) = None)'
      BY <2>4, <3>3 DEF BinOf
    <3> QED
      BY <3>2, <3>4 DEF RightBin
  <2>13. InLine'
    <3>1. InOrder'
      BY <1>1 DEF InLine, InOrder, Earlier, Before
    <3>2. ASSUME NEW c \in Key, NEW i \in DOMAIN messages'[c], NEW j \in DOMAIN messages'[c], i < j
          PROVE  Before(messages'[c][i], messages'[c][j])
      <4>1. i \in DOMAIN messages[c] /\ messages'[c][i] = messages[c][i]
        BY <2>5, <2>6, <3>2
      <4>2. CASE j \in DOMAIN messages[c] /\ messages'[c][j] = messages[c][j]
        BY <3>2, <4>1, <4>2 DEF InLine
      <4>3. CASE messages'[c][j] = m
        BY <2>9, <4>1, <4>3, Pieces DEF InLine
      <4> QED
        BY <2>6, <4>2, <4>3
    <3>3. ASSUME NEW s \in Subject, NEW a \in DOMAIN wire[s], NEW i \in DOMAIN wire[s][a],
                 NEW c \in Key, NEW j \in DOMAIN messages'[c], messages'[c][j].subject = s
          PROVE  Before(wire[s][a][i], messages'[c][j])
      <4>1. CASE j \in DOMAIN messages[c] /\ messages'[c][j] = messages[c][j]
        BY <3>3, <4>1 DEF InLine
      <4>2. CASE messages'[c][j] = m
        BY <2>9, <4>2, Pieces DEF InLine
      <4> QED
        BY <2>6, <4>1, <4>2
    <3>4. (\A s \in Subject : \A a \in DOMAIN wire[s] : \A i \in DOMAIN wire[s][a] :
             wire[s][a][i].n <= Given(wire[s][a][i].from))'
      BY <1>1, <2>9, Pieces DEF InLine, Given
    <3>5. ASSUME NEW c \in Key, NEW j \in DOMAIN messages'[c]
          PROVE  (messages[c][j].n <= Given(messages[c][j].from))'
      <4>1. PICK x \in Message : x = messages'[c][j]
        BY <2>6, Pieces
      <4>2. (x.n <= Given(x.from))'
        BY <2>6, <2>9, <4>1 DEF InLine
      <4> QED
        BY <4>1, <4>2 DEF Given
    <3>6. (\A c \in Key : \A i, j \in DOMAIN messages[c] : i < j => Before(messages[c][i], messages[c][j]))'
      BY <3>2 DEF Before
    <3>7. (\A s \in Subject : \A a \in DOMAIN wire[s] : \A i \in DOMAIN wire[s][a] :
             \A c \in Key : \A j \in DOMAIN messages[c] :
               messages[c][j].subject = s => Before(wire[s][a][i], messages[c][j]))'
      BY <1>1, <3>3 DEF Before
    <3> QED
      BY <3>1, <3>4, <3>5, <3>6, <3>7 DEF InLine
  <2>14. NoneLost'
    <3>1. \A x : Binned(x) => Binned(x)'
      BY <2>1, <2>7, Pieces DEF Binned, TypeOK
    <3>2. Binned(m)'
      <4>1. Len(messages[b]) + 1 \in DOMAIN messages'[b] /\ b \in bins'
        BY <2>1, <2>5
      <4> QED
        BY <2>5, <4>1 DEF Binned
    <3>3. \A x : Arrived(x) => Arrived(x)'
      BY <1>1 DEF Arrived, Carried
    <3>4. \A x \in accepted' : x \in accepted \/ x = m
      BY <2>1
    <3> QED
      BY <1>1, <3>1, <3>2, <3>3, <3>4 DEF NoneLost
  <2>15. Alone'
    BY <1>1, <2>1 DEF Alone, Disconnecting
  <2> QED
    BY <2>10, <2>11, <2>12, <2>13, <2>14, <2>15
<1> QED
  BY <1>3, <1>4
-----------------------------------------------------------------------------
\* A round of the toolkit's thread.
LEMMA RoundInv ==
  ASSUME AggregationInv, Round
  PROVE  AggregationInv'
<1> USE DEF Round, link, caller
<1> DEFINE why == Returned(Toolkit)
           expired == IF why = "TIMEOUT" THEN Expired ELSE {}
<1> PICK due : due = {b \in bins : messages[b] # <<>> /\ (ready[b] \/ b \in expired)}
  OBVIOUS
<1>1. /\ waits' = [waits EXCEPT ![Toolkit] = "asleep"]
      /\ late' = [b \in Key |-> late[b] /\ b \notin expired]
      /\ UNCHANGED <<bins, connected, shared, crashed, links, all, reason,
                     step, msg, tries, published, accepted, at, lapses>>
  OBVIOUS
<1>2. CASE UNCHANGED <<messages, ready, failed, sent>>
  <2>1. InHand' /\ RightBin' /\ InLine' /\ NoneLost'
    BY <1>1, <1>2, Unmoved DEF sent
  <2>2. TypeOK'
    BY <1>1, <1>2 DEF AggregationInv, TypeOK, sent
  <2>3. Alone'
    BY <1>1, <1>2 DEF AggregationInv, Alone, Disconnecting
  <2> QED
    BY <2>1, <2>2, <2>3 DEF AggregationInv
<1>3. CASE Process(due) /\ ready' = [b \in Key |-> (ready[b] \/ b \in expired) /\ b \notin due]
  <2>1. due \subseteq bins
    OBVIOUS
  <2>2. /\ wire' \in [Subject -> Seq(Bundle)] /\ reported' \subseteq Message
        /\ failures' \in 0 .. MaxFailures /\ failed' \in BOOLEAN
        /\ messages' = [b \in Key |-> IF b \in due THEN <<>> ELSE messages[b]]
        /\ reported \subseteq reported'
        /\ \A m \in Message, b \in due :
             (\E i \in DOMAIN messages[b] : messages[b][i] = m) => Arrived(m)' \/ m \in reported'
        /\ \A m \in Message : Arrived(m) => Arrived(m)'
    BY <1>3, <2>1, ProcessLemma
  <2>3. InLine'
    BY <1>1, <1>3, <2>1, ProcessInLine
  <2> HIDE DEF Round, link, caller, why, expired
  <2>4. TypeOK'
    <3>1. messages' \in [Key -> Seq(Message)]
      <4>1. \A b \in Key : (IF b \in due THEN <<>> ELSE messages[b]) \in Seq(Message)
        BY Pieces
      <4> QED
        BY <2>2, <4>1
    <3>2. late' \in [Key -> BOOLEAN] /\ ready' \in [Key -> BOOLEAN]
      BY <1>1, <1>3
    <3> QED
      BY <1>1, <2>2, <3>1, <3>2 DEF AggregationInv, TypeOK
  <2>5. InHand'
    BY <1>1 DEF AggregationInv, InHand
  <2>6. ASSUME NEW b \in Key, NEW i \in DOMAIN messages'[b]
        PROVE  b \notin due /\ messages'[b] = messages[b] /\ i \in DOMAIN messages[b]
    BY <2>2, <2>6
  <2>7. RightBin'
    <3>1. \A b \in Key : \A i \in DOMAIN messages'[b] : b \in bins /\ BinOf(messages'[b][i].subject) = b
      BY <2>6 DEF AggregationInv, RightBin
    <3> QED
      BY <1>1, <3>1 DEF AggregationInv, RightBin, BinOf
  <2>8. NoneLost'
    <3>1. accepted \subseteq Message /\ bins \subseteq Key
      BY DEF AggregationInv, TypeOK
    <3>2. ASSUME NEW m \in accepted, Binned(m)
          PROVE  Binned(m)' \/ Arrived(m)' \/ m \in reported'
      <4>1. PICK b \in bins : \E i \in DOMAIN messages[b] : messages[b][i] = m
        BY <3>2 DEF Binned
      <4>2. CASE b \in due
        BY <2>2, <3>1, <4>1, <4>2
      <4>3. CASE b \notin due
        BY <1>1, <2>2, <3>1, <4>1, <4>3 DEF Binned
      <4> QED
        BY <4>2, <4>3
    <3> QED
      BY <1>1, <2>2, <3>1, <3>2, NoneLostKept
  <2>9. Alone'
    <3>1. \A b \in Key : messages[b] = <<>> => messages'[b] = <<>>
      BY <2>2
    <3> QED
      BY <1>1, <3>1 DEF AggregationInv, Alone, Disconnecting
  <2> QED
    BY <2>3, <2>4, <2>5, <2>7, <2>8, <2>9 DEF AggregationInv
<1> QED
  BY <1>2, <1>3

\* disconnect() publishes what is left.
LEMMA ShutdownInv ==
  ASSUME AggregationInv, NEW th \in Thread, Shutdown(th)
  PROVE  AggregationInv'
<1> USE DEF Shutdown, link, Left
<1>1. /\ step[th] = "stop" /\ bins' = {} /\ reason' = "QUIT"
      /\ ready' = [b \in Key |-> FALSE] /\ late' = [b \in Key |-> TRUE]
      /\ waits' = [Woken EXCEPT ![th] = "asleep"]
      /\ step' = [step EXCEPT ![th] = "await"] /\ tries' = [tries EXCEPT ![th] = 2]
      /\ UNCHANGED <<connected, shared, crashed, links, all, msg, published, accepted, at, lapses>>
  OBVIOUS
<1>2. /\ step \in [Thread -> {"idle", "status", "add", "direct", "stop", "await", "reset", "close"}]
      /\ bins \subseteq Key /\ accepted \subseteq Message
  BY DEF AggregationInv, TypeOK
<1>3. /\ wire' \in [Subject -> Seq(Bundle)] /\ reported' \subseteq Message
      /\ failures' \in 0 .. MaxFailures /\ failed' \in BOOLEAN
      /\ messages' = [b \in Key |-> IF b \in bins THEN <<>> ELSE messages[b]]
      /\ reported \subseteq reported'
      /\ \A m \in Message, b \in bins :
           (\E i \in DOMAIN messages[b] : messages[b][i] = m) => Arrived(m)' \/ m \in reported'
      /\ \A m \in Message : Arrived(m) => Arrived(m)'
  BY ProcessLemma
<1>4. InLine'
  BY <1>1, ProcessInLine
<1> HIDE DEF Shutdown, link, Left
\* What is in no bin is in none of its messages.
<1>5. \A b \in Key : messages'[b] = <<>>
  <2>1. ASSUME NEW b \in Key, b \notin bins
        PROVE  messages[b] = <<>>
    <3>1. messages[b] \in Seq(Message) /\ DOMAIN messages[b] = 1 .. Len(messages[b])
      BY Pieces
    <3>2. DOMAIN messages[b] = {}
      BY <2>1 DEF AggregationInv, RightBin
    <3>3. Len(messages[b]) = 0
      <4>1. Len(messages[b]) \in Nat
        BY <3>1, LenProperties
      <4>2. 1 .. Len(messages[b]) = {}
        BY <3>1, <3>2
      <4> QED
        BY <4>1, <4>2
    <3> QED
      BY <3>1, <3>3, EmptySeq
  <2> QED
    BY <1>3, <2>1
<1>6. TypeOK'
  <2>1. messages' \in [Key -> Seq(Message)]
    <3>1. \A b \in Key : messages'[b] \in Seq(Message)
      BY <1>5, EmptySeq
    <3> QED
      BY <1>3, <3>1
  <2>2. waits' \in [Thread \cup {Toolkit} -> {"no", "asleep", "woken", "timeout"}]
    BY <1>1 DEF AggregationInv, TypeOK, Woken
  <2>3. tries' \in [Thread -> 0 .. 3] /\ ready' \in [Key -> BOOLEAN] /\ late' \in [Key -> BOOLEAN]
    BY <1>1 DEF AggregationInv, TypeOK
  <2> QED
    BY <1>1, <1>2, <1>3, <2>1, <2>2, <2>3 DEF AggregationInv, TypeOK
<1>7. InHand'
  BY <1>1, <1>2 DEF AggregationInv, InHand
<1>8. RightBin'
  <2>1. ASSUME NEW u \in Thread, step'[u] = "direct"
        PROVE  BinOf(msg[u].subject)' = None
    BY <1>1, <1>2, <2>1 DEF AggregationInv, RightBin, BinOf
  <2>2. (\A u \in Thread : step[u] = "direct" => BinOf(msg[u].subject) = None)'
    BY <2>1 DEF BinOf
  <2>3. \A b \in Key : DOMAIN messages'[b] = {}
    BY <1>5
  <2> QED
    BY <2>2, <2>3 DEF RightBin
<1>9. NoneLost'
  <2>1. \A m \in accepted : Binned(m) => Arrived(m)' \/ m \in reported'
    BY <1>2, <1>3 DEF Binned
  <2> QED
    BY <1>1, <1>2, <1>3, <2>1, NoneLostKept
<1>10. Alone'
  BY <1>1, <1>2, <1>5 DEF AggregationInv, Alone, Disconnecting
<1> QED
  BY <1>4, <1>6, <1>7, <1>8, <1>9, <1>10 DEF AggregationInv
-----------------------------------------------------------------------------
\* The other steps of the threads move no message.
LEMMA ThreadStepInv ==
  ASSUME AggregationInv, NEW th \in Thread,
         Connect(th) \/ Disconnect(th) \/ Awaited(th) \/ Reset(th) \/ Close(th)
  PROVE  AggregationInv'
<1> USE DEF Goes, store, link, sent, condition, caller
<1>1. /\ step \in [Thread -> {"idle", "status", "add", "direct", "stop", "await", "reset", "close"}]
      /\ waits \in [Thread \cup {Toolkit} -> {"no", "asleep", "woken", "timeout"}]
      /\ tries \in [Thread -> 0 .. 3] /\ links \in 0 .. MaxLinks /\ MaxLinks \in Nat
  BY AggregationAssumption DEF AggregationInv, TypeOK
<1>2. CASE Connect(th)
  <2> USE <1>2 DEF Connect
  <2>1. InHand' /\ RightBin' /\ InLine' /\ NoneLost'
    BY Unmoved
  <2>2. TypeOK'
    BY <1>1 DEF AggregationInv, TypeOK
  <2>3. Alone'
    BY <1>1 DEF AggregationInv, Alone, Disconnecting
  <2> QED
    BY <2>1, <2>2, <2>3 DEF AggregationInv
<1>3. CASE Disconnect(th)
  <2> USE <1>3 DEF Disconnect
  <2>1. InHand' /\ RightBin' /\ InLine' /\ NoneLost'
    BY <1>1, Unmoved
  <2>2. TypeOK'
    BY <1>1 DEF AggregationInv, TypeOK
  <2>3. Alone'
    BY <1>1 DEF AggregationInv, Alone, Disconnecting
  <2> QED
    BY <2>1, <2>2, <2>3 DEF AggregationInv
<1>4. CASE Awaited(th)
  <2> USE <1>4 DEF Awaited
  <2>1. /\ step[th] = "await"
        /\ \/ step' = step
           \/ step' = [step EXCEPT ![th] = "reset"] /\ (at = "ended" \/ "unstopped" \in lapses')
        /\ tries' = tries \/ (tries[th] > 0 /\ tries' = [tries EXCEPT ![th] = @ - 1])
        /\ waits' = [waits EXCEPT ![th] = "asleep"] \/ waits' = [waits EXCEPT ![th] = "no"]
        /\ lapses' = lapses \/ lapses' = lapses \cup {"unstopped"}
    OBVIOUS
  <2>2. InHand' /\ RightBin' /\ InLine' /\ NoneLost'
    BY <1>1, <2>1, Unmoved
  <2>3. TypeOK'
    <3>1. /\ step' \in [Thread -> {"idle", "status", "add", "direct", "stop", "await", "reset", "close"}]
          /\ waits' \in [Thread \cup {Toolkit} -> {"no", "asleep", "woken", "timeout"}]
      BY <1>1, <2>1
    <3>2. tries' \in [Thread -> 0 .. 3]
      BY <1>1, <2>1
    <3> QED
      BY <2>1, <3>1, <3>2 DEF AggregationInv, TypeOK
  <2>4. Alone'
    BY <1>1, <2>1 DEF AggregationInv, Alone, Disconnecting
  <2> QED
    BY <2>2, <2>3, <2>4 DEF AggregationInv
<1>5. CASE Reset(th)
  <2> USE <1>5 DEF Reset
  <2>1. InHand' /\ RightBin' /\ InLine' /\ NoneLost'
    BY <1>1, Unmoved
  <2>2. TypeOK'
    BY <1>1 DEF AggregationInv, TypeOK
  <2>3. Alone'
    BY <1>1 DEF AggregationInv, Alone, Disconnecting
  <2> QED
    BY <2>1, <2>2, <2>3 DEF AggregationInv
<1>6. CASE Close(th)
  <2> USE <1>6 DEF Close
  <2>1. InHand' /\ RightBin' /\ InLine' /\ NoneLost'
    BY <1>1, Unmoved
  <2>2. TypeOK'
    BY <1>1 DEF AggregationInv, TypeOK
  <2>3. Alone'
    BY <1>1 DEF AggregationInv, Alone, Disconnecting
  <2> QED
    BY <2>1, <2>2, <2>3 DEF AggregationInv
<1> QED
  BY <1>2, <1>3, <1>4, <1>5, <1>6

\* So do those of the toolkit's thread, of the clock, and the crashes.
LEMMA ClockStepInv ==
  ASSUME AggregationInv,
         \/ Start \/ Quit \/ Crashes
         \/ \E t \in DOMAIN waits, how \in {"woken", "timeout"} : WaitEnds(t, how)
         \/ \E b \in bins : Elapse(b)
  PROVE  AggregationInv'
<1> USE DEF Start, Quit, Crashes, WaitEnds, Elapse, store, link, sent, condition, caller
<1>1. UNCHANGED <<bins, all, messages, wire, msg, published, accepted, reported, step>>
  OBVIOUS
<1>2. InHand' /\ RightBin' /\ InLine' /\ NoneLost'
  BY <1>1, Unmoved
<1>3. TypeOK'
  <2>1. waits' \in [Thread \cup {Toolkit} -> {"no", "asleep", "woken", "timeout"}]
    BY DEF AggregationInv, TypeOK, Woken
  <2>2. late' \in [Key -> BOOLEAN]
    BY DEF AggregationInv, TypeOK
  <2>3. /\ at' \in {"begin", "run", "ended"}
        /\ reason' \in {"INVALID", "UNMANAGED", "QUIT", "FLUSH_BIN", "MANAGED"}
        /\ crashed' \in BOOLEAN
        /\ UNCHANGED <<ready, failed, connected, shared, links, all, failures, tries, lapses>>
    BY DEF AggregationInv, TypeOK
  <2> QED
    BY <1>1, <2>1, <2>2, <2>3 DEF AggregationInv, TypeOK
<1>4. Alone'
  BY DEF AggregationInv, Alone, Disconnecting
<1> QED
  BY <1>2, <1>3, <1>4 DEF AggregationInv

\* The invariant is inductive.
LEMMA StepInv ==
  ASSUME AggregationInv, [Next]_vars
  PROVE  AggregationInv'
<1>1. CASE UNCHANGED vars
  <2> USE <1>1 DEF vars, store, link, sent, condition, caller
  <2>1. InHand' /\ RightBin' /\ InLine' /\ NoneLost'
    BY Unmoved
  <2>2. TypeOK' /\ Alone'
    BY DEF AggregationInv, TypeOK, Alone, Disconnecting
  <2> QED
    BY <2>1, <2>2 DEF AggregationInv
<1>2. ASSUME NEW th \in Thread, NEW s \in Subject, Publish(th, s)
      PROVE  AggregationInv'
  BY <1>2, PublishInv
<1>3. ASSUME NEW th \in Thread, PublishSteps(th)
      PROVE  AggregationInv'
  BY <1>3, CheckStatusInv, AddMessageInv, PublishNowInv, PublishNowFailsInv DEF PublishSteps
<1>4. ASSUME NEW th \in Owner, Connect(th) \/ Disconnect(th) \/ DisconnectSteps(th)
      PROVE  AggregationInv'
  <2>1. th \in Thread
    BY AggregationAssumption
  <2> QED
    BY <1>4, <2>1, ShutdownInv, ThreadStepInv DEF DisconnectSteps
<1>5. CASE \/ \E t \in DOMAIN waits, how \in {"woken", "timeout"} : WaitEnds(t, how)
           \/ \E b \in bins : Elapse(b)
  BY <1>5, ClockStepInv
<1>6. CASE ToolkitSteps
  BY <1>6, ClockStepInv, RoundInv DEF ToolkitSteps
<1>7. CASE CrashSteps
  BY <1>7, ClockStepInv DEF CrashSteps, RoundCrashes, PublishCrashes, DisconnectCrashes
<1> QED
  BY <1>1, <1>2, <1>3, <1>4, <1>5, <1>6, <1>7 DEF Next

\* It holds to begin with.
LEMMA InitInv == Init => AggregationInv
<1> SUFFICES ASSUME Init
             PROVE  AggregationInv
  OBVIOUS
<1> USE DEF Init
<1>1. \A b \in Key : messages[b] = <<>> /\ DOMAIN messages[b] = {}
  OBVIOUS
<1>2. \A s \in Subject : wire[s] = <<>> /\ DOMAIN wire[s] = {}
  OBVIOUS
<1>3. TypeOK
  <2>1. messages \in [Key -> Seq(Message)] /\ wire \in [Subject -> Seq(Bundle)]
    BY EmptySeq
  <2>2. bins \subseteq Key
    BY DEF Key
  <2>3. failures \in 0 .. MaxFailures /\ links \in 0 .. MaxLinks
    BY AggregationAssumption
  <2>4. /\ {connected, shared, crashed, all, failed} \subseteq BOOLEAN
        /\ ready \in [Key -> BOOLEAN] /\ late \in [Key -> BOOLEAN]
    OBVIOUS
  <2>5. /\ waits \in [Thread \cup {Toolkit} -> {"no", "asleep", "woken", "timeout"}]
        /\ step \in [Thread -> {"idle", "status", "add", "direct", "stop", "await", "reset", "close"}]
        /\ msg \in [Thread -> Message \cup {None}] /\ tries \in [Thread -> 0 .. 3]
        /\ published \in [Thread -> Nat]
    OBVIOUS
  <2>6. /\ reason \in {"INVALID", "UNMANAGED", "QUIT", "FLUSH_BIN", "MANAGED"}
        /\ at \in {"begin", "run", "ended"} /\ lapses \subseteq {"overlap", "unstopped"}
        /\ accepted \subseteq Message /\ reported \subseteq Message
    OBVIOUS
  <2> HIDE DEF Init
  <2> QED
    BY <2>1, <2>2, <2>3, <2>4, <2>5, <2>6 DEF TypeOK
<1>4. InHand
  BY DEF InHand
<1>5. RightBin
  BY <1>1 DEF RightBin
<1>6. InLine
  BY <1>1, <1>2 DEF InLine, InOrder
<1>7. NoneLost /\ Alone
  BY <1>1 DEF NoneLost, Alone, Disconnecting
<1> QED
  BY <1>3, <1>4, <1>5, <1>6, <1>7 DEF AggregationInv
-----------------------------------------------------------------------------
\* What is in hand, in the bins and on the wire stays in line, and no message leaves
\* them without having arrived or been reported (MessageAggregationToolkit.cpp, and
\* InternalConnection::publish() and disconnect() as far as they use it).
THEOREM AggregationHolds == Spec => []AggregationInv
<1>1. AggregationInv /\ [Next]_vars => AggregationInv'
  BY StepInv
<1> QED
  BY InitInv, <1>1, PTL DEF Spec

\* processBin() and publish(): whatever full bins, flush times, failures of the
\* middleware, direct publishes and reconnections come in between, a subscriber gets the
\* messages of a thread on a subject in the order they were published in, and none twice.
THEOREM ArrivesInOrder == Spec => []InOrder
<1>1. AggregationInv => InOrder
  BY DEF AggregationInv, InLine
<1> QED
  BY <1>1, AggregationHolds, PTL

\* addMessage(), processBin() and shutdown(): a message whose publish() has returned is in
\* its bin, was given to the middleware, or is reported; and a disconnect() that no
\* publish() overlapped leaves no message in a bin, and its thread ended unless the three
\* waits for it were in vain.
THEOREM NothingLostInSilence == Spec => []Flushed
<1>1. ASSUME AggregationInv
      PROVE  Flushed
  <2>1. \A b \in Key : messages[b] = <<>> => DOMAIN messages[b] = {}
    OBVIOUS
  <2>2. bins \subseteq Key
    BY <1>1 DEF AggregationInv, TypeOK
  <2>3. (\A b \in Key : messages[b] = <<>>) => \A m \in accepted : ~Binned(m)
    BY <2>1, <2>2 DEF Binned
  <2> QED
    BY <1>1, <2>3 DEF AggregationInv, NoneLost, Alone, Flushed
<1> QED
  BY <1>1, AggregationHolds, PTL
=============================================================================
