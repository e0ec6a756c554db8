----------------------------- MODULE BoltServer -----------------------------
(***************************************************************************)
(* The Bolt server (wrapper/bolt/java): the acceptor and the IOManager,    *)
(* which own the sockets, and the Processor, a thread of its own that      *)
(* takes the packets of all clients from one queue and answers them.       *)
(*                                                                         *)
(* A Client object of the server lives as long as its link and is named    *)
(* after it.                                                               *)
(***************************************************************************)
EXTENDS BoltWire

CONSTANT ProcessorQueue  \* bound: capacity of the Processor's queue

VARIABLES
  srv,    \* "none", "open", or "dead" after cleanup(), for the Client of every link
  list,   \* Client.subscriptions
  group,  \* the distributor's tree
  procQ,  \* RealProcessor.queue: <<link, packet>>
  proc    \* the SUBSCRIBE the Processor is at, or None

INSTANCE BoltDistributor

ASSUME ServerAssumption ==
  /\ ProcessorQueue \in Nat /\ None \notin BOOLEAN /\ None \notin Link /\ \A s \in SUBSET Link : s # None
  /\ None \notin [link : Link, topics : Seq(Seq(STRING)), real : BOOLEAN \cup {None}]

server == <<srv, list, group, procQ, proc>>

ServerInit ==
  /\ srv = [l \in Link |-> "none"]
  /\ list = [l \in Link |-> {}]
  /\ group = [p \in Pattern |-> Empty]
  /\ procQ = <<>> /\ proc = None

\* Client.output(), for a set of clients: nothing once a client is cleaned up.
Queued(d, clients, pkt) ==
  [l \in Link |-> IF l \in clients /\ srv[l] = "open" /\ lk[l] = "up"
                  THEN Append(d[l], pkt) ELSE d[l]]

Output(clients, pkt) == down' = Queued(down, clients, pkt)

\* Server.assign() and IOManager.assign(): the first packet is a WELCOME.
Assign(l) ==
  /\ srv[l] = "none" /\ lk[l] # "none"
  /\ srv' = [srv EXCEPT ![l] = "open"]
  /\ down' = [down EXCEPT ![l] = IF lk[l] = "up" THEN Append(@, Plain("WELCOME")) ELSE @]
  /\ UNCHANGED <<lk, up, faults, list, group, procQ, proc>>

\* readPending(), ingest() and consume(): a packet goes to the Processor.
Consume(l) ==
  /\ srv[l] = "open" /\ up[l] # <<>> /\ Len(procQ) < ProcessorQueue
  /\ procQ' = Append(procQ, <<l, Head(up[l])>>)
  /\ up' = [up EXCEPT ![l] = Tail(@)]
  /\ UNCHANGED <<lk, down, faults, srv, list, group, proc>>

\* failed() and cleanup(), after a read error or when nothing has come for long.
\* From now on the client's distributor is a FakeDistributor.
Cleanup(l) ==
  /\ srv[l] = "open" /\ lk[l] = "down" /\ up[l] = <<>>
  /\ srv' = [srv EXCEPT ![l] = "dead"]
  /\ group' = Parted(list[l], l)
  /\ list' = [list EXCEPT ![l] = {}]
  /\ UNCHANGED <<wire, procQ, proc>>
-----------------------------------------------------------------------------
\* The message RealProcessor.run() takes from its queue.
Taken(l, pkt, type) ==
  /\ proc = None
  /\ Head(procQ) = <<l, pkt>> /\ pkt.type = type
  /\ procQ' = Tail(procQ)

\* negotiate() answers with an ACK.
Answer(l, pkt) ==
  /\ Taken(l, pkt, "NEGOTIATE")
  /\ Output({l}, Plain("ACK"))
  /\ UNCHANGED <<lk, up, faults, srv, list, group, proc>>

\* distribute() and RealDistributor.distribute().
Distribute(l, pkt) ==
  /\ Taken(l, pkt, "PUBLISH")
  /\ Output(GetClients(pkt.topics[1]), pkt)
  /\ UNCHANGED <<lk, up, faults, srv, list, group, proc>>

\* Client.unsubscribe(); there is no answer.
ServerUnsubscribe(l, pkt) ==
  /\ Taken(l, pkt, "UNSUBSCRIBE")
  /\ LET topics == {pkt.topics[1]}
     IN  /\ group' = IF srv[l] = "open" THEN Parted(topics, l) ELSE group
         /\ list' = [list EXCEPT ![l] = @ \ topics]
  /\ UNCHANGED <<wire, srv, proc>>

\* Client.subscribe() is about to register the topics one by one.
ServerSubscribe(l, pkt) ==
  /\ Taken(l, pkt, "SUBSCRIBE")
  /\ proc' = [link |-> l, topics |-> pkt.topics, real |-> None]
  /\ UNCHANGED <<wire, srv, list, group>>

\* _subscribe() reads the client's distributor, which cleanup() may replace ...
Fetch ==
  /\ proc # None /\ proc.real = None
  /\ proc' = [proc EXCEPT !.real = (srv[proc.link] = "open")]
  /\ UNCHANGED <<wire, srv, list, group, procQ>>

\* Mutant: the topics after the first are forgotten.
Register_FirstOnly ==
  /\ proc # None /\ proc.real # None
  /\ LET l == proc.link
         t == Head(proc.topics)
     IN  /\ group' = IF proc.real THEN Joined({t}, l) ELSE group
         /\ list' = [list EXCEPT ![l] = @ \cup {t}]
         /\ Output({l}, Plain("ACK")) /\ proc' = None
  /\ UNCHANGED <<lk, up, faults, srv, procQ>>

\* ... and calls it.  After the last topic, or a duplicate, the ACK follows.
Register ==
  /\ proc # None /\ proc.real # None
  /\ LET l == proc.link
         t == Head(proc.topics)
         duplicate == proc.real /\ IsMember(t, l)
         last == duplicate \/ Len(proc.topics) = 1
     IN  /\ group' = IF proc.real THEN Joined({t}, l) ELSE group
         /\ list' = [list EXCEPT ![l] = IF duplicate THEN @ ELSE @ \cup {t}]
         /\ IF last THEN /\ Output({l}, Plain("ACK")) /\ proc' = None
                    ELSE /\ proc' = [proc EXCEPT !.topics = Tail(@), !.real = None]
                         /\ UNCHANGED down
  /\ UNCHANGED <<lk, up, faults, srv, procQ>>

Processor ==
  \/ procQ # <<>> /\
       LET l == Head(procQ)[1]
           pkt == Head(procQ)[2]
       IN  Answer(l, pkt) \/ Distribute(l, pkt) \/ ServerUnsubscribe(l, pkt) \/ ServerSubscribe(l, pkt)
  \/ Fetch \/ Register

IOManager(l) == Assign(l) \/ Consume(l) \/ Cleanup(l)
=============================================================================
