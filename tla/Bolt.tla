-------------------------------- MODULE Bolt --------------------------------
(***************************************************************************)
(* The Bolt middleware: one client and the server over links that may      *)
(* fail.  The client publishes to itself, through the server.              *)
(***************************************************************************)
EXTENDS BoltClient, BoltServer

vars == <<wire, client, history, server>>

Init == WireInit /\ ClientInit /\ ServerInit

\* Neither a packet nor the answer to one is under way.
Forgotten(l) ==
  /\ srv[l] = "open" /\ up[l] = <<>> /\ down[l] = <<>>
  /\ proc = None /\ \A i \in DOMAIN procQ : procQ[i][1] # l

\* The reader sees no packet for 10 s.  On a sound link the pings of the manager
\* prevent that when messages are dispatched, and before that the server's answers,
\* but for those that are too slow; not on a new link when the 10 s are not over.
TimesOut ==
  /\ Inactive /\ UNCHANGED server
  /\ \/ /\ lk[sock] = "down" \/ nullRead \/ (mode # "DISPATCHING" /\ Forgotten(sock))
        /\ UNCHANGED faults
     \/ mode # "DISPATCHING" /\ Fault

\* Bound: the model ends with the last link.
LinksLeft == sock # 0 \/ Unused # {}

ReaderStep == LinksLeft /\ ((Reader /\ UNCHANGED server) \/ TimesOut)
CallerStep == LinksLeft /\ Caller /\ UNCHANGED server
ManagerStep == LinksLeft /\ Manager /\ UNCHANGED server
ServerStep ==
  LinksLeft /\ (Processor \/ \E l \in Link : IOManager(l)) /\ UNCHANGED <<client, history>>

Next ==
  \/ ReaderStep \/ CallerStep \/ ManagerStep
  \/ LinksLeft /\ Application /\ UNCHANGED server
  \/ ServerStep
  \/ \E l \in Link : LinksLeft /\ Break(l) /\ UNCHANGED <<client, history, server>>

\* Every thread runs, and a call that was made goes on; what the application
\* does next, and what the network does, is not promised.  The server accepts
\* a connection that is asked for again and again.
Fairness ==
  /\ WF_vars(ReaderStep)
  /\ WF_vars(CallerStep)
  /\ WF_vars(ManagerStep /\ state' = "CONNECTED")
  /\ WF_vars(ServerStep)

Spec == Init /\ [][Next]_vars /\ Fairness
-----------------------------------------------------------------------------
\* Types.
Packets ==
  [type : {"WELCOME", "NEGOTIATE", "ACK", "SUBSCRIBE", "UNSUBSCRIBE", "PUBLISH"},
   topics : Seq(Pattern \cup Subject), msg : 0 .. Mixed, cut : BOOLEAN]

Requests ==
  {pkt \in Packets :
     /\ pkt.type \in {"NEGOTIATE", "SUBSCRIBE", "UNSUBSCRIBE", "PUBLISH"} /\ ~pkt.cut
     /\ pkt.type \in {"SUBSCRIBE", "UNSUBSCRIBE"} =>
          pkt.topics \in Seq(Pattern) /\ pkt.topics # <<>>
     /\ pkt.type \in {"UNSUBSCRIBE", "PUBLISH"} => Len(pkt.topics) = 1
     /\ pkt.type = "PUBLISH" => pkt.topics[1] \in Subject /\ pkt.msg \in Msg}

Answers ==
  {pkt \in Packets :
     /\ pkt.type \in {"WELCOME", "ACK", "PUBLISH"} /\ pkt.msg # Mixed
     /\ pkt.type = "PUBLISH" => pkt.msg \in Msg}

ReaderType ==
  [pc : {"read", "handle", "problem", "resub"}, revised : BOOLEAN, trapped : BOOLEAN,
   part : Answers \cup {None}, torn : {0} \cup Link, in : Packets \cup {None},
   patterns : Seq(Pattern)]

UserType ==
  [pc : {"idle", "connect", "await", "disconnect", "wait", "put", "write", "push"},
   pkt : Requests \cup {None}, link : {0} \cup Link, err : BOOLEAN]

WireTypes ==
  /\ lk \in [Link -> {"none", "up", "down"}] /\ faults \in Nat
  /\ up \in [Link -> Seq(Requests)] /\ down \in [Link -> Seq(Answers)]

\* What the application sends has one topic.
ClientTypes ==
  /\ state \in {"MANAGED", "CONNECTED", "RECONNECTING", "UNCONNECTED"}
  /\ mode \in {"STARTING", "NEGOTIATING", "RESUBSCRIBING", "DISPATCHING"}
  /\ sock \in {0} \cup Link /\ subs \in Seq(Pattern) /\ nullRead \in BOOLEAN /\ app \in BOOLEAN
  /\ io \in [{"reader", "user"} -> {"no", "close", "state"}]
  /\ rd \in ReaderType
  /\ rd.pc = "resub" => rd.patterns # <<>>
  /\ rd.pc = "handle" => rd.in \in Packets /\ (rd.in.type = "PUBLISH" => rd.in.msg # 0)
  /\ user \in UserType
  /\ user.pc \in {"wait", "put", "write", "push"} =>
       user.pkt \in Requests /\ user.pkt.type # "NEGOTIATE" /\ Len(user.pkt.topics) = 1
  /\ user.pc \in {"wait", "push"} => user.pkt.type = "SUBSCRIBE"
  /\ user.pc = "put" => user.pkt.type # "UNSUBSCRIBE"

HistoryTypes ==
  /\ ops \in Nat /\ msgs \in 0 .. MaxMsgs
  /\ got \in Seq(1 .. Mixed) /\ due \in [Msg -> {0} \cup Link]
  /\ lapses \subseteq {"still open", "copied", "pushed late", "rewritten"}

ServerTypes ==
  /\ srv \in [Link -> {"none", "open", "dead"}] /\ list \in [Link -> SUBSET Pattern]
  /\ group \in [Pattern -> [client : Link \cup {None}, clients : (SUBSET Link) \cup {None}]]
  /\ procQ \in Seq(Link \X Requests)
  /\ proc \in [link : Link, topics : Seq(Pattern) \ {<<>>}, real : BOOLEAN \cup {None}] \cup {None}

TypeOK == WireTypes /\ ClientTypes /\ HistoryTypes /\ ServerTypes

\* The link the client uses is set up, and nothing the server has to know is under way.
Quiet ==
  /\ state = "CONNECTED" /\ mode = "DISPATCHING" /\ sock # 0 /\ user.pc = "idle" /\ MutexFree
  /\ IF sock = 0 THEN FALSE ELSE lk[sock] = "up" /\ up[sock] = <<>>
  /\ proc = None /\ \A i \in DOMAIN procQ : procQ[i][1] # sock

Registered(l) == {p \in Pattern : IsMember(p, l)}

\* When nothing is under way, the server has for the client's link the subscriptions
\* the client has, in the Client's own list and in the tree: however many links were
\* lost, whatever was resubscribed, and whichever calls raced that.  (What the code
\* does not prevent is in `lapses`: a link made anew without the socket being closed
\* since, an unsubscribe() between the copy of resubscribe() and its SUBSCRIBE, a
\* subscribe() that enters its pattern when the link it told has gone.)
Settled == Quiet /\ lapses = {} => list[sock] = Range(subs) /\ Registered(sock) = Range(subs)

\* A message written to a link that is set up, on a subject subscribed to, comes back
\* to the client unless that link is lost.
PublishedArrives ==
  Quiet /\ lapses = {} /\ down[sock] = <<>> /\ rd.pc = "read" /\ rd.part = None =>
    \A m \in Msg : due[m] = sock => \E i \in DOMAIN got : got[i] = m

\* Messages are exposed as they were published, never put together from the bytes of
\* two links, and once only, also when the link was made anew while the server still
\* had them to read from the one before (unless write() met an error and wrote again).
Exposed ==
  \A i \in DOMAIN got :
    /\ got[i] # Mixed
    /\ \A j \in DOMAIN got \ {i} : got[i] = got[j] => "rewritten" \in lapses

\* The tree walk sends a message to a client exactly when the client side of the API
\* matches the subject, or a shorter one, with one of the client's subscriptions.
Distributes ==
  \A l \in Link, subject \in Subject : srv[l] = "open" =>
    \A s \in Prefixes(subject) \ {<<>>} :
      l \in GetClients(s) <=> \E p \in list[l] : Matches(s, p)

\* A connection that is made or lost is set up again with all its subscriptions, or
\* ended by disconnect(), or used up the model's links.
Restored ==
  state \in {"CONNECTED", "RECONNECTING"} ~>
    \/ state = "CONNECTED" /\ mode = "DISPATCHING" /\ sock # 0
         /\ \A p \in Range(subs) : IsMember(p, sock)
    \/ lapses # {} \/ state = "UNCONNECTED" \/ ~LinksLeft
=============================================================================
