--------------------------- MODULE BoltInvariant ---------------------------
(***************************************************************************)
(* The inductive invariant of Bolt, from which its safety properties       *)
(* follow: which links are used, what the reader can have before it, where *)
(* a message is, and what the server will have when it has worked through  *)
(* the packets of the client's link.                                       *)
(***************************************************************************)
EXTENDS Bolt

\* The socket's link is the only one that may be up or have packets to read, and a
\* link that was not made yet has left no trace.
LinksFit ==
  \A l \in Link :
    /\ lk[l] = "up" => l = sock /\ srv[l] # "dead"
    /\ down[l] # <<>> => l = sock
    /\ lk[l] = "none" =>
         /\ up[l] = <<>> /\ srv[l] = "none"
         /\ l \notin {sock, rd.torn, user.link} /\ \A m \in Msg : due[m] # l

\* Nor has a Client that was not made yet.
Unknown(l) ==
  /\ list[l] = {} /\ Registered(l) = {}
  /\ \A i \in DOMAIN procQ : procQ[i][1] # l
  /\ proc # None => proc.link # l

\* As long as a client is served, its own list and the tree agree.
ServerFits ==
  /\ \A l \in Link :
       /\ srv[l] # "dead" => list[l] = Registered(l)
       /\ srv[l] = "none" => Unknown(l)
  /\ proc # None => (proc.real = FALSE => srv[proc.link] = "dead")

\* A header without its content is the last that is read from a link, and what is put
\* together from it is read when the next link has not been set up; nothing else is
\* handled of that link.
ReadingFits ==
  /\ \A l \in Link : \A i \in DOMAIN down[l] :
       down[l][i].cut => Len(down[l]) = 1 /\ lk[l] = "down"
  /\ rd.part # None =>
       /\ rd.pc \in {"read", "problem"}
       /\ sock # 0 /\ mode # "STARTING" => lk[sock] = "down" /\ down[sock] = <<>>
  /\ rd.torn = sock /\ sock # 0 =>
       mode = "STARTING" \/ (mode = "NEGOTIATING" /\ rd.pc \in {"read", "problem"})
  /\ rd.pc = "handle" => (rd.in.msg = Mixed => mode = "STARTING")
  /\ rd.pc = "resub" => mode = "NEGOTIATING"
  /\ \A i \in DOMAIN got : got[i] # Mixed
-----------------------------------------------------------------------------
\* The places at which there may be a message, by what holds it, the link and the
\* position.
Place ==
  ({"user", "in"} \X {0} \X {0}) \cup ({"up", "down"} \X Link \X Nat) \cup ({"queue", "got"} \X {0} \X Nat)

Published(pkt, m) == pkt.type = "PUBLISH" /\ pkt.msg = m

\* Message m is at a place.
Holds(c, m) ==
  \/ c[1] = "user" /\ user.pc \in {"put", "write"} /\ Published(user.pkt, m)
  \/ c[1] = "up" /\ c[3] \in DOMAIN up[c[2]] /\ Published(up[c[2]][c[3]], m)
  \/ c[1] = "queue" /\ c[3] \in DOMAIN procQ /\ Published(procQ[c[3]][2], m)
  \/ c[1] = "down" /\ c[3] \in DOMAIN down[c[2]] /\ Published(down[c[2]][c[3]], m)
  \/ c[1] = "in" /\ rd.pc = "handle" /\ Published(rd.in, m)
  \/ c[1] = "got" /\ c[3] \in DOMAIN got /\ got[c[3]] = m

\* A message that was published is at one place at most.
Once ==
  \A m \in Msg, c \in Place : Holds(c, m) =>
    m <= msgs /\ ("rewritten" \in lapses \/ \A d \in Place : Holds(d, m) => d = c)
-----------------------------------------------------------------------------
\* The packets of link l that the Processor has not taken, among those of other links.
Line(l) == procQ \o [i \in 1 .. Len(up[l]) |-> <<l, up[l][i]>>]

Mentions(e, l, p) ==
  e[1] = l /\ e[2].type \in {"SUBSCRIBE", "UNSUBSCRIBE"} /\ p \in Range(e[2].topics)

\* Whether a server that has the subscriptions `known` for link l has p when it has
\* worked through the entries of q before the i-th.
Serves(q, l, known, p, i) ==
  \/ \E j \in 1 .. i - 1 :
       /\ Mentions(q[j], l, p) /\ q[j][2].type = "SUBSCRIBE"
       /\ \A k \in j + 1 .. i - 1 : ~Mentions(q[k], l, p)
  \/ p \in known /\ \A k \in 1 .. i - 1 : ~Mentions(q[k], l, p)

WillServe(q, l, known, i) == {p \in Pattern : Serves(q, l, known, p, i)}

\* What the server has for link l when it has registered all topics it is at, and when
\* it has worked through all packets of the link.
Known(l) == list[l] \cup (IF proc = None THEN {} ELSE IF proc.link = l THEN Range(proc.topics) ELSE {})

AtEnd == WillServe(Line(sock), sock, Known(sock), Len(Line(sock)) + 1)

\* The pattern of a subscribe() or unsubscribe() that has changed one of the client's
\* list and the server's, but perhaps not the other.
InHand(p) == user.pc \in {"write", "push"} /\ user.pkt.type # "PUBLISH" /\ user.pkt.topics[1] = p

\* A link that is up, of a client that is connected and stays so.
Live ==
  /\ state = "CONNECTED" /\ sock # 0 /\ user.pc # "disconnect" /\ lapses = {}
  /\ IF sock = 0 THEN FALSE ELSE lk[sock] = "up"

\* The server stops at the first topic it has: then it has the rest, too.
RestIsServed(topics, served) ==
  \A a, b \in DOMAIN topics :
    a < b => topics[a] # topics[b] /\ (topics[a] \in served => topics[b] \in served)

SubscribesFit(q, l, known) ==
  \A i \in DOMAIN q :
    q[i][1] = l /\ q[i][2].type = "SUBSCRIBE" =>
      RestIsServed(q[i][2].topics, WillServe(q, l, known, i))

RequestsFit ==
  /\ SubscribesFit(Line(sock), sock, Known(sock))
  /\ proc # None => (proc.link = sock => RestIsServed(proc.topics, list[sock]))

\* The patterns in the list are distinct, and what is in hand is not among them.
ListFits ==
  /\ \A i, j \in DOMAIN subs : i # j => subs[i] # subs[j]
  /\ user.pc \in {"wait", "put", "write", "push"} /\ user.pkt.type # "PUBLISH" =>
       user.pkt.topics[1] \notin Range(subs)

\* Before the SUBSCRIBE of resubscribe(), what the server will have are the patterns
\* that entered the list last.
NotResubscribed(served) ==
  /\ \A p \in served : p \in Range(subs) \/ InHand(p)
  /\ RestIsServed(subs, served)
  /\ rd.pc = "resub" =>
       /\ RestIsServed(rd.patterns, served)
       /\ Range(rd.patterns) \subseteq Range(subs)
       /\ \A p \in Range(subs) : p \in Range(rd.patterns) \/ p \in served
       /\ \A p \in Range(rd.patterns) : ~InHand(p)

\* After it, the server will have what the client has.
HasResubscribed(served) == \A p \in Pattern : ~InHand(p) => (p \in served <=> p \in Range(subs))

Agrees(served) ==
  /\ user.pc = "push" /\ user.link = sock => user.pkt.topics[1] \in served
  /\ IF mode \in {"STARTING", "NEGOTIATING"} THEN NotResubscribed(served) ELSE HasResubscribed(served)

FlowFits == Live => RequestsFit /\ Agrees(AtEnd)

\* A message that must come back is on its way, and will find its subscription.
WillReturn(q, l, known, m) ==
  \E i \in DOMAIN q :
    /\ q[i][1] = l /\ Published(q[i][2], m)
    /\ \E p \in WillServe(q, l, known, i) : Matches(q[i][2].topics[1], p)

Coming(m) ==
  \/ \E i \in DOMAIN got : got[i] = m
  \/ rd.pc = "handle" /\ Published(rd.in, m)
  \/ \E i \in DOMAIN down[sock] : Published(down[sock][i], m)
  \/ WillReturn(Line(sock), sock, Known(sock), m)

Arriving == Live => \A m \in Msg : due[m] = sock => mode = "DISPATCHING" /\ Coming(m)

\* The inductive invariant.
BoltInv ==
  /\ TypeOK /\ LinksFit /\ ServerFits /\ ReadingFits /\ Once
  /\ ListFits /\ FlowFits /\ Arriving
=============================================================================
