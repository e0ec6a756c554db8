--------------------------- MODULE BoltDistributor ---------------------------
(***************************************************************************)
(* RealDistributor of the Bolt server (java/bolt/Distributor.java): the    *)
(* tree of subscriptions, whose nodes hold no client, one client or a list *)
(* of them, and the walk that collects the clients of a subject.           *)
(*                                                                         *)
(* A pattern or a subject is the sequence of its elements, and a node of   *)
(* the tree is the path that leads to it.                                  *)
(***************************************************************************)
EXTENDS Naturals, Sequences, FiniteSets

CONSTANTS Pattern,     \* the patterns clients subscribe to
          None

VARIABLE group         \* the nodes of the tree that may hold clients

Empty == [client |-> None, clients |-> None]

Members(g) == IF g.clients # None THEN g.clients
              ELSE IF g.client # None THEN {g.client} ELSE {}

\* subscribe(): the first client of a node is kept by itself, the second one
\* makes a list of it.
Join(g, c) ==
  CASE g.clients # None                 -> [g EXCEPT !.clients = @ \cup {c}]
    [] g.clients = None /\ g.client = None -> [g EXCEPT !.client = c]
    [] g.clients = None /\ g.client = c    -> g
    [] OTHER -> [client |-> None, clients |-> {g.client, c}]

\* unsubscribe(); for a node without client and list, the code's null pointer
\* exception has the effect of its warning: none.
Quit(g, c) ==
  CASE g.clients # None                    -> [g EXCEPT !.clients = @ \ {c}]
    [] g.clients = None /\ g.client = c    -> Empty
    [] OTHER                               -> g

IsMember(p, c) == c \in Members(group[p])

Joined(patterns, c) == [p \in Pattern |-> IF p \in patterns THEN Join(group[p], c) ELSE group[p]]
Parted(patterns, c) == [p \in Pattern |-> IF p \in patterns THEN Quit(group[p], c) ELSE group[p]]
-----------------------------------------------------------------------------
ClientsAt(path) == IF path \in Pattern THEN Members(group[path]) ELSE {}

Path == {<<>>} \cup UNION {{SubSeq(p, 1, n) : n \in 0 .. Len(p)} : p \in Pattern}

\* Mutant: addClientsAux() without its "0 case".
AddClientsAux_NoZero(node, s, i, deeper) ==
  IF i = Len(s) THEN ClientsAt(node) ELSE deeper[i + 1][node]

\* addClientsAux(): a node that matches element i; below the last element only "+"
\* may follow.
AddClientsAux(node, s, i, deeper) ==
  IF i = Len(s) THEN ClientsAt(node) \cup ClientsAt(Append(node, "+"))
  ELSE deeper[i + 1][node]

\* What getClients() adds below a node, given what it adds further below.
Below(node, s, i, deeper) ==
  ClientsAt(Append(node, "+")) \cup ClientsAt(Append(node, ">")) \cup
  (UNION {AddClientsAux(Append(node, e), s, i, deeper) :
            e \in {x \in {"*", s[i]} : Append(node, x) \in Path}})

\* getClients(): the set that distribute() sends a message to.
Walk(s) ==
  LET get[i \in 1 .. Len(s)] == [node \in Path |-> Below(node, s, i, get)]
  IN  get

GetClients(s) == Walk(s)[1][<<>>]
=============================================================================
