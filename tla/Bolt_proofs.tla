---------------------------- MODULE Bolt_proofs ----------------------------
(***************************************************************************)
(* Proofs about Bolt, for any number of links, failures, calls and         *)
(* messages, any set of patterns and subjects, and a Processor queue of    *)
(* any capacity.                                                           *)
(*                                                                         *)
(*  1. The Distributor's walk: it finds the clients that Matches() selects.*)
(*  2. Types.                                                              *)
(*  3. Clients and tree, links, and what the reader reads.                 *)
(*  4. A message is at one place at most.                                  *)
(*  5. What the server will have when it has worked through a link's       *)
(*     packets, and that client and server will then agree.                *)
(*  6. What is to come back is on its way.                                 *)
(*  7. The inductive invariant and what follows from it.                   *)
(***************************************************************************)
EXTENDS BoltInvariant, WellFoundedInduction, SequenceTheorems, TLAPS

\* What subjects and patterns consist of, and what the code compares them with.
Element == STRING \cup {"*", "+", ">"}

\* A set of numbers has a least one: induction, without an operator for a parameter.
LEMMA LeastNumber ==
  ASSUME NEW S \in SUBSET Nat, S # {}
  PROVE  \E m \in S : \A n \in S : m <= n
<1>1. IsWellFoundedOn(OpToRel(<, Nat), Nat)
  BY NatLessThanWellFounded
<1>2. PICK x \in S : \A y \in S : ~(<<y, x>> \in OpToRel(<, Nat))
  BY <1>1, WFMin
<1>3. \A y \in Nat, z \in Nat : y < z => <<y, z>> \in OpToRel(<, Nat)
  BY DEF OpToRel
<1>4. \A y \in S : x \in Nat /\ y \in Nat /\ ~(y < x)
  BY <1>2, <1>3
<1>5. \A y \in S : x <= y
  BY <1>4
<1> QED
  BY <1>5

\* What is found below a node depends on the layer beneath only.
LEMMA BelowLocal ==
  ASSUME NEW s \in Seq(Element), NEW i \in 1 .. Len(s), NEW g, NEW h, NEW node,
         i < Len(s) => g[i + 1] = h[i + 1]
  PROVE  Below(node, s, i, g) = Below(node, s, i, h)
<1>1. \A n : AddClientsAux(n, s, i, g) = AddClientsAux(n, s, i, h)
  <2>1. Len(s) \in Nat
    OBVIOUS
  <2>2. i = Len(s) \/ i < Len(s)
    BY <2>1
  <2> QED
    BY <2>2 DEF AddClientsAux
<1> QED
  BY <1>1 DEF Below

Layer(s, i, g) == [node \in Path |-> Below(node, s, i, g)]

\* The recursive function exists: layer by layer, from the last element.
LEMMA WalkExists ==
  ASSUME NEW s \in Seq(Element)
  PROVE  \E g : g = [i \in 1 .. Len(s) |-> Layer(s, i, g)]
<1> DEFINE n == Len(s)
           Deep(k) == \E g : g = [i \in n - k + 1 .. n |-> Layer(s, i, g)]
           S == {k \in 0 .. n : ~Deep(k)}
<1>0. n \in Nat
  OBVIOUS
<1>1. Deep(0)
  <2> DEFINE g == [i \in n - 0 + 1 .. n |-> 0]
  <2>1. n - 0 + 1 .. n = {}
    BY <1>0
  <2>2. g = [i \in n - 0 + 1 .. n |-> Layer(s, i, g)]
    BY <2>1
  <2> QED
    BY <2>2
<1>2. ASSUME NEW k \in 0 .. n - 1, Deep(k)
      PROVE  Deep(k + 1)
  <2>1. PICK g : g = [i \in n - k + 1 .. n |-> Layer(s, i, g)]
    BY <1>2
  <2> DEFINE h == [i \in n - k .. n |-> IF i = n - k THEN Layer(s, n - k, g) ELSE g[i]]
  <2>2. n - (k + 1) + 1 = n - k /\ n - k \in 1 .. n
    BY <1>0
  <2>3. ASSUME NEW i \in n - k .. n PROVE h[i] = Layer(s, i, h)
    <3>0. k \in Nat /\ n - k \in Nat /\ i \in Nat /\ n - k >= 1 /\ n - k <= i /\ i <= n
      BY <1>0, <2>2
    <3>1. i \in 1 .. n /\ (i < n => i + 1 \in n - k .. n /\ i + 1 # n - k)
      BY <1>0, <3>0
    <3>2. i < n => g[i + 1] = h[i + 1]
      BY <3>1
    <3>3. \A node \in Path : Below(node, s, i, g) = Below(node, s, i, h)
      BY <3>1, <3>2, BelowLocal
    <3>4. Layer(s, i, g) = Layer(s, i, h)
      BY <3>3 DEF Layer
    <3>5. CASE i = n - k
      BY <3>4, <3>5
    <3>6. CASE i # n - k
      <4>1. i \in n - k + 1 .. n
        BY <1>0, <3>6
      <4>2. g[i] = Layer(s, i, g)
        BY <4>1, <2>1
      <4> QED
        BY <3>4, <3>6, <4>2
    <3> QED
      BY <3>5, <3>6
  <2>4. h = [i \in n - k .. n |-> Layer(s, i, h)]
    BY <2>3
  <2> QED
    BY <2>2, <2>4
<1>3. S = {}
  <2> SUFFICES ASSUME S # {} PROVE FALSE
    OBVIOUS
  <2>1. S \in SUBSET Nat
    BY <1>0
  <2>2. PICK m \in S : \A k \in S : m <= k
    BY <2>1, LeastNumber
  <2>3. m \in 0 .. n /\ ~Deep(m)
    BY <2>2
  <2>4. m # 0
    BY <1>1, <2>3
  <2>5. m - 1 \in 0 .. n - 1 /\ m - 1 + 1 = m /\ ~(m <= m - 1) /\ m - 1 \in 0 .. n
    BY <1>0, <2>3, <2>4
  <2>6. m - 1 \notin S
    BY <2>2, <2>5
  <2>7. Deep(m - 1)
    BY <2>5, <2>6
  <2>8. Deep(m - 1 + 1)
    BY <1>2, <2>5, <2>7
  <2> QED
    BY <2>3, <2>5, <2>8
<1>4. Deep(n)
  BY <1>0, <1>3
<1>5. n - n + 1 = 1
  BY <1>0
<1> QED
  BY <1>4, <1>5

\* It is what its definition says.
LEMMA WalkUnfolds ==
  ASSUME NEW s \in Seq(Element)
  PROVE  Walk(s) = [i \in 1 .. Len(s) |-> [node \in Path |-> Below(node, s, i, Walk(s))]]
<1>1. \E g : g = [i \in 1 .. Len(s) |-> [node \in Path |-> Below(node, s, i, g)]]
  BY WalkExists DEF Layer
<1>2. Walk(s) = CHOOSE g : g = [i \in 1 .. Len(s) |-> [node \in Path |-> Below(node, s, i, g)]]
  BY Zenon DEF Walk
<1> QED
  BY <1>1, <1>2

\* The elements of subjects and patterns.
LEMMA Elements ==
  Pattern \subseteq Seq(Element) /\ Subject \subseteq Seq(Element) \ {<<>>}
BY WireAssumption DEF Element

\* What is left of Matches() when the elements before the i-th agree.
FromHere(s, p, i) ==
  \/ Len(p) = Len(s) /\ \A j \in i .. Len(s) : p[j] \in {"*", s[j]}
  \/ \E k \in i .. Len(s) + 1 :
       /\ k <= Len(p) /\ (p[k] = "+" \/ (p[k] = ">" /\ k <= Len(s)))
       /\ \A j \in i .. k - 1 : p[j] \in {"*", s[j]}

Passes(p, node) == Len(node) <= Len(p) /\ \A j \in 1 .. Len(node) : p[j] = node[j]

\* The pattern of a node one below another, and of one that passes through it.
LEMMA NodeBelow ==
  ASSUME NEW node \in Seq(Element), NEW p \in Pattern, Passes(p, node), Len(node) < Len(p)
  PROVE  /\ Append(node, p[Len(node) + 1]) \in Path
         /\ Passes(p, Append(node, p[Len(node) + 1]))
         /\ Len(p) = Len(node) + 1 => p = Append(node, p[Len(node) + 1])
<1> DEFINE n == Len(node)
           e == p[n + 1]
           q == Append(node, e)
<1>0. p \in Seq(Element) /\ n \in Nat /\ Len(p) \in Nat
  BY WireAssumption, Elements
<1>1. n + 1 \in 1 .. Len(p) /\ e \in Element
  BY <1>0, ElementOfSeq
<1>2. q \in Seq(Element) /\ Len(q) = n + 1 /\ q[n + 1] = e /\ \A j \in 1 .. n : q[j] = node[j]
  BY <1>0, <1>1, AppendProperties
<1>3. \A j \in 1 .. n + 1 : q[j] = p[j]
  BY <1>0, <1>2 DEF Passes
<1>4. SubSeq(p, 1, n + 1) = q
  <2>1. /\ SubSeq(p, 1, n + 1) \in Seq(Element) /\ Len(SubSeq(p, 1, n + 1)) = n + 1
        /\ \A j \in 1 .. n + 1 : SubSeq(p, 1, n + 1)[j] = p[j]
    BY <1>0, <1>1, SubSeqProperties
  <2> QED
    BY <1>2, <1>3, <2>1, SeqEqual
<1>5. q \in Path
  <2>1. n + 1 \in 0 .. Len(p)
    BY <1>0, <1>1
  <2>2. q \in {SubSeq(p, 1, m) : m \in 0 .. Len(p)}
    BY <1>4, <2>1
  <2> QED
    BY <2>2 DEF Path
<1>6. Passes(p, q)
  BY <1>0, <1>2, <1>3 DEF Passes
<1>7. Len(p) = n + 1 => p = q
  BY <1>0, <1>2, <1>3, SeqEqual
<1> QED
  BY <1>5, <1>6, <1>7

\* The patterns that pass through a child of a node.
LEMMA AppendPasses ==
  ASSUME NEW node \in Seq(Element), NEW e \in Element
  PROVE  /\ Append(node, e) \in Seq(Element) /\ Len(Append(node, e)) = Len(node) + 1
         /\ Append(node, e)[Len(node) + 1] = e
         /\ Passes(Append(node, e), node)
         /\ \A p \in Seq(Element) : Passes(p, Append(node, e)) => Passes(p, node) /\ p[Len(node) + 1] = e
<1>1. /\ Append(node, e) \in Seq(Element) /\ Len(Append(node, e)) = Len(node) + 1 /\ Len(node) \in Nat
      /\ Append(node, e)[Len(node) + 1] = e /\ \A j \in 1 .. Len(node) : Append(node, e)[j] = node[j]
  OBVIOUS
<1>2. Passes(Append(node, e), node)
  BY <1>1 DEF Passes
<1>3. ASSUME NEW p \in Seq(Element), Passes(p, Append(node, e))
      PROVE  Passes(p, node) /\ p[Len(node) + 1] = e
  <2>1. Len(p) \in Nat
    OBVIOUS
  <2>2. Len(node) + 1 <= Len(p) /\ \A j \in 1 .. Len(node) + 1 : p[j] = Append(node, e)[j]
    BY <1>1, <1>3 DEF Passes
  <2>3. \A j \in 1 .. Len(node) : j \in 1 .. Len(node) + 1
    BY <1>1
  <2>4. Len(node) + 1 \in 1 .. Len(node) + 1 /\ Len(node) <= Len(p)
    BY <1>1, <2>1, <2>2
  <2> QED
    BY <1>1, <2>2, <2>3, <2>4 DEF Passes
<1> QED
  BY <1>1, <1>2, <1>3

\* A client of the tree is found at a node, or below it, exactly for the patterns that
\* match from there on.
Found(s, l, i) ==
  \A node \in Path : Len(node) = i - 1 =>
    (l \in Walk(s)[i][node] <=>
       \E p \in Pattern : IsMember(p, l) /\ Passes(p, node) /\ FromHere(s, p, i))

\* One turn of the loop of Matches().
LEMMA MatchesOn ==
  ASSUME NEW s \in Seq(Element), NEW p \in Pattern, NEW i \in 1 .. Len(s), i - 1 <= Len(p)
  PROVE  FromHere(s, p, i) <=>
           \/ Len(p) = i /\ p[i] \in {"+", ">"}
           \/ i <= Len(p) /\ p[i] \in {"*", s[i]} /\ FromHere(s, p, i + 1)
<1>0. Len(p) \in Nat /\ Len(s) \in Nat /\ i \in Nat /\ i <= Len(s) /\ i >= 1
  BY WireAssumption, Elements
<1>1. \A k \in 1 .. Len(p) - 1 : p[k] \notin {"+", ">"}
  BY WireAssumption, Elements
<1>2. \A k : k \in i .. Len(s) + 1 <=> k = i \/ k \in i + 1 .. Len(s) + 1
  BY <1>0
<1>3. \A m \in Nat : m >= i => \A j : j \in i .. m <=> j = i \/ j \in i + 1 .. m
  BY <1>0
<1>4. i .. i - 1 = {}
  BY <1>0
<1>5. (\A j \in i .. Len(s) : p[j] \in {"*", s[j]}) <=>
         p[i] \in {"*", s[i]} /\ \A j \in i + 1 .. Len(s) : p[j] \in {"*", s[j]}
  BY <1>0, <1>3
<1>6. \A k \in i + 1 .. Len(s) + 1 :
         (\A j \in i .. k - 1 : p[j] \in {"*", s[j]}) <=>
           p[i] \in {"*", s[i]} /\ \A j \in i + 1 .. k - 1 : p[j] \in {"*", s[j]}
  <2> TAKE k \in i + 1 .. Len(s) + 1
  <2>1. k - 1 \in Nat /\ k - 1 >= i
    BY <1>0
  <2> QED
    BY <1>3, <2>1
<1>7. i <= Len(p) /\ p[i] \in {"+", ">"} => Len(p) = i
  BY <1>0, <1>1
<1>8. ASSUME FromHere(s, p, i)
      PROVE  \/ Len(p) = i /\ p[i] \in {"+", ">"}
             \/ i <= Len(p) /\ p[i] \in {"*", s[i]} /\ FromHere(s, p, i + 1)
  <2>1. CASE Len(p) = Len(s) /\ \A j \in i .. Len(s) : p[j] \in {"*", s[j]}
    BY <1>0, <1>5, <2>1 DEF FromHere
  <2>2. ASSUME NEW k \in i .. Len(s) + 1, k <= Len(p), p[k] = "+" \/ (p[k] = ">" /\ k <= Len(s)),
               \A j \in i .. k - 1 : p[j] \in {"*", s[j]}
        PROVE  \/ Len(p) = i /\ p[i] \in {"+", ">"}
               \/ i <= Len(p) /\ p[i] \in {"*", s[i]} /\ FromHere(s, p, i + 1)
    <3>1. CASE k = i
      BY <1>7, <2>2, <3>1
    <3>2. CASE k \in i + 1 .. Len(s) + 1
      <4>1. p[i] \in {"*", s[i]} /\ \A j \in i + 1 .. k - 1 : p[j] \in {"*", s[j]}
        BY <1>6, <2>2, <3>2
      <4>2. FromHere(s, p, i + 1)
        BY <2>2, <3>2, <4>1 DEF FromHere
      <4>3. i <= Len(p)
        BY <1>0, <2>2, <3>2
      <4> QED
        BY <4>1, <4>2, <4>3
    <3> QED
      BY <1>2, <3>1, <3>2
  <2> QED
    BY <1>8, <2>1, <2>2 DEF FromHere
<1>9. ASSUME Len(p) = i /\ p[i] \in {"+", ">"}
      PROVE  FromHere(s, p, i)
  <2>1. i \in i .. Len(s) + 1 /\ i <= Len(p) /\ i <= Len(s)
    BY <1>0, <1>9
  <2> QED
    BY <1>4, <1>9, <2>1 DEF FromHere
<1>10. ASSUME i <= Len(p), p[i] \in {"*", s[i]}, FromHere(s, p, i + 1)
       PROVE  FromHere(s, p, i)
  <2>1. CASE Len(p) = Len(s) /\ \A j \in i + 1 .. Len(s) : p[j] \in {"*", s[j]}
    BY <1>5, <1>10, <2>1 DEF FromHere
  <2>2. ASSUME NEW k \in i + 1 .. Len(s) + 1, k <= Len(p), p[k] = "+" \/ (p[k] = ">" /\ k <= Len(s)),
               \A j \in i + 1 .. k - 1 : p[j] \in {"*", s[j]}
        PROVE  FromHere(s, p, i)
    <3>1. \A j \in i .. k - 1 : p[j] \in {"*", s[j]}
      BY <1>6, <1>10, <2>2
    <3>2. k \in i .. Len(s) + 1
      BY <1>2
    <3> QED
      BY <2>2, <3>1, <3>2 DEF FromHere
  <2> QED
    BY <1>10, <2>1, <2>2 DEF FromHere
<1> QED
  BY <1>8, <1>9, <1>10

\* What addClientsAux() finds at a node that matches element i, and below it.
LEMMA FoundBelow ==
  ASSUME NEW s \in Seq(Element), NEW l, NEW i \in 1 .. Len(s), i < Len(s) => Found(s, l, i + 1),
         NEW node \in Seq(Element), Len(node) = i, node \in Path
  PROVE  l \in AddClientsAux(node, s, i, Walk(s)) <=>
           \E p \in Pattern : IsMember(p, l) /\ Passes(p, node) /\ FromHere(s, p, i + 1)
<1>0. Len(s) \in Nat /\ i \in Nat /\ i <= Len(s) /\ i >= 1 /\ Pattern \subseteq Seq(Element)
  BY WireAssumption, Elements
<1>1. CASE i < Len(s)
  BY <1>0, <1>1 DEF AddClientsAux, Found
<1>2. CASE i = Len(s)
  <2>1. l \in AddClientsAux(node, s, i, Walk(s)) <=>
          l \in ClientsAt(node) \/ l \in ClientsAt(Append(node, "+"))
    BY <1>2 DEF AddClientsAux
  <2>2. \A p \in Pattern : FromHere(s, p, i + 1) <=>
          Len(p) = i \/ (i + 1 <= Len(p) /\ p[i + 1] = "+")
    <3> TAKE p \in Pattern
    <3>1. i + 1 .. Len(s) = {} /\ i + 1 .. Len(s) + 1 = {i + 1} /\ i + 1 .. i + 1 - 1 = {} /\ ~(i + 1 <= Len(s))
      BY <1>0, <1>2
    <3> QED
      BY <1>2, <3>1 DEF FromHere
  <2>3. ASSUME NEW p \in Pattern, Passes(p, node), Len(p) = i
        PROVE  p = node
    BY <1>0, <2>3, SeqEqual DEF Passes
  <2>4. ASSUME NEW p \in Pattern, Passes(p, node), i + 1 <= Len(p), p[i + 1] = "+"
        PROVE  p = Append(node, "+")
    <3>1. Len(p) \in Nat /\ \A k \in 1 .. Len(p) - 1 : p[k] \notin {"+", ">"}
      BY WireAssumption, Elements
    <3>2. Len(p) = i + 1 /\ Len(node) < Len(p)
      BY <1>0, <2>4, <3>1
    <3> QED
      BY <2>4, <3>2, NodeBelow
  <2>5. Passes(node, node) /\ Passes(Append(node, "+"), node) /\ Len(Append(node, "+")) = i + 1
        /\ Append(node, "+")[i + 1] = "+" /\ i + 1 <= i + 1
    <3>1. Passes(node, node)
      BY <1>0 DEF Passes
    <3>2. "+" \in Element
      BY DEF Element
    <3>3. i + 1 <= i + 1
      BY <1>0
    <3> QED
      BY <3>1, <3>2, <3>3, AppendPasses
  <2>6. \A q : l \in ClientsAt(q) <=> q \in Pattern /\ IsMember(q, l)
    BY DEF ClientsAt, IsMember
  <2>7. ASSUME l \in ClientsAt(node)
        PROVE  \E p \in Pattern : IsMember(p, l) /\ Passes(p, node) /\ FromHere(s, p, i + 1)
    BY <2>2, <2>5, <2>6, <2>7
  <2>8. ASSUME l \in ClientsAt(Append(node, "+"))
        PROVE  \E p \in Pattern : IsMember(p, l) /\ Passes(p, node) /\ FromHere(s, p, i + 1)
    BY <2>2, <2>5, <2>6, <2>8
  <2>9. ASSUME NEW p \in Pattern, IsMember(p, l), Passes(p, node), FromHere(s, p, i + 1)
        PROVE  l \in ClientsAt(node) \/ l \in ClientsAt(Append(node, "+"))
    BY <2>2, <2>3, <2>4, <2>6, <2>9
  <2> QED
    BY <2>1, <2>7, <2>8, <2>9
<1> QED
  BY <1>0, <1>1, <1>2

\* An element more in front.
LEMMA FoundStep ==
  ASSUME NEW s \in Seq(Element), NEW l, NEW i \in 1 .. Len(s), i < Len(s) => Found(s, l, i + 1)
  PROVE  Found(s, l, i)
<1> SUFFICES ASSUME NEW node \in Path, Len(node) = i - 1
             PROVE  l \in Walk(s)[i][node] <=>
                      \E p \in Pattern : IsMember(p, l) /\ Passes(p, node) /\ FromHere(s, p, i)
  BY DEF Found
<1>0. Len(s) \in Nat /\ i \in Nat /\ i <= Len(s) /\ i >= 1 /\ Pattern \subseteq Seq(Element)
  BY WireAssumption, Elements
<1>1. node \in Seq(Element) /\ Len(node) + 1 = i
  <2>0. node = <<>> \/ \E p \in Pattern : \E n \in 0 .. Len(p) : node = SubSeq(p, 1, n)
    BY DEF Path
  <2>1. ASSUME NEW p \in Pattern, NEW n \in 0 .. Len(p), node = SubSeq(p, 1, n)
        PROVE  node \in Seq(Element)
    <3>1. p \in Seq(Element) /\ Len(p) \in Nat
      BY <1>0
    <3>2. \A k \in 1 .. n : p[k] \in Element
      BY <3>1, ElementOfSeq
    <3> QED
      BY <2>1, <3>1, <3>2, SubSeqProperties
  <2>2. <<>> \in Seq(Element)
    OBVIOUS
  <2>3. node \in Seq(Element)
    BY <2>0, <2>1, <2>2
  <2>4. Len(node) \in Nat
    BY <2>3
  <2> QED
    BY <1>0, <2>3, <2>4
<1>2. l \in Walk(s)[i][node] <=>
        \/ l \in ClientsAt(Append(node, "+")) \/ l \in ClientsAt(Append(node, ">"))
        \/ \E e \in {"*", s[i]} : /\ Append(node, e) \in Path
                                  /\ l \in AddClientsAux(Append(node, e), s, i, Walk(s))
  <2>1. Walk(s)[i][node] = Below(node, s, i, Walk(s))
    BY WalkUnfolds
  <2>2. l \in Below(node, s, i, Walk(s)) <=>
          \/ l \in ClientsAt(Append(node, "+")) \/ l \in ClientsAt(Append(node, ">"))
          \/ \E e \in {"*", s[i]} : /\ Append(node, e) \in Path
                                    /\ l \in AddClientsAux(Append(node, e), s, i, Walk(s))
    BY DEF Below
  <2> QED
    BY <2>1, <2>2
<1>3. \A q : l \in ClientsAt(q) <=> q \in Pattern /\ IsMember(q, l)
  BY DEF ClientsAt, IsMember
<1>4. s[i] \in Element /\ "*" \in Element /\ "+" \in Element /\ ">" \in Element
  BY <1>0, ElementOfSeq DEF Element
<1>5. ASSUME NEW e \in {"+", ">"}, Append(node, e) \in Pattern, IsMember(Append(node, e), l)
      PROVE  \E p \in Pattern : IsMember(p, l) /\ Passes(p, node) /\ FromHere(s, p, i)
  <2> DEFINE p == Append(node, e)
  <2>1. Passes(p, node) /\ Len(p) = i /\ p[i] = e
    BY <1>1, <1>4, <1>5, AppendPasses
  <2>2. i - 1 <= Len(p)
    BY <1>0, <2>1
  <2>3. FromHere(s, p, i)
    BY <1>5, <2>1, <2>2, MatchesOn
  <2> QED
    BY <1>5, <2>1, <2>3
<1>6. ASSUME NEW e \in {"*", s[i]}, Append(node, e) \in Path,
             l \in AddClientsAux(Append(node, e), s, i, Walk(s))
      PROVE  \E p \in Pattern : IsMember(p, l) /\ Passes(p, node) /\ FromHere(s, p, i)
  <2>1. Append(node, e) \in Seq(Element) /\ Len(Append(node, e)) = i
    BY <1>1, <1>4, <1>6, AppendPasses
  <2>2. PICK p \in Pattern : IsMember(p, l) /\ Passes(p, Append(node, e)) /\ FromHere(s, p, i + 1)
    BY <1>6, <2>1, FoundBelow
  <2>3. Passes(p, node) /\ p[i] = e
    BY <1>0, <1>1, <1>4, <1>6, <2>2, AppendPasses
  <2>4. i <= Len(p) /\ i - 1 <= Len(p)
    BY <1>0, <2>1, <2>2 DEF Passes
  <2>5. FromHere(s, p, i)
    BY <1>6, <2>2, <2>3, <2>4, MatchesOn
  <2> QED
    BY <2>2, <2>3, <2>5
<1>7. ASSUME NEW p \in Pattern, IsMember(p, l), Passes(p, node), FromHere(s, p, i)
      PROVE  \/ l \in ClientsAt(Append(node, "+")) \/ l \in ClientsAt(Append(node, ">"))
             \/ \E e \in {"*", s[i]} : /\ Append(node, e) \in Path
                                       /\ l \in AddClientsAux(Append(node, e), s, i, Walk(s))
  <2>0. Len(p) \in Nat /\ i - 1 <= Len(p)
    BY <1>0, <1>1, <1>7 DEF Passes
  <2>1. CASE Len(p) = i /\ p[i] \in {"+", ">"}
    <3>1. p = Append(node, p[i])
      BY <1>0, <1>1, <1>7, <2>1, NodeBelow
    <3> QED
      BY <1>3, <1>7, <2>1, <3>1
  <2>2. CASE i <= Len(p) /\ p[i] \in {"*", s[i]} /\ FromHere(s, p, i + 1)
    <3>1. Len(node) < Len(p)
      BY <1>0, <1>1, <2>0, <2>2
    <3>2. Append(node, p[i]) \in Path /\ Passes(p, Append(node, p[i]))
      BY <1>1, <1>7, <3>1, NodeBelow
    <3>3. Append(node, p[i]) \in Seq(Element) /\ Len(Append(node, p[i])) = i
      BY <1>1, <1>4, <2>2, AppendPasses
    <3>4. l \in AddClientsAux(Append(node, p[i]), s, i, Walk(s))
      BY <1>7, <2>2, <3>2, <3>3, FoundBelow
    <3> QED
      BY <2>2, <3>2, <3>4
  <2> QED
    BY <1>7, <2>0, <2>1, <2>2, MatchesOn
<1> QED
  BY <1>2, <1>3, <1>5, <1>6, <1>7

\* The walk below any node.
LEMMA FoundEverywhere ==
  ASSUME NEW s \in Seq(Element), NEW l
  PROVE  \A i \in 1 .. Len(s) : Found(s, l, i)
<1> DEFINE n == Len(s)
           S == {k \in 0 .. n - 1 : ~Found(s, l, n - k)}
<1>0. n \in Nat
  OBVIOUS
<1>1. S = {}
  <2> SUFFICES ASSUME S # {} PROVE FALSE
    OBVIOUS
  <2>1. S \in SUBSET Nat
    BY <1>0
  <2>2. PICK m \in S : \A k \in S : m <= k
    BY <2>1, LeastNumber
  <2>3. m \in 0 .. n - 1 /\ ~Found(s, l, n - m) /\ m \in Nat
    BY <1>0, <2>2
  <2>4. n - m \in 1 .. n
    BY <1>0, <2>3
  <2>5. n - m < n => Found(s, l, n - m + 1)
    <3> SUFFICES ASSUME n - m < n PROVE Found(s, l, n - m + 1)
      OBVIOUS
    <3>1. m - 1 \in 0 .. n - 1 /\ n - (m - 1) = n - m + 1 /\ ~(m <= m - 1)
      BY <1>0, <2>3
    <3>2. m - 1 \notin S
      BY <2>2, <3>1
    <3>3. Found(s, l, n - (m - 1))
      BY <3>1, <3>2
    <3> QED
      BY <3>1, <3>3
  <2> QED
    BY <2>3, <2>4, <2>5, FoundStep
<1>2. ASSUME NEW i \in 1 .. n PROVE Found(s, l, i)
  <2>1. n - i \in 0 .. n - 1 /\ n - (n - i) = i
    BY <1>0
  <2>2. n - i \notin S
    BY <1>1
  <2> QED
    BY <2>1, <2>2
<1> QED
  BY <1>2

\* The walk collects the clients that have a matching subscription.
LEMMA WalkMatches ==
  ASSUME NEW s \in Seq(Element), s # <<>>, NEW l
  PROVE  l \in GetClients(s) <=> \E p \in Pattern : IsMember(p, l) /\ Matches(s, p)
<1>0. Len(s) \in Nat /\ Len(s) > 0 /\ 1 \in 1 .. Len(s)
  BY EmptySeq
<1>1. <<>> \in Path
  BY DEF Path
<1>2. Len(<<>>) = 1 - 1
  OBVIOUS
<1>3. l \in GetClients(s) <=> \E p \in Pattern : IsMember(p, l) /\ Passes(p, <<>>) /\ FromHere(s, p, 1)
  BY <1>0, <1>1, <1>2, FoundEverywhere DEF GetClients, Found
<1>4. \A p \in Pattern : Passes(p, <<>>)
  BY WireAssumption, Elements DEF Passes
<1>5. \A p \in Pattern : FromHere(s, p, 1) <=> Matches(s, p)
  BY <1>0 DEF FromHere, Matches
<1> QED
  BY <1>3, <1>4, <1>5

\* The packets that are sent.
LEMMA PacketTypes ==
  /\ Plain("NEGOTIATE") \in Requests /\ Plain("NEGOTIATE").type = "NEGOTIATE"
  /\ Plain("WELCOME") \in Answers /\ Plain("WELCOME").type = "WELCOME" /\ ~Plain("WELCOME").cut
  /\ Plain("ACK") \in Answers /\ Plain("ACK").type = "ACK" /\ ~Plain("ACK").cut
<1>1. <<>> \in Seq(Pattern \cup Subject) /\ MaxMsgs \in Nat /\ 0 \in 0 .. Mixed /\ 0 # Mixed
  BY ClientAssumption DEF Mixed, Msg
<1> QED
  BY <1>1 DEF Plain, Packet, Mixed, Requests, Answers, Packets

LEMMA SubscribeType ==
  ASSUME NEW topics \in Seq(Pattern), topics # <<>>
  PROVE  LET pkt == Packet("SUBSCRIBE", topics, 0)
         IN  pkt \in Requests /\ pkt.type = "SUBSCRIBE" /\ pkt.topics = topics
<1>1. topics \in Seq(Pattern \cup Subject) /\ MaxMsgs \in Nat /\ 0 \in 0 .. Mixed
  BY ClientAssumption DEF Mixed, Msg
<1> QED
  BY <1>1 DEF Packet, Requests, Packets, Mixed, Msg

LEMMA OneTopic ==
  ASSUME NEW S, NEW t \in S
  PROVE  <<t>> \in Seq(S) /\ Len(<<t>>) = 1 /\ <<t>>[1] = t /\ <<t>> # <<>>
OBVIOUS

LEMMA CallTypes ==
  ASSUME NEW t \in Pattern
  PROVE  \A type \in {"SUBSCRIBE", "UNSUBSCRIBE"} :
           LET pkt == Packet(type, <<t>>, 0)
           IN  pkt \in Requests /\ pkt.type = type /\ Len(pkt.topics) = 1 /\ pkt.topics[1] = t
<1>1. /\ <<t>> \in Seq(Pattern \cup Subject) /\ <<t>> \in Seq(Pattern) /\ MaxMsgs \in Nat /\ 0 \in 0 .. Mixed
      /\ Len(<<t>>) = 1 /\ <<t>>[1] = t /\ <<t>> # <<>>
  BY ClientAssumption, OneTopic DEF Mixed, Msg
<1> QED
  BY <1>1 DEF Packet, Requests, Packets, Mixed, Msg

LEMMA PublishType ==
  ASSUME NEW t \in Subject, NEW m \in Msg
  PROVE  LET pkt == Packet("PUBLISH", <<t>>, m)
         IN  /\ pkt \in Requests /\ pkt.type = "PUBLISH" /\ Len(pkt.topics) = 1
             /\ pkt.topics[1] = t /\ pkt.msg = m
<1>1. /\ <<t>> \in Seq(Pattern \cup Subject) /\ MaxMsgs \in Nat /\ m \in 0 .. Mixed
      /\ Len(<<t>>) = 1 /\ <<t>>[1] = t
  BY ClientAssumption, OneTopic DEF Mixed, Msg
<1> QED
  BY <1>1 DEF Packet, Requests, Packets, Mixed, Msg

\* What is known of a request, and of an answer.
LEMMA RequestTypes ==
  ASSUME NEW pkt \in Requests
  PROVE  /\ pkt \in Packets /\ ~pkt.cut
         /\ pkt.type \in {"NEGOTIATE", "SUBSCRIBE", "UNSUBSCRIBE", "PUBLISH"}
         /\ pkt.type \in {"SUBSCRIBE", "UNSUBSCRIBE"} => pkt.topics \in Seq(Pattern) \ {<<>>}
         /\ pkt.type \in {"UNSUBSCRIBE", "PUBLISH"} => Len(pkt.topics) = 1
         /\ pkt.type = "PUBLISH" => pkt.topics[1] \in Subject /\ pkt.msg \in Msg /\ pkt \in Answers
<1>1. pkt.type = "PUBLISH" => pkt \in Answers
  <2>1. MaxMsgs \in Nat
    BY ClientAssumption DEF Mixed, Msg
  <2> QED
    BY <2>1 DEF Requests, Answers, Packets, Msg, Mixed
<1> QED
  BY <1>1 DEF Requests

LEMMA AnswerTypes ==
  ASSUME NEW pkt \in Answers
  PROVE  /\ pkt \in Packets /\ pkt.msg # Mixed
         /\ pkt.type \in {"WELCOME", "ACK", "PUBLISH"} /\ (pkt.type = "PUBLISH" => pkt.msg \in Msg)
         /\ [pkt EXCEPT !.cut = TRUE] \in Answers
         /\ [pkt EXCEPT !.cut = TRUE].cut
         /\ \A m : Published([pkt EXCEPT !.cut = TRUE], m) <=> Published(pkt, m)
         /\ [pkt EXCEPT !.msg = Mixed] \in Packets /\ [pkt EXCEPT !.msg = Mixed].msg = Mixed
<1>1. MaxMsgs \in Nat
  BY ClientAssumption
<1>2. /\ pkt \in Packets /\ pkt.msg # Mixed
      /\ pkt.type \in {"WELCOME", "ACK", "PUBLISH"} /\ (pkt.type = "PUBLISH" => pkt.msg \in Msg)
  BY DEF Answers
<1>3. [pkt EXCEPT !.cut = TRUE] \in Packets
  BY <1>2 DEF Packets
<1>4. /\ [pkt EXCEPT !.cut = TRUE].type = pkt.type
      /\ [pkt EXCEPT !.cut = TRUE].msg = pkt.msg
      /\ [pkt EXCEPT !.cut = TRUE].cut
  BY <1>2 DEF Packets
<1>5. [pkt EXCEPT !.cut = TRUE] \in Answers
  BY <1>2, <1>3, <1>4 DEF Answers
<1>6. [pkt EXCEPT !.msg = Mixed] \in Packets /\ [pkt EXCEPT !.msg = Mixed].msg = Mixed
  BY <1>1, <1>2 DEF Packets, Mixed
<1> QED
  BY <1>2, <1>4, <1>5, <1>6 DEF Published
-----------------------------------------------------------------------------
LEMMA RemainsType ==
  ASSUME NEW s \in Seq(Answers)
  PROVE  \A r \in Remains(s) :
           /\ r \in Seq(Answers)
           /\ r # <<>> => r = s \/ (s # <<>> /\ r = <<[Head(s) EXCEPT !.cut = TRUE]>>)
<1>1. s # <<>> => Head(s) \in Answers
  OBVIOUS
<1>2. s # <<>> => [Head(s) EXCEPT !.cut = TRUE] \in Answers
  BY <1>1, AnswerTypes
<1>3. s # <<>> => <<[Head(s) EXCEPT !.cut = TRUE]>> \in Seq(Answers)
  BY <1>2, OneTopic
<1>4. <<>> \in Seq(Answers)
  OBVIOUS
<1> QED
  BY <1>3, <1>4 DEF Remains

LEMMA QueuedType ==
  ASSUME WireTypes, NEW clients, NEW pkt \in Answers
  PROVE  Queued(down, clients, pkt) \in [Link -> Seq(Answers)]
<1>1. \A l \in Link : down[l] \in Seq(Answers) /\ Append(down[l], pkt) \in Seq(Answers)
  BY DEF WireTypes
<1> QED
  BY <1>1 DEF Queued

\* A socket that is closed, and its link.
LEMMA CloseTypes ==
  ASSUME WireTypes, sock \in {0} \cup Link, CloseSocket
  PROVE  WireTypes' /\ sock' = 0
<1>1. <<>> \in Seq(Requests) /\ <<>> \in Seq(Answers)
  OBVIOUS
<1>2. CASE sock = 0
  BY <1>2 DEF CloseSocket, WireTypes, wire
<1>3. CASE sock # 0
  <2>1. sock \in Link
    BY <1>3
  <2>2. PICK s \in {<<>>, up[sock]} : up' = [up EXCEPT ![sock] = s]
    BY <1>3 DEF CloseSocket
  <2>3. s \in Seq(Requests)
    BY <1>1, <2>1, <2>2 DEF WireTypes
  <2> QED
    BY <1>1, <1>3, <2>1, <2>2, <2>3 DEF CloseSocket, WireTypes
<1> QED
  BY <1>2, <1>3

\* What is appended to a link's packets, and what is taken from them.
LEMMA LinkTypes ==
  ASSUME NEW S, NEW f \in [Link -> Seq(S)], NEW l \in Link
  PROVE  /\ f[l] \in Seq(S)
         /\ \A x \in S : [f EXCEPT ![l] = Append(@, x)] \in [Link -> Seq(S)]
         /\ f[l] # <<>> => Head(f[l]) \in S /\ [f EXCEPT ![l] = Tail(@)] \in [Link -> Seq(S)]
         /\ \A s \in Seq(S) : [f EXCEPT ![l] = s] \in [Link -> Seq(S)]
<1>1. f[l] \in Seq(S)
  OBVIOUS
<1>2. \A x \in S : Append(f[l], x) \in Seq(S)
  BY <1>1
<1>3. f[l] # <<>> => Head(f[l]) \in S /\ Tail(f[l]) \in Seq(S)
  BY <1>1
<1> QED
  BY <1>1, <1>2, <1>3

LEMMA HeldPutTypes ==
  ASSUME WireTypes, ClientTypes, NEW pkt \in Requests, NEW r, HeldPut(pkt, r)
  PROVE  /\ WireTypes' /\ sock' \in {0, sock} /\ state' \in {state, "RECONNECTING"}
         /\ rd' \in {r, [r EXCEPT !.revised = TRUE]}
<1>1. CASE state = "CONNECTED" /\ CloseSocket /\ state' = "RECONNECTING" /\ rd' = [r EXCEPT !.revised = TRUE]
  BY <1>1, CloseTypes DEF ClientTypes
<1>2. CASE /\ up' = [up EXCEPT ![sock] = Append(@, pkt)] /\ sock # 0
           /\ rd' = r /\ UNCHANGED <<lk, down, faults, state, sock>>
  <2>1. sock \in Link /\ up \in [Link -> Seq(Requests)]
    BY <1>2 DEF ClientTypes, WireTypes
  <2>2. up' \in [Link -> Seq(Requests)]
    BY <1>2, <2>1, LinkTypes
  <2> QED
    BY <1>2, <2>2 DEF WireTypes
<1>3. CASE rd' = r /\ UNCHANGED <<wire, state, sock>>
  BY <1>3 DEF WireTypes, wire
<1> QED
  BY <1>1, <1>2, <1>3 DEF HeldPut

\* The packets on the links.
LEMMA WireTypesStep == TypeOK /\ [Next]_vars => WireTypes'
<1> SUFFICES ASSUME TypeOK, [Next]_vars PROVE WireTypes'
  OBVIOUS
<1> USE DEF TypeOK
<1>0. /\ sock \in {0} \cup Link /\ faults \in Nat /\ lk \in [Link -> {"none", "up", "down"}]
      /\ up \in [Link -> Seq(Requests)] /\ down \in [Link -> Seq(Answers)]
  BY DEF WireTypes, ClientTypes
<1>1. CASE CloseSocket
  BY <1>0, <1>1, CloseTypes
<1>2. ASSUME UNCHANGED <<lk, up, down>>, faults' \in {faults, faults + 1} PROVE WireTypes'
  BY <1>0, <1>2 DEF WireTypes
<1>3. CASE CloseSocket \/ (UNCHANGED <<lk, up, down>> /\ faults' \in {faults, faults + 1})
  BY <1>1, <1>2, <1>3
<1>4. CASE UNCHANGED wire
  BY <1>2, <1>4 DEF wire
<1>5. CASE Reader
  <2>1. CASE Check \/ ReadError \/ Problem \/ Expose \/ Negotiated \/ Resubscribed \/ Ignore
             \/ IoState("reader")
    BY <1>4, <2>1 DEF Check, ReadError, Problem, Expose, Negotiated, Resubscribed, Ignore, IoState
  <2>2. CASE IoClose("reader")
    BY <1>1, <2>2 DEF IoClose
  <2>3. CASE Read
    <3>1. sock \in Link /\ down[sock] # <<>> /\ down' = [down EXCEPT ![sock] = Tail(@)] /\ UNCHANGED <<lk, up, faults>>
      BY <1>0, <2>3 DEF Read
    <3> QED
      BY <1>0, <3>1, LinkTypes DEF WireTypes
  <2>4. CASE Welcome
    BY <2>4, HeldPutTypes, PacketTypes DEF Welcome
  <2>5. CASE Resubscribe
    <3>1. rd.patterns \in Seq(Pattern) /\ rd.patterns # <<>>
      BY <2>5 DEF Resubscribe, ClientTypes, ReaderType
    <3> QED
      BY <2>5, <3>1, HeldPutTypes, SubscribeType DEF Resubscribe
  <2> QED
    BY <1>5, <2>1, <2>2, <2>3, <2>4, <2>5 DEF Reader
<1>6. CASE TimesOut
  BY <1>2, <1>6 DEF TimesOut, Inactive, Fault
<1>7. ASSUME ConnectOK \/ ConnectRefused PROVE WireTypes'
  <2>1. CASE ConnectRefused
    BY <1>2, <2>1 DEF ConnectRefused, Fault
  <2>2. CASE ConnectOK
    BY <1>0, <2>2 DEF ConnectOK, Unused, WireTypes
  <2> QED
    BY <1>7, <2>1, <2>2
<1>8. CASE Caller
  <2>1. CASE AwaitDispatching \/ SubscribeWaits \/ Put \/ WriteNothing \/ WriteLost \/ WriteError \/ Push
             \/ IoState("user")
    BY <1>2, <2>1 DEF AwaitDispatching, SubscribeWaits, Put, WriteNothing, WriteLost, WriteError, Push,
         IoState, Fault, wire
  <2>2. CASE IoClose("user") \/ Disconnect
    BY <1>1, <1>4, <2>2 DEF IoClose, Disconnect
  <2>3. CASE Connect
    BY <1>4, <1>7, <2>3 DEF Connect
  <2>4. CASE Write
    <3>1. /\ sock \in Link /\ up' = [up EXCEPT ![sock] = Append(@, user.pkt)] /\ UNCHANGED <<lk, down, faults>>
          /\ user.pkt \in Requests
      BY <1>0, <2>4 DEF Write, Writing, ClientTypes
    <3> QED
      BY <1>0, <3>1, LinkTypes DEF WireTypes
  <2> QED
    BY <1>8, <2>1, <2>2, <2>3, <2>4 DEF Caller
<1>9. CASE Manager
  BY <1>1, <1>7, <1>9 DEF Manager, Reconnect, Ping
<1>10. CASE Application
  BY <1>4, <1>10 DEF Application, CallConnect, CallDisconnect, CallSubscribe, CallUnsubscribe, CallPublish
<1>11. ASSUME UNCHANGED <<lk, up, faults>>, NEW clients, NEW pkt \in Answers, Output(clients, pkt) PROVE WireTypes'
  BY <1>0, <1>11, QueuedType DEF Output, WireTypes
<1>12. CASE Processor
  <2>1. CASE Fetch
    BY <1>4, <2>1 DEF Fetch
  <2>2. CASE Register
    BY <1>2, <1>11, <2>2, PacketTypes DEF Register
  <2>3. ASSUME NEW l, NEW pkt \in Requests, Answer(l, pkt) \/ Distribute(l, pkt) \/ ServerUnsubscribe(l, pkt) \/ ServerSubscribe(l, pkt)
        PROVE  WireTypes'
    <3>1. CASE Answer(l, pkt)
      BY <1>11, <3>1, PacketTypes DEF Answer
    <3>2. CASE Distribute(l, pkt)
      <4>1. pkt \in Answers
        BY <3>2, RequestTypes DEF Distribute, Taken
      <4> QED
        BY <1>11, <3>2, <4>1 DEF Distribute
    <3>3. CASE ServerUnsubscribe(l, pkt) \/ ServerSubscribe(l, pkt)
      BY <1>4, <3>3 DEF ServerUnsubscribe, ServerSubscribe
    <3> QED
      BY <2>3, <3>1, <3>2, <3>3
  <2>4. procQ # <<>> => Head(procQ)[2] \in Requests
    <3>1. procQ # <<>> => Head(procQ) \in Link \X Requests
      BY DEF ServerTypes
    <3> QED
      BY <3>1
  <2> QED
    BY <1>12, <2>1, <2>2, <2>3, <2>4 DEF Processor
<1>13. ASSUME NEW l \in Link, IOManager(l) PROVE WireTypes'
  <2>1. CASE Assign(l)
    BY <1>0, <2>1, LinkTypes, PacketTypes DEF Assign, WireTypes
  <2>2. CASE Consume(l)
    BY <1>0, <2>2, LinkTypes DEF Consume, WireTypes
  <2>3. CASE Cleanup(l)
    BY <1>4, <2>3 DEF Cleanup
  <2> QED
    BY <1>13, <2>1, <2>2, <2>3 DEF IOManager
<1>14. ASSUME NEW l \in Link, Break(l) PROVE WireTypes'
  <2>1. PICK s \in {<<>>, up[l]}, r \in Remains(down[l]) :
          up' = [up EXCEPT ![l] = s] /\ down' = [down EXCEPT ![l] = r]
    BY <1>14 DEF Break
  <2>2. s \in Seq(Requests) /\ r \in Seq(Answers)
    <3>1. <<>> \in Seq(Requests) /\ up[l] \in Seq(Requests) /\ down[l] \in Seq(Answers)
      BY <1>0
    <3> QED
      BY <2>1, <3>1, RemainsType
  <2>3. up' \in [Link -> Seq(Requests)] /\ down' \in [Link -> Seq(Answers)]
    BY <1>0, <2>1, <2>2, LinkTypes
  <2> QED
    BY <1>0, <1>14, <2>3 DEF Break, Fault, WireTypes
<1>15. CASE UNCHANGED vars
  BY <1>4, <1>15 DEF vars
<1> QED
  BY <1>5, <1>6, <1>8, <1>9, <1>10, <1>12, <1>13, <1>14, <1>15
     DEF Next, ReaderStep, CallerStep, ManagerStep, ServerStep
\* What is known of the application's call and of the reader.
UserFits(u) ==
  /\ u \in UserType
  /\ u.pc \in {"wait", "put", "write", "push"} =>
       u.pkt \in Requests /\ u.pkt.type # "NEGOTIATE" /\ Len(u.pkt.topics) = 1
  /\ u.pc \in {"wait", "push"} => u.pkt.type = "SUBSCRIBE"
  /\ u.pc = "put" => u.pkt.type # "UNSUBSCRIBE"

ReaderFits(r) ==
  /\ r \in ReaderType
  /\ r.pc = "resub" => r.patterns # <<>>
  /\ r.pc = "handle" => r.in \in Packets /\ (r.in.type = "PUBLISH" => r.in.msg # 0)

RestOfClient ==
  /\ state \in {"MANAGED", "CONNECTED", "RECONNECTING", "UNCONNECTED"}
  /\ mode \in {"STARTING", "NEGOTIATING", "RESUBSCRIBING", "DISPATCHING"}
  /\ sock \in {0} \cup Link /\ subs \in Seq(Pattern) /\ nullRead \in BOOLEAN /\ app \in BOOLEAN
  /\ io \in [{"reader", "user"} -> {"no", "close", "state"}]

\* The conjuncts of ClientTypes.
LEMMA ClientParts == ClientTypes <=> RestOfClient /\ UserFits(user) /\ ReaderFits(rd)
BY DEF ClientTypes, RestOfClient, UserFits, ReaderFits

LEMMA ClientPartsNext == ClientTypes' <=> RestOfClient' /\ UserFits(user') /\ ReaderFits(rd')
BY DEF ClientTypes, RestOfClient, UserFits, ReaderFits

\* The calls there may be.
LEMMA CallFits ==
  ASSUME NEW pc \in {"connect", "await", "disconnect", "idle"}
  PROVE  UserFits(Call(pc, None))
BY DEF UserFits, UserType, Call

\* A call whose packet is being put.
LEMMA PacketCallFits ==
  ASSUME NEW pkt \in Requests, pkt.type # "NEGOTIATE", Len(pkt.topics) = 1
  PROVE  UserFits(Call("write", pkt)) /\ (pkt.type = "SUBSCRIBE" => UserFits(Call("wait", pkt)))
BY DEF UserFits, UserType, Call

\* What follows a put().
LEMMA AfterFits ==
  ASSUME NEW u, UserFits(u), u.pc = "write"
  PROVE  \A v \in After(u) :
           /\ UserFits(v)
           /\ \/ v = IdleUser
              \/ ~u.err /\ u.pkt.type = "SUBSCRIBE" /\ v = [u EXCEPT !.pc = "push"]
              \/ u.err /\ u.pkt.type = "PUBLISH" /\ v = [u EXCEPT !.pc = "put"]
<1>1. UserFits(IdleUser)
  BY CallFits DEF IdleUser
<1>2. ~u.err /\ u.pkt.type = "SUBSCRIBE" => UserFits([u EXCEPT !.pc = "push"])
  BY DEF UserFits, UserType
<1>3. u.err /\ u.pkt.type = "PUBLISH" => UserFits([u EXCEPT !.pc = "put"])
  BY DEF UserFits, UserType
<1> QED
  BY <1>1, <1>2, <1>3 DEF After

LEMMA PutsFits ==
  ASSUME NEW pkt \in Requests, pkt.type # "NEGOTIATE", Len(pkt.topics) = 1
  PROVE  \A v \in Puts(pkt) :
           /\ UserFits(v)
           /\ \/ v = Call("write", pkt)
              \/ state # "CONNECTED" /\ v = IdleUser
              \/ state # "CONNECTED" /\ pkt.type = "PUBLISH" /\ v.pc = "put" /\ v.pkt = pkt /\ v.link = 0
<1> DEFINE u == [Call("write", pkt) EXCEPT !.err = TRUE]
<1>1. UserFits(Call("write", pkt))
  BY PacketCallFits
<1>2. /\ UserFits(u) /\ u.pc = "write" /\ u.err /\ u.pkt = pkt
      /\ [u EXCEPT !.pc = "put"].pc = "put" /\ [u EXCEPT !.pc = "put"].pkt = pkt /\ [u EXCEPT !.pc = "put"].link = 0
  BY <1>1 DEF UserFits, UserType, Call
<1> HIDE DEF u
<1>3. \A v \in After(u) : UserFits(v) /\ (v = IdleUser \/ (pkt.type = "PUBLISH" /\ v = [u EXCEPT !.pc = "put"]))
  BY <1>2, AfterFits
<1>4. Puts(pkt) = IF state = "CONNECTED" THEN {Call("write", pkt)} ELSE After(u)
  BY DEF Puts, u
<1> QED
  BY <1>1, <1>2, <1>3, <1>4

\* The call after a step.
LEMMA UserTypesStep == TypeOK /\ [Next]_vars => UserFits(user')
<1> SUFFICES ASSUME TypeOK, [Next]_vars PROVE UserFits(user')
  OBVIOUS
<1>0. UserFits(user) /\ UserFits(IdleUser)
  BY ClientParts, CallFits DEF TypeOK, IdleUser
<1>1. CASE UNCHANGED user
  BY <1>0, <1>1
<1>2. CASE Reader \/ TimesOut \/ Manager
  BY <1>1, <1>2 DEF Reader, Manager, TimesOut, Inactive, Check, Read, ReadError, Problem, Expose, Welcome,
       Negotiated, Resubscribe, Resubscribed, Ignore, IoClose, IoState, Reconnect, Ping
<1>3. CASE Caller
  <2>1. CASE WriteError
    <3>1. [user EXCEPT !.err = TRUE] \in UserType
      BY <1>0 DEF UserFits, UserType
    <3> QED
      BY <1>0, <2>1, <3>1 DEF WriteError, UserFits, UserType
  <2>2. CASE IoClose("user") \/ IoState("user")
    BY <1>1, <2>2 DEF IoClose, IoState
  <2>3. CASE Connect \/ AwaitDispatching
    <3>1. user.pc \in {"connect", "await"} => \A pc \in {"connect", "await"} : UserFits([user EXCEPT !.pc = pc])
      BY <1>0 DEF UserFits, UserType
    <3> QED
      BY <1>0, <2>3, <3>1 DEF Connect, AwaitDispatching
  <2>4. CASE Disconnect \/ Push
    BY <1>0, <2>4 DEF Disconnect, Push
  <2>5. CASE SubscribeWaits
    BY <1>0, <2>5 DEF SubscribeWaits, UserFits, UserType
  <2>6. CASE Put
    <3>1. user.pkt \in Requests /\ user.pkt.type # "NEGOTIATE" /\ Len(user.pkt.topics) = 1
      BY <1>0, <2>6 DEF Put, UserFits
    <3> QED
      BY <2>6, <3>1, PutsFits DEF Put
  <2>7. CASE WriteNothing
    BY <1>0, <2>7, AfterFits DEF WriteNothing, Writing
  <2>8. CASE Write \/ WriteLost
    <3> DEFINE u == [user EXCEPT !.link = sock]
    <3>1. UserFits(u) /\ u.pc = "write"
      BY <1>0, <2>8 DEF Write, WriteLost, Writing, TypeOK, ClientTypes, UserFits, UserType
    <3>2. user' \in After(u)
      BY <2>8 DEF Write, WriteLost
    <3> HIDE DEF u
    <3> QED
      BY <3>1, <3>2, AfterFits
  <2> QED
    BY <1>3, <2>1, <2>2, <2>3, <2>4, <2>5, <2>6, <2>7, <2>8 DEF Caller
<1>4. CASE Application
  <2>1. CASE CallConnect \/ CallDisconnect
    BY <2>1, CallFits DEF CallConnect, CallDisconnect
  <2>2. ASSUME NEW p \in Pattern, CallSubscribe(p) PROVE UserFits(user')
    <3>1. /\ Packet("SUBSCRIBE", <<p>>, 0) \in Requests /\ Packet("SUBSCRIBE", <<p>>, 0).type = "SUBSCRIBE"
          /\ Len(Packet("SUBSCRIBE", <<p>>, 0).topics) = 1
      BY CallTypes
    <3> QED
      BY <2>2, <3>1, PutsFits, PacketCallFits DEF CallSubscribe
  <2>3. ASSUME NEW p \in Pattern, CallUnsubscribe(p) PROVE UserFits(user')
    <3>1. /\ Packet("UNSUBSCRIBE", <<p>>, 0) \in Requests /\ Packet("UNSUBSCRIBE", <<p>>, 0).type = "UNSUBSCRIBE"
          /\ Len(Packet("UNSUBSCRIBE", <<p>>, 0).topics) = 1
      BY CallTypes
    <3> QED
      BY <2>3, <3>1, PutsFits DEF CallUnsubscribe
  <2>4. ASSUME NEW s \in Subject, CallPublish(s) PROVE UserFits(user')
    <3>0. msgs + 1 \in Msg
      <4>1. msgs \in 0 .. MaxMsgs /\ msgs < MaxMsgs /\ MaxMsgs \in Nat
        BY <2>4, ClientAssumption DEF CallPublish, TypeOK, HistoryTypes
      <4> QED
        BY <4>1 DEF Msg
    <3>1. /\ Packet("PUBLISH", <<s>>, msgs + 1) \in Requests /\ Packet("PUBLISH", <<s>>, msgs + 1).type = "PUBLISH"
          /\ Len(Packet("PUBLISH", <<s>>, msgs + 1).topics) = 1
      BY <3>0, PublishType
    <3> QED
      BY <2>4, <3>1, PutsFits DEF CallPublish
  <2> QED
    BY <1>4, <2>1, <2>2, <2>3, <2>4 DEF Application
<1> QED
  BY <1>1, <1>2, <1>3, <1>4
     DEF Next, ReaderStep, CallerStep, ManagerStep, ServerStep, vars, client

\* The reader after a step.
LEMMA ReaderTypesStep == TypeOK /\ [Next]_vars => ReaderFits(rd')
<1> SUFFICES ASSUME TypeOK, [Next]_vars PROVE ReaderFits(rd')
  OBVIOUS
<1>0. ReaderFits(rd) /\ UserFits(user)
  BY ClientParts DEF TypeOK
<1>1. CASE UNCHANGED rd
  BY <1>0, <1>1
<1>2. /\ ReaderFits(Checked) /\ Checked.pc = rd.pc /\ Checked.in = rd.in /\ Checked.patterns = rd.patterns
  BY <1>0 DEF Checked, ReaderFits, ReaderType
<1>3. ASSUME NEW r, ReaderFits(r)
      PROVE  /\ \A b \in BOOLEAN : ReaderFits([r EXCEPT !.revised = b]) /\ ReaderFits([r EXCEPT !.trapped = b])
             /\ ReaderFits([r EXCEPT !.pc = "problem"])
             /\ \A l \in {0} \cup Link : ReaderFits([r EXCEPT !.pc = "problem", !.torn = l])
             /\ ReaderFits([r EXCEPT !.pc = "read", !.in = None])
             /\ \A ts \in Seq(Pattern) : ReaderFits([r EXCEPT !.pc = "read", !.patterns = ts])
  <2>1. \A b \in BOOLEAN : ReaderFits([r EXCEPT !.revised = b]) /\ ReaderFits([r EXCEPT !.trapped = b])
    BY <1>3 DEF ReaderFits, ReaderType
  <2>2. ReaderFits([r EXCEPT !.pc = "problem"])
    BY <1>3 DEF ReaderFits, ReaderType
  <2>3. \A l \in {0} \cup Link : ReaderFits([r EXCEPT !.pc = "problem", !.torn = l])
    BY <1>3 DEF ReaderFits, ReaderType
  <2>4. ReaderFits([r EXCEPT !.pc = "read", !.in = None])
    BY <1>3 DEF ReaderFits, ReaderType
  <2>5. \A ts \in Seq(Pattern) : ReaderFits([r EXCEPT !.pc = "read", !.patterns = ts])
    BY <1>3 DEF ReaderFits, ReaderType
  <2> QED
    BY <2>1, <2>2, <2>3, <2>4, <2>5
<1>4. ReaderFits(Handled)
  BY <1>2, <1>3 DEF Handled
<1>5. CASE Reader
  <2>1. CASE IoClose("reader") \/ IoState("reader")
    BY <1>1, <2>1 DEF IoClose, IoState
  <2>2. CASE Check
    BY <1>2, <2>2 DEF Check
  <2>3. CASE ReadError
    BY <1>0, <1>3, <2>3 DEF ReadError
  <2>4. CASE Problem
    <3>1. (state = "CONNECTED") \in BOOLEAN
      OBVIOUS
    <3> QED
      BY <1>2, <2>4, <3>1 DEF Problem, ReaderFits, ReaderType
  <2>5. CASE Expose \/ Resubscribed \/ Ignore
    BY <1>4, <2>5 DEF Expose, Resubscribed, Ignore
  <2>6. CASE Welcome
    <3>1. rd' \in {Handled, [Handled EXCEPT !.revised = TRUE]}
      BY <2>6, HeldPutTypes, PacketTypes DEF Welcome, TypeOK
    <3> QED
      BY <1>3, <1>4, <3>1
  <2>7. CASE Negotiated
    <3>1. subs \in Seq(Pattern)
      BY DEF TypeOK, ClientTypes
    <3>2. subs # <<>> => ReaderFits([Handled EXCEPT !.pc = "resub", !.patterns = subs])
      BY <1>4, <3>1 DEF ReaderFits, ReaderType
    <3> QED
      BY <1>4, <2>7, <3>2 DEF Negotiated
  <2>8. CASE Resubscribe
    <3> DEFINE r == [Checked EXCEPT !.pc = "read", !.patterns = <<>>]
    <3>1. rd.patterns \in Seq(Pattern) /\ rd.patterns # <<>>
      BY <1>0, <2>8 DEF Resubscribe, ReaderFits, ReaderType
    <3>2. rd' \in {r, [r EXCEPT !.revised = TRUE]}
      BY <2>8, <3>1, HeldPutTypes, SubscribeType DEF Resubscribe, TypeOK
    <3>3. <<>> \in Seq(Pattern)
      OBVIOUS
    <3>4. ReaderFits(r)
      BY <1>2, <1>3, <3>3
    <3> HIDE DEF r
    <3> QED
      BY <1>3, <3>2, <3>4
  <2>9. CASE Read
    <3>1. sock \in Link /\ down[sock] # <<>> /\ rd.pc = "read"
      BY <2>9 DEF Read, Reads, TypeOK, ClientTypes
    <3> DEFINE pkt == Head(down[sock])
               handle(p) == [rd EXCEPT !.pc = "handle", !.in = p, !.part = None]
    <3>2. pkt \in Answers
      BY <3>1, LinkTypes DEF TypeOK, WireTypes
    <3>3. pkt \in Packets /\ (pkt.type = "PUBLISH" => pkt.msg # 0)
      <4>1. pkt \in Packets /\ (pkt.type = "PUBLISH" => pkt.msg \in Msg)
        BY <3>2, AnswerTypes
      <4>2. 0 \notin Msg
        BY ClientAssumption DEF Msg
      <4> QED
        BY <4>1, <4>2
    <3>4. rd.part # None => [rd.part EXCEPT !.msg = Mixed] \in Packets /\ [rd.part EXCEPT !.msg = Mixed].msg = Mixed
      <4>1. rd.part # None => rd.part \in Answers
        BY <1>0 DEF ReaderFits, ReaderType
      <4> QED
        BY <4>1, AnswerTypes
    <3>5. Mixed # 0
      BY ClientAssumption DEF Mixed
    <3> HIDE DEF pkt
    <3>6. ReaderFits(handle(pkt)) /\ ReaderFits([rd EXCEPT !.part = pkt])
      BY <1>0, <3>1, <3>2, <3>3 DEF ReaderFits, ReaderType
    <3>7. rd.part # None => ReaderFits([handle([rd.part EXCEPT !.msg = Mixed]) EXCEPT !.torn = sock])
      BY <1>0, <3>1, <3>4, <3>5 DEF ReaderFits, ReaderType
    <3>8. ReaderFits([rd EXCEPT !.pc = "problem"]) /\ ReaderFits([rd EXCEPT !.pc = "problem", !.torn = sock])
      BY <1>0, <1>3, <3>1
    <3> HIDE DEF handle
    <3>9. \/ rd' = handle(pkt) \/ rd' = [rd EXCEPT !.part = pkt] \/ rd' = [rd EXCEPT !.pc = "problem"]
          \/ rd.part # None /\ rd' = [handle([rd.part EXCEPT !.msg = Mixed]) EXCEPT !.torn = sock]
          \/ rd' = [rd EXCEPT !.pc = "problem", !.torn = sock]
      BY <2>9 DEF Read, handle, pkt
    <3> QED
      BY <3>6, <3>7, <3>8, <3>9
  <2> QED
    BY <1>5, <2>1, <2>2, <2>3, <2>4, <2>5, <2>6, <2>7, <2>8, <2>9 DEF Reader
<1>6. CASE TimesOut \/ Manager
  BY <1>0, <1>3, <1>6 DEF TimesOut, Inactive, Manager, Reconnect, ConnectOK, ConnectRefused, Ping
<1>7. CASE Caller
  <2>1. CASE Disconnect \/ WriteError \/ Connect
    BY <1>0, <1>1, <1>3, <2>1 DEF Disconnect, WriteError, Connect, ConnectOK, ConnectRefused
  <2>2. CASE ~(Disconnect \/ WriteError \/ Connect)
    BY <1>1, <1>7, <2>2 DEF Caller, AwaitDispatching, SubscribeWaits, Put, WriteNothing, Write, WriteLost, Push,
         IoClose, IoState
  <2> QED
    BY <2>1, <2>2
<1>8. CASE Application
  BY <1>1, <1>8 DEF Application, CallConnect, CallDisconnect, CallSubscribe, CallUnsubscribe, CallPublish
<1> QED
  BY <1>1, <1>5, <1>6, <1>7, <1>8
     DEF Next, ReaderStep, CallerStep, ManagerStep, ServerStep, vars, client

\* What is left of a sequence.
LEMMA Removed ==
  ASSUME NEW S, NEW s \in Seq(S), NEW n \in DOMAIN s
  PROVE  /\ RemoveAt(s, n) \in Seq(S) /\ Len(RemoveAt(s, n)) = Len(s) - 1
         /\ \A i \in 1 .. Len(s) - 1 : RemoveAt(s, n)[i] = IF i < n THEN s[i] ELSE s[i + 1]
<1>0. Len(s) \in Nat /\ n \in Nat /\ 1 <= n /\ n <= Len(s) /\ \A i \in 1 .. Len(s) : s[i] \in S
  BY ElementOfSeq
<1> DEFINE a == SubSeq(s, 1, n - 1)
           b == SubSeq(s, n + 1, Len(s))
<1>1. a \in Seq(S) /\ Len(a) = n - 1 /\ \A i \in 1 .. n - 1 : a[i] = s[i]
  <2>1. \A i \in 1 .. n - 1 : s[i] \in S
    BY <1>0
  <2> QED
    BY <1>0, <2>1, SubSeqProperties
<1>2. b \in Seq(S) /\ Len(b) = Len(s) - n /\ \A i \in 1 .. Len(s) - n : b[i] = s[n + i]
  <2>1. \A i \in n + 1 .. Len(s) : s[i] \in S
    BY <1>0
  <2> QED
    BY <1>0, <2>1, SubSeqProperties
<1>3. RemoveAt(s, n) = a \o b
  BY DEF RemoveAt
<1> HIDE DEF a, b
<1>4. /\ a \o b \in Seq(S) /\ Len(a \o b) = Len(a) + Len(b)
      /\ \A i \in 1 .. Len(a) + Len(b) : (a \o b)[i] = IF i <= Len(a) THEN a[i] ELSE b[i - Len(a)]
  BY <1>1, <1>2, ConcatProperties
<1>5. Len(a) + Len(b) = Len(s) - 1
  BY <1>0, <1>1, <1>2
<1>6. ASSUME NEW i \in 1 .. Len(s) - 1 PROVE (a \o b)[i] = IF i < n THEN s[i] ELSE s[i + 1]
  <2>1. CASE i < n
    BY <1>0, <1>1, <1>4, <1>5, <2>1
  <2>2. CASE ~(i < n)
    <3>1. ~(i <= Len(a)) /\ i - Len(a) \in 1 .. Len(s) - n /\ n + (i - Len(a)) = i + 1
      BY <1>0, <1>1, <2>2
    <3> QED
      BY <1>2, <1>4, <1>5, <2>2, <3>1
  <2> QED
    BY <2>1, <2>2
<1> QED
  BY <1>3, <1>4, <1>5, <1>6

\* The rest of the client's state after a step.
LEMMA RestTypesStep == TypeOK /\ [Next]_vars => RestOfClient'
<1> SUFFICES ASSUME TypeOK, [Next]_vars PROVE RestOfClient'
  OBVIOUS
<1>0. RestOfClient /\ UserFits(user) /\ WireTypes
  BY ClientParts DEF TypeOK
<1>1. CASE UNCHANGED <<state, mode, sock, subs, nullRead, io, app>>
  BY <1>0, <1>1 DEF RestOfClient
<1>2. ASSUME UNCHANGED <<mode, subs, nullRead, io, app>>, sock' = 0, state' \in {state, "RECONNECTING", "UNCONNECTED"}
      PROVE  RestOfClient'
  BY <1>0, <1>2 DEF RestOfClient
<1>3. ASSUME CloseSocket PROVE sock' = 0
  BY <1>0, <1>3, CloseTypes DEF RestOfClient
<1>4. CASE Reader
  <2>1. CASE Check \/ Expose \/ Ignore
    BY <1>1, <2>1 DEF Check, Expose, Ignore, history
  <2>2. CASE IoClose("reader") \/ IoState("reader")
    BY <1>0, <1>3, <2>2 DEF IoClose, IoState, RestOfClient
  <2>3. CASE ReadError \/ Problem \/ Resubscribed \/ Negotiated \/ Read
    BY <1>0, <2>3 DEF ReadError, Problem, Resubscribed, Negotiated, Read, RestOfClient
  <2>4. CASE Welcome
    <3>1. sock' \in {0, sock} /\ state' \in {state, "RECONNECTING"}
      BY <2>4, HeldPutTypes, PacketTypes DEF Welcome, TypeOK
    <3> QED
      BY <1>0, <2>4, <3>1 DEF Welcome, RestOfClient
  <2>5. CASE Resubscribe
    <3>1. rd.patterns \in Seq(Pattern) /\ rd.patterns # <<>>
      BY <2>5 DEF Resubscribe, TypeOK, ClientTypes, ReaderType
    <3>2. sock' \in {0, sock} /\ state' \in {state, "RECONNECTING"}
      BY <2>5, <3>1, HeldPutTypes, SubscribeType DEF Resubscribe, TypeOK
    <3> QED
      BY <1>0, <2>5, <3>2 DEF Resubscribe, RestOfClient
  <2> QED
    BY <1>4, <2>1, <2>2, <2>3, <2>4, <2>5 DEF Reader
<1>5. CASE TimesOut
  BY <1>0, <1>5 DEF TimesOut, Inactive, RestOfClient
<1>6. ASSUME UNCHANGED <<subs, nullRead, io>>, app' \in BOOLEAN, ConnectOK \/ ConnectRefused PROVE RestOfClient'
  BY <1>0, <1>6 DEF ConnectOK, ConnectRefused, Unused, RestOfClient
<1>7. CASE Caller
  <2>1. CASE SubscribeWaits \/ Put \/ WriteNothing \/ Write \/ WriteLost \/ WriteError \/ AwaitDispatching
    BY <1>0, <2>1 DEF SubscribeWaits, Put, WriteNothing, Write, WriteLost, WriteError, AwaitDispatching, RestOfClient
  <2>2. CASE IoClose("user") \/ IoState("user")
    BY <1>0, <1>3, <2>2 DEF IoClose, IoState, RestOfClient
  <2>3. CASE Connect
    <3>1. CASE ConnectOK \/ ConnectRefused
      BY <1>0, <1>6, <3>1 DEF ConnectOK, ConnectRefused, RestOfClient
    <3>2. CASE app' = TRUE /\ UNCHANGED <<state, mode, sock, subs, nullRead, io>>
      BY <1>0, <3>2 DEF RestOfClient
    <3> QED
      BY <2>3, <3>1, <3>2 DEF Connect
  <2>4. CASE Disconnect
    BY <1>0, <1>3, <2>4 DEF Disconnect, RestOfClient
  <2>5. CASE Push
    <3>1. user.pkt \in Requests /\ user.pkt.type = "SUBSCRIBE" /\ Len(user.pkt.topics) = 1
      BY <1>0, <2>5 DEF Push, UserFits
    <3>2. user.pkt.topics[1] \in Pattern
      BY <3>1, RequestTypes
    <3>3. Append(subs, user.pkt.topics[1]) \in Seq(Pattern)
      BY <1>0, <3>2 DEF RestOfClient
    <3> QED
      BY <1>0, <2>5, <3>3 DEF Push, RestOfClient
  <2> QED
    BY <1>7, <2>1, <2>2, <2>3, <2>4, <2>5 DEF Caller
<1>8. CASE Manager
  <2>1. CASE Reconnect
    BY <1>0, <1>6, <2>1 DEF Reconnect, ConnectOK, ConnectRefused, RestOfClient
  <2>2. CASE Ping
    BY <1>2, <1>3, <2>2 DEF Ping
  <2> QED
    BY <1>8, <2>1, <2>2 DEF Manager
<1>9. CASE Application
  <2>1. CASE CallConnect \/ \E p \in Pattern : CallSubscribe(p)
    BY <1>1, <2>1 DEF CallConnect, CallSubscribe
  <2>2. CASE CallDisconnect
    <3>1. <<>> \in Seq(Pattern)
      OBVIOUS
    <3> QED
      BY <1>0, <2>2, <3>1 DEF CallDisconnect, RestOfClient
  <2>3. ASSUME NEW p \in Pattern, CallUnsubscribe(p) PROVE RestOfClient'
    <3>1. subs' \in Seq(Pattern)
      BY <1>0, <2>3, Removed DEF CallUnsubscribe, RestOfClient
    <3> QED
      BY <1>0, <2>3, <3>1 DEF CallUnsubscribe, RestOfClient
  <2>4. ASSUME NEW s \in Subject, CallPublish(s) PROVE RestOfClient'
    BY <1>1, <2>4 DEF CallPublish
  <2> QED
    BY <1>9, <2>1, <2>2, <2>3, <2>4 DEF Application
<1> QED
  BY <1>1, <1>4, <1>5, <1>7, <1>8, <1>9
     DEF Next, ReaderStep, CallerStep, ManagerStep, ServerStep, vars, client

\* The history after a step.
LEMMA HistoryTypesStep == TypeOK /\ [Next]_vars => HistoryTypes'
<1> SUFFICES ASSUME TypeOK, [Next]_vars PROVE HistoryTypes'
  OBVIOUS
<1>0. HistoryTypes /\ UserFits(user) /\ ReaderFits(rd) /\ RestOfClient
  BY ClientParts DEF TypeOK
<1>1. CASE UNCHANGED history
  BY <1>0, <1>1 DEF HistoryTypes, history
<1>2. ASSUME ConnectOK PROVE HistoryTypes'
  BY <1>0, <1>2 DEF HistoryTypes, ConnectOK
<1>3. CASE Reader
  <2>1. CASE ~Expose
    BY <1>1, <1>3, <2>1 DEF Reader, Check, Read, ReadError, Problem, Welcome, Negotiated, Resubscribe, Resubscribed, Ignore,
         IoClose, IoState
  <2>2. CASE Expose
    <3>1. rd.in \in Packets /\ rd.in.msg # 0
      BY <1>0, <2>2 DEF Expose, Handles, ReaderFits
    <3>2. rd.in.msg \in 1 .. Mixed
      <4>1. rd.in.msg \in 0 .. Mixed /\ Mixed \in Nat
        BY <3>1, ClientAssumption DEF Packets, Mixed
      <4> QED
        BY <3>1, <4>1
    <3>3. Append(got, rd.in.msg) \in Seq(1 .. Mixed)
      <4>1. got \in Seq(1 .. Mixed)
        BY <1>0 DEF HistoryTypes
      <4> QED
        BY <3>2, <4>1, AppendProperties
    <3> QED
      BY <1>0, <2>2, <3>3 DEF Expose, HistoryTypes
  <2> QED
    BY <2>1, <2>2
<1>4. CASE TimesOut
  BY <1>1, <1>4 DEF TimesOut, Inactive
<1>5. CASE Caller
  <2>1. CASE AwaitDispatching \/ Disconnect \/ SubscribeWaits \/ Put \/ WriteNothing \/ WriteLost \/ WriteError
             \/ IoClose("user") \/ IoState("user")
    BY <1>1, <2>1 DEF AwaitDispatching, Disconnect, SubscribeWaits, Put, WriteNothing, WriteLost, WriteError,
         IoClose, IoState
  <2>2. CASE Connect
    BY <1>1, <1>2, <2>2 DEF Connect, ConnectRefused
  <2>3. CASE Write
    <3>1. user.pkt.type = "PUBLISH" => user.pkt.msg \in Msg
      BY <1>0, <2>3, RequestTypes DEF Write, Writing, UserFits
    <3>2. due' \in [Msg -> {0} \cup Link]
      BY <1>0, <2>3, <3>1 DEF Write, HistoryTypes, RestOfClient
    <3> QED
      BY <1>0, <2>3, <3>2 DEF Write, HistoryTypes
  <2>4. CASE Push
    BY <1>0, <2>4 DEF Push, HistoryTypes
  <2> QED
    BY <1>5, <2>1, <2>2, <2>3, <2>4 DEF Caller
<1>6. CASE Manager
  BY <1>1, <1>2, <1>6 DEF Manager, Reconnect, Ping, ConnectRefused
<1>7. CASE Application
  <2>1. ops \in Nat => ops + 1 \in Nat
    OBVIOUS
  <2>2. CASE CallConnect \/ CallDisconnect \/ \E p \in Pattern : CallSubscribe(p) \/ CallUnsubscribe(p)
    BY <1>0, <2>1, <2>2 DEF CallConnect, CallDisconnect, CallSubscribe, CallUnsubscribe, Calls, HistoryTypes
  <2>3. CASE \E s \in Subject : CallPublish(s)
    <3>1. msgs + 1 \in 0 .. MaxMsgs
      <4>1. msgs \in 0 .. MaxMsgs /\ msgs < MaxMsgs /\ MaxMsgs \in Nat
        BY <1>0, <2>3, ClientAssumption DEF CallPublish, HistoryTypes
      <4> QED
        BY <4>1
    <3> QED
      BY <1>0, <2>1, <2>3, <3>1 DEF CallPublish, Calls, HistoryTypes
  <2> QED
    BY <1>7, <2>2, <2>3 DEF Application
<1> QED
  BY <1>1, <1>3, <1>4, <1>5, <1>6, <1>7
     DEF Next, ReaderStep, CallerStep, ManagerStep, ServerStep, vars

\* A node after a client joined or left.
LEMMA GroupTypes ==
  ASSUME ServerTypes, NEW topics, NEW l \in Link
  PROVE  /\ Joined(topics, l) \in [Pattern -> [client : Link \cup {None}, clients : (SUBSET Link) \cup {None}]]
         /\ Parted(topics, l) \in [Pattern -> [client : Link \cup {None}, clients : (SUBSET Link) \cup {None}]]
<1> DEFINE G == [client : Link \cup {None}, clients : (SUBSET Link) \cup {None}]
<1>1. ASSUME NEW g \in G PROVE Join(g, l) \in G /\ Quit(g, l) \in G
  BY DEF Join, Quit, Empty
<1>2. group \in [Pattern -> G]
  BY DEF ServerTypes
<1> HIDE DEF G
<1>3. Joined(topics, l) \in [Pattern -> G] /\ Parted(topics, l) \in [Pattern -> G]
  BY <1>1, <1>2 DEF Joined, Parted
<1> QED
  BY <1>3 DEF G

\* The packet at the head of the Processor's queue, and what is at its tail.
LEMMA HeadTypes ==
  ASSUME ServerTypes, procQ # <<>>
  PROVE  /\ Head(procQ)[1] \in Link /\ Head(procQ)[2] \in Requests
         /\ Head(procQ) = <<Head(procQ)[1], Head(procQ)[2]>>
         /\ Tail(procQ) \in Seq(Link \X Requests)
<1>1. Head(procQ) \in Link \X Requests /\ Tail(procQ) \in Seq(Link \X Requests)
  BY DEF ServerTypes
<1> QED
  BY <1>1

\* The server's state after a step.
LEMMA ServerTypesStep == TypeOK /\ [Next]_vars => ServerTypes'
<1> SUFFICES ASSUME TypeOK, [Next]_vars PROVE ServerTypes'
  OBVIOUS
<1>0. ServerTypes /\ WireTypes
  BY DEF TypeOK
<1>1. CASE UNCHANGED server
  BY <1>0, <1>1 DEF ServerTypes, server
<1>2. CASE Processor
  <2>1. CASE Fetch
    BY <1>0, <2>1 DEF Fetch, ServerTypes
  <2>2. CASE Register
    <3>1. proc.link \in Link /\ proc.topics \in Seq(Pattern) \ {<<>>} /\ proc \in [link : Link, topics : Seq(Pattern) \ {<<>>}, real : BOOLEAN \cup {None}]
      BY <1>0, <2>2 DEF Register, ServerTypes
    <3>2. Head(proc.topics) \in Pattern
      BY <3>1
    <3>3. Len(proc.topics) # 1 => Tail(proc.topics) \in Seq(Pattern) \ {<<>>}
      <4> DEFINE ts == proc.topics
      <4>1. ts \in Seq(Pattern) /\ ts # <<>>
        BY <3>1
      <4> HIDE DEF ts
      <4>2. Tail(ts) \in Seq(Pattern) /\ Len(Tail(ts)) = Len(ts) - 1 /\ Len(ts) \in Nat /\ Len(ts) # 0
        BY <4>1, HeadTailProperties, EmptySeq
      <4>3. Len(ts) # 1 => Tail(ts) # <<>>
        <5>1. Len(<<>>) = 0
          OBVIOUS
        <5>2. Len(ts) # 1 => Len(Tail(ts)) # 0
          BY <4>2
        <5> QED
          BY <5>1, <5>2
      <4> QED
        BY <4>2, <4>3 DEF ts
    <3>4. group' \in [Pattern -> [client : Link \cup {None}, clients : (SUBSET Link) \cup {None}]]
      BY <1>0, <2>2, <3>1, GroupTypes DEF Register, ServerTypes
    <3>5. list' \in [Link -> SUBSET Pattern]
      BY <1>0, <2>2, <3>1, <3>2 DEF Register, ServerTypes
    <3>6. proc' \in [link : Link, topics : Seq(Pattern) \ {<<>>}, real : BOOLEAN \cup {None}] \cup {None}
      <4>1. \/ proc' = None
            \/ Len(proc.topics) # 1 /\ proc' = [proc EXCEPT !.topics = Tail(@), !.real = None]
        BY <2>2 DEF Register
      <4> QED
        BY <3>1, <3>3, <4>1
    <3> QED
      BY <1>0, <2>2, <3>4, <3>5, <3>6 DEF Register, ServerTypes
  <2>3. ASSUME procQ # <<>>, NEW l, NEW pkt, l = Head(procQ)[1], pkt = Head(procQ)[2],
               Answer(l, pkt) \/ Distribute(l, pkt) \/ ServerUnsubscribe(l, pkt) \/ ServerSubscribe(l, pkt)
        PROVE  ServerTypes'
    <3>1. l \in Link /\ pkt \in Requests /\ procQ' \in Seq(Link \X Requests)
      BY <1>0, <2>3, HeadTypes DEF Answer, Distribute, ServerUnsubscribe, ServerSubscribe, Taken
    <3>2. CASE Answer(l, pkt) \/ Distribute(l, pkt)
      BY <1>0, <3>1, <3>2 DEF Answer, Distribute, ServerTypes
    <3>3. CASE ServerUnsubscribe(l, pkt)
      BY <1>0, <3>1, <3>3, GroupTypes DEF ServerUnsubscribe, ServerTypes
    <3>4. CASE ServerSubscribe(l, pkt)
      <4>1. pkt.topics \in Seq(Pattern) \ {<<>>}
        BY <3>1, <3>4, RequestTypes DEF ServerSubscribe, Taken
      <4> QED
        BY <1>0, <3>1, <3>4, <4>1 DEF ServerSubscribe, ServerTypes
    <3> QED
      BY <2>3, <3>2, <3>3, <3>4
  <2> QED
    BY <1>2, <2>1, <2>2, <2>3 DEF Processor
<1>3. ASSUME NEW l \in Link, IOManager(l) PROVE ServerTypes'
  <2>1. CASE Assign(l)
    BY <1>0, <2>1 DEF Assign, ServerTypes
  <2>2. CASE Consume(l)
    <3>1. Head(up[l]) \in Requests
      BY <1>0, <2>2, LinkTypes DEF Consume, WireTypes
    <3>2. <<l, Head(up[l])>> \in Link \X Requests /\ procQ \in Seq(Link \X Requests)
      BY <1>0, <3>1 DEF ServerTypes
    <3>3. procQ' \in Seq(Link \X Requests)
      BY <2>2, <3>2, AppendProperties DEF Consume
    <3> QED
      BY <1>0, <2>2, <3>3 DEF Consume, ServerTypes
  <2>3. CASE Cleanup(l)
    BY <1>0, <2>3, GroupTypes DEF Cleanup, ServerTypes
  <2> QED
    BY <1>3, <2>1, <2>2, <2>3 DEF IOManager
<1> QED
  BY <1>1, <1>2, <1>3 DEF Next, ReaderStep, CallerStep, ManagerStep, ServerStep, TimesOut, vars

LEMMA TypesInit == Init => TypeOK
<1> SUFFICES ASSUME Init PROVE TypeOK
  OBVIOUS
<1>0. <<>> \in Seq(Requests) /\ <<>> \in Seq(Answers) /\ <<>> \in Seq(Pattern) /\ <<>> \in Seq(1 .. Mixed)
      /\ <<>> \in Seq(Link \X Requests) /\ 0 \in 0 .. MaxMsgs
  BY ClientAssumption
<1>1. WireTypes /\ HistoryTypes
  BY <1>0 DEF Init, WireInit, ClientInit, WireTypes, HistoryTypes
<1>2. ClientTypes
  <2>1. UserFits(user)
    BY CallFits DEF Init, ClientInit, IdleUser
  <2>2. ReaderFits(rd)
    BY <1>0 DEF Init, ClientInit, ReaderFits, ReaderType
  <2>3. RestOfClient
    BY <1>0 DEF Init, ClientInit, RestOfClient
  <2> QED
    BY <2>1, <2>2, <2>3, ClientParts
<1>3. ServerTypes
  <2>1. Empty \in [client : Link \cup {None}, clients : (SUBSET Link) \cup {None}]
    BY DEF Empty
  <2>2. /\ srv \in [Link -> {"none", "open", "dead"}] /\ list \in [Link -> SUBSET Pattern]
        /\ group \in [Pattern -> [client : Link \cup {None}, clients : (SUBSET Link) \cup {None}]]
    BY <2>1 DEF Init, ServerInit
  <2>3. procQ = <<>> /\ proc = None
    BY DEF Init, ServerInit
  <2> QED
    BY <1>0, <2>2, <2>3 DEF ServerTypes
<1> QED
  BY <1>1, <1>2, <1>3 DEF TypeOK

\* The types after a step.
LEMMA TypesStep == TypeOK /\ [Next]_vars => TypeOK'
BY WireTypesStep, UserTypesStep, ReaderTypesStep, RestTypesStep, HistoryTypesStep, ServerTypesStep, ClientPartsNext
   DEF TypeOK
-----------------------------------------------------------------------------
\* The entries of the Processor's queue after one was taken, or added.
LEMMA TailEntries ==
  ASSUME NEW S, NEW s \in Seq(S), s # <<>>
  PROVE  /\ Len(Tail(s)) = Len(s) - 1 /\ Len(s) \in Nat \ {0} /\ Tail(s) \in Seq(S)
         /\ DOMAIN Tail(s) = 1 .. Len(s) - 1 /\ DOMAIN s = 1 .. Len(s)
         /\ \A i \in DOMAIN Tail(s) : i \in Nat /\ i + 1 \in DOMAIN s /\ Tail(s)[i] = s[i + 1]
         /\ 1 \in DOMAIN s /\ Head(s) = s[1] /\ Head(s) \in S
<1>1. /\ Tail(s) \in Seq(S) /\ Len(Tail(s)) = Len(s) - 1 /\ \A i \in 1 .. Len(Tail(s)) : Tail(s)[i] = s[i + 1]
      /\ Head(s) \in S
  BY HeadTailProperties
<1>2. Len(s) \in Nat /\ Len(s) # 0
  BY EmptySeq
<1>3. DOMAIN s = 1 .. Len(s) /\ DOMAIN Tail(s) = 1 .. Len(Tail(s))
  BY <1>1
<1>4. Head(s) = s[1]
  OBVIOUS
<1> QED
  BY <1>1, <1>2, <1>3, <1>4

LEMMA AppendEntries ==
  ASSUME NEW S, NEW s \in Seq(S), NEW x \in S
  PROVE  /\ Append(s, x) \in Seq(S) /\ Len(Append(s, x)) = Len(s) + 1 /\ Len(s) \in Nat
         /\ DOMAIN Append(s, x) = 1 .. Len(s) + 1 /\ DOMAIN s = 1 .. Len(s)
         /\ Append(s, x)[Len(s) + 1] = x
         /\ \A i \in DOMAIN s : Append(s, x)[i] = s[i]
         /\ \A i \in DOMAIN Append(s, x) : i \in DOMAIN s \/ i = Len(s) + 1
         /\ \A i \in DOMAIN s : i \in DOMAIN Append(s, x)
OBVIOUS

\* Who is registered after a client joined or left.
LEMMA GroupMembers ==
  ASSUME NEW g \in [client : Link \cup {None}, clients : (SUBSET Link) \cup {None}], NEW l \in Link
  PROVE  Members(Join(g, l)) = Members(g) \cup {l} /\ Members(Quit(g, l)) = Members(g) \ {l}
<1>1. l # None /\ \A s \in SUBSET Link : s # None
  BY ServerAssumption
<1>2. CASE g.clients # None
  <2>1. g.clients \in SUBSET Link
    BY <1>2
  <2>2. g.clients \cup {l} # None /\ g.clients \ {l} # None
    BY <1>1, <2>1
  <2> QED
    BY <1>2, <2>2 DEF Members, Join, Quit
<1>3. CASE g.clients = None /\ g.client = None
  BY <1>1, <1>3 DEF Members, Join, Quit
<1>4. CASE g.clients = None /\ g.client # None
  <2>1. g.client \in Link /\ {g.client, l} # None
    BY <1>1, <1>4
  <2>2. CASE g.client = l
    BY <1>1, <1>4, <2>2 DEF Members, Join, Quit, Empty
  <2>3. CASE g.client # l
    BY <1>1, <1>4, <2>1, <2>3 DEF Members, Join, Quit
  <2> QED
    BY <2>2, <2>3
<1> QED
  BY <1>2, <1>3, <1>4

LEMMA GroupRegisters ==
  ASSUME ServerTypes, NEW topics \in SUBSET Pattern, NEW l \in Link, NEW k \in Link
  PROVE  /\ group' = Joined(topics, l) =>
              Registered(k)' = IF k = l THEN Registered(k) \cup topics ELSE Registered(k)
         /\ group' = Parted(topics, l) =>
              Registered(k)' = IF k = l THEN Registered(k) \ topics ELSE Registered(k)
<1>1. \A p \in Pattern : group[p] \in [client : Link \cup {None}, clients : (SUBSET Link) \cup {None}]
  BY DEF ServerTypes
<1>2. ASSUME group' = Joined(topics, l), NEW p \in Pattern
      PROVE  IsMember(p, k)' <=> IsMember(p, k) \/ (k = l /\ p \in topics)
  <2>1. group'[p] = IF p \in topics THEN Join(group[p], l) ELSE group[p]
    BY <1>2 DEF Joined
  <2>2. Members(Join(group[p], l)) = Members(group[p]) \cup {l}
    BY <1>1, GroupMembers
  <2>3. IsMember(p, k)' <=> k \in Members(group'[p])
    BY DEF IsMember, Members
  <2> QED
    BY <2>1, <2>2, <2>3 DEF IsMember
<1>3. ASSUME group' = Parted(topics, l), NEW p \in Pattern
      PROVE  IsMember(p, k)' <=> IsMember(p, k) /\ ~(k = l /\ p \in topics)
  <2>1. group'[p] = IF p \in topics THEN Quit(group[p], l) ELSE group[p]
    BY <1>3 DEF Parted
  <2>2. Members(Quit(group[p], l)) = Members(group[p]) \ {l}
    BY <1>1, GroupMembers
  <2>3. IsMember(p, k)' <=> k \in Members(group'[p])
    BY DEF IsMember, Members
  <2> QED
    BY <2>1, <2>2, <2>3 DEF IsMember
<1>4. Registered(k)' = {p \in Pattern : IsMember(p, k)'}
  BY DEF Registered
<1>5. Registered(k) = {p \in Pattern : IsMember(p, k)}
  BY DEF Registered
<1> QED
  BY <1>2, <1>3, <1>4, <1>5

\* The Clients of the server and the tree.
LEMMA ServerFitsInit == Init => ServerFits
<1> SUFFICES ASSUME Init PROVE ServerFits
  OBVIOUS
<1>1. \A p \in Pattern : group[p] = Empty
  BY DEF Init, ServerInit
<1>2. \A l \in Link : Registered(l) = {}
  BY <1>1 DEF Registered, IsMember, Members, Empty
<1> QED
  BY <1>2 DEF Init, ServerInit, ServerFits, Unknown

LEMMA ServerFitsStep == TypeOK /\ ServerFits /\ [Next]_vars => ServerFits'
<1> SUFFICES ASSUME TypeOK, ServerFits, [Next]_vars PROVE ServerFits'
  OBVIOUS
<1> DEFINE Kept == \A k \in Link : Registered(k)' = Registered(k)
<1>0. ServerTypes /\ WireTypes
  BY DEF TypeOK
<1>1. UNCHANGED group => Kept
  BY DEF Registered, IsMember, Members
<1>2. CASE UNCHANGED server
  BY <1>1, <1>2 DEF server, ServerFits, Unknown
<1>3. CASE Processor
  <2>1. CASE Fetch
    <3>1. /\ proc # None /\ proc' = [proc EXCEPT !.real = (srv[proc.link] = "open")]
          /\ UNCHANGED <<srv, list, group, procQ>>
      BY <2>1 DEF Fetch
    <3>2. proc.link \in Link /\ srv[proc.link] \in {"none", "open", "dead"}
      BY <1>0, <3>1 DEF ServerTypes
    <3>3. proc'.link = proc.link /\ (proc'.real = FALSE => srv[proc.link] # "open")
      BY <1>0, <3>1 DEF ServerTypes
    <3>4. srv[proc.link] # "none"
      BY <3>1, <3>2 DEF ServerFits, Unknown
    <3>5. proc'.real = FALSE => srv'[proc'.link] = "dead"
      BY <1>1, <3>1, <3>2, <3>3, <3>4 DEF ServerFits
    <3>6. \A k \in Link : srv'[k] = "none" => Unknown(k)'
      BY <1>1, <3>1, <3>3 DEF ServerFits, Unknown
    <3>7. \A k \in Link : srv'[k] # "dead" => list'[k] = Registered(k)'
      BY <1>1, <3>1 DEF ServerFits
    <3> QED
      BY <3>5, <3>6, <3>7 DEF ServerFits
  <2>2. CASE Register
    <3>1. /\ proc.link \in Link /\ proc.topics \in Seq(Pattern) \ {<<>>} /\ proc.real \in BOOLEAN
          /\ proc \in [link : Link, topics : Seq(Pattern) \ {<<>>}, real : BOOLEAN \cup {None}]
      BY <1>0, <2>2 DEF Register, ServerTypes
    <3>2. PICK l \in Link, t \in Pattern : l = proc.link /\ t = Head(proc.topics) /\ {t} \in SUBSET Pattern
      BY <3>1
    <3>3. srv[l] \in {"open", "dead"} /\ proc # None /\ UNCHANGED <<srv, procQ>>
      BY <1>0, <2>2, <3>2 DEF Register, ServerFits, Unknown, ServerTypes
    <3>4. proc' = None \/ (proc'.link = l /\ proc'.real = None)
      <4>1. proc' = None \/ proc' = [proc EXCEPT !.topics = Tail(@), !.real = None]
        BY <2>2, <3>2 DEF Register
      <4> QED
        BY <3>1, <3>2, <4>1
    <3>5. \A k \in Link \ {l} : list'[k] = list[k] /\ Registered(k)' = Registered(k)
      <4>1. \A k \in Link \ {l} : list'[k] = list[k]
        BY <1>0, <2>2, <3>2 DEF Register, ServerTypes
      <4>2. group' = Joined({t}, l) \/ UNCHANGED group
        BY <2>2, <3>2 DEF Register
      <4>3. \A k \in Link \ {l} : Registered(k)' = Registered(k)
        BY <1>0, <1>1, <3>2, <4>2, GroupRegisters
      <4> QED
        BY <4>1, <4>3
    <3>6. srv[l] = "open" => list'[l] = Registered(l)'
      <4> SUFFICES ASSUME srv[l] = "open" PROVE list'[l] = Registered(l)'
        OBVIOUS
      <4>1. proc.real /\ list[l] = Registered(l)
        BY <3>1, <3>2, <3>3 DEF ServerFits
      <4>2. group' = Joined({t}, l)
        BY <2>2, <3>2, <4>1 DEF Register
      <4>3. Registered(l)' = Registered(l) \cup {t}
        BY <1>0, <3>1, <3>2, <4>2, GroupRegisters
      <4>4. list'[l] = IF IsMember(t, l) THEN list[l] ELSE list[l] \cup {t}
        BY <1>0, <2>2, <3>1, <3>2, <4>1 DEF Register, ServerTypes
      <4>5. IsMember(t, l) => t \in Registered(l)
        BY <3>2 DEF Registered
      <4> QED
        BY <4>1, <4>3, <4>4, <4>5
    <3>7. ASSUME NEW k \in Link, srv'[k] # "dead" PROVE list'[k] = Registered(k)'
      <4>1. list[k] = Registered(k)
        BY <3>3, <3>7 DEF ServerFits
      <4>2. CASE k = l
        BY <3>3, <3>6, <3>7, <4>2
      <4>3. CASE k # l
        BY <3>5, <4>1, <4>3
      <4> QED
        BY <4>2, <4>3
    <3>8. \A k \in Link : srv'[k] = "none" => Unknown(k)'
      BY <3>3, <3>4, <3>5 DEF ServerFits, Unknown
    <3>9. proc' # None => proc'.real # FALSE
      BY <3>4, ServerAssumption
    <3> QED
      BY <3>7, <3>8, <3>9 DEF ServerFits
  <2>3. ASSUME procQ # <<>>, NEW l, NEW pkt, l = Head(procQ)[1], pkt = Head(procQ)[2],
               Answer(l, pkt) \/ Distribute(l, pkt) \/ ServerUnsubscribe(l, pkt) \/ ServerSubscribe(l, pkt)
        PROVE  ServerFits'
    <3>1. l \in Link /\ pkt \in Requests /\ procQ' = Tail(procQ) /\ UNCHANGED srv /\ proc = None
      BY <1>0, <2>3, HeadTypes DEF Answer, Distribute, ServerUnsubscribe, ServerSubscribe, Taken
    <3>2. \A i \in DOMAIN Tail(procQ) : i + 1 \in DOMAIN procQ /\ Tail(procQ)[i] = procQ[i + 1]
      BY <1>0, <2>3, TailEntries DEF ServerTypes
    <3>3. 1 \in DOMAIN procQ /\ procQ[1][1] = l
      BY <1>0, <2>3, TailEntries DEF ServerTypes
    <3>4. srv[l] # "none"
      BY <3>1, <3>3 DEF ServerFits, Unknown
    <3>5. \A k \in Link : srv'[k] = "none" => (\A i \in DOMAIN procQ' : procQ'[i][1] # k)
      BY <3>1, <3>2 DEF ServerFits, Unknown
    <3>6. CASE Answer(l, pkt) \/ Distribute(l, pkt)
      <4>1. UNCHANGED <<srv, list, group, proc>>
        BY <3>6 DEF Answer, Distribute
      <4> QED
        BY <1>1, <3>5, <4>1 DEF ServerFits, Unknown
    <3>7. CASE ServerUnsubscribe(l, pkt)
      <4> DEFINE topics == {pkt.topics[1]}
      <4>1. topics \in SUBSET Pattern
        <5>1. pkt.topics \in Seq(Pattern) \ {<<>>}
          BY <3>1, <3>7, RequestTypes DEF ServerUnsubscribe, Taken
        <5> QED
          BY <5>1
      <4>2. /\ group' = IF srv[l] = "open" THEN Parted(topics, l) ELSE group
            /\ list' = [list EXCEPT ![l] = @ \ topics] /\ UNCHANGED <<srv, proc>>
        BY <3>7 DEF ServerUnsubscribe
      <4> HIDE DEF topics
      <4>3. \A k \in Link \ {l} : list'[k] = list[k] /\ Registered(k)' = Registered(k)
        BY <1>0, <1>1, <3>1, <4>1, <4>2, GroupRegisters DEF ServerTypes
      <4>4. srv[l] = "open" => Registered(l)' = Registered(l) \ topics
        BY <1>0, <3>1, <4>1, <4>2, GroupRegisters
      <4>5. list'[l] = list[l] \ topics
        BY <1>0, <3>1, <4>2 DEF ServerTypes
      <4>6. srv[l] \in {"open", "dead"}
        BY <1>0, <3>1, <3>4 DEF ServerTypes
      <4>7. \A k \in Link : srv'[k] # "dead" => list'[k] = Registered(k)'
        BY <4>2, <4>3, <4>4, <4>5, <4>6 DEF ServerFits
      <4> QED
        BY <3>1, <3>4, <3>5, <4>2, <4>3, <4>7 DEF ServerFits, Unknown
    <3>8. CASE ServerSubscribe(l, pkt)
      <4>1. proc'.link = l /\ proc'.real = None /\ UNCHANGED <<srv, list, group>>
        BY <3>8 DEF ServerSubscribe
      <4>2. None # FALSE
        BY ServerAssumption
      <4> QED
        BY <1>1, <3>4, <3>5, <4>1, <4>2 DEF ServerFits, Unknown
    <3> QED
      BY <2>3, <3>6, <3>7, <3>8
  <2> QED
    BY <1>3, <2>1, <2>2, <2>3 DEF Processor
<1>4. ASSUME NEW l \in Link, IOManager(l) PROVE ServerFits'
  <2>1. CASE Assign(l)
    <3>1. srv' = [srv EXCEPT ![l] = "open"] /\ srv[l] = "none" /\ UNCHANGED <<list, group, procQ, proc>>
      BY <2>1 DEF Assign
    <3> QED
      BY <1>0, <1>1, <3>1 DEF ServerFits, Unknown, ServerTypes
  <2>2. CASE Consume(l)
    <3> DEFINE e == <<l, Head(up[l])>>
    <3>1. e \in Link \X Requests
      <4>1. Head(up[l]) \in Requests
        BY <1>0, <2>2, LinkTypes DEF Consume, WireTypes
      <4> QED
        BY <4>1
    <3>2. procQ' = Append(procQ, e) /\ srv[l] = "open" /\ UNCHANGED <<srv, list, group, proc>> /\ e[1] = l
      BY <2>2 DEF Consume
    <3> HIDE DEF e
    <3>3. /\ \A i \in DOMAIN procQ' : i \in DOMAIN procQ \/ i = Len(procQ) + 1
          /\ \A i \in DOMAIN procQ : procQ'[i] = procQ[i]
          /\ procQ'[Len(procQ) + 1] = e
      BY <1>0, <3>1, <3>2, AppendEntries DEF ServerTypes
    <3> QED
      BY <1>1, <3>2, <3>3 DEF ServerFits, Unknown
  <2>3. CASE Cleanup(l)
    <3>1. /\ srv' = [srv EXCEPT ![l] = "dead"] /\ srv[l] = "open" /\ UNCHANGED <<procQ, proc>>
          /\ group' = Parted(list[l], l) /\ list' = [list EXCEPT ![l] = {}]
      BY <2>3 DEF Cleanup
    <3>2. list[l] \in SUBSET Pattern
      BY <1>0 DEF ServerTypes
    <3>3. \A k \in Link \ {l} : list'[k] = list[k] /\ Registered(k)' = Registered(k) /\ srv'[k] = srv[k]
      BY <1>0, <3>1, <3>2, GroupRegisters DEF ServerTypes
    <3>4. srv'[l] = "dead"
      BY <1>0, <3>1 DEF ServerTypes
    <3>5. \A k \in Link : srv'[k] # "dead" => list'[k] = Registered(k)'
      BY <3>3, <3>4 DEF ServerFits
    <3>6. proc' # None => (proc'.real = FALSE => srv'[proc'.link] = "dead")
      <4>1. proc # None => proc.link \in Link
        BY <1>0 DEF ServerTypes
      <4> QED
        BY <3>1, <3>3, <3>4, <4>1 DEF ServerFits
    <3>7. \A k \in Link : srv'[k] = "none" => Unknown(k)'
      BY <3>1, <3>3, <3>4 DEF ServerFits, Unknown
    <3> QED
      BY <3>5, <3>6, <3>7 DEF ServerFits
  <2> QED
    BY <1>4, <2>1, <2>2, <2>3 DEF IOManager
<1> QED
  BY <1>2, <1>3, <1>4 DEF Next, ReaderStep, CallerStep, ManagerStep, ServerStep, TimesOut, vars

\* A new call names no link.
LEMMA CallLinks ==
  /\ Call("write", None).link = 0 /\ IdleUser.link = 0
  /\ \A pc, pkt : Call(pc, pkt).link = 0 /\ Call(pc, pkt).pc = pc /\ Call(pc, pkt).pkt = pkt
BY DEF Call, IdleUser

\* The links that the client's records name after a step.
LEMMA NamedLinks ==
  TypeOK /\ [Next]_vars =>
    /\ rd'.torn \in {rd.torn, sock} /\ user'.link \in {0, sock, user.link}
    /\ \A m \in Msg : due'[m] \in {0, sock, due[m]}
<1> SUFFICES ASSUME TypeOK, [Next]_vars
             PROVE  /\ rd'.torn \in {rd.torn, sock} /\ user'.link \in {0, sock, user.link}
                    /\ \A m \in Msg : due'[m] \in {0, sock, due[m]}
  OBVIOUS
<1>0. ReaderFits(rd) /\ UserFits(user) /\ HistoryTypes
  BY ClientParts DEF TypeOK
<1>1. Checked.torn = rd.torn /\ Handled.torn = rd.torn /\ Handled \in ReaderType /\ Checked \in ReaderType
  BY <1>0 DEF Checked, Handled, ReaderFits, ReaderType
<1>2. rd \in ReaderType /\ user \in UserType
  BY <1>0 DEF ReaderFits, UserFits
<1>3. CASE UNCHANGED <<rd, user, due>>
  BY <1>3
<1>4. CASE Reader
  <2>1. UNCHANGED <<user, due>>
    BY <1>4 DEF Reader, Check, Read, ReadError, Problem, Expose, Welcome, Negotiated, Resubscribe, Resubscribed, Ignore,
         IoClose, IoState, history
  <2>2. CASE Read
    BY <1>2, <2>1, <2>2 DEF Read, ReaderType
  <2>3. CASE Welcome
    <3>1. rd' \in {Handled, [Handled EXCEPT !.revised = TRUE]}
      BY <2>3 DEF Welcome, HeldPut
    <3> QED
      BY <1>1, <2>1, <3>1 DEF ReaderType
  <2>4. CASE Resubscribe
    <3> DEFINE r == [Checked EXCEPT !.pc = "read", !.patterns = <<>>]
    <3>1. rd' \in {r, [r EXCEPT !.revised = TRUE]}
      BY <2>4 DEF Resubscribe, HeldPut
    <3> QED
      BY <1>1, <2>1, <3>1 DEF ReaderType
  <2>5. CASE Check \/ Expose \/ Resubscribed \/ Ignore \/ IoClose("reader") \/ IoState("reader")
    BY <1>1, <2>1, <2>5 DEF Check, Expose, Resubscribed, Ignore, IoClose, IoState
  <2>6. CASE ReadError \/ Problem \/ Negotiated
    BY <1>1, <1>2, <2>1, <2>6 DEF ReadError, Problem, Negotiated, ReaderType
  <2> QED
    BY <1>4, <2>2, <2>3, <2>4, <2>5, <2>6 DEF Reader
<1>5. CASE TimesOut \/ Manager
  BY <1>2, <1>5 DEF TimesOut, Inactive, Manager, Reconnect, ConnectOK, ConnectRefused, Ping, ReaderType, history
<1>6. CASE Caller
  <2>1. CASE Connect \/ AwaitDispatching \/ Disconnect
    BY <1>2, <2>1, CallLinks DEF Connect, ConnectOK, ConnectRefused, AwaitDispatching, Disconnect, ReaderType, UserType, history
  <2>2. CASE SubscribeWaits \/ WriteError \/ Push
    BY <1>2, <2>2, CallLinks DEF SubscribeWaits, WriteError, Push, ReaderType, UserType, history
  <2>3. CASE IoClose("user") \/ IoState("user")
    BY <2>3 DEF IoClose, IoState, history
  <2>4. CASE Put
    <3>1. user.pkt \in Requests /\ user.pkt.type # "NEGOTIATE" /\ Len(user.pkt.topics) = 1
      BY <1>0, <2>4 DEF Put, UserFits
    <3>2. user'.link = 0
      BY <2>4, <3>1, PutsFits, CallLinks DEF Put
    <3> QED
      BY <2>4, <3>2 DEF Put, history
  <2>5. CASE WriteNothing
    <3>1. user'.link \in {0, user.link}
      BY <1>0, <1>2, <2>5, AfterFits, CallLinks DEF WriteNothing, Writing, UserType
    <3> QED
      BY <2>5, <3>1 DEF WriteNothing, history
  <2>6. CASE Write \/ WriteLost
    <3> DEFINE u == [user EXCEPT !.link = sock]
    <3>1. UserFits(u) /\ u.pc = "write" /\ u.link = sock
      BY <1>0, <2>6 DEF Write, WriteLost, Writing, TypeOK, ClientTypes, UserFits, UserType
    <3>2. user' \in After(u) /\ UNCHANGED rd
      BY <2>6 DEF Write, WriteLost
    <3> HIDE DEF u
    <3>3. [u EXCEPT !.pc = "push"].link = sock /\ [u EXCEPT !.pc = "put"].link = sock
      BY <3>1 DEF UserFits, UserType
    <3>4. user'.link \in {0, sock}
      BY <3>1, <3>2, <3>3, AfterFits, CallLinks
    <3>5. \A m \in Msg : due'[m] \in {0, sock, due[m]}
      BY <1>0, <2>6 DEF Write, WriteLost, history, HistoryTypes
    <3> QED
      BY <3>2, <3>4, <3>5
  <2> QED
    BY <1>6, <2>1, <2>2, <2>3, <2>4, <2>5, <2>6 DEF Caller
<1>7. CASE Application
  <2>1. CASE CallConnect \/ CallDisconnect
    BY <2>1, CallLinks DEF CallConnect, CallDisconnect
  <2>2. ASSUME NEW p \in Pattern, CallSubscribe(p) \/ CallUnsubscribe(p) PROVE user'.link = 0 /\ UNCHANGED <<rd, due>>
    <3>1. \A type \in {"SUBSCRIBE", "UNSUBSCRIBE"} : \A v \in Puts(Packet(type, <<p>>, 0)) : v.link = 0
      BY CallTypes, PutsFits, CallLinks
    <3> QED
      BY <2>2, <3>1, CallLinks DEF CallSubscribe, CallUnsubscribe
  <2>3. ASSUME NEW s \in Subject, CallPublish(s) PROVE user'.link = 0 /\ UNCHANGED <<rd, due>>
    <3>0. msgs + 1 \in Msg
      <4>1. msgs \in 0 .. MaxMsgs /\ msgs < MaxMsgs /\ MaxMsgs \in Nat
        BY <2>3, ClientAssumption DEF CallPublish, TypeOK, HistoryTypes
      <4> QED
        BY <4>1 DEF Msg
    <3>1. \A v \in Puts(Packet("PUBLISH", <<s>>, msgs + 1)) : v.link = 0
      BY <3>0, PublishType, PutsFits, CallLinks
    <3> QED
      BY <2>3, <3>1 DEF CallPublish
  <2> QED
    BY <1>7, <2>1, <2>2, <2>3 DEF Application
<1> QED
  BY <1>3, <1>4, <1>5, <1>6, <1>7
     DEF Next, ReaderStep, CallerStep, ManagerStep, ServerStep, vars, client, history

LEMMA LinksFitInit == Init => LinksFit
BY DEF Init, WireInit, ClientInit, ServerInit, LinksFit, IdleUser, Call, Link

\* Which links may be up, and which are not made yet.
LEMMA LinksFitStep == TypeOK /\ ServerFits /\ LinksFit /\ [Next]_vars => LinksFit'
<1> SUFFICES ASSUME TypeOK, ServerFits, LinksFit, [Next]_vars PROVE LinksFit'
  OBVIOUS
<1> DEFINE Named(l) == l \notin {sock', rd'.torn, user'.link} /\ \A m \in Msg : due'[m] # l
<1>0. /\ ServerTypes /\ sock \in {0} \cup Link /\ lk \in [Link -> {"none", "up", "down"}]
      /\ up \in [Link -> Seq(Requests)] /\ down \in [Link -> Seq(Answers)] /\ srv \in [Link -> {"none", "open", "dead"}]
  BY DEF TypeOK, WireTypes, ClientTypes, ServerTypes
<1>1. 0 \notin Link
  BY DEF Link
<1>2. \A l \in Link : lk[l] = "none" => \/ l = sock'
                                        \/ Named(l)
  BY <1>1, NamedLinks DEF LinksFit
<1>3. ASSUME sock' \in {0, sock},
             \A l \in Link :
               /\ lk'[l] = "up" => lk[l] = "up" /\ l = sock' /\ srv'[l] # "dead"
               /\ down'[l] # <<>> => l = sock'
               /\ lk'[l] = "none" => lk[l] = "none" /\ up'[l] = up[l] /\ srv'[l] = srv[l]
      PROVE  LinksFit'
  <2>1. \A l \in Link : lk'[l] = "none" => Named(l) /\ up'[l] = <<>> /\ srv'[l] = "none"
    BY <1>1, <1>2, <1>3 DEF LinksFit
  <2> QED
    BY <1>3, <2>1 DEF LinksFit
<1>4. CASE UNCHANGED <<lk, up, down, sock, srv>>
  BY <1>3, <1>4 DEF LinksFit
<1>5. CASE CloseSocket /\ UNCHANGED srv
  <2>1. CASE sock = 0
    BY <1>4, <1>5, <2>1 DEF CloseSocket, wire
  <2>2. CASE sock # 0
    <3>1. sock' = 0 /\ lk' = [lk EXCEPT ![sock] = "down"] /\ down' = [down EXCEPT ![sock] = <<>>]
          /\ \E s \in {<<>>, up[sock]} : up' = [up EXCEPT ![sock] = s]
      BY <1>5, <2>2 DEF CloseSocket
    <3>2. \A l \in Link : lk'[l] # "up" /\ down'[l] = <<>>
      BY <1>0, <2>2, <3>1 DEF LinksFit
    <3>3. \A l \in Link : lk'[l] = "none" => lk[l] = "none" /\ up'[l] = up[l]
      BY <1>0, <2>2, <3>1
    <3> QED
      BY <1>3, <1>5, <3>1, <3>2, <3>3
  <2> QED
    BY <2>1, <2>2
<1>6. ASSUME NEW pkt, NEW r, HeldPut(pkt, r), UNCHANGED srv PROVE LinksFit'
  <2>1. CASE sock # 0 /\ lk[sock] = "up" /\ up' = [up EXCEPT ![sock] = Append(@, pkt)] /\ UNCHANGED <<lk, down, sock>>
    BY <1>0, <1>3, <1>6, <2>1 DEF LinksFit
  <2> QED
    BY <1>4, <1>5, <1>6, <2>1 DEF HeldPut, wire
<1>7. CASE Reader /\ UNCHANGED server
  <2>1. CASE Check \/ Problem \/ Expose \/ Negotiated \/ Resubscribed \/ Ignore \/ IoState("reader")
    BY <1>4, <1>7, <2>1 DEF Check, Problem, Expose, Negotiated, Resubscribed, Ignore, IoState, wire, server
  <2>2. CASE IoClose("reader") \/ Welcome \/ Resubscribe
    BY <1>5, <1>6, <1>7, <2>2 DEF IoClose, Welcome, Resubscribe, server
  <2>3. CASE ReadError
    <3>1. CASE UNCHANGED sock
      BY <1>4, <1>7, <2>3, <3>1 DEF ReadError, wire, server
    <3>2. CASE state = "CONNECTED" /\ SocketFails /\ (sock # 0 => down[sock] = <<>>) /\ sock' = 0
      <4>1. \A l \in Link : lk[l] # "up" /\ down[l] = <<>>
        BY <1>1, <3>2 DEF LinksFit, SocketFails
      <4>2. UNCHANGED <<lk, up, down, srv>>
        BY <1>7, <2>3 DEF ReadError, wire, server
      <4> QED
        BY <1>3, <3>2, <4>1, <4>2
    <3> QED
      BY <2>3, <3>1, <3>2 DEF ReadError
  <2>4. CASE Read
    <3>1. sock \in Link /\ down' = [down EXCEPT ![sock] = Tail(@)] /\ UNCHANGED <<lk, up, sock, srv>>
      BY <1>0, <1>7, <2>4 DEF Read, server
    <3> QED
      BY <1>0, <1>3, <3>1 DEF LinksFit
  <2> QED
    BY <1>7, <2>1, <2>2, <2>3, <2>4 DEF Reader
<1>8. CASE TimesOut
  BY <1>4, <1>8 DEF TimesOut, Inactive, server
<1>9. ASSUME ConnectOK \/ ConnectRefused, UNCHANGED server PROVE LinksFit'
  <2>1. CASE UNCHANGED <<lk, sock>>
    BY <1>4, <1>9, <2>1 DEF ConnectOK, ConnectRefused, server
  <2>2. ASSUME NEW n \in Unused, sock = 0, sock' = n, lk' = [lk EXCEPT ![n] = "up"], UNCHANGED <<up, down, srv>>
        PROVE  LinksFit'
    <3>1. n \in Link /\ lk[n] = "none" /\ srv[n] = "none"
      BY <2>2 DEF Unused, LinksFit
    <3>2. \A l \in Link \ {n} : lk'[l] = lk[l] /\ lk[l] # "up" /\ down[l] = <<>>
      BY <1>0, <1>1, <2>2 DEF LinksFit
    <3>3. lk'[n] = "up"
      BY <1>0, <2>2, <3>1
    <3>4. \A l \in Link : lk'[l] = "none" => Named(l) /\ up'[l] = <<>> /\ srv'[l] = "none"
      BY <1>2, <2>2, <3>2, <3>3 DEF LinksFit
    <3> QED
      BY <2>2, <3>1, <3>2, <3>3, <3>4 DEF LinksFit
  <2> QED
    BY <1>9, <2>1, <2>2 DEF ConnectOK, ConnectRefused, server
<1>10. CASE Caller /\ UNCHANGED server
  <2>1. CASE AwaitDispatching \/ SubscribeWaits \/ Put \/ WriteNothing \/ WriteLost \/ WriteError \/ Push \/ IoState("user")
    BY <1>4, <1>10, <2>1 DEF AwaitDispatching, SubscribeWaits, Put, WriteNothing, WriteLost, WriteError, Push, IoState, wire, server
  <2>2. CASE IoClose("user") \/ Disconnect \/ Connect
    BY <1>4, <1>5, <1>9, <1>10, <2>2 DEF IoClose, Disconnect, Connect, wire, server
  <2>3. CASE Write
    <3>1. /\ sock # 0 /\ lk[sock] = "up" /\ up' = [up EXCEPT ![sock] = Append(@, user.pkt)]
          /\ UNCHANGED <<lk, down, sock, srv>>
      BY <1>10, <2>3 DEF Write, server
    <3> QED
      BY <1>0, <1>3, <3>1 DEF LinksFit
  <2> QED
    BY <1>10, <2>1, <2>2, <2>3 DEF Caller
<1>11. CASE Manager /\ UNCHANGED server
  BY <1>5, <1>9, <1>11 DEF Manager, Reconnect, Ping, server
<1>12. CASE Application /\ UNCHANGED server
  BY <1>4, <1>12 DEF Application, CallConnect, CallDisconnect, CallSubscribe, CallUnsubscribe, CallPublish, wire, server
<1>13. ASSUME NEW clients, NEW pkt, Output(clients, pkt), UNCHANGED <<lk, up, sock, srv>> PROVE LinksFit'
  <2>1. \A l \in Link : down'[l] = down[l] \/ lk[l] = "up"
    BY <1>13 DEF Output, Queued
  <2> QED
    BY <1>3, <1>13, <2>1 DEF LinksFit
<1>14. CASE Processor /\ UNCHANGED client
  BY <1>4, <1>13, <1>14 DEF Processor, Answer, Distribute, ServerUnsubscribe, ServerSubscribe, Fetch, Register, wire, client
<1>15. ASSUME NEW l \in Link, IOManager(l), UNCHANGED client PROVE LinksFit'
  <2>1. CASE Assign(l)
    <3>1. /\ srv[l] = "none" /\ lk[l] # "none" /\ srv' = [srv EXCEPT ![l] = "open"] /\ UNCHANGED <<lk, up, sock>>
          /\ down' = [down EXCEPT ![l] = IF lk[l] = "up" THEN Append(@, Plain("WELCOME")) ELSE @]
      BY <1>15, <2>1 DEF Assign, client
    <3> QED
      BY <1>0, <1>3, <3>1 DEF LinksFit
  <2>2. CASE Consume(l)
    <3>1. srv[l] = "open" /\ up' = [up EXCEPT ![l] = Tail(@)] /\ UNCHANGED <<lk, down, sock, srv>>
      BY <1>15, <2>2 DEF Consume, client
    <3> QED
      BY <1>0, <1>3, <3>1 DEF LinksFit
  <2>3. CASE Cleanup(l)
    <3>1. srv[l] = "open" /\ lk[l] = "down" /\ srv' = [srv EXCEPT ![l] = "dead"] /\ UNCHANGED <<lk, up, down, sock>>
      BY <1>15, <2>3 DEF Cleanup, client, wire
    <3> QED
      BY <1>0, <1>3, <3>1 DEF LinksFit
  <2> QED
    BY <1>15, <2>1, <2>2, <2>3 DEF IOManager
<1>16. ASSUME NEW l \in Link, Break(l), UNCHANGED <<client, server>> PROVE LinksFit'
  <2>1. /\ lk[l] = "up" /\ lk' = [lk EXCEPT ![l] = "down"] /\ UNCHANGED <<sock, srv>>
        /\ \E s : up' = [up EXCEPT ![l] = s]
        /\ \E r : down' = [down EXCEPT ![l] = r]
    BY <1>16 DEF Break, client, server
  <2>2. l = sock
    BY <2>1 DEF LinksFit
  <2> QED
    BY <1>0, <1>3, <2>1, <2>2 DEF LinksFit
<1>17. CASE UNCHANGED vars
  BY <1>4, <1>17 DEF vars, wire, client, server
<1> HIDE DEF Named
<1> QED
  BY <1>7, <1>8, <1>10, <1>11, <1>12, <1>14, <1>15, <1>16, <1>17 DEF Next, ReaderStep, CallerStep, ManagerStep, ServerStep
-----------------------------------------------------------------------------
\* The two parts of ReadingFits: what can be cut, and what the reader does with it.
CutsFit ==
  \A l \in Link : \A i \in DOMAIN down[l] : down[l][i].cut => Len(down[l]) = 1 /\ lk[l] = "down"

TornFits ==
  /\ rd.part # None =>
       /\ rd.pc \in {"read", "problem"}
       /\ sock # 0 /\ mode # "STARTING" => lk[sock] = "down" /\ down[sock] = <<>>
  /\ rd.torn = sock /\ sock # 0 =>
       mode = "STARTING" \/ (mode = "NEGOTIATING" /\ rd.pc \in {"read", "problem"})
  /\ rd.pc = "handle" => (rd.in.msg = Mixed => mode = "STARTING")
  /\ rd.pc = "resub" => mode = "NEGOTIATING"
  /\ \A i \in DOMAIN got : got[i] # Mixed

LEMMA ReadingParts == ReadingFits <=> CutsFit /\ TornFits
BY DEF ReadingFits, CutsFit, TornFits

\* A header without its content is the last of a link that is down.
LEMMA CutsFitStep == TypeOK /\ LinksFit /\ CutsFit /\ [Next]_vars => CutsFit'
<1> SUFFICES ASSUME TypeOK, LinksFit, CutsFit, [Next]_vars PROVE CutsFit'
  OBVIOUS
<1>0. /\ sock \in {0} \cup Link /\ lk \in [Link -> {"none", "up", "down"}]
      /\ down \in [Link -> Seq(Answers)] /\ 0 \notin Link /\ WireTypes
  BY DEF TypeOK, WireTypes, ClientTypes, Link
<1>1. CASE UNCHANGED <<lk, down>>
  BY <1>1 DEF CutsFit
<1>2. CASE CloseSocket
  <2>1. CASE sock = 0
    BY <1>1, <1>2, <2>1 DEF CloseSocket, wire
  <2>2. CASE sock # 0
    <3>1. lk' = [lk EXCEPT ![sock] = "down"] /\ down' = [down EXCEPT ![sock] = <<>>]
      BY <1>2, <2>2 DEF CloseSocket
    <3> QED
      BY <1>0, <2>2, <3>1 DEF CutsFit
  <2> QED
    BY <2>1, <2>2
<1>3. ASSUME NEW pkt, NEW r, HeldPut(pkt, r) PROVE CutsFit'
  BY <1>1, <1>2, <1>3 DEF HeldPut, wire
<1>4. ASSUME ConnectOK \/ ConnectRefused PROVE CutsFit'
  <2>1. CASE UNCHANGED <<lk, down>>
    BY <1>1, <2>1
  <2>2. ASSUME NEW n \in Unused, lk' = [lk EXCEPT ![n] = "up"], UNCHANGED down, sock = 0 PROVE CutsFit'
    <3>1. \A l \in Link : down[l] = <<>>
      BY <1>0, <2>2 DEF LinksFit
    <3>2. DOMAIN <<>> = {}
      OBVIOUS
    <3> QED
      BY <2>2, <3>1, <3>2 DEF CutsFit
  <2> QED
    BY <1>4, <2>1, <2>2 DEF ConnectOK, ConnectRefused
<1>5. ASSUME NEW l \in Link, NEW pkt \in Answers, ~pkt.cut, lk[l] = "up", lk'[l] = lk[l], down'[l] = Append(down[l], pkt)
      PROVE  \A i \in DOMAIN down'[l] : ~down'[l][i].cut
  <2>1. \A i \in DOMAIN down[l] : ~down[l][i].cut
    BY <1>5 DEF CutsFit
  <2>2. /\ \A i \in DOMAIN down'[l] : i \in DOMAIN down[l] \/ i = Len(down[l]) + 1
        /\ \A i \in DOMAIN down[l] : down'[l][i] = down[l][i]
        /\ down'[l][Len(down[l]) + 1] = pkt
    BY <1>0, <1>5, AppendEntries
  <2> QED
    BY <1>5, <2>1, <2>2
<1>6. ASSUME NEW clients, NEW pkt \in Answers, ~pkt.cut, Output(clients, pkt), UNCHANGED lk PROVE CutsFit'
  <2>1. \A l \in Link : down'[l] = down[l] \/ (lk[l] = "up" /\ down'[l] = Append(down[l], pkt))
    BY <1>6 DEF Output, Queued
  <2> QED
    BY <1>5, <1>6, <2>1 DEF CutsFit
<1>7. CASE Reader
  <2>1. CASE Read
    <3>1. sock \in Link /\ down[sock] # <<>> /\ down' = [down EXCEPT ![sock] = Tail(@)] /\ UNCHANGED lk
      BY <1>0, <2>1 DEF Read
    <3>2. down[sock] \in Seq(Answers) /\ down'[sock] = Tail(down[sock])
      BY <1>0, <3>1
    <3>3. ASSUME NEW i \in DOMAIN down'[sock], down'[sock][i].cut PROVE FALSE
      <4>1. i \in 1 .. Len(down[sock]) - 1 /\ i + 1 \in DOMAIN down[sock] /\ down'[sock][i] = down[sock][i + 1]
            /\ Len(down[sock]) \in Nat
        <5>1. PICK s \in Seq(Answers) : s = down[sock]
          BY <3>2
        <5>2. i \in DOMAIN Tail(s) /\ s # <<>>
          BY <3>1, <3>2, <3>3, <5>1
        <5>3. i \in 1 .. Len(s) - 1 /\ i + 1 \in DOMAIN s /\ Tail(s)[i] = s[i + 1] /\ Len(s) \in Nat
          BY <5>2, TailEntries
        <5> QED
          BY <3>2, <5>1, <5>3
      <4>2. Len(down[sock]) = 1
        BY <3>1, <3>3, <4>1 DEF CutsFit
      <4> QED
        BY <4>1, <4>2
    <3>4. \A l \in Link \ {sock} : down'[l] = down[l]
      BY <1>0, <3>1
    <3> QED
      BY <3>1, <3>3, <3>4 DEF CutsFit
  <2>2. CASE ~Read
    BY <1>1, <1>2, <1>3, <1>7, <2>2 DEF Reader, Check, ReadError, Problem, Expose, Welcome, Negotiated, Resubscribe,
         Resubscribed, Ignore, IoClose, IoState, wire
  <2> QED
    BY <2>1, <2>2
<1>8. CASE TimesOut
  BY <1>1, <1>8 DEF TimesOut, Inactive
<1>9. CASE Caller
  BY <1>1, <1>2, <1>4, <1>9 DEF Caller, Connect, AwaitDispatching, Disconnect, SubscribeWaits, Put, WriteNothing, Write,
       WriteLost, WriteError, Push, IoClose, IoState, wire
<1>10. CASE Manager \/ Application
  BY <1>1, <1>2, <1>4, <1>10 DEF Manager, Reconnect, Ping, Application, CallConnect, CallDisconnect, CallSubscribe,
       CallUnsubscribe, CallPublish, wire
<1>11. CASE Processor
  <2>1. CASE Fetch \/ Register
    BY <1>1, <1>6, <2>1, PacketTypes DEF Fetch, Register, wire
  <2>2. ASSUME procQ # <<>>, NEW l, NEW pkt, l = Head(procQ)[1], pkt = Head(procQ)[2],
               Answer(l, pkt) \/ Distribute(l, pkt) \/ ServerUnsubscribe(l, pkt) \/ ServerSubscribe(l, pkt)
        PROVE  CutsFit'
    <3>1. pkt \in Requests
      BY <2>2, HeadTypes DEF TypeOK
    <3>2. CASE Distribute(l, pkt)
      <4>1. pkt \in Answers /\ ~pkt.cut
        BY <3>1, <3>2, RequestTypes DEF Distribute, Taken
      <4> QED
        BY <1>6, <3>2, <4>1 DEF Distribute
    <3> QED
      BY <1>1, <1>6, <2>2, <3>2, PacketTypes DEF Answer, ServerUnsubscribe, ServerSubscribe, wire
  <2> QED
    BY <1>11, <2>1, <2>2 DEF Processor
<1>12. ASSUME NEW l \in Link, IOManager(l) PROVE CutsFit'
  <2>1. CASE Assign(l)
    <3>1. /\ \A k \in Link \ {l} : down'[k] = down[k]
          /\ down'[l] = IF lk[l] = "up" THEN Append(down[l], Plain("WELCOME")) ELSE down[l]
          /\ UNCHANGED lk
      BY <1>0, <2>1 DEF Assign
    <3> QED
      BY <1>5, <3>1, PacketTypes DEF CutsFit
  <2> QED
    BY <1>1, <1>12, <2>1 DEF IOManager, Consume, Cleanup, wire
<1>13. ASSUME NEW l \in Link, Break(l) PROVE CutsFit'
  <2>1. lk[l] = "up" /\ lk'[l] = "down" /\ \A k \in Link \ {l} : lk'[k] = lk[k] /\ down'[k] = down[k]
    BY <1>0, <1>13 DEF Break
  <2>2. PICK r \in Remains(down[l]) : down'[l] = r
    BY <1>0, <1>13 DEF Break
  <2>3. r # <<>> => r = down[l] \/ (down[l] # <<>> /\ r = <<[Head(down[l]) EXCEPT !.cut = TRUE]>>)
    BY <1>0, <2>2, RemainsType
  <2>4. \A i \in DOMAIN down[l] : ~down[l][i].cut
    BY <2>1 DEF CutsFit
  <2>5. \A x : Len(<<x>>) = 1
    OBVIOUS
  <2>6. DOMAIN <<>> = {}
    OBVIOUS
  <2>7. \A i \in DOMAIN down'[l] : down'[l][i].cut => Len(down'[l]) = 1
    BY <2>2, <2>3, <2>4, <2>5, <2>6
  <2> QED
    BY <2>1, <2>7 DEF CutsFit
<1>14. CASE UNCHANGED vars
  BY <1>1, <1>14 DEF vars, wire
<1> QED
  BY <1>7, <1>8, <1>9, <1>10, <1>11, <1>12, <1>13, <1>14 DEF Next, ReaderStep, CallerStep, ManagerStep, ServerStep

\* What the reader's record is after Checked and Handled.
LEMMA ReaderRecords ==
  ASSUME TypeOK
  PROVE  /\ rd \in ReaderType /\ Checked \in ReaderType /\ Handled \in ReaderType
         /\ Checked.pc = rd.pc /\ Checked.in = rd.in /\ Checked.torn = rd.torn /\ Checked.patterns = rd.patterns
         /\ Checked.part \in {rd.part, None}
         /\ Handled.pc = "read" /\ Handled.torn = rd.torn /\ Handled.part \in {rd.part, None}
         /\ \A r \in ReaderType :
              LET v == [r EXCEPT !.revised = TRUE]
              IN  v.pc = r.pc /\ v.in = r.in /\ v.torn = r.torn /\ v.part = r.part /\ v.patterns = r.patterns
<1>1. rd \in ReaderType
  BY DEF TypeOK, ClientTypes
<1>2. /\ Checked \in ReaderType /\ Checked.pc = rd.pc /\ Checked.in = rd.in /\ Checked.torn = rd.torn
      /\ Checked.patterns = rd.patterns /\ Checked.part \in {rd.part, None}
  BY <1>1 DEF Checked, ReaderType
<1>3. /\ Handled \in ReaderType /\ Handled.pc = "read" /\ Handled.torn = rd.torn /\ Handled.part \in {rd.part, None}
  BY <1>2 DEF Handled, ReaderType
<1>4. \A r \in ReaderType :
        LET v == [r EXCEPT !.revised = TRUE]
        IN  v.pc = r.pc /\ v.in = r.in /\ v.torn = r.torn /\ v.part = r.part /\ v.patterns = r.patterns
  BY DEF ReaderType
<1> QED
  BY <1>1, <1>2, <1>3, <1>4

\* A step that leaves the reader's turn and the mode as they are.
LEMMA TornKept ==
  ASSUME TornFits, UNCHANGED <<mode, got>>, sock' \in {0, sock},
         rd'.pc = rd.pc, rd'.part = rd.part, rd'.torn = rd.torn, rd'.in = rd.in,
         sock' # 0 /\ lk[sock] = "down" /\ down[sock] = <<>> => lk'[sock] = "down" /\ down'[sock] = <<>>
  PROVE  TornFits'
BY DEF TornFits

\* What is put together from two links is not read when the new one is set up.
LEMMA TornFitsStep == TypeOK /\ LinksFit /\ ReadingFits /\ [Next]_vars => TornFits'
<1> SUFFICES ASSUME TypeOK, LinksFit, CutsFit, TornFits, [Next]_vars PROVE TornFits'
  BY ReadingParts
<1>0. /\ sock \in {0} \cup Link /\ lk \in [Link -> {"none", "up", "down"}] /\ WireTypes
      /\ down \in [Link -> Seq(Answers)] /\ 0 \notin Link /\ rd \in ReaderType /\ got \in Seq(1 .. Mixed)
  <2>1. 0 \notin Link
    BY DEF Link
  <2> QED
    BY <2>1 DEF TypeOK, WireTypes, ClientTypes, HistoryTypes
<1>1. CASE UNCHANGED <<lk, down, sock, mode, rd, got>>
  BY <1>1 DEF TornFits
<1>2. CloseSocket => sock' = 0
  BY <1>0, CloseTypes
<1>3. \A r \in ReaderType :
        LET v == [r EXCEPT !.revised = TRUE]
        IN  v.pc = r.pc /\ v.in = r.in /\ v.torn = r.torn /\ v.part = r.part
  BY DEF ReaderType
<1>4. ASSUME CloseSocket, UNCHANGED <<mode, got>>, rd'.pc = rd.pc, rd'.part = rd.part, rd'.torn = rd.torn, rd'.in = rd.in
      PROVE  TornFits'
  BY <1>2, <1>4, TornKept
<1>5. ASSUME ConnectOK \/ ConnectRefused, MutexFree PROVE TornFits'
  <2>1. rd' = [rd EXCEPT !.revised = TRUE] /\ UNCHANGED got
    BY <1>5 DEF ConnectOK, ConnectRefused, history
  <2>2. rd'.pc = rd.pc /\ rd'.part = rd.part /\ rd'.torn = rd.torn /\ rd'.in = rd.in
    BY <1>0, <1>3, <2>1
  <2>3. CASE ConnectOK
    BY <1>5, <2>1, <2>2, <2>3 DEF ConnectOK, MutexFree, TornFits
  <2>4. CASE ConnectRefused
    BY <2>1, <2>2, <2>4, TornKept DEF ConnectRefused
  <2> QED
    BY <1>5, <2>3, <2>4
<1>6. CASE Reader
  <2>1. CASE IoClose("reader")
    BY <1>4, <2>1 DEF IoClose, history
  <2>2. CASE IoState("reader")
    BY <1>1, <2>2 DEF IoState, history, wire
  <2>3. CASE Check
    <3>1. rd' = Checked /\ UNCHANGED <<lk, down, sock, mode, got>>
      BY <2>3 DEF Check, wire, history
    <3>2. rd'.part \in {rd.part, None} /\ rd'.pc = rd.pc /\ rd'.torn = rd.torn /\ rd'.in = rd.in
      BY <3>1, ReaderRecords
    <3> QED
      BY <3>1, <3>2 DEF TornFits
  <2>4. CASE ReadError
    <3>1. /\ rd.pc = "read" /\ rd' \in {[rd EXCEPT !.trapped = FALSE], [rd EXCEPT !.pc = "problem"]}
          /\ sock' \in {0, sock} /\ UNCHANGED <<lk, down, mode, got>>
      BY <2>4 DEF ReadError, Reads, wire, history
    <3>2. rd'.pc \in {"read", "problem"} /\ rd'.part = rd.part /\ rd'.torn = rd.torn
      BY <1>0, <3>1 DEF ReaderType
    <3> QED
      BY <3>1, <3>2 DEF TornFits
  <2>5. CASE Problem
    <3>1. UNCHANGED <<lk, down, sock, mode, got>> /\ rd.pc = "problem"
      BY <2>5 DEF Problem, wire, history
    <3>2. rd'.pc = "read" /\ rd'.part = None /\ rd'.torn = rd.torn
      BY <2>5, ReaderRecords DEF Problem, ReaderType
    <3> QED
      BY <3>1, <3>2 DEF TornFits
  <2>6. ASSUME rd'.pc = "read", rd'.torn = rd.torn, rd'.part \in {rd.part, None}, rd.pc \in {"handle", "resub"}
        PROVE  rd'.part = None
    BY <2>6 DEF TornFits
  <2>7. CASE Expose
    <3>1. /\ UNCHANGED <<lk, down, sock, mode>> /\ rd.pc = "handle" /\ rd' = Handled /\ mode = "DISPATCHING"
          /\ got' = Append(got, rd.in.msg)
      BY <2>7 DEF Expose, Handles, wire
    <3>2. rd'.pc = "read" /\ rd'.part = None /\ rd'.torn = rd.torn
      BY <2>6, <3>1, ReaderRecords
    <3>3. rd.in.msg # Mixed
      BY <3>1 DEF TornFits
    <3>4. rd.in.msg \in 1 .. Mixed
      <4>1. Append(got, rd.in.msg) \in Seq(1 .. Mixed)
        BY <3>1, HistoryTypesStep DEF HistoryTypes
      <4>2. Append(got, rd.in.msg)[Len(got) + 1] = rd.in.msg /\ Len(got) + 1 \in 1 .. Len(Append(got, rd.in.msg))
        BY <1>0
      <4> QED
        BY <4>1, <4>2, ElementOfSeq
    <3>5. \A i \in DOMAIN got' : got'[i] # Mixed
      BY <1>0, <3>1, <3>3, <3>4, AppendEntries DEF TornFits
    <3> QED
      BY <3>1, <3>2, <3>5 DEF TornFits
  <2>8. CASE Ignore
    <3>1. UNCHANGED <<lk, down, sock, mode, got>> /\ rd.pc = "handle" /\ rd' = Handled
      BY <2>8 DEF Ignore, wire, history
    <3>2. rd'.pc = "read" /\ rd'.part = None /\ rd'.torn = rd.torn
      BY <2>6, <3>1, ReaderRecords
    <3> QED
      BY <3>1, <3>2 DEF TornFits
  <2>9. CASE Welcome
    <3>1. /\ mode = "STARTING" /\ mode' = "NEGOTIATING" /\ rd.pc = "handle" /\ UNCHANGED got
          /\ rd' \in {Handled, [Handled EXCEPT !.revised = TRUE]}
      BY <2>9 DEF Welcome, Handles, HeldPut, history
    <3>2. rd'.pc = "read" /\ rd'.part = None /\ rd'.torn = rd.torn
      BY <2>6, <3>1, ReaderRecords
    <3> QED
      BY <3>1, <3>2 DEF TornFits
  <2>10. CASE Negotiated
    <3>1. /\ UNCHANGED <<lk, down, sock, got>> /\ rd.pc = "handle" /\ mode = "NEGOTIATING"
          /\ \/ rd' = Handled /\ mode' = "DISPATCHING"
             \/ rd' = [Handled EXCEPT !.pc = "resub", !.patterns = subs] /\ UNCHANGED mode
      BY <2>10 DEF Negotiated, Handles, wire, history
    <3>2. Handled.part = None
      BY <3>1, ReaderRecords DEF TornFits
    <3>3. /\ rd'.part = None /\ rd'.torn = rd.torn
          /\ \/ rd'.pc = "read" /\ mode' = "DISPATCHING"
             \/ rd'.pc = "resub" /\ mode' = "NEGOTIATING"
      BY <3>1, <3>2, ReaderRecords DEF ReaderType
    <3>4. ~(rd.torn = sock /\ sock # 0)
      BY <3>1 DEF TornFits
    <3> QED
      BY <3>1, <3>3, <3>4 DEF TornFits
  <2>11. CASE Resubscribe
    <3> DEFINE r == [Checked EXCEPT !.pc = "read", !.patterns = <<>>]
    <3>1. rd.pc = "resub" /\ mode' = "RESUBSCRIBING" /\ UNCHANGED got /\ rd' \in {r, [r EXCEPT !.revised = TRUE]}
      BY <2>11 DEF Resubscribe, HeldPut, history
    <3>2. rd'.pc = "read" /\ rd'.part = None /\ rd'.torn = rd.torn
      <4>1. <<>> \in Seq(Pattern)
        OBVIOUS
      <4>2. r \in ReaderType /\ r.pc = "read" /\ r.torn = rd.torn /\ r.part \in {rd.part, None}
        BY <4>1, ReaderRecords DEF ReaderType
      <4> HIDE DEF r
      <4> QED
        BY <1>3, <2>6, <3>1, <4>2
    <3>3. ~(rd.torn = sock /\ sock # 0)
      BY <3>1 DEF TornFits
    <3>4. sock' \in {0, sock}
      BY <1>2, <2>11 DEF Resubscribe, HeldPut
    <3> QED
      BY <3>1, <3>2, <3>3, <3>4 DEF TornFits
  <2>12. CASE Resubscribed
    <3>1. /\ UNCHANGED <<lk, down, sock, got>> /\ rd.pc = "handle" /\ rd' = Handled
          /\ mode = "RESUBSCRIBING" /\ mode' = "DISPATCHING"
      BY <2>12 DEF Resubscribed, Handles, wire, history
    <3>2. rd'.pc = "read" /\ rd'.part = None /\ rd'.torn = rd.torn
      BY <2>6, <3>1, ReaderRecords
    <3> QED
      BY <3>1, <3>2 DEF TornFits
  <2>13. CASE Read
    <3>1. /\ sock \in Link /\ down[sock] # <<>> /\ down' = [down EXCEPT ![sock] = Tail(@)] /\ rd.pc = "read"
          /\ UNCHANGED <<lk, mode, sock, got>>
      BY <1>0, <2>13 DEF Read, Reads, history
    <3>2. PICK pkt \in Answers : pkt = Head(down[sock])
      BY <1>0, <3>1, LinkTypes
    <3>3. pkt = down[sock][1] /\ 1 \in DOMAIN down[sock]
      BY <1>0, <3>1, <3>2, TailEntries
    <3>4. down'[sock] = Tail(down[sock])
      BY <1>0, <3>1
    <3> DEFINE handle(p) == [rd EXCEPT !.pc = "handle", !.in = p, !.part = None]
    <3>5. CASE rd.part = None /\ rd.torn # sock /\ ~pkt.cut /\ rd' = handle(pkt)
      <4>1. rd'.pc = "handle" /\ rd'.in = pkt /\ rd'.part = None /\ rd'.torn = rd.torn
        BY <1>0, <3>5 DEF ReaderType
      <4>2. pkt.msg # Mixed
        BY AnswerTypes
      <4> QED
        BY <3>1, <3>5, <4>1, <4>2 DEF TornFits
    <3>6. CASE rd.part = None /\ rd.torn # sock /\ pkt.cut /\ rd' = [rd EXCEPT !.part = pkt]
      <4>1. rd'.pc = "read" /\ rd'.part = pkt /\ rd'.torn = rd.torn
        BY <1>0, <3>1, <3>6 DEF ReaderType
      <4>2. Len(down[sock]) = 1 /\ lk[sock] = "down"
        BY <3>1, <3>3, <3>6 DEF CutsFit
      <4>3. Tail(down[sock]) = <<>>
        <5>1. PICK s \in Seq(Answers) : s = down[sock] /\ s # <<>>
          BY <1>0, <3>1
        <5>2. Tail(s) \in Seq(Answers) /\ Len(Tail(s)) = 0
          BY <4>2, <5>1, HeadTailProperties
        <5> QED
          BY <5>1, <5>2, EmptySeq
      <4> QED
        BY <3>1, <3>4, <3>6, <4>1, <4>2, <4>3 DEF TornFits
    <3>7. CASE rd.part = None /\ rd.torn = sock /\ rd' = [rd EXCEPT !.pc = "problem"]
      <4>1. rd'.pc = "problem" /\ rd'.part = None /\ rd'.torn = rd.torn
        BY <1>0, <3>7 DEF ReaderType
      <4> QED
        BY <3>1, <4>1 DEF TornFits
    <3>8. CASE rd.part # None /\ rd' \in {[handle([rd.part EXCEPT !.msg = Mixed]) EXCEPT !.torn = sock],
                                         [rd EXCEPT !.pc = "problem", !.torn = sock]}
      <4>1. mode = "STARTING"
        BY <1>0, <3>1, <3>8 DEF TornFits
      <4>2. (rd'.pc = "problem" \/ (rd'.pc = "handle" /\ rd'.part = None)) /\ rd'.torn = sock
        BY <1>0, <3>8 DEF ReaderType
      <4> QED
        BY <3>1, <4>1, <4>2 DEF TornFits
    <3> HIDE DEF handle
    <3>9. \/ rd.part = None /\ rd.torn # sock /\ rd' = IF pkt.cut THEN [rd EXCEPT !.part = pkt] ELSE handle(pkt)
          \/ rd.part = None /\ rd.torn = sock /\ rd' = [rd EXCEPT !.pc = "problem"]
          \/ rd.part # None /\ rd' \in {[handle([rd.part EXCEPT !.msg = Mixed]) EXCEPT !.torn = sock],
                                         [rd EXCEPT !.pc = "problem", !.torn = sock]}
      BY <2>13, <3>2 DEF Read, handle
    <3> QED
      BY <3>5, <3>6, <3>7, <3>8, <3>9
  <2> QED
    BY <1>6, <2>1, <2>2, <2>3, <2>4, <2>5, <2>7, <2>8, <2>9, <2>10, <2>11, <2>12, <2>13 DEF Reader
<1>7. CASE TimesOut
  <2>1. rd' = [rd EXCEPT !.revised = TRUE] /\ UNCHANGED <<lk, down, sock, mode, got>>
    BY <1>7 DEF TimesOut, Inactive, history
  <2> QED
    BY <1>0, <1>3, <2>1, TornKept
<1>8. CASE Caller
  <2>1. CASE IoClose("user")
    BY <1>4, <2>1 DEF IoClose, history
  <2>2. CASE AwaitDispatching \/ SubscribeWaits \/ Put \/ WriteNothing \/ Write \/ WriteLost \/ Push \/ IoState("user")
    BY <1>1, <2>2 DEF AwaitDispatching, SubscribeWaits, Put, WriteNothing, Write, WriteLost, Push, IoState, history, wire
  <2>3. CASE WriteError
    <3>1. rd' = [rd EXCEPT !.revised = TRUE] /\ UNCHANGED <<lk, down, sock, mode, got>>
      BY <2>3 DEF WriteError, history, wire
    <3> QED
      BY <1>0, <1>3, <3>1, TornKept
  <2>4. CASE Connect
    BY <1>1, <1>5, <2>4 DEF Connect, history, wire
  <2>5. CASE Disconnect
    <3>1. CASE CloseSocket /\ rd' = [rd EXCEPT !.trapped = TRUE]
      <4>1. rd'.pc = rd.pc /\ rd'.part = rd.part /\ rd'.torn = rd.torn /\ rd'.in = rd.in
        BY <1>0, <3>1 DEF ReaderType
      <4> QED
        BY <1>4, <2>5, <3>1, <4>1 DEF Disconnect, history
    <3>2. CASE UNCHANGED <<wire, sock, rd, state>>
      BY <1>1, <2>5, <3>2 DEF Disconnect, history, wire
    <3> QED
      BY <2>5, <3>1, <3>2 DEF Disconnect
  <2> QED
    BY <1>8, <2>1, <2>2, <2>3, <2>4, <2>5 DEF Caller
<1>9. CASE Manager
  <2>1. CASE Reconnect
    BY <1>5, <2>1 DEF Reconnect
  <2>2. CASE Ping
    BY <1>0, <1>3, <1>4, <2>2 DEF Ping, history
  <2> QED
    BY <1>9, <2>1, <2>2 DEF Manager
<1>10. CASE Application
  BY <1>1, <1>10 DEF Application, CallConnect, CallDisconnect, CallSubscribe, CallUnsubscribe, CallPublish, wire
<1>11. ASSUME UNCHANGED <<client, history>>, \A l \in Link : lk'[l] = lk[l] /\ (lk[l] = "up" \/ down'[l] = down[l])
       PROVE  TornFits'
  BY <1>0, <1>11 DEF TornFits, client, history
<1>12. ASSUME NEW clients, NEW pkt, Output(clients, pkt), UNCHANGED <<lk, client, history>> PROVE TornFits'
  BY <1>11, <1>12 DEF Output, Queued
<1>13. CASE ServerStep
  <2>1. CASE Processor
    BY <1>11, <1>12, <1>13, <2>1 DEF ServerStep, Processor, Answer, Distribute, ServerUnsubscribe, ServerSubscribe,
         Fetch, Register, wire
  <2>2. ASSUME NEW l \in Link, IOManager(l) PROVE TornFits'
    <3>1. CASE Assign(l)
      <4>1. UNCHANGED lk /\ \A k \in Link : lk[k] = "up" \/ down'[k] = down[k]
        BY <1>0, <3>1 DEF Assign
      <4> QED
        BY <1>11, <1>13, <4>1 DEF ServerStep
    <3> QED
      BY <1>11, <1>13, <2>2, <3>1 DEF ServerStep, IOManager, Consume, Cleanup, wire
  <2> QED
    BY <1>13, <2>1, <2>2 DEF ServerStep
<1>14. ASSUME NEW l \in Link, Break(l), UNCHANGED <<client, history>> PROVE TornFits'
  <2>1. lk[l] = "up" /\ l = sock /\ lk' = [lk EXCEPT ![l] = "down"]
    BY <1>14 DEF Break, LinksFit
  <2> QED
    BY <1>0, <1>14, <2>1 DEF TornFits, client, history
<1>15. CASE UNCHANGED vars
  BY <1>1, <1>15 DEF vars, wire, client, history
<1> QED
  BY <1>6, <1>7, <1>8, <1>9, <1>10, <1>13, <1>14, <1>15 DEF Next, ReaderStep, CallerStep, ManagerStep

LEMMA ReadingFitsInit == Init => ReadingFits
<1>1. DOMAIN <<>> = {}
  OBVIOUS
<1>2. ASSUME Init PROVE CutsFit /\ TornFits
  BY <1>1, <1>2 DEF Init, WireInit, ClientInit, CutsFit, TornFits
<1> QED
  BY <1>2, ReadingParts

LEMMA ReadingFitsStep == TypeOK /\ LinksFit /\ ReadingFits /\ [Next]_vars => ReadingFits'
<1>1. CutsFit' /\ TornFits' => ReadingFits'
  BY DEF CutsFit, TornFits, ReadingFits
<1> QED
  BY <1>1, ReadingParts, CutsFitStep, TornFitsStep
-----------------------------------------------------------------------------
\* Message m is the i-th of a link's packets, or of the Processor's queue, or at the
\* application or the reader.
At(s, i, m) == i \in DOMAIN s /\ Published(s[i], m)
Queues(q, i, m) == i \in DOMAIN q /\ Published(q[i][2], m)
Gets(s, i, m) == i \in DOMAIN s /\ s[i] = m
Sends(u, m) == u.pc \in {"put", "write"} /\ Published(u.pkt, m)
Handling(r, m) == r.pc = "handle" /\ Published(r.in, m)

\* A place and what it holds, by kind.
LEMMA HoldsParts ==
  ASSUME NEW c, NEW m
  PROVE  /\ Holds(c, m) <=> \/ c[1] = "user" /\ Sends(user, m)
                            \/ c[1] = "up" /\ At(up[c[2]], c[3], m)
                            \/ c[1] = "queue" /\ Queues(procQ, c[3], m)
                            \/ c[1] = "down" /\ At(down[c[2]], c[3], m)
                            \/ c[1] = "in" /\ Handling(rd, m)
                            \/ c[1] = "got" /\ Gets(got, c[3], m)
         /\ Holds(c, m)' <=> \/ c[1] = "user" /\ Sends(user', m)
                             \/ c[1] = "up" /\ At(up'[c[2]], c[3], m)
                             \/ c[1] = "queue" /\ Queues(procQ', c[3], m)
                             \/ c[1] = "down" /\ At(down'[c[2]], c[3], m)
                             \/ c[1] = "in" /\ Handling(rd', m)
                             \/ c[1] = "got" /\ Gets(got', c[3], m)
BY DEF Holds, At, Queues, Gets, Sends, Handling

LEMMA PlaceParts ==
  ASSUME NEW c \in Place
  PROVE  /\ c = <<c[1], c[2], c[3]>> /\ c[3] \in Nat
         /\ c[1] \in {"user", "in", "up", "down", "queue", "got"}
         /\ c[1] \in {"user", "in"} => c = <<c[1], 0, 0>>
         /\ c[1] \in {"up", "down"} => c[2] \in Link
         /\ c[1] \in {"queue", "got"} => c = <<c[1], 0, c[3]>>
BY DEF Place

LEMMA Places ==
  /\ <<"user", 0, 0>> \in Place /\ <<"in", 0, 0>> \in Place
  /\ \A l \in Link, i \in Nat : <<"up", l, i>> \in Place /\ <<"down", l, i>> \in Place
  /\ \A i \in Nat : <<"queue", 0, i>> \in Place /\ <<"got", 0, i>> \in Place
BY DEF Place

\* When every message comes from a place of its own, it is still at one place.
LEMMA OnceMoved ==
  ASSUME Once, msgs' = msgs, lapses \subseteq lapses', NEW F,
         \A m \in Msg, c \in Place : Holds(c, m)' => F[c] \in Place /\ Holds(F[c], m),
         \A m \in Msg, c \in Place, d \in Place : Holds(c, m)' /\ Holds(d, m)' /\ F[c] = F[d] => c = d
  PROVE  Once'
<1> SUFFICES ASSUME NEW m \in Msg, NEW c \in Place, Holds(c, m)'
             PROVE  /\ m <= msgs'
                    /\ "rewritten" \in lapses' \/ \A d \in Place : Holds(d, m)' => d = c
  <2>1. Place' = Place
    BY DEF Place
  <2> QED
    BY <2>1 DEF Once
<1>1. F[c] \in Place /\ Holds(F[c], m) /\ m <= msgs
  BY DEF Once
<1>2. ASSUME NEW d \in Place, Holds(d, m)', "rewritten" \notin lapses' PROVE d = c
  <2>1. F[d] \in Place /\ Holds(F[d], m)
    BY <1>2
  <2>2. F[d] = F[c]
    BY <1>1, <1>2, <2>1 DEF Once
  <2> QED
    BY <1>2, <2>2
<1> QED
  BY <1>1, <1>2

\* The same, for a step that leaves `lapses` and the number of messages.
LEMMA OnceKept ==
  ASSUME Once, msgs' = msgs, lapses \subseteq lapses',
         \A m \in Msg : Sends(user', m) => Sends(user, m),
         \A m \in Msg : Handling(rd', m) => Handling(rd, m),
         \A m \in Msg, l \in Link, i \in Nat : At(up'[l], i, m) => At(up[l], i, m),
         \A m \in Msg, l \in Link, i \in Nat : At(down'[l], i, m) => At(down[l], i, m),
         \A m \in Msg, i \in Nat : Queues(procQ', i, m) => Queues(procQ, i, m),
         \A m \in Msg, i \in Nat : Gets(got', i, m) => Gets(got, i, m)
  PROVE  Once'
<1> DEFINE F == [c \in Place |-> c]
<1>1. \A m \in Msg, c \in Place : Holds(c, m)' => Holds(c, m)
  BY HoldsParts, PlaceParts
<1>2. \A c \in Place : F[c] = c
  OBVIOUS
<1> HIDE DEF F
<1>3. \A m \in Msg, c \in Place : Holds(c, m)' => F[c] \in Place /\ Holds(F[c], m)
  BY <1>1, <1>2
<1>4. \A m \in Msg, c \in Place, d \in Place : Holds(c, m)' /\ Holds(d, m)' /\ F[c] = F[d] => c = d
  BY <1>2
<1> QED
  BY <1>3, <1>4, OnceMoved

\* What is in a link's packets after one was appended or taken, or when it failed.
LEMMA AtAppended ==
  ASSUME NEW S, NEW s \in Seq(S), NEW x \in S, NEW i \in Nat, NEW m, At(Append(s, x), i, m)
  PROVE  At(s, i, m) \/ (i = Len(s) + 1 /\ Published(x, m))
BY AppendEntries DEF At

LEMMA AtTail ==
  ASSUME NEW S, NEW s \in Seq(S), s # <<>>, NEW i \in Nat, NEW m
  PROVE  /\ At(Tail(s), i, m) => i >= 1 /\ At(s, i + 1, m)
         /\ Published(Head(s), m) => At(s, 1, m)
BY TailEntries DEF At

LEMMA AtNone ==
  ASSUME NEW i, NEW m
  PROVE  ~At(<<>>, i, m)
BY DEF At

LEMMA AtRemains ==
  ASSUME NEW s \in Seq(Answers), NEW r \in Remains(s), NEW i \in Nat, NEW m, At(r, i, m)
  PROVE  At(s, i, m)
<1>1. CASE r = <<>> \/ r = s
  BY <1>1, AtNone
<1>2. CASE s # <<>> /\ r = <<[Head(s) EXCEPT !.cut = TRUE]>>
  <2>1. Head(s) \in Answers /\ 1 \in DOMAIN s /\ Head(s) = s[1]
    BY <1>2, TailEntries
  <2> DEFINE x == [Head(s) EXCEPT !.cut = TRUE]
  <2>2. r = <<x>>
    BY <1>2
  <2>3. Published(x, m) <=> Published(Head(s), m)
    BY <2>1, AnswerTypes
  <2> HIDE DEF x
  <2>4. i = 1 /\ Published(x, m)
    BY <2>2 DEF At
  <2> QED
    BY <2>1, <2>3, <2>4 DEF At
<1> QED
  BY <1>1, <1>2, RemainsType

LEMMA QueuesAppended ==
  ASSUME NEW S, NEW q \in Seq(S), NEW x \in S, NEW i \in Nat, NEW m, Queues(Append(q, x), i, m)
  PROVE  Queues(q, i, m) \/ (i = Len(q) + 1 /\ Published(x[2], m))
BY AppendEntries DEF Queues

LEMMA QueuesTail ==
  ASSUME NEW S, NEW q \in Seq(S), q # <<>>, NEW i \in Nat, NEW m
  PROVE  /\ Queues(Tail(q), i, m) => i >= 1 /\ Queues(q, i + 1, m)
         /\ Published(Head(q)[2], m) => Queues(q, 1, m)
BY TailEntries DEF Queues

LEMMA GetsAppended ==
  ASSUME NEW S, NEW s \in Seq(S), NEW x \in S, NEW i \in Nat, NEW m, Gets(Append(s, x), i, m)
  PROVE  Gets(s, i, m) \/ (i = Len(s) + 1 /\ x = m)
BY AppendEntries DEF Gets
-----------------------------------------------------------------------------
\* The calls that send a message after a step.
LEMMA AfterSends ==
  ASSUME NEW u, UserFits(u), u.pc = "write", NEW v \in After(u), NEW m, Sends(v, m)
  PROVE  u.err /\ Published(u.pkt, m)
<1>1. IdleUser.pc = "idle"
  BY DEF IdleUser, Call
<1>2. ~u.err /\ u.pkt.type = "SUBSCRIBE" => [u EXCEPT !.pc = "push"].pc = "push"
  BY DEF UserFits, UserType
<1>3. [u EXCEPT !.pc = "put"].pkt = u.pkt
  BY DEF UserFits, UserType
<1> QED
  BY <1>1, <1>2, <1>3, AfterFits DEF Sends

LEMMA PutsSends ==
  ASSUME NEW pkt \in Requests, pkt.type # "NEGOTIATE", Len(pkt.topics) = 1, NEW v \in Puts(pkt), NEW m, Sends(v, m)
  PROVE  Published(pkt, m)
<1>1. IdleUser.pc = "idle" /\ Call("write", pkt).pkt = pkt
  BY DEF IdleUser, Call
<1> QED
  BY <1>1, PutsFits DEF Sends

LEMMA CallerSends ==
  ASSUME TypeOK, Caller, NEW m, Sends(user', m)
  PROVE  Sends(user, m)
<1>0. UserFits(user) /\ IdleUser.pc = "idle"
  BY ClientParts DEF TypeOK, IdleUser, Call
<1>1. CASE UNCHANGED user
  BY <1>1
<1>2. CASE user' = IdleUser
  BY <1>0, <1>2 DEF Sends
<1>3. CASE Connect \/ AwaitDispatching
  <2>1. user.pc \in {"connect", "await"} => \A pc \in {"connect", "await"} : [user EXCEPT !.pc = pc].pc = pc
    BY <1>0 DEF UserFits, UserType
  <2>2. user'.pc \in {"connect", "await", "idle"} 
    BY <1>0, <1>3, <2>1 DEF Connect, AwaitDispatching
  <2> QED
    BY <2>2 DEF Sends
<1>4. CASE Disconnect \/ Push
  BY <1>2, <1>4 DEF Disconnect, Push
<1>5. CASE SubscribeWaits
  <2>1. user.pkt.type = "SUBSCRIBE" /\ user'.pkt = user.pkt
    BY <1>0, <1>5 DEF SubscribeWaits, UserFits, UserType
  <2> QED
    BY <2>1 DEF Sends, Published
<1>6. CASE Put
  <2>1. user.pkt \in Requests /\ user.pkt.type # "NEGOTIATE" /\ Len(user.pkt.topics) = 1 /\ user.pc = "put"
    BY <1>0, <1>6 DEF Put, UserFits
  <2>2. Published(user.pkt, m)
    BY <1>6, <2>1, PutsSends DEF Put
  <2> QED
    BY <2>1, <2>2 DEF Sends
<1>7. CASE WriteNothing
  <2>1. user.pc = "write" /\ Published(user.pkt, m)
    BY <1>0, <1>7, AfterSends DEF WriteNothing, Writing
  <2> QED
    BY <2>1 DEF Sends
<1>8. CASE Write \/ WriteLost
  <2> DEFINE u == [user EXCEPT !.link = sock]
  <2>1. UserFits(u) /\ u.pc = "write" /\ u.pkt = user.pkt /\ user.pc = "write"
    BY <1>0, <1>8 DEF Write, WriteLost, Writing, TypeOK, ClientTypes, UserFits, UserType
  <2>2. user' \in After(u)
    BY <1>8 DEF Write, WriteLost
  <2> HIDE DEF u
  <2>3. Published(user.pkt, m)
    BY <2>1, <2>2, AfterSends
  <2> QED
    BY <2>1, <2>3 DEF Sends
<1>9. CASE WriteError
  <2>1. user.pc = "write" /\ user'.pkt = user.pkt
    BY <1>0, <1>9 DEF WriteError, Writing, UserFits, UserType
  <2> QED
    BY <2>1 DEF Sends
<1>10. CASE IoClose("user") \/ IoState("user")
  BY <1>1, <1>10 DEF IoClose, IoState
<1> QED
  BY <1>3, <1>4, <1>5, <1>6, <1>7, <1>8, <1>9, <1>10 DEF Caller

\* What the steps of the client and the network do to the places of messages.
LEMMA CloseKeeps ==
  ASSUME WireTypes, sock \in {0} \cup Link, CloseSocket, NEW l \in Link, NEW i \in Nat, NEW m
  PROVE  (At(up'[l], i, m) => At(up[l], i, m)) /\ (At(down'[l], i, m) => At(down[l], i, m))
<1>1. CASE sock = 0
  BY <1>1 DEF CloseSocket, wire
<1>2. CASE sock # 0
  <2>1. PICK s \in {<<>>, up[sock]} : up' = [up EXCEPT ![sock] = s]
    BY <1>2 DEF CloseSocket
  <2>2. /\ up'[l] \in {<<>>, up[l]} /\ down'[l] \in {<<>>, down[l]}
    BY <1>2, <2>1 DEF CloseSocket, WireTypes
  <2> QED
    BY <2>2, AtNone
<1> QED
  BY <1>1, <1>2

LEMMA BreakKeeps ==
  ASSUME WireTypes, NEW k \in Link, Break(k), NEW l \in Link, NEW i \in Nat, NEW m
  PROVE  (At(up'[l], i, m) => At(up[l], i, m)) /\ (At(down'[l], i, m) => At(down[l], i, m))
<1>1. PICK s \in {<<>>, up[k]}, r \in Remains(down[k]) : up' = [up EXCEPT ![k] = s] /\ down' = [down EXCEPT ![k] = r]
  BY DEF Break
<1>2. up'[l] \in {<<>>, up[l]} /\ down[k] \in Seq(Answers)
  BY <1>1 DEF WireTypes
<1>3. CASE l = k
  <2>1. down'[l] = r
    BY <1>1, <1>3 DEF WireTypes
  <2> QED
    BY <1>2, <1>3, <2>1, AtNone, AtRemains
<1>4. CASE l # k
  <2>1. down'[l] = down[l]
    BY <1>1, <1>4 DEF WireTypes
  <2> QED
    BY <1>2, <2>1, AtNone
<1> QED
  BY <1>3, <1>4

LEMMA HeldPutKeeps ==
  ASSUME WireTypes, sock \in {0} \cup Link, NEW pkt \in Requests, NEW r, HeldPut(pkt, r), pkt.type # "PUBLISH",
         NEW l \in Link, NEW i \in Nat, NEW m
  PROVE  (At(up'[l], i, m) => At(up[l], i, m)) /\ (At(down'[l], i, m) => At(down[l], i, m))
<1>1. CASE UNCHANGED wire
  BY <1>1 DEF wire
<1>2. CASE CloseSocket
  BY <1>2, CloseKeeps
<1>3. CASE sock # 0 /\ up' = [up EXCEPT ![sock] = Append(@, pkt)] /\ UNCHANGED down
  <2>1. up[sock] \in Seq(Requests) /\ (up'[l] = up[l] \/ (l = sock /\ up'[l] = Append(up[sock], pkt)))
    BY <1>3 DEF WireTypes
  <2>2. ASSUME up'[l] = Append(up[sock], pkt), l = sock, At(up'[l], i, m) PROVE At(up[l], i, m)
    BY <2>1, <2>2, AtAppended DEF Published
  <2> QED
    BY <1>3, <2>1, <2>2
<1> QED
  BY <1>1, <1>2, <1>3 DEF HeldPut

\* Appending a packet without a message to what a client gets.
LEMMA OutputKeeps ==
  ASSUME WireTypes, NEW clients, NEW pkt \in Answers, Output(clients, pkt), pkt.type # "PUBLISH",
         NEW l \in Link, NEW i \in Nat, NEW m, At(down'[l], i, m)
  PROVE  At(down[l], i, m)
<1>1. down[l] \in Seq(Answers) /\ down'[l] \in {down[l], Append(down[l], pkt)}
  BY DEF Output, Queued, WireTypes
<1>2. ~Published(pkt, m)
  BY DEF Published
<1> QED
  BY <1>1, <1>2, AtAppended

\* When a write() was repeated, the messages are still those that were published.
LEMMA OnceRewritten ==
  ASSUME Once, msgs' = msgs, "rewritten" \in lapses', NEW F,
         \A m \in Msg, c \in Place : Holds(c, m)' => F[c] \in Place /\ Holds(F[c], m)
  PROVE  Once'
<1>1. Place' = Place
  BY DEF Place
<1> QED
  BY <1>1 DEF Once
-----------------------------------------------------------------------------
\* A message is at one place at most: the steps that move one.
LEMMA OnceInit == Init => Once
<1> SUFFICES ASSUME Init, NEW m \in Msg, NEW c \in Place, Holds(c, m) PROVE FALSE
  BY DEF Once
<1>1. ~Sends(user, m) /\ ~Handling(rd, m)
  BY DEF Init, ClientInit, IdleUser, Call, Sends, Handling
<1>2. (\A l \in Link : up[l] = <<>> /\ down[l] = <<>>) /\ procQ = <<>> /\ got = <<>>
  BY DEF Init, WireInit, ClientInit, ServerInit
<1>3. \A i : ~Queues(<<>>, i, m) /\ ~Gets(<<>>, i, m)
  BY DEF Queues, Gets
<1> QED
  BY <1>1, <1>2, <1>3, AtNone, HoldsParts, PlaceParts

LEMMA OnceWrites ==
  ASSUME TypeOK, Once, Write, UNCHANGED procQ
  PROVE  Once'
<1>0. /\ sock \in Link /\ up \in [Link -> Seq(Requests)] /\ up[sock] \in Seq(Requests) /\ user.pkt \in Requests
      /\ UserFits(user) /\ user.pc = "write" /\ user \in UserType /\ Len(up[sock]) \in Nat
  BY ClientParts DEF TypeOK, WireTypes, ClientTypes, Write, Writing, UserFits
<1>1. /\ up' = [up EXCEPT ![sock] = Append(@, user.pkt)] /\ UNCHANGED <<down, rd, got, procQ, msgs>>
      /\ lapses' = IF user.err THEN lapses \cup {"rewritten"} ELSE lapses
  BY DEF Write
<1>2. \A m \in Msg : Sends(user', m) => Sends(user, m) /\ user.err
  <2> DEFINE u == [user EXCEPT !.link = sock]
  <2>1. UserFits(u) /\ u.pc = "write" /\ u.pkt = user.pkt /\ u.err = user.err
    BY <1>0 DEF UserFits, UserType
  <2>2. user' \in After(u)
    BY DEF Write
  <2> HIDE DEF u
  <2>3. \A m \in Msg : Sends(user', m) => u.err /\ Published(u.pkt, m)
    BY <2>1, <2>2, AfterSends
  <2> QED
    BY <1>0, <2>1, <2>3 DEF Sends
<1> DEFINE last == <<"up", sock, Len(up[sock]) + 1>>
           F == [c \in Place |-> IF c = last THEN <<"user", 0, 0>> ELSE c]
<1>3. last \in Place /\ <<"user", 0, 0>> \in Place /\ last # <<"user", 0, 0>>
  <2>1. Len(up[sock]) + 1 \in Nat
    BY <1>0
  <2> QED
    BY <1>0, <2>1, Places
<1>4. \A c \in Place : F[c] = IF c = last THEN <<"user", 0, 0>> ELSE c
  OBVIOUS
<1>5. ASSUME NEW m \in Msg, NEW c \in Place, Holds(c, m)', c[1] # "up" \/ c # last PROVE Holds(c, m)
  <2>1. CASE c[1] = "up"
    <3>1. c[2] \in Link /\ c[3] \in Nat /\ c = <<c[1], c[2], c[3]>> /\ At(up'[c[2]], c[3], m)
      BY <2>1, <1>5, PlaceParts, HoldsParts
    <3>2. CASE c[2] = sock
      <4>1. up'[sock] = Append(up[sock], user.pkt)
        BY <1>0, <1>1
      <4>2. At(up[sock], c[3], m) \/ c[3] = Len(up[sock]) + 1
        BY <1>0, <3>1, <3>2, <4>1, AtAppended
      <4> QED
        BY <1>5, <2>1, <3>1, <3>2, <4>2, HoldsParts
    <3>3. CASE c[2] # sock
      BY <1>0, <1>1, <2>1, <3>1, <3>3, HoldsParts
    <3> QED
      BY <3>2, <3>3
  <2>2. CASE c[1] # "up"
    BY <1>1, <1>2, <1>5, <2>2, HoldsParts
  <2> QED
    BY <2>1, <2>2
<1>6. ASSUME NEW m \in Msg, NEW c \in Place, c = last, Holds(c, m)' PROVE Holds(<<"user", 0, 0>>, m)
  <2>1. At(up'[sock], Len(up[sock]) + 1, m) /\ up'[sock] = Append(up[sock], user.pkt)
    BY <1>0, <1>1, <1>6, HoldsParts
  <2>2. Published(user.pkt, m)
    BY <1>0, <2>1, AppendEntries DEF At
  <2> QED
    BY <1>0, <2>2, HoldsParts DEF Sends
<1> HIDE DEF F, last
<1>7. \A m \in Msg, c \in Place : Holds(c, m)' => F[c] \in Place /\ Holds(F[c], m)
  BY <1>3, <1>4, <1>5, <1>6
<1>8. CASE user.err
  BY <1>1, <1>7, <1>8, OnceRewritten
<1>9. CASE ~user.err
  <2>1. \A m \in Msg : ~Holds(<<"user", 0, 0>>, m)'
    BY <1>2, <1>9, HoldsParts
  <2>2. \A m \in Msg, c \in Place, d \in Place : Holds(c, m)' /\ Holds(d, m)' /\ F[c] = F[d] => c = d
    BY <1>4, <2>1
  <2> QED
    BY <1>1, <1>7, <1>9, <2>2, OnceMoved
<1> QED
  BY <1>8, <1>9

LEMMA OnceReads ==
  ASSUME TypeOK, Once, Read, UNCHANGED procQ
  PROVE  Once'
<1>0. /\ sock \in Link /\ down \in [Link -> Seq(Answers)] /\ down[sock] \in Seq(Answers) /\ down[sock] # <<>>
      /\ rd \in ReaderType /\ rd.pc = "read" /\ MaxMsgs \in Nat
  BY ClientAssumption DEF TypeOK, WireTypes, ClientTypes, Read, Reads
<1>1. down' = [down EXCEPT ![sock] = Tail(@)] /\ UNCHANGED <<up, user, got, procQ, msgs, lapses>>
  BY DEF Read, history
<1>2. ASSUME NEW m \in Msg, Handling(rd', m) PROVE Published(Head(down[sock]), m)
  <2> DEFINE h == Head(down[sock])
             r == [rd EXCEPT !.pc = "handle", !.in = h, !.part = None]
  <2>1. rd' = r => rd'.in = h
    BY <1>0 DEF ReaderType
  <2>2. rd' \in {[rd EXCEPT !.part = h], [rd EXCEPT !.pc = "problem"], [rd EXCEPT !.pc = "problem", !.torn = sock]} =>
          rd'.pc # "handle"
    BY <1>0 DEF ReaderType
  <2>3. ASSUME rd.part # None,
               rd' = [[rd EXCEPT !.pc = "handle", !.in = [rd.part EXCEPT !.msg = Mixed], !.part = None] EXCEPT !.torn = sock]
        PROVE  rd'.in.msg = Mixed
    <3>1. rd.part \in Answers
      BY <1>0, <2>3 DEF ReaderType
    <3>2. [rd.part EXCEPT !.msg = Mixed].msg = Mixed
      BY <3>1, AnswerTypes
    <3> QED
      BY <1>0, <2>3, <3>2 DEF ReaderType
  <2>4. Mixed # m
    BY <1>0 DEF Mixed, Msg
  <2>5. rd' = r \/ rd' \in {[rd EXCEPT !.part = h], [rd EXCEPT !.pc = "problem"], [rd EXCEPT !.pc = "problem", !.torn = sock]}
        \/ (rd.part # None /\ rd' = [[rd EXCEPT !.pc = "handle", !.in = [rd.part EXCEPT !.msg = Mixed], !.part = None] EXCEPT !.torn = sock])
    BY DEF Read
  <2> HIDE DEF r
  <2> QED
    BY <1>2, <2>1, <2>2, <2>3, <2>4, <2>5 DEF Handling, Published
<1> DEFINE F == [c \in Place |-> IF c[1] = "in" THEN <<"down", sock, 1>>
                                 ELSE IF c[1] = "down" /\ c[2] = sock THEN <<"down", sock, c[3] + 1>> ELSE c]
<1>3. ASSUME NEW m \in Msg, NEW c \in Place, Holds(c, m)'
      PROVE  /\ F[c] \in Place /\ Holds(F[c], m)
             /\ c[1] = "in" => F[c] = <<"down", sock, 1>> /\ c = <<"in", 0, 0>>
             /\ c[1] = "down" /\ c[2] = sock =>
                  F[c] = <<"down", sock, c[3] + 1>> /\ c[3] \in Nat \ {0} /\ c = <<"down", sock, c[3]>>
             /\ c[1] # "in" /\ ~(c[1] = "down" /\ c[2] = sock) => F[c] = c
  <2>0. /\ c = <<c[1], c[2], c[3]>> /\ c[3] \in Nat /\ c[1] \in {"user", "in", "up", "down", "queue", "got"}
        /\ (c[1] \in {"user", "in"} => c = <<c[1], 0, 0>>) /\ (c[1] \in {"up", "down"} => c[2] \in Link)
    BY PlaceParts
  <2>1. CASE c[1] = "in"
    <3>1. F[c] = <<"down", sock, 1>> /\ F[c] \in Place
      BY <1>0, <2>1, Places
    <3>2. At(down[sock], 1, m)
      BY <1>0, <1>2, <1>3, <2>1, HoldsParts, AtTail
    <3>3. Holds(F[c], m)
      BY <3>1, <3>2, HoldsParts
    <3> QED
      BY <2>0, <2>1, <3>1, <3>3
  <2>2. CASE c[1] = "down" /\ c[2] = sock
    <3>0. c[3] + 1 \in Nat
      BY <2>0
    <3>1. F[c] = <<"down", sock, c[3] + 1>> /\ F[c] \in Place
      BY <1>0, <2>2, <3>0, Places
    <3>2. At(Tail(down[sock]), c[3], m)
      BY <1>0, <1>1, <1>3, <2>2, HoldsParts
    <3>3. c[3] >= 1 /\ At(down[sock], c[3] + 1, m)
      BY <1>0, <2>0, <3>2, AtTail
    <3>4. Holds(F[c], m)
      BY <3>1, <3>3, HoldsParts
    <3> QED
      BY <2>0, <2>2, <3>1, <3>3, <3>4
  <2>3. CASE c[1] # "in" /\ ~(c[1] = "down" /\ c[2] = sock)
    <3>1. F[c] = c
      BY <2>3
    <3>2. c[1] = "down" => down'[c[2]] = down[c[2]]
      BY <1>0, <1>1, <2>0, <2>3
    <3>3. Holds(c, m)
      BY <1>1, <1>3, <2>0, <2>3, <3>2, HoldsParts
    <3> QED
      BY <2>3, <3>1, <3>3
  <2> QED
    BY <2>1, <2>2, <2>3
<1> HIDE DEF F
<1>4. ASSUME NEW m \in Msg, NEW c \in Place, NEW d \in Place, Holds(c, m)', Holds(d, m)', F[c] = F[d] PROVE c = d
  <2>1. \A e \in {c, d} :
             /\ e[1] = "in" => F[e] = <<"down", sock, 1>> /\ e = <<"in", 0, 0>>
             /\ e[1] = "down" /\ e[2] = sock =>
                  F[e] = <<"down", sock, e[3] + 1>> /\ e[3] \in Nat \ {0} /\ e = <<"down", sock, e[3]>>
             /\ e[1] # "in" /\ ~(e[1] = "down" /\ e[2] = sock) => F[e] = e
    BY <1>3, <1>4
  <2>2. \A e \in {c, d} :
          \/ F[e] = <<"down", sock, 1>> /\ e = <<"in", 0, 0>>
          \/ F[e] = <<"down", sock, e[3] + 1>> /\ e[3] \in Nat \ {0} /\ e = <<"down", sock, e[3]>>
          \/ F[e] = e /\ ~(e[1] = "down" /\ e[2] = sock)
    BY <2>1
  <2> QED
    BY <1>4, <2>2
<1> QED
  BY <1>1, <1>3, <1>4, OnceMoved

LEMMA OnceConsumes ==
  ASSUME TypeOK, Once, NEW l \in Link, Consume(l), UNCHANGED <<client, history>>
  PROVE  Once'
<1>0. /\ up \in [Link -> Seq(Requests)] /\ up[l] \in Seq(Requests) /\ up[l] # <<>>
      /\ procQ \in Seq(Link \X Requests) /\ Len(procQ) \in Nat /\ Head(up[l]) \in Requests
  BY DEF TypeOK, WireTypes, ServerTypes, Consume
<1>1. /\ up' = [up EXCEPT ![l] = Tail(@)] /\ procQ' = Append(procQ, <<l, Head(up[l])>>)
      /\ UNCHANGED <<down, user, rd, got, msgs, lapses>>
  BY DEF Consume, client, history
<1> DEFINE F == [c \in Place |-> IF c = <<"queue", 0, Len(procQ) + 1>> THEN <<"up", l, 1>>
                                 ELSE IF c[1] = "up" /\ c[2] = l THEN <<"up", l, c[3] + 1>> ELSE c]
<1>3. ASSUME NEW m \in Msg, NEW c \in Place, Holds(c, m)'
      PROVE  /\ F[c] \in Place /\ Holds(F[c], m)
             /\ \/ F[c] = <<"up", l, 1>> /\ c = <<"queue", 0, Len(procQ) + 1>>
                \/ F[c] = <<"up", l, c[3] + 1>> /\ c[3] \in Nat \ {0} /\ c = <<"up", l, c[3]>>
                \/ F[c] = c /\ ~(c[1] = "up" /\ c[2] = l)
  <2>0. /\ c = <<c[1], c[2], c[3]>> /\ c[3] \in Nat /\ c[1] \in {"user", "in", "up", "down", "queue", "got"}
        /\ (c[1] \in {"user", "in"} => c = <<c[1], 0, 0>>) /\ (c[1] \in {"up", "down"} => c[2] \in Link)
        /\ (c[1] = "queue" => c = <<"queue", 0, c[3]>>)
    BY PlaceParts
  <2>1. CASE c = <<"queue", 0, Len(procQ) + 1>>
    <3>1. F[c] = <<"up", l, 1>> /\ F[c] \in Place
      BY <1>0, <2>1, Places
    <3>2. Queues(procQ', Len(procQ) + 1, m)
      BY <1>3, <2>1, HoldsParts
    <3>3. Published(Head(up[l]), m)
      BY <1>0, <1>1, <3>2, AppendEntries DEF Queues
    <3>4. At(up[l], 1, m)
      BY <1>0, <3>3, AtTail
    <3>5. Holds(F[c], m)
      BY <3>1, <3>4, HoldsParts
    <3> QED
      BY <2>1, <3>1, <3>5
  <2>2. CASE c[1] = "up" /\ c[2] = l
    <3>0. c[3] + 1 \in Nat /\ c # <<"queue", 0, Len(procQ) + 1>>
      BY <2>0, <2>2
    <3>1. F[c] = <<"up", l, c[3] + 1>> /\ F[c] \in Place
      BY <1>0, <2>2, <3>0, Places
    <3>2. At(Tail(up[l]), c[3], m)
      BY <1>0, <1>1, <1>3, <2>2, HoldsParts
    <3>3. c[3] >= 1 /\ At(up[l], c[3] + 1, m)
      BY <1>0, <2>0, <3>2, AtTail
    <3>4. Holds(F[c], m)
      BY <3>1, <3>3, HoldsParts
    <3> QED
      BY <2>0, <2>2, <3>1, <3>3, <3>4
  <2>3. CASE c # <<"queue", 0, Len(procQ) + 1>> /\ ~(c[1] = "up" /\ c[2] = l)
    <3>1. F[c] = c
      BY <2>3
    <3>2. c[1] = "up" => up'[c[2]] = up[c[2]]
      BY <1>0, <1>1, <2>0, <2>3
    <3>3. ASSUME c[1] = "queue" PROVE Queues(procQ, c[3], m)
      <4>1. Queues(procQ', c[3], m) /\ c[3] # Len(procQ) + 1
        BY <1>3, <2>0, <2>3, <3>3, HoldsParts
      <4>2. <<l, Head(up[l])>> \in Link \X Requests
        BY <1>0
      <4> QED
        BY <1>0, <1>1, <2>0, <4>1, <4>2, QueuesAppended
    <3>4. Holds(c, m)
      BY <1>1, <1>3, <2>0, <2>3, <3>2, <3>3, HoldsParts
    <3> QED
      BY <2>3, <3>1, <3>4
  <2> QED
    BY <2>1, <2>2, <2>3
<1> HIDE DEF F
<1>4. ASSUME NEW m \in Msg, NEW c \in Place, NEW d \in Place, Holds(c, m)', Holds(d, m)', F[c] = F[d] PROVE c = d
  <2>1. \A e \in {c, d} :
          \/ F[e] = <<"up", l, 1>> /\ e = <<"queue", 0, Len(procQ) + 1>>
          \/ F[e] = <<"up", l, e[3] + 1>> /\ e[3] \in Nat \ {0} /\ e = <<"up", l, e[3]>>
          \/ F[e] = e /\ ~(e[1] = "up" /\ e[2] = l)
    BY <1>3, <1>4
  <2> QED
    BY <1>4, <2>1
<1> QED
  BY <1>1, <1>3, <1>4, OnceMoved

\* The Processor takes a packet from its queue, and passes it on, if it is a message, to
\* the links of some clients: one of them at most is up.
LEMMA OnceTaken ==
  ASSUME TypeOK, LinksFit, Once, UNCHANGED <<up, client, history>>, procQ # <<>>, procQ' = Tail(procQ),
         \/ UNCHANGED down
         \/ \E clients : \E pkt \in Answers : Output(clients, pkt) /\ (pkt.type = "PUBLISH" => pkt = Head(procQ)[2])
  PROVE  Once'
<1>0. /\ down \in [Link -> Seq(Answers)] /\ procQ \in Seq(Link \X Requests)
  BY DEF TypeOK, WireTypes, ServerTypes
<1>1. UNCHANGED <<up, user, rd, got, msgs, lapses>>
  BY DEF client, history
<1>2. ASSUME NEW l \in Link, NEW i \in Nat, NEW m, At(down'[l], i, m)
      PROVE  At(down[l], i, m) \/ (l = sock /\ i = Len(down[sock]) + 1 /\ Published(Head(procQ)[2], m))
  <2>1. CASE UNCHANGED down
    BY <1>2, <2>1
  <2>2. ASSUME NEW clients, NEW pkt \in Answers, Output(clients, pkt), pkt.type = "PUBLISH" => pkt = Head(procQ)[2]
        PROVE  At(down[l], i, m) \/ (l = sock /\ i = Len(down[sock]) + 1 /\ Published(Head(procQ)[2], m))
    <3>1. down'[l] = down[l] \/ (lk[l] = "up" /\ down'[l] = Append(down[l], pkt))
      BY <2>2 DEF Output, Queued
    <3>2. CASE down'[l] = down[l]
      BY <1>2, <3>2
    <3>3. CASE lk[l] = "up" /\ down'[l] = Append(down[l], pkt)
      <4>1. l = sock /\ down[l] \in Seq(Answers)
        BY <1>0, <3>3 DEF LinksFit
      <4>2. At(down[l], i, m) \/ (i = Len(down[l]) + 1 /\ Published(pkt, m))
        BY <1>2, <3>3, <4>1, AtAppended
      <4> QED
        BY <2>2, <4>1, <4>2 DEF Published
    <3> QED
      BY <3>1, <3>2, <3>3
  <2> QED
    BY <2>1, <2>2
<1>3. ASSUME NEW i \in Nat, NEW m, Queues(procQ', i, m) PROVE i >= 1 /\ Queues(procQ, i + 1, m)
  BY <1>0, <1>3, QueuesTail
<1>4. ASSUME NEW m, Published(Head(procQ)[2], m) PROVE Queues(procQ, 1, m)
  BY <1>0, <1>4, QueuesTail
<1> DEFINE added == <<"down", sock, Len(down[sock]) + 1>>
           F == [c \in Place |-> IF c = added THEN <<"queue", 0, 1>>
                                 ELSE IF c[1] = "queue" THEN <<"queue", 0, c[3] + 1>> ELSE c]
<1>5. ASSUME NEW m \in Msg, NEW c \in Place, Holds(c, m)'
      PROVE  /\ F[c] \in Place /\ Holds(F[c], m)
             /\ \/ F[c] = <<"queue", 0, 1>> /\ c = added
                \/ F[c] = <<"queue", 0, c[3] + 1>> /\ c[3] \in Nat \ {0} /\ c = <<"queue", 0, c[3]>>
                \/ F[c] = c /\ c[1] # "queue"
  <2>0. /\ c = <<c[1], c[2], c[3]>> /\ c[3] \in Nat /\ c[1] \in {"user", "in", "up", "down", "queue", "got"}
        /\ (c[1] \in {"user", "in"} => c = <<c[1], 0, 0>>) /\ (c[1] \in {"up", "down"} => c[2] \in Link)
        /\ (c[1] = "queue" => c = <<"queue", 0, c[3]>>)
    BY PlaceParts
  <2>1. CASE c[1] = "queue"
    <3>0. c[3] + 1 \in Nat /\ c # added
      BY <2>0, <2>1
    <3>1. F[c] = <<"queue", 0, c[3] + 1>> /\ F[c] \in Place
      BY <2>1, <3>0, Places
    <3>2. c[3] >= 1 /\ Queues(procQ, c[3] + 1, m)
      BY <1>3, <1>5, <2>0, <2>1, HoldsParts
    <3>3. Holds(F[c], m)
      BY <3>1, <3>2, HoldsParts
    <3> QED
      BY <2>0, <2>1, <3>1, <3>2, <3>3
  <2>2. CASE c = added
    <3>1. F[c] = <<"queue", 0, 1>> /\ F[c] \in Place
      BY <2>2, Places
    <3>2. At(down'[c[2]], c[3], m) /\ c[2] \in Link /\ down[c[2]] \in Seq(Answers) /\ c[3] = Len(down[c[2]]) + 1
      BY <1>0, <1>5, <2>0, <2>2, HoldsParts
    <3>3. ~At(down[c[2]], c[3], m)
      BY <3>2 DEF At
    <3>4. Queues(procQ, 1, m)
      BY <1>2, <1>4, <2>0, <3>2, <3>3
    <3>5. Holds(F[c], m)
      BY <3>1, <3>4, HoldsParts
    <3> QED
      BY <2>2, <3>1, <3>5
  <2>3. CASE c[1] # "queue" /\ c # added
    <3>1. F[c] = c
      BY <2>3
    <3>2. c[1] # "down" => Holds(c, m)
      BY <1>1, <1>5, <2>0, <2>3, HoldsParts
    <3>3. ASSUME c[1] = "down" PROVE Holds(c, m)
      <4>1. At(down'[c[2]], c[3], m) /\ c[2] \in Link
        BY <1>5, <2>0, <3>3, HoldsParts
      <4>2. At(down[c[2]], c[3], m)
        BY <1>2, <2>0, <2>3, <3>3, <4>1
      <4> QED
        BY <3>3, <4>2, HoldsParts
    <3> QED
      BY <2>3, <3>1, <3>2, <3>3
  <2> QED
    BY <2>1, <2>2, <2>3
<1> HIDE DEF F
<1>7. ASSUME NEW m \in Msg, NEW c \in Place, NEW d \in Place, Holds(c, m)', Holds(d, m)', F[c] = F[d] PROVE c = d
  <2>1. \A e \in {c, d} :
          \/ F[e] = <<"queue", 0, 1>> /\ e = added
          \/ F[e] = <<"queue", 0, e[3] + 1>> /\ e[3] \in Nat \ {0} /\ e = <<"queue", 0, e[3]>>
          \/ F[e] = e /\ e[1] # "queue"
    BY <1>5, <1>7
  <2> QED
    BY <1>7, <2>1
<1> QED
  BY <1>1, <1>5, <1>7, OnceMoved

LEMMA OnceExposes ==
  ASSUME TypeOK, Once, Expose, UNCHANGED procQ
  PROVE  Once'
<1>0. got \in Seq(1 .. Mixed) /\ Len(got) \in Nat
  <2>1. got \in Seq(1 .. Mixed)
    BY DEF TypeOK, HistoryTypes
  <2> QED
    BY <2>1, LenProperties
<1>1. /\ rd.pc = "handle" /\ rd.in.type = "PUBLISH" /\ rd' = Handled /\ got' = Append(got, rd.in.msg)
      /\ UNCHANGED <<up, down, user, procQ, msgs, lapses>>
  BY DEF Expose, Handles, wire
<1>2. rd.in.msg \in 1 .. Mixed
  <2>1. rd.in \in Packets /\ rd.in.msg # 0 /\ MaxMsgs \in Nat
    BY <1>1, ClientAssumption DEF TypeOK, ClientTypes
  <2> QED
    BY <2>1 DEF Packets, Mixed
<1>3. \A m : ~Handling(rd', m)
  BY <1>1, ReaderRecords DEF Handling
<1> DEFINE F == [c \in Place |-> IF c = <<"got", 0, Len(got) + 1>> THEN <<"in", 0, 0>> ELSE c]
<1>4. ASSUME NEW m \in Msg, NEW c \in Place, Holds(c, m)'
      PROVE  /\ F[c] \in Place /\ Holds(F[c], m) /\ c # <<"in", 0, 0>>
             /\ \/ F[c] = <<"in", 0, 0>> /\ c = <<"got", 0, Len(got) + 1>>
                \/ F[c] = c
  <2>0. /\ c = <<c[1], c[2], c[3]>> /\ c[3] \in Nat /\ c[1] \in {"user", "in", "up", "down", "queue", "got"}
        /\ (c[1] = "got" => c = <<"got", 0, c[3]>>)
    BY PlaceParts
  <2>1. c # <<"in", 0, 0>>
    BY <1>3, <1>4, HoldsParts
  <2>2. CASE c = <<"got", 0, Len(got) + 1>>
    <3>1. F[c] = <<"in", 0, 0>> /\ F[c] \in Place
      BY <2>2, Places
    <3>2. Gets(got', Len(got) + 1, m)
      BY <1>4, <2>2, HoldsParts
    <3>3. rd.in.msg = m
      BY <1>0, <1>1, <1>2, <3>2, AppendEntries DEF Gets
    <3>4. Holds(F[c], m)
      BY <1>1, <3>1, <3>3, HoldsParts DEF Handling, Published
    <3> QED
      BY <2>1, <2>2, <3>1, <3>4
  <2>3. CASE c # <<"got", 0, Len(got) + 1>>
    <3>1. F[c] = c
      BY <2>3
    <3>2. ASSUME c[1] = "got" PROVE Gets(got, c[3], m)
      <4>1. Gets(got', c[3], m) /\ c[3] # Len(got) + 1
        BY <1>4, <2>0, <2>3, <3>2, HoldsParts
      <4> QED
        BY <1>0, <1>1, <1>2, <2>0, <4>1, GetsAppended
    <3>3. Holds(c, m)
      BY <1>1, <1>3, <1>4, <2>0, <2>3, <3>2, HoldsParts
    <3> QED
      BY <2>1, <3>1, <3>3
  <2> QED
    BY <2>2, <2>3
<1> HIDE DEF F
<1>5. ASSUME NEW m \in Msg, NEW c \in Place, NEW d \in Place, Holds(c, m)', Holds(d, m)', F[c] = F[d] PROVE c = d
  <2>1. \A e \in {c, d} :
          e # <<"in", 0, 0>> /\ ((F[e] = <<"in", 0, 0>> /\ e = <<"got", 0, Len(got) + 1>>) \/ F[e] = e)
    BY <1>4, <1>5
  <2> QED
    BY <1>5, <2>1
<1> QED
  BY <1>1, <1>4, <1>5, OnceMoved

\* A message that is published now is nowhere yet.
LEMMA OncePublishes ==
  ASSUME TypeOK, Once, NEW s \in Subject, CallPublish(s), UNCHANGED procQ
  PROVE  Once'
<1>0. msgs \in 0 .. MaxMsgs /\ msgs < MaxMsgs /\ MaxMsgs \in Nat
  BY ClientAssumption DEF CallPublish, TypeOK, HistoryTypes
<1>1. msgs + 1 \in Msg
  BY <1>0 DEF Msg
<1>2. msgs' = msgs + 1 /\ UNCHANGED <<up, down, rd, got, procQ, lapses>>
  BY DEF CallPublish, wire
<1>3. ASSUME NEW m, Sends(user', m) PROVE m = msgs + 1
  <2> DEFINE pkt == Packet("PUBLISH", <<s>>, msgs + 1)
  <2>1. pkt \in Requests /\ pkt.type = "PUBLISH" /\ Len(pkt.topics) = 1 /\ pkt.msg = msgs + 1
    BY <1>1, PublishType
  <2>2. user' \in Puts(pkt)
    BY DEF CallPublish
  <2> HIDE DEF pkt
  <2>3. Published(pkt, m)
    BY <1>3, <2>1, <2>2, PutsSends
  <2> QED
    BY <2>1, <2>3 DEF Published
<1>4. ASSUME NEW m \in Msg, NEW c \in Place, Holds(c, m)'
      PROVE  (c = <<"user", 0, 0>> /\ m = msgs + 1) \/ (Holds(c, m) /\ m <= msgs)
  <2>1. CASE c[1] = "user"
    BY <1>3, <1>4, <2>1, HoldsParts, PlaceParts
  <2>2. CASE c[1] # "user"
    <3>1. Holds(c, m)
      BY <1>2, <1>4, <2>2, HoldsParts
    <3> QED
      BY <3>1 DEF Once
  <2> QED
    BY <2>1, <2>2
<1>5. Place' = Place
  BY DEF Place
<1>6. ASSUME NEW m \in Msg, NEW c \in Place, Holds(c, m)'
      PROVE  m <= msgs' /\ ("rewritten" \in lapses' \/ \A d \in Place : Holds(d, m)' => d = c)
  <2>1. m <= msgs'
    BY <1>0, <1>2, <1>4, <1>6 DEF Msg
  <2>2. ASSUME NEW d \in Place, Holds(d, m)', "rewritten" \notin lapses PROVE d = c
    <3>1. ~(m = msgs + 1 /\ m <= msgs)
      BY <1>0 DEF Msg
    <3>2. CASE c = <<"user", 0, 0>> /\ m = msgs + 1
      BY <1>4, <2>2, <3>1, <3>2
    <3>3. CASE Holds(c, m) /\ m <= msgs
      BY <1>4, <2>2, <3>1, <3>3 DEF Once
    <3> QED
      BY <1>4, <1>6, <3>2, <3>3
  <2> QED
    BY <1>2, <2>1, <2>2
<1> QED
  BY <1>5, <1>6 DEF Once

\* A message is at one place at most after every step.
LEMMA OnceStep == TypeOK /\ LinksFit /\ Once /\ [Next]_vars => Once'
<1> SUFFICES ASSUME TypeOK, LinksFit, Once, [Next]_vars PROVE Once'
  OBVIOUS
<1>0. WireTypes /\ sock \in {0} \cup Link /\ rd \in ReaderType /\ procQ \in Seq(Link \X Requests)
  BY DEF TypeOK, ClientTypes, ServerTypes
<1>1. CASE UNCHANGED <<user, up, down, rd, procQ, got, msgs, lapses>>
  BY <1>1, OnceKept
\* A step that changes the links only, and the reader's record but not what it handles.
<1>2. ASSUME \A l \in Link, i \in Nat, m \in Msg :
               (At(up'[l], i, m) => At(up[l], i, m)) /\ (At(down'[l], i, m) => At(down[l], i, m)),
             \A m \in Msg : Handling(rd', m) => Handling(rd, m),
             \A m \in Msg : Sends(user', m) => Sends(user, m),
             UNCHANGED <<procQ, got, msgs>>, lapses \subseteq lapses'
      PROVE  Once'
  BY <1>2, OnceKept
<1>3. \A r \in ReaderType, m \in Msg : Handling([r EXCEPT !.revised = TRUE], m) => Handling(r, m)
  BY ReaderRecords DEF Handling
<1>4. ASSUME ConnectOK \/ ConnectRefused, \A m \in Msg : Sends(user', m) => Sends(user, m), UNCHANGED procQ PROVE Once'
  <2>1. rd' = [rd EXCEPT !.revised = TRUE] /\ UNCHANGED <<up, down, got, msgs>> /\ lapses \subseteq lapses'
    BY <1>4 DEF ConnectOK, ConnectRefused, history
  <2> QED
    BY <1>0, <1>2, <1>3, <1>4, <2>1
<1>5. CASE Reader /\ UNCHANGED server
  <2>0. UNCHANGED procQ
    BY <1>5 DEF server
  <2>1. CASE Check \/ ReadError \/ Problem \/ Negotiated \/ Resubscribed \/ Ignore
    <3>1. UNCHANGED <<up, down, user, got, msgs, lapses>>
      BY <2>1 DEF Check, ReadError, Problem, Negotiated, Resubscribed, Ignore, wire, history
    <3>2. rd'.pc \in {"read", "problem", "resub"} \/ (rd'.pc = rd.pc /\ rd'.in = rd.in)
      BY <1>0, <2>1, ReaderRecords DEF Check, ReadError, Reads, Problem, Negotiated, Resubscribed, Ignore, ReaderType
    <3>3. \A m \in Msg : Handling(rd', m) => Handling(rd, m)
      BY <3>2 DEF Handling
    <3> QED
      BY <1>2, <2>0, <3>1, <3>3
  <2>2. CASE IoClose("reader")
    BY <1>0, <1>2, <2>0, <2>2, CloseKeeps DEF IoClose, history
  <2>3. CASE IoState("reader")
    BY <1>1, <2>0, <2>3 DEF IoState, wire, history
  <2>4. CASE Welcome \/ Resubscribe
    <3> DEFINE new == IF rd.pc = "handle" THEN Handled ELSE [Checked EXCEPT !.pc = "read", !.patterns = <<>>]
               pkt == IF rd.pc = "handle" THEN Plain("NEGOTIATE") ELSE Packet("SUBSCRIBE", rd.patterns, 0)
    <3>1. HeldPut(pkt, new) /\ UNCHANGED <<user, got, msgs, lapses>>
      BY <2>4 DEF Welcome, Handles, Resubscribe, history
    <3>2. new \in ReaderType /\ new.pc = "read"
      <4>1. <<>> \in Seq(Pattern)
        OBVIOUS
      <4>2. Checked \in ReaderType /\ Handled \in ReaderType /\ Handled.pc = "read"
        BY ReaderRecords
      <4>3. /\ [Checked EXCEPT !.pc = "read", !.patterns = <<>>] \in ReaderType
            /\ [Checked EXCEPT !.pc = "read", !.patterns = <<>>].pc = "read"
        BY <4>1, <4>2 DEF ReaderType
      <4> QED
        BY <4>2, <4>3
    <3>3. pkt \in Requests /\ pkt.type # "PUBLISH"
      BY <2>4, PacketTypes, SubscribeType DEF Welcome, Handles, Resubscribe, TypeOK, ClientTypes, ReaderType
    <3> HIDE DEF new, pkt
    <3>4. rd' \in {new, [new EXCEPT !.revised = TRUE]}
      BY <3>1 DEF HeldPut
    <3>5. \A m \in Msg : ~Handling(rd', m)
      BY <3>2, <3>4, ReaderRecords DEF Handling
    <3> QED
      BY <1>0, <1>2, <2>0, <3>1, <3>3, <3>5, HeldPutKeeps
  <2> QED
    BY <1>5, <2>0, <2>1, <2>2, <2>3, <2>4, OnceReads, OnceExposes DEF Reader
<1>6. CASE TimesOut
  <2>1. rd' = [rd EXCEPT !.revised = TRUE] /\ UNCHANGED <<up, down, user, procQ, got, msgs, lapses>>
    BY <1>6 DEF TimesOut, Inactive, history, server
  <2> QED
    BY <1>0, <1>2, <1>3, <2>1
<1>7. CASE Caller /\ UNCHANGED server
  <2>0. UNCHANGED procQ /\ \A m \in Msg : Sends(user', m) => Sends(user, m)
    BY <1>7, CallerSends DEF server
  <2>1. CASE AwaitDispatching \/ SubscribeWaits \/ Put \/ WriteNothing \/ WriteLost \/ Push \/ IoState("user")
    <3>1. UNCHANGED <<up, down, rd, got, msgs>> /\ lapses \subseteq lapses'
      BY <2>1 DEF AwaitDispatching, SubscribeWaits, Put, WriteNothing, WriteLost, Push, IoState, wire, history
    <3> QED
      BY <1>2, <2>0, <3>1
  <2>2. CASE WriteError
    <3>1. rd' = [rd EXCEPT !.revised = TRUE] /\ UNCHANGED <<up, down, got, msgs, lapses>>
      BY <2>2 DEF WriteError, wire, history
    <3> QED
      BY <1>0, <1>2, <1>3, <2>0, <3>1
  <2>3. CASE IoClose("user")
    BY <1>0, <1>2, <2>0, <2>3, CloseKeeps DEF IoClose, history
  <2>4. CASE Connect
    BY <1>2, <1>4, <2>0, <2>4 DEF Connect, wire, history
  <2>5. CASE Disconnect
    <3>1. UNCHANGED <<got, msgs, lapses>>
      BY <2>5 DEF Disconnect, history
    <3>2. CASE CloseSocket /\ rd' = [rd EXCEPT !.trapped = TRUE]
      <4>1. rd'.pc = rd.pc /\ rd'.in = rd.in
        BY <1>0, <3>2 DEF ReaderType
      <4>2. \A m \in Msg : Handling(rd', m) => Handling(rd, m)
        BY <4>1 DEF Handling
      <4> QED
        BY <1>0, <1>2, <2>0, <3>1, <3>2, <4>2, CloseKeeps
    <3>3. CASE UNCHANGED <<wire, sock, rd, state>>
      BY <1>2, <2>0, <3>1, <3>3 DEF wire
    <3> QED
      BY <2>5, <3>2, <3>3 DEF Disconnect
  <2> QED
    BY <1>7, <2>0, <2>1, <2>2, <2>3, <2>4, <2>5, OnceWrites DEF Caller
<1>8. CASE Manager /\ UNCHANGED server
  <2>1. UNCHANGED procQ
    BY <1>8 DEF server
  <2>2. CASE Reconnect
    BY <1>4, <2>1, <2>2 DEF Reconnect
  <2>3. CASE Ping
    <3>1. CloseSocket /\ rd' = [rd EXCEPT !.revised = TRUE] /\ UNCHANGED <<user, got, msgs, lapses>>
      BY <2>3 DEF Ping, history
    <3> QED
      BY <1>0, <1>2, <1>3, <2>1, <3>1, CloseKeeps
  <2> QED
    BY <1>8, <2>2, <2>3 DEF Manager
<1>9. CASE Application /\ UNCHANGED server
  <2>0. UNCHANGED procQ
    BY <1>9 DEF server
  <2>1. CASE CallConnect \/ CallDisconnect
    <3>1. UNCHANGED <<up, down, rd, got, msgs, lapses>> /\ user'.pc \in {"connect", "disconnect"}
      BY <2>1, CallLinks DEF CallConnect, CallDisconnect, wire
    <3>2. \A m \in Msg : ~Sends(user', m)
      BY <3>1 DEF Sends
    <3> QED
      BY <1>2, <2>0, <3>1, <3>2
  <2>2. ASSUME NEW p \in Pattern, CallSubscribe(p) \/ CallUnsubscribe(p) PROVE Once'
    <3>1. UNCHANGED <<up, down, rd, got, msgs>> /\ lapses \subseteq lapses'
      BY <2>2 DEF CallSubscribe, CallUnsubscribe, wire
    <3>2. \A type \in {"SUBSCRIBE", "UNSUBSCRIBE"}, m \in Msg : ~Published(Packet(type, <<p>>, 0), m)
      BY CallTypes DEF Published
    <3>3. \A type \in {"SUBSCRIBE", "UNSUBSCRIBE"}, m \in Msg :
             \A v \in Puts(Packet(type, <<p>>, 0)) \cup {Call("wait", Packet(type, <<p>>, 0))} : ~Sends(v, m)
      BY <3>2, CallTypes, PutsSends, CallLinks DEF Sends
    <3>4. \A m \in Msg : ~Sends(user', m)
      BY <2>2, <3>3 DEF CallSubscribe, CallUnsubscribe
    <3> QED
      BY <1>2, <2>0, <3>1, <3>4
  <2> QED
    BY <1>9, <2>0, <2>1, <2>2, OncePublishes DEF Application
<1>10. CASE ServerStep
  <2>0. UNCHANGED <<client, history>> /\ UNCHANGED <<user, rd, got, msgs, lapses>>
    BY <1>10 DEF ServerStep, client, history
  <2>1. ASSUME NEW l \in Link, IOManager(l) PROVE Once'
    <3>1. CASE Assign(l)
      <4>1. UNCHANGED <<up, procQ>>
            /\ down' = [down EXCEPT ![l] = IF lk[l] = "up" THEN Append(@, Plain("WELCOME")) ELSE @]
        BY <3>1 DEF Assign
      <4>2. ASSUME NEW k \in Link, NEW i \in Nat, NEW m, At(down'[k], i, m) PROVE At(down[k], i, m)
        <5>1. down[k] \in Seq(Answers) /\ down'[k] \in {down[k], Append(down[k], Plain("WELCOME"))}
          BY <1>0, <4>1 DEF WireTypes
        <5>2. Plain("WELCOME") \in Answers /\ ~Published(Plain("WELCOME"), m)
          BY PacketTypes DEF Published
        <5> QED
          BY <4>2, <5>1, <5>2, AtAppended
      <4> QED
        BY <1>2, <2>0, <4>1, <4>2
    <3>2. CASE Cleanup(l)
      BY <1>1, <2>0, <3>2 DEF Cleanup, wire
    <3> QED
      BY <2>0, <2>1, <3>1, <3>2, OnceConsumes DEF IOManager
  <2>2. CASE Fetch
    BY <1>1, <2>0, <2>2 DEF Fetch, wire
  <2>3. CASE Register
    <3>1. UNCHANGED <<up, procQ>> /\ (UNCHANGED down \/ \E clients : Output(clients, Plain("ACK")))
      BY <2>3 DEF Register
    <3>2. \A l \in Link, i \in Nat, m \in Msg : At(down'[l], i, m) => At(down[l], i, m)
      BY <1>0, <3>1, PacketTypes, OutputKeeps
    <3> QED
      BY <1>2, <2>0, <3>1, <3>2
  <2>4. ASSUME NEW l, NEW pkt, procQ # <<>>,
               Answer(l, pkt) \/ Distribute(l, pkt) \/ ServerUnsubscribe(l, pkt) \/ ServerSubscribe(l, pkt)
        PROVE  Once'
    <3>1. UNCHANGED up /\ procQ' = Tail(procQ) /\ Head(procQ) = <<l, pkt>> /\ Head(procQ)[2] = pkt
      BY <2>4 DEF Answer, Distribute, ServerUnsubscribe, ServerSubscribe, Taken, wire
    <3>2. CASE UNCHANGED down
      BY <2>0, <2>4, <3>1, <3>2, OnceTaken
    <3>3. CASE Answer(l, pkt)
      BY <2>0, <2>4, <3>1, <3>3, PacketTypes, OnceTaken DEF Answer
    <3>4. CASE Distribute(l, pkt)
      <4>1. pkt \in Requests /\ pkt.type = "PUBLISH"
        BY <1>0, <2>4, <3>1, <3>4, TailEntries DEF Distribute, Taken
      <4>2. pkt \in Answers
        BY <4>1, RequestTypes
      <4> QED
        BY <2>0, <2>4, <3>1, <3>4, <4>2, OnceTaken DEF Distribute
    <3> QED
      BY <2>4, <3>2, <3>3, <3>4 DEF ServerUnsubscribe, ServerSubscribe, wire
  <2> QED
    BY <1>10, <2>1, <2>2, <2>3, <2>4 DEF ServerStep, Processor
<1>11. ASSUME NEW l \in Link, Break(l), UNCHANGED <<client, history, server>> PROVE Once'
  <2>1. UNCHANGED <<user, rd, procQ, got, msgs, lapses>>
    BY <1>11 DEF client, history, server
  <2> QED
    BY <1>0, <1>2, <1>11, <2>1, BreakKeeps
<1>12. CASE UNCHANGED vars
  BY <1>1, <1>12 DEF vars, wire, client, history, server
<1> QED
  BY <1>5, <1>6, <1>7, <1>8, <1>9, <1>10, <1>11, <1>12 DEF Next, ReaderStep, CallerStep, ManagerStep
-----------------------------------------------------------------------------
\* What the server will have: the effect of one entry, and of changes to the packets
\* that are under way.
Applied(e, l, served) ==
  {p \in Pattern : IF Mentions(e, l, p) THEN e[2].type = "SUBSCRIBE" ELSE p \in served}

End(q, l, known) == WillServe(q, l, known, Len(q) + 1)

\* Before the first entry, and from one entry to the next.
LEMMA WillFirst ==
  ASSUME NEW q, NEW l, NEW known \in SUBSET Pattern
  PROVE  WillServe(q, l, known, 1) = known
BY DEF WillServe, Serves

LEMMA WillApply ==
  ASSUME NEW q, NEW l, NEW known, NEW i \in Nat \ {0}
  PROVE  WillServe(q, l, known, i + 1) = Applied(q[i], l, WillServe(q, l, known, i))
<1>1. ASSUME NEW p \in Pattern
      PROVE  Serves(q, l, known, p, i + 1) <=>
               IF Mentions(q[i], l, p) THEN q[i][2].type = "SUBSCRIBE" ELSE Serves(q, l, known, p, i)
  <2>0. i + 1 - 1 = i /\ i \in 1 .. i /\ \A j \in 1 .. i : j = i \/ j \in 1 .. i - 1
    OBVIOUS
  <2>1. CASE Mentions(q[i], l, p)
    <3>1. ASSUME q[i][2].type = "SUBSCRIBE" PROVE Serves(q, l, known, p, i + 1)
      <4>1. \A k \in i + 1 .. i : FALSE
        OBVIOUS
      <4> QED
        BY <2>0, <2>1, <3>1, <4>1 DEF Serves
    <3>2. ASSUME Serves(q, l, known, p, i + 1) PROVE q[i][2].type = "SUBSCRIBE"
      <4>1. \/ \E j \in 1 .. i : /\ Mentions(q[j], l, p) /\ q[j][2].type = "SUBSCRIBE"
                                 /\ \A k \in j + 1 .. i : ~Mentions(q[k], l, p)
            \/ \A k \in 1 .. i : ~Mentions(q[k], l, p)
        BY <2>0, <3>2 DEF Serves
      <4>2. PICK j \in 1 .. i : /\ Mentions(q[j], l, p) /\ q[j][2].type = "SUBSCRIBE"
                                /\ \A k \in j + 1 .. i : ~Mentions(q[k], l, p)
        BY <2>0, <2>1, <4>1
      <4>3. j = i \/ i \in j + 1 .. i
        OBVIOUS
      <4> QED
        BY <2>1, <4>2, <4>3
    <3> QED
      BY <2>1, <3>1, <3>2
  <2>2. CASE ~Mentions(q[i], l, p)
    <3>1. \A j \in 1 .. i - 1 : (\A k \in j + 1 .. i : ~Mentions(q[k], l, p)) <=>
                                 \A k \in j + 1 .. i - 1 : ~Mentions(q[k], l, p)
      <4> SUFFICES ASSUME NEW j \in 1 .. i - 1
                   PROVE  (\A k \in j + 1 .. i : ~Mentions(q[k], l, p)) <=>
                            \A k \in j + 1 .. i - 1 : ~Mentions(q[k], l, p)
        OBVIOUS
      <4>1. \A k : k \in j + 1 .. i <=> k = i \/ k \in j + 1 .. i - 1
        OBVIOUS
      <4> QED
        BY <2>2, <4>1
    <3>2. (\A k \in 1 .. i : ~Mentions(q[k], l, p)) <=> \A k \in 1 .. i - 1 : ~Mentions(q[k], l, p)
      BY <2>0, <2>2
    <3>3. Serves(q, l, known, p, i + 1) <=>
            \/ \E j \in 1 .. i : /\ Mentions(q[j], l, p) /\ q[j][2].type = "SUBSCRIBE"
                                 /\ \A k \in j + 1 .. i : ~Mentions(q[k], l, p)
            \/ p \in known /\ \A k \in 1 .. i : ~Mentions(q[k], l, p)
      BY <2>0 DEF Serves
    <3>4. \A j : j \in 1 .. i /\ Mentions(q[j], l, p) <=> j \in 1 .. i - 1 /\ Mentions(q[j], l, p)
      BY <2>0, <2>2
    <3> QED
      BY <2>2, <3>1, <3>2, <3>3, <3>4 DEF Serves
  <2> QED
    BY <2>1, <2>2
<1> QED
  BY <1>1 DEF WillServe, Applied

\* Lines that begin alike, and a line without its first entry.
LEMMA WillAgree ==
  ASSUME NEW q, NEW r, NEW l, NEW known, NEW i \in Nat, \A j \in 1 .. i - 1 : r[j] = q[j]
  PROVE  WillServe(r, l, known, i) = WillServe(q, l, known, i)
<1>1. \A j \in 1 .. i - 1 : \A k \in j + 1 .. i - 1 : k \in 1 .. i - 1
  OBVIOUS
<1>2. \A p \in Pattern : Serves(r, l, known, p, i) <=> Serves(q, l, known, p, i)
  BY <1>1 DEF Serves
<1> QED
  BY <1>2 DEF WillServe

LEMMA WillShift ==
  ASSUME NEW q, NEW r, NEW l, NEW known, NEW i \in Nat \ {0}, \A j \in 1 .. i - 1 : r[j] = q[j + 1]
  PROVE  WillServe(r, l, Applied(q[1], l, known), i) = WillServe(q, l, known, i + 1)
<1> SUFFICES ASSUME NEW p \in Pattern
             PROVE  Serves(r, l, Applied(q[1], l, known), p, i) <=> Serves(q, l, known, p, i + 1)
  BY DEF WillServe
<1> DEFINE Tells(j) == Mentions(q[j], l, p)
           Asks(j) == q[j][2].type = "SUBSCRIBE"
<1>1. p \in Applied(q[1], l, known) <=> IF Tells(1) THEN Asks(1) ELSE p \in known
  BY DEF Applied
<1>2. Serves(q, l, known, p, i + 1) <=>
         \/ \E j \in 1 .. i : Tells(j) /\ Asks(j) /\ \A k \in j + 1 .. i : ~Tells(k)
         \/ p \in known /\ \A k \in 1 .. i : ~Tells(k)
  <2>1. i + 1 - 1 = i
    OBVIOUS
  <2> QED
    BY <2>1 DEF Serves
<1>3. Serves(r, l, Applied(q[1], l, known), p, i) <=>
         \/ \E j \in 1 .. i - 1 : Tells(j + 1) /\ Asks(j + 1) /\ \A k \in j + 1 .. i - 1 : ~Tells(k + 1)
         \/ p \in Applied(q[1], l, known) /\ \A k \in 1 .. i - 1 : ~Tells(k + 1)
  <2>1. \A j \in 1 .. i - 1 : \A k \in j + 1 .. i - 1 : k \in 1 .. i - 1
    OBVIOUS
  <2> QED
    BY <2>1 DEF Serves
<1> HIDE DEF Tells, Asks
<1>4. (\A k \in 1 .. i - 1 : ~Tells(k + 1)) <=> \A k \in 2 .. i : ~Tells(k)
  <2>1. \A k \in 1 .. i - 1 : k + 1 \in 2 .. i
    OBVIOUS
  <2>2. \A k \in 2 .. i : k - 1 \in 1 .. i - 1 /\ (k - 1) + 1 = k
    OBVIOUS
  <2> QED
    BY <2>1, <2>2
<1>5. ASSUME NEW j \in 1 .. i - 1
      PROVE  (\A k \in j + 1 .. i - 1 : ~Tells(k + 1)) <=> \A k \in (j + 1) + 1 .. i : ~Tells(k)
  <2>1. \A k \in j + 1 .. i - 1 : k + 1 \in (j + 1) + 1 .. i
    OBVIOUS
  <2>2. \A k \in (j + 1) + 1 .. i : k - 1 \in j + 1 .. i - 1 /\ (k - 1) + 1 = k
    OBVIOUS
  <2> QED
    BY <2>1, <2>2
<1>6. (\E j \in 1 .. i - 1 : Tells(j + 1) /\ Asks(j + 1) /\ \A k \in j + 1 .. i - 1 : ~Tells(k + 1)) <=>
        \E j \in 2 .. i : Tells(j) /\ Asks(j) /\ \A k \in j + 1 .. i : ~Tells(k)
  <2>1. \A j \in 1 .. i - 1 : j + 1 \in 2 .. i
    OBVIOUS
  <2>2. \A j \in 2 .. i : j - 1 \in 1 .. i - 1 /\ (j - 1) + 1 = j
    OBVIOUS
  <2> QED
    BY <1>5, <2>1, <2>2
<1>7. \A j : j \in 1 .. i <=> j = 1 \/ j \in 2 .. i
  OBVIOUS
<1>8. 1 + 1 = 2
  OBVIOUS
<1> QED
  BY <1>1, <1>2, <1>3, <1>4, <1>6, <1>7, <1>8

\* An entry of another link in between makes no difference.
LEMMA WillInsert ==
  ASSUME NEW q, NEW r, NEW l, NEW known, NEW n \in Nat, NEW i \in Nat, i > n,
         \A j \in 1 .. n : r[j] = q[j], \A j \in n + 1 .. i - 1 : r[j + 1] = q[j], r[n + 1][1] # l
  PROVE  WillServe(r, l, known, i + 1) = WillServe(q, l, known, i)
<1> SUFFICES ASSUME NEW p \in Pattern
             PROVE  Serves(r, l, known, p, i + 1) <=> Serves(q, l, known, p, i)
  BY DEF WillServe
<1> DEFINE Tells(j) == Mentions(q[j], l, p)
           Asks(j) == q[j][2].type = "SUBSCRIBE"
           TellsR(j) == Mentions(r[j], l, p)
           AsksR(j) == r[j][2].type = "SUBSCRIBE"
           g == [j \in 1 .. i - 1 |-> IF j <= n THEN j ELSE j + 1]
<1>1. Serves(r, l, known, p, i + 1) <=>
         \/ \E j \in 1 .. i : TellsR(j) /\ AsksR(j) /\ \A k \in j + 1 .. i : ~TellsR(k)
         \/ p \in known /\ \A k \in 1 .. i : ~TellsR(k)
  <2>1. i + 1 - 1 = i
    OBVIOUS
  <2> QED
    BY <2>1 DEF Serves
<1>2. Serves(q, l, known, p, i) <=>
         \/ \E j \in 1 .. i - 1 : Tells(j) /\ Asks(j) /\ \A k \in j + 1 .. i - 1 : ~Tells(k)
         \/ p \in known /\ \A k \in 1 .. i - 1 : ~Tells(k)
  BY DEF Serves
<1>3. ~TellsR(n + 1)
  BY DEF Mentions
<1>4. \A j \in 1 .. i - 1 : /\ g[j] \in 1 .. i /\ g[j] # n + 1 /\ r[g[j]] = q[j]
                            /\ \A k \in 1 .. i - 1 : j < k <=> g[j] < g[k]
  OBVIOUS
<1>5. \A j \in 1 .. i : j = n + 1 \/ \E k \in 1 .. i - 1 : j = g[k]
  <2> SUFFICES ASSUME NEW j \in 1 .. i, j # n + 1 PROVE \E k \in 1 .. i - 1 : j = g[k]
    OBVIOUS
  <2>1. CASE j <= n
    <3>1. j \in 1 .. i - 1 /\ g[j] = j
      BY <2>1
    <3> QED
      BY <3>1
  <2>2. CASE j > n + 1
    <3>1. j - 1 \in 1 .. i - 1 /\ g[j - 1] = j
      BY <2>2
    <3> QED
      BY <3>1
  <2> QED
    BY <2>1, <2>2
<1>6. \A j \in 1 .. i - 1 : (TellsR(g[j]) <=> Tells(j)) /\ (AsksR(g[j]) <=> Asks(j))
  BY <1>4
<1> HIDE DEF Tells, Asks, TellsR, AsksR, g
<1>7. (\A k \in 1 .. i : ~TellsR(k)) <=> \A k \in 1 .. i - 1 : ~Tells(k)
  BY <1>3, <1>4, <1>5, <1>6
<1>8. ASSUME NEW j \in 1 .. i - 1
      PROVE  (\A k \in g[j] + 1 .. i : ~TellsR(k)) <=> \A k \in j + 1 .. i - 1 : ~Tells(k)
  <2>1. ASSUME \A k \in g[j] + 1 .. i : ~TellsR(k), NEW k \in j + 1 .. i - 1 PROVE ~Tells(k)
    <3>1. k \in 1 .. i - 1 /\ j < k
      OBVIOUS
    <3>2. g[k] \in 1 .. i /\ g[j] \in 1 .. i /\ g[j] < g[k]
      BY <1>4, <3>1
    <3>3. g[k] \in g[j] + 1 .. i
      BY <3>2
    <3> QED
      BY <1>6, <2>1, <3>1, <3>3
  <2>2. ASSUME \A k \in j + 1 .. i - 1 : ~Tells(k), NEW k \in g[j] + 1 .. i PROVE ~TellsR(k)
    <3>1. g[j] \in 1 .. i /\ k \in 1 .. i /\ g[j] < k
      BY <1>4
    <3>2. CASE k = n + 1
      BY <1>3, <3>2
    <3>3. ASSUME NEW h \in 1 .. i - 1, k = g[h] PROVE ~TellsR(k)
      <4>1. j < h
        BY <1>4, <3>1, <3>3
      <4>2. h \in j + 1 .. i - 1
        BY <4>1
      <4> QED
        BY <1>6, <2>2, <3>3, <4>2
    <3> QED
      BY <1>5, <3>1, <3>2, <3>3
  <2> QED
    BY <2>1, <2>2
<1>9. (\E j \in 1 .. i : TellsR(j) /\ AsksR(j) /\ \A k \in j + 1 .. i : ~TellsR(k)) <=>
        \E j \in 1 .. i - 1 : Tells(j) /\ Asks(j) /\ \A k \in j + 1 .. i - 1 : ~Tells(k)
  BY <1>3, <1>4, <1>5, <1>6, <1>8
<1> QED
  BY <1>1, <1>2, <1>7, <1>9
-----------------------------------------------------------------------------
\* An entry of the queues: a link and one of its packets.
Entry == Link \X Requests

\* A packet more on the client's link.
LEMMA FlowAppend ==
  ASSUME NEW q \in Seq(Entry), NEW e \in Entry, NEW l, NEW known \in SUBSET Pattern
  PROVE  /\ End(Append(q, e), l, known) = Applied(e, l, End(q, l, known))
         /\ SubscribesFit(q, l, known) /\
              (e[1] = l /\ e[2].type = "SUBSCRIBE" => RestIsServed(e[2].topics, End(q, l, known))) =>
              SubscribesFit(Append(q, e), l, known)
         /\ \A m : WillReturn(q, l, known, m) => WillReturn(Append(q, e), l, known, m)
         /\ \A m : e[1] = l /\ Published(e[2], m) /\ (\E p \in End(q, l, known) : Matches(e[2].topics[1], p)) =>
              WillReturn(Append(q, e), l, known, m)
<1> DEFINE r == Append(q, e)
           n == Len(q)
<1>1. /\ n \in Nat /\ Len(r) = n + 1 /\ DOMAIN q = 1 .. n /\ DOMAIN r = 1 .. n + 1
      /\ r[n + 1] = e /\ \A j \in 1 .. n : r[j] = q[j]
  BY AppendEntries
<1> HIDE DEF r, n
<1>2. ASSUME NEW i \in 1 .. n + 1 PROVE WillServe(r, l, known, i) = WillServe(q, l, known, i)
  <2>1. i \in Nat /\ \A j \in 1 .. i - 1 : j \in 1 .. n
    BY <1>1
  <2> QED
    BY <1>1, <2>1, WillAgree
<1>3. n + 1 \in 1 .. n + 1 /\ \A i \in 1 .. n : i \in 1 .. n + 1
  BY <1>1
<1>4. WillServe(r, l, known, n + 1) = End(q, l, known)
  BY <1>2, <1>3 DEF End, n
<1>5. End(r, l, known) = Applied(e, l, End(q, l, known))
  <2>1. n + 1 \in Nat \ {0}
    BY <1>1
  <2> QED
    BY <1>1, <1>4, <2>1, WillApply DEF End
<1>6. ASSUME SubscribesFit(q, l, known),
             e[1] = l /\ e[2].type = "SUBSCRIBE" => RestIsServed(e[2].topics, End(q, l, known))
      PROVE  SubscribesFit(r, l, known)
  <2> SUFFICES ASSUME NEW i \in DOMAIN r, r[i][1] = l, r[i][2].type = "SUBSCRIBE"
               PROVE  RestIsServed(r[i][2].topics, WillServe(r, l, known, i))
    BY DEF SubscribesFit
  <2>1. CASE i = n + 1
    BY <1>1, <1>4, <1>6, <2>1
  <2>2. CASE i \in 1 .. n
    <3>1. i \in DOMAIN q /\ r[i] = q[i] /\ WillServe(r, l, known, i) = WillServe(q, l, known, i)
      BY <1>1, <1>2, <1>3, <2>2
    <3> QED
      BY <1>6, <3>1 DEF SubscribesFit
  <2> QED
    BY <1>1, <2>1, <2>2
<1>7. ASSUME NEW m, WillReturn(q, l, known, m) PROVE WillReturn(r, l, known, m)
  <2>1. PICK i \in DOMAIN q : /\ q[i][1] = l /\ Published(q[i][2], m)
                              /\ \E p \in WillServe(q, l, known, i) : Matches(q[i][2].topics[1], p)
    BY <1>7 DEF WillReturn
  <2>2. i \in DOMAIN r /\ r[i] = q[i] /\ WillServe(r, l, known, i) = WillServe(q, l, known, i)
    BY <1>1, <1>2, <1>3
  <2> QED
    BY <2>1, <2>2 DEF WillReturn
<1>8. ASSUME NEW m, e[1] = l, Published(e[2], m), \E p \in End(q, l, known) : Matches(e[2].topics[1], p)
      PROVE  WillReturn(r, l, known, m)
  <2>1. n + 1 \in DOMAIN r
    BY <1>1
  <2> QED
    BY <1>1, <1>4, <1>8, <2>1 DEF WillReturn
<1> QED
  BY <1>5, <1>6, <1>7, <1>8 DEF r

\* The Processor takes the first.
LEMMA FlowTail ==
  ASSUME NEW q \in Seq(Entry), q # <<>>, NEW l, NEW known \in SUBSET Pattern
  PROVE  LET next == Applied(Head(q), l, known)
         IN  /\ End(Tail(q), l, next) = End(q, l, known)
             /\ SubscribesFit(q, l, known) =>
                  /\ SubscribesFit(Tail(q), l, next)
                  /\ Head(q)[1] = l /\ Head(q)[2].type = "SUBSCRIBE" => RestIsServed(Head(q)[2].topics, known)
             /\ \A m : WillReturn(q, l, known, m) =>
                  \/ WillReturn(Tail(q), l, next, m)
                  \/ /\ Head(q)[1] = l /\ Published(Head(q)[2], m)
                     /\ \E p \in known : Matches(Head(q)[2].topics[1], p)
<1> DEFINE r == Tail(q)
           n == Len(q)
           next == Applied(Head(q), l, known)
<1>1. /\ n \in Nat \ {0} /\ Len(r) = n - 1 /\ DOMAIN q = 1 .. n /\ DOMAIN r = 1 .. n - 1
      /\ Head(q) = q[1] /\ \A j \in 1 .. n - 1 : r[j] = q[j + 1]
  BY TailEntries
<1>0. next = Applied(q[1], l, known)
  BY <1>1
<1> HIDE DEF r, n, next
<1>2. ASSUME NEW i \in 1 .. n PROVE WillServe(r, l, next, i) = WillServe(q, l, known, i + 1)
  <2>1. i \in Nat \ {0} /\ \A j \in 1 .. i - 1 : j \in 1 .. n - 1
    BY <1>1
  <2> QED
    BY <1>0, <1>1, <2>1, WillShift
<1>3. WillServe(q, l, known, 1) = known
  BY WillFirst
<1>4. End(r, l, next) = End(q, l, known)
  <2>1. n \in 1 .. n /\ (n - 1) + 1 = n
    BY <1>1
  <2> QED
    BY <1>1, <1>2, <2>1 DEF End, n
<1>5. ASSUME SubscribesFit(q, l, known)
      PROVE  /\ SubscribesFit(r, l, next)
             /\ q[1][1] = l /\ q[1][2].type = "SUBSCRIBE" => RestIsServed(q[1][2].topics, known)
  <2>1. ASSUME NEW i \in DOMAIN r, r[i][1] = l, r[i][2].type = "SUBSCRIBE"
        PROVE  RestIsServed(r[i][2].topics, WillServe(r, l, next, i))
    <3>1. i + 1 \in DOMAIN q /\ i \in 1 .. n /\ r[i] = q[i + 1]
      BY <1>1
    <3> QED
      BY <1>2, <1>5, <2>1, <3>1 DEF SubscribesFit
  <2>2. 1 \in DOMAIN q
    BY <1>1
  <2> QED
    BY <1>3, <1>5, <2>1, <2>2 DEF SubscribesFit
<1>6. ASSUME NEW m, WillReturn(q, l, known, m)
      PROVE  \/ WillReturn(r, l, next, m)
             \/ q[1][1] = l /\ Published(q[1][2], m) /\ \E p \in known : Matches(q[1][2].topics[1], p)
  <2>1. PICK i \in DOMAIN q : /\ q[i][1] = l /\ Published(q[i][2], m)
                              /\ \E p \in WillServe(q, l, known, i) : Matches(q[i][2].topics[1], p)
    BY <1>6 DEF WillReturn
  <2>2. CASE i = 1
    BY <1>3, <2>1, <2>2
  <2>3. CASE i # 1
    <3>1. i - 1 \in DOMAIN r /\ i - 1 \in 1 .. n /\ (i - 1) + 1 = i /\ r[i - 1] = q[i]
      <4>1. i - 1 \in 1 .. n - 1 /\ (i - 1) + 1 = i
        BY <1>1, <2>3
      <4> QED
        BY <1>1, <4>1
    <3>2. WillServe(r, l, next, i - 1) = WillServe(q, l, known, i)
      BY <1>2, <3>1
    <3> QED
      BY <2>1, <3>1, <3>2 DEF WillReturn
  <2> QED
    BY <2>2, <2>3
<1> QED
  BY <1>1, <1>4, <1>5, <1>6 DEF r, next

\* A packet of another link gets ahead of some of the client's.
LEMMA FlowInsert ==
  ASSUME NEW q \in Seq(Entry), NEW r \in Seq(Entry), NEW l, NEW known, NEW n \in 0 .. Len(q), Len(r) = Len(q) + 1,
         \A j \in 1 .. n : r[j] = q[j], \A j \in n + 1 .. Len(q) : r[j + 1] = q[j], r[n + 1][1] # l
  PROVE  /\ End(r, l, known) = End(q, l, known)
         /\ SubscribesFit(q, l, known) => SubscribesFit(r, l, known)
         /\ \A m : WillReturn(q, l, known, m) => WillReturn(r, l, known, m)
<1>0. Len(q) \in Nat /\ n \in Nat /\ DOMAIN q = 1 .. Len(q) /\ DOMAIN r = 1 .. Len(q) + 1
  OBVIOUS
<1>1. ASSUME NEW i \in 1 .. n PROVE WillServe(r, l, known, i) = WillServe(q, l, known, i)
  <2>1. i \in Nat /\ \A j \in 1 .. i - 1 : j \in 1 .. n
    BY <1>0
  <2> QED
    BY <2>1, WillAgree
<1>2. ASSUME NEW i \in n + 1 .. Len(q) + 1 PROVE WillServe(r, l, known, i + 1) = WillServe(q, l, known, i)
  <2>1. i \in Nat /\ i > n /\ \A j \in n + 1 .. i - 1 : j \in n + 1 .. Len(q)
    BY <1>0
  <2>2. (\A j \in n + 1 .. i - 1 : r[j + 1] = q[j]) /\ \A j \in 1 .. n : r[j] = q[j]
    BY <2>1
  <2>3. r[n + 1][1] # l
    OBVIOUS
  <2> QED
    BY <1>0, <2>1, <2>2, <2>3, WillInsert
<1>3. ASSUME NEW i \in DOMAIN q
      PROVE  \E j \in DOMAIN r : r[j] = q[i] /\ WillServe(r, l, known, j) = WillServe(q, l, known, i)
  <2>1. CASE i \in 1 .. n
    BY <1>0, <1>1, <2>1
  <2>2. CASE i \in n + 1 .. Len(q)
    <3>1. i + 1 \in DOMAIN r /\ i \in n + 1 .. Len(q) + 1
      BY <1>0, <2>2
    <3> QED
      BY <1>2, <2>2, <3>1
  <2> QED
    BY <1>0, <2>1, <2>2
<1>4. ASSUME NEW j \in DOMAIN r, r[j][1] = l
      PROVE  \E i \in DOMAIN q : r[j] = q[i] /\ WillServe(r, l, known, j) = WillServe(q, l, known, i)
  <2>1. CASE j \in 1 .. n
    BY <1>0, <1>1, <2>1
  <2>2. CASE j \in n + 2 .. Len(q) + 1
    <3>1. j - 1 \in DOMAIN q /\ j - 1 \in n + 1 .. Len(q) /\ j - 1 \in n + 1 .. Len(q) + 1 /\ (j - 1) + 1 = j
      BY <1>0, <2>2
    <3> QED
      BY <1>2, <3>1
  <2> QED
    BY <1>0, <1>4, <2>1, <2>2
<1>5. End(r, l, known) = End(q, l, known)
  <2>1. Len(q) + 1 \in n + 1 .. Len(q) + 1
    BY <1>0
  <2> QED
    BY <1>2, <2>1 DEF End
<1>6. SubscribesFit(q, l, known) => SubscribesFit(r, l, known)
  BY <1>4 DEF SubscribesFit
<1>7. \A m : WillReturn(q, l, known, m) => WillReturn(r, l, known, m)
  BY <1>3 DEF WillReturn
<1> QED
  BY <1>5, <1>6, <1>7
-----------------------------------------------------------------------------
\* The queues of the server with a link's packets behind them.
LineOf(q, u, l) == q \o [i \in 1 .. Len(u) |-> <<l, u[i]>>]

\* The line of a link, when a packet is put, taken and consumed.
LEMMA LineEntries ==
  ASSUME NEW q \in Seq(Entry), NEW u \in Seq(Requests), NEW l \in Link
  PROVE  /\ LineOf(q, u, l) \in Seq(Entry) /\ Len(LineOf(q, u, l)) = Len(q) + Len(u)
         /\ Len(q) \in Nat /\ Len(u) \in Nat
         /\ \A i \in 1 .. Len(q) : LineOf(q, u, l)[i] = q[i]
         /\ \A i \in Len(q) + 1 .. Len(q) + Len(u) : LineOf(q, u, l)[i] = <<l, u[i - Len(q)]>>
<1> DEFINE t == [i \in 1 .. Len(u) |-> <<l, u[i]>>]
<1>1. Len(q) \in Nat /\ Len(u) \in Nat
  BY LenProperties
<1>2. \A i \in 1 .. Len(u) : <<l, u[i]>> \in Entry
  <2>1. \A i \in 1 .. Len(u) : u[i] \in Requests
    BY ElementOfSeq
  <2> QED
    BY <2>1 DEF Entry
<1>3. t \in Seq(Entry) /\ Len(t) = Len(u)
  <2>1. t \in [1 .. Len(u) -> Entry]
    BY <1>2
  <2> QED
    BY <1>1, <2>1
<1>4. \A i \in 1 .. Len(u) : t[i] = <<l, u[i]>>
  OBVIOUS
<1> HIDE DEF t
<1>5. /\ q \o t \in Seq(Entry) /\ Len(q \o t) = Len(q) + Len(t)
      /\ \A i \in 1 .. Len(q) + Len(t) : (q \o t)[i] = IF i <= Len(q) THEN q[i] ELSE t[i - Len(q)]
  BY <1>3, ConcatProperties
<1>6. \A i \in 1 .. Len(q) : i \in 1 .. Len(q) + Len(t) /\ i <= Len(q)
  BY <1>1, <1>3
<1>7. \A i \in Len(q) + 1 .. Len(q) + Len(u) :
        i \in 1 .. Len(q) + Len(t) /\ ~(i <= Len(q)) /\ i - Len(q) \in 1 .. Len(u)
  BY <1>1, <1>3
<1> QED
  BY <1>1, <1>3, <1>4, <1>5, <1>6, <1>7 DEF LineOf, t

LEMMA LineAppend ==
  ASSUME NEW q \in Seq(Entry), NEW u \in Seq(Requests), NEW l \in Link, NEW x \in Requests
  PROVE  LineOf(q, Append(u, x), l) = Append(LineOf(q, u, l), <<l, x>>) /\ <<l, x>> \in Entry
<1> DEFINE a == LineOf(q, Append(u, x), l)
           c == LineOf(q, u, l)
           d == Append(c, <<l, x>>)
           n == Len(q)
           k == Len(u)
<1>1. <<l, x>> \in Entry
  BY DEF Entry
<1>2. /\ Append(u, x) \in Seq(Requests) /\ Len(Append(u, x)) = k + 1 /\ Append(u, x)[k + 1] = x
      /\ \A i \in 1 .. k : Append(u, x)[i] = u[i]
  BY AppendEntries
<1>3. /\ c \in Seq(Entry) /\ Len(c) = n + k /\ n \in Nat /\ k \in Nat
      /\ \A i \in 1 .. n : c[i] = q[i]
      /\ \A i \in n + 1 .. n + k : c[i] = <<l, u[i - n]>>
  BY LineEntries
<1>4. /\ a \in Seq(Entry) /\ Len(a) = n + (k + 1)
      /\ \A i \in 1 .. n : a[i] = q[i]
      /\ \A i \in n + 1 .. n + (k + 1) : a[i] = <<l, Append(u, x)[i - n]>>
  <2> DEFINE w == Append(u, x)
  <2>1. w \in Seq(Requests) /\ Len(w) = k + 1
    BY <1>2
  <2> HIDE DEF w
  <2>2. /\ LineOf(q, w, l) \in Seq(Entry) /\ Len(LineOf(q, w, l)) = Len(q) + Len(w)
        /\ \A i \in 1 .. Len(q) : LineOf(q, w, l)[i] = q[i]
        /\ \A i \in Len(q) + 1 .. Len(q) + Len(w) : LineOf(q, w, l)[i] = <<l, w[i - Len(q)]>>
    BY <2>1, LineEntries
  <2> QED
    BY <2>1, <2>2 DEF w
<1>5. /\ d \in Seq(Entry) /\ Len(d) = n + k + 1 /\ d[n + k + 1] = <<l, x>>
      /\ \A i \in 1 .. n + k : d[i] = c[i]
  BY <1>1, <1>3, AppendEntries
<1> HIDE DEF a, c, d, n, k
<1>6. ASSUME NEW i \in 1 .. n + k + 1 PROVE a[i] = d[i]
  <2>1. CASE i \in 1 .. n
    BY <1>3, <1>4, <1>5, <2>1
  <2>2. CASE i \in n + 1 .. n + k
    <3>1. i - n \in 1 .. k /\ i \in n + 1 .. n + (k + 1) /\ i \in 1 .. n + k
      BY <1>3, <2>2
    <3> QED
      BY <1>2, <1>3, <1>4, <1>5, <2>2, <3>1
  <2>3. CASE i = n + k + 1
    <3>1. i - n = k + 1 /\ i \in n + 1 .. n + (k + 1)
      BY <1>3, <2>3
    <3> QED
      BY <1>2, <1>4, <1>5, <2>3, <3>1
  <2> QED
    BY <1>3, <2>1, <2>2, <2>3
<1>7. a = d
  BY <1>3, <1>4, <1>5, <1>6, SeqEqual
<1> QED
  BY <1>1, <1>7 DEF a, c, d

LEMMA LineTail ==
  ASSUME NEW q \in Seq(Entry), NEW u \in Seq(Requests), NEW l \in Link, q # <<>>
  PROVE  /\ LineOf(Tail(q), u, l) = Tail(LineOf(q, u, l)) /\ LineOf(q, u, l) # <<>>
         /\ Head(LineOf(q, u, l)) = Head(q)
<1> DEFINE a == LineOf(Tail(q), u, l)
           c == LineOf(q, u, l)
           n == Len(q)
           k == Len(u)
<1>1. /\ Tail(q) \in Seq(Entry) /\ Len(Tail(q)) = n - 1 /\ n \in Nat \ {0} /\ Head(q) = q[1]
      /\ \A i \in 1 .. n - 1 : Tail(q)[i] = q[i + 1]
  BY TailEntries
<1>2. /\ c \in Seq(Entry) /\ Len(c) = n + k /\ k \in Nat
      /\ \A i \in 1 .. n : c[i] = q[i]
      /\ \A i \in n + 1 .. n + k : c[i] = <<l, u[i - n]>>
  BY LineEntries
<1>3. /\ a \in Seq(Entry) /\ Len(a) = (n - 1) + k
      /\ \A i \in 1 .. n - 1 : a[i] = Tail(q)[i]
      /\ \A i \in (n - 1) + 1 .. (n - 1) + k : a[i] = <<l, u[i - (n - 1)]>>
  <2> DEFINE g == Tail(q)
             w == u
  <2>1. g \in Seq(Entry) /\ Len(g) = n - 1 /\ w \in Seq(Requests) /\ Len(w) = k
    BY <1>1
  <2> HIDE DEF g, w
  <2>2. /\ LineOf(g, w, l) \in Seq(Entry) /\ Len(LineOf(g, w, l)) = Len(g) + Len(w)
        /\ \A i \in 1 .. Len(g) : LineOf(g, w, l)[i] = g[i]
        /\ \A i \in Len(g) + 1 .. Len(g) + Len(w) : LineOf(g, w, l)[i] = <<l, w[i - Len(g)]>>
    BY <2>1, LineEntries
  <2> QED
    BY <2>1, <2>2 DEF g, w
<1> HIDE DEF a, c, n, k
<1>4. c # <<>>
  BY <1>1, <1>2
<1>5. /\ Tail(c) \in Seq(Entry) /\ Len(Tail(c)) = n + k - 1 /\ Head(c) = c[1]
      /\ \A i \in 1 .. n + k - 1 : Tail(c)[i] = c[i + 1]
  <2>1. /\ Tail(c) \in Seq(Entry) /\ Len(Tail(c)) = Len(c) - 1 /\ Head(c) = c[1]
        /\ DOMAIN Tail(c) = 1 .. Len(c) - 1 /\ \A i \in DOMAIN Tail(c) : Tail(c)[i] = c[i + 1]
    BY <1>2, <1>4, TailEntries
  <2> QED
    BY <1>1, <1>2, <2>1
<1>6. ASSUME NEW i \in 1 .. n + k - 1 PROVE a[i] = Tail(c)[i]
  <2>1. CASE i \in 1 .. n - 1
    <3>1. i + 1 \in 1 .. n
      BY <1>1, <2>1
    <3> QED
      BY <1>1, <1>2, <1>3, <1>5, <2>1, <3>1
  <2>2. CASE i \in n .. n + k - 1
    <3>1. i + 1 \in n + 1 .. n + k /\ i \in (n - 1) + 1 .. (n - 1) + k /\ i - (n - 1) = (i + 1) - n
      BY <1>1, <1>2, <2>2
    <3>2. a[i] = <<l, u[(i + 1) - n]>>
      BY <1>3, <3>1
    <3>3. c[i + 1] = <<l, u[(i + 1) - n]>>
      BY <1>2, <3>1
    <3> QED
      BY <1>5, <3>2, <3>3
  <2> QED
    BY <1>1, <1>2, <2>1, <2>2
<1>7. a = Tail(c)
  <2>1. (n - 1) + k = n + k - 1
    BY <1>1, <1>2
  <2> QED
    BY <1>3, <1>5, <1>6, <2>1, SeqEqual
<1>8. Head(c) = Head(q)
  <2>1. 1 \in 1 .. n
    BY <1>1
  <2> QED
    BY <1>1, <1>2, <1>5, <2>1
<1> QED
  BY <1>4, <1>7, <1>8 DEF a, c

LEMMA LineConsumed ==
  ASSUME NEW q \in Seq(Entry), NEW u \in Seq(Requests), NEW l \in Link, u # <<>>
  PROVE  LineOf(Append(q, <<l, Head(u)>>), Tail(u), l) = LineOf(q, u, l)
<1> DEFINE x == <<l, Head(u)>>
           a == LineOf(Append(q, x), Tail(u), l)
           c == LineOf(q, u, l)
           n == Len(q)
           k == Len(u)
<1>1. /\ Tail(u) \in Seq(Requests) /\ Len(Tail(u)) = k - 1 /\ k \in Nat \ {0} /\ Head(u) = u[1] /\ Head(u) \in Requests
      /\ \A i \in 1 .. k - 1 : Tail(u)[i] = u[i + 1]
  BY TailEntries
<1>2. x \in Entry
  BY <1>1 DEF Entry
<1>3. /\ Append(q, x) \in Seq(Entry) /\ Len(Append(q, x)) = n + 1 /\ Append(q, x)[n + 1] = x
      /\ \A i \in 1 .. n : Append(q, x)[i] = q[i]
  BY <1>2, AppendEntries
<1>4. /\ c \in Seq(Entry) /\ Len(c) = n + k /\ n \in Nat
      /\ \A i \in 1 .. n : c[i] = q[i]
      /\ \A i \in n + 1 .. n + k : c[i] = <<l, u[i - n]>>
  BY LineEntries
<1>5. /\ a \in Seq(Entry) /\ Len(a) = (n + 1) + (k - 1)
      /\ \A i \in 1 .. n + 1 : a[i] = Append(q, x)[i]
      /\ \A i \in (n + 1) + 1 .. (n + 1) + (k - 1) : a[i] = <<l, Tail(u)[i - (n + 1)]>>
  <2> DEFINE g == Append(q, x)
             w == Tail(u)
  <2>1. g \in Seq(Entry) /\ Len(g) = n + 1 /\ w \in Seq(Requests) /\ Len(w) = k - 1
    BY <1>1, <1>3
  <2> HIDE DEF g, w
  <2>2. /\ LineOf(g, w, l) \in Seq(Entry) /\ Len(LineOf(g, w, l)) = Len(g) + Len(w)
        /\ \A i \in 1 .. Len(g) : LineOf(g, w, l)[i] = g[i]
        /\ \A i \in Len(g) + 1 .. Len(g) + Len(w) : LineOf(g, w, l)[i] = <<l, w[i - Len(g)]>>
    BY <2>1, LineEntries
  <2> QED
    BY <2>1, <2>2 DEF g, w
<1>6. x = <<l, u[1]>>
  BY <1>1
<1> HIDE DEF a, c, n, k, x
<1>7. ASSUME NEW i \in 1 .. n + k PROVE a[i] = c[i]
  <2>1. CASE i \in 1 .. n
    <3>1. i \in 1 .. n + 1
      BY <1>4, <2>1
    <3> QED
      BY <1>3, <1>4, <1>5, <2>1, <3>1
  <2>2. CASE i = n + 1
    <3>1. i \in 1 .. n + 1 /\ i \in n + 1 .. n + k /\ i - n = 1
      BY <1>1, <1>4, <2>2
    <3> QED
      BY <1>3, <1>4, <1>5, <1>6, <2>2, <3>1
  <2>3. CASE i \in n + 2 .. n + k
    <3>1. /\ i \in (n + 1) + 1 .. (n + 1) + (k - 1) /\ i \in n + 1 .. n + k
          /\ i - (n + 1) \in 1 .. k - 1 /\ (i - (n + 1)) + 1 = i - n
      BY <1>1, <1>4, <2>3
    <3>2. a[i] = <<l, u[i - n]>>
      BY <1>1, <1>5, <3>1
    <3> QED
      BY <1>4, <3>1, <3>2
  <2> QED
    BY <1>1, <1>4, <2>1, <2>2, <2>3
<1>8. a = c
  <2>1. (n + 1) + (k - 1) = n + k
    BY <1>1, <1>4
  <2> QED
    BY <1>4, <1>5, <1>7, <2>1, SeqEqual
<1> QED
  BY <1>8 DEF a, c, x

LEMMA LineInserted ==
  ASSUME NEW q \in Seq(Entry), NEW u \in Seq(Requests), NEW l \in Link, NEW x \in Entry
  PROVE  LET a == LineOf(Append(q, x), u, l)
             c == LineOf(q, u, l)
             n == Len(q)
         IN  /\ a \in Seq(Entry) /\ c \in Seq(Entry) /\ n \in 0 .. Len(c) /\ Len(a) = Len(c) + 1 /\ a[n + 1] = x
             /\ \A j \in 1 .. n : a[j] = c[j]
             /\ \A j \in n + 1 .. Len(c) : a[j + 1] = c[j]
<1> DEFINE a == LineOf(Append(q, x), u, l)
           c == LineOf(q, u, l)
           n == Len(q)
           k == Len(u)
<1>3. /\ Append(q, x) \in Seq(Entry) /\ Len(Append(q, x)) = n + 1 /\ Append(q, x)[n + 1] = x
      /\ \A i \in 1 .. n : Append(q, x)[i] = q[i]
  BY AppendEntries
<1>4. /\ c \in Seq(Entry) /\ Len(c) = n + k /\ n \in Nat /\ k \in Nat
      /\ \A i \in 1 .. n : c[i] = q[i]
      /\ \A i \in n + 1 .. n + k : c[i] = <<l, u[i - n]>>
  BY LineEntries
<1>5. /\ a \in Seq(Entry) /\ Len(a) = (n + 1) + k
      /\ \A i \in 1 .. n + 1 : a[i] = Append(q, x)[i]
      /\ \A i \in (n + 1) + 1 .. (n + 1) + k : a[i] = <<l, u[i - (n + 1)]>>
  <2> DEFINE g == Append(q, x)
             w == u
  <2>1. g \in Seq(Entry) /\ Len(g) = n + 1 /\ w \in Seq(Requests) /\ Len(w) = k
    BY <1>3
  <2> HIDE DEF g, w
  <2>2. /\ LineOf(g, w, l) \in Seq(Entry) /\ Len(LineOf(g, w, l)) = Len(g) + Len(w)
        /\ \A i \in 1 .. Len(g) : LineOf(g, w, l)[i] = g[i]
        /\ \A i \in Len(g) + 1 .. Len(g) + Len(w) : LineOf(g, w, l)[i] = <<l, w[i - Len(g)]>>
    BY <2>1, LineEntries
  <2> QED
    BY <2>1, <2>2 DEF g, w
<1> HIDE DEF a, c, n, k
<1>6. n + 1 \in 1 .. n + 1 /\ \A j \in 1 .. n : j \in 1 .. n + 1
  BY <1>4
<1>7. ASSUME NEW j \in n + 1 .. Len(c) PROVE a[j + 1] = c[j]
  <2>1. j + 1 \in (n + 1) + 1 .. (n + 1) + k /\ (j + 1) - (n + 1) = j - n /\ j \in n + 1 .. n + k
    BY <1>4
  <2> QED
    BY <1>4, <1>5, <2>1
<1>8. n \in 0 .. Len(c) /\ Len(a) = Len(c) + 1
  BY <1>4, <1>5
<1> QED
  BY <1>3, <1>4, <1>5, <1>6, <1>7, <1>8 DEF a, c, n
-----------------------------------------------------------------------------
\* The parts of FlowFits, for one link and with what they depend on.
KnownOf(pr, served, l) ==
  served \cup (IF pr = None THEN {} ELSE IF pr.link = l THEN Range(pr.topics) ELSE {})

AtWork(pr, served, l) == pr # None => (pr.link = l => RestIsServed(pr.topics, served))

Telling(u, p) == u.pc \in {"write", "push"} /\ u.pkt.type # "PUBLISH" /\ u.pkt.topics[1] = p

NotResub(served, u, s, r) ==
  /\ \A p \in served : p \in Range(s) \/ Telling(u, p)
  /\ RestIsServed(s, served)
  /\ r.pc = "resub" =>
       /\ RestIsServed(r.patterns, served)
       /\ Range(r.patterns) \subseteq Range(s)
       /\ \A p \in Range(s) : p \in Range(r.patterns) \/ p \in served
       /\ \A p \in Range(r.patterns) : ~Telling(u, p)

HasResub(served, u, s) == \A p \in Pattern : ~Telling(u, p) => (p \in served <=> p \in Range(s))

Agreed(served, l, md, u, s, r) ==
  /\ u.pc = "push" /\ u.link = l => u.pkt.topics[1] \in served
  /\ IF md \in {"STARTING", "NEGOTIATING"} THEN NotResub(served, u, s, r) ELSE HasResub(served, u, s)

\* FlowFits for the link in use, with its line and subscriptions named.
LEMMA FlowNow ==
  ASSUME NEW l, sock = l, FlowFits, Live
  PROVE  LET q == LineOf(procQ, up[l], l)
             known == KnownOf(proc, list[l], l)
         IN  SubscribesFit(q, l, known) /\ AtWork(proc, list[l], l) /\ Agreed(End(q, l, known), l, mode, user, subs, rd)
BY DEF FlowFits, RequestsFit, Agrees, AtEnd, Line, Known, NotResubscribed, HasResubscribed, InHand,
     LineOf, KnownOf, AtWork, Agreed, NotResub, HasResub, Telling, End

LEMMA FlowNext ==
  ASSUME NEW l, sock' = l, NEW q, NEW known, LineOf(procQ', up'[l], l) = q, KnownOf(proc', list'[l], l) = known,
         SubscribesFit(q, l, known), AtWork(proc', list'[l], l), Agreed(End(q, l, known), l, mode', user', subs', rd')
  PROVE  FlowFits'
<1>1. Line(sock)' = q /\ Known(sock)' = known
  BY DEF Line, Known, LineOf, KnownOf
<1>2. RequestsFit'
  BY <1>1 DEF RequestsFit, AtWork, SubscribesFit, WillServe, Serves, Mentions, RestIsServed
<1>3. AtEnd' = End(q, l, known)
  BY <1>1 DEF AtEnd, End, WillServe, Serves, Mentions
<1>4. Agrees(AtEnd)'
  BY <1>3 DEF Agrees, NotResubscribed, HasResubscribed, InHand, Agreed, NotResub, HasResub, Telling, RestIsServed
<1> QED
  BY <1>2, <1>4 DEF FlowFits
-----------------------------------------------------------------------------
\* A link is live after a step when it was before, or when it was just made.
Fresh ==
  /\ sock = 0 /\ sock' \in Link /\ lk[sock'] = "none" /\ mode' = "STARTING" /\ rd'.pc # "resub"
  /\ user'.link = user.link /\ UNCHANGED <<up, down, server, subs, due>>

LEMMA LiveLink ==
  TypeOK /\ LinksFit /\ Live => sock \in Link /\ lk[sock] = "up" /\ srv[sock] # "dead"
<1> SUFFICES ASSUME TypeOK, LinksFit, Live PROVE sock \in Link /\ lk[sock] = "up" /\ srv[sock] # "dead"
  OBVIOUS
<1>1. sock \in {0} \cup Link
  BY DEF TypeOK, ClientTypes
<1>2. sock # 0 /\ lk[sock] = "up"
  BY DEF Live
<1>3. \A l \in Link : lk[l] = "up" => srv[l] # "dead"
  BY DEF LinksFit
<1> HIDE DEF Link
<1> QED
  BY <1>1, <1>2, <1>3

LEMMA LiveStep ==
  TypeOK /\ LinksFit /\ [Next]_vars /\ Live' =>
    \/ Live /\ sock' = sock /\ sock \in Link /\ lk[sock] = "up" /\ lk'[sock] = "up" /\ srv[sock] # "dead"
    \/ Fresh
<1> SUFFICES ASSUME TypeOK, LinksFit, [Next]_vars, Live'
             PROVE  (Live /\ sock' = sock) \/ Fresh
  <2>1. Live' => (IF sock' = 0 THEN FALSE ELSE lk'[sock'] = "up")
    BY DEF Live
  <2> QED
    BY <2>1, LiveLink
<1>0. /\ state' = "CONNECTED" /\ sock' # 0 /\ user'.pc # "disconnect" /\ lapses' = {} /\ lk'[sock'] = "up"
  BY DEF Live
<1>1. sock \in {0} \cup Link /\ lk \in [Link -> {"none", "up", "down"}] /\ 0 \notin Link /\ WireTypes /\ rd \in ReaderType
      /\ user \in UserType
  <2>1. 0 \notin Link
    BY DEF Link
  <2> QED
    BY <2>1 DEF TypeOK, WireTypes, ClientTypes
<1>2. CloseSocket => FALSE
  BY <1>0, <1>1, CloseTypes
<1>3. ASSUME UNCHANGED <<state, sock, lapses>>, sock # 0 => lk'[sock] # "up" \/ lk[sock] = "up", user.pc # "disconnect"
      PROVE  Live /\ sock' = sock
  BY <1>0, <1>3 DEF Live
<1>4. ASSUME state' = state, sock' = sock, lapses = {}, sock # 0 => lk'[sock] # "up" \/ lk[sock] = "up", user.pc # "disconnect"
      PROVE  Live /\ sock' = sock
  BY <1>0, <1>4 DEF Live
<1>5. ASSUME ConnectOK, MutexFree, user'.link = user.link, UNCHANGED server PROVE Fresh
  <2>1. sock = 0 /\ sock' \in Unused
    BY <1>0, <1>5 DEF ConnectOK
  <2>2. rd'.pc = rd.pc /\ rd.pc # "resub"
    BY <1>1, <1>5 DEF ConnectOK, MutexFree, ReaderType
  <2> QED
    BY <1>5, <2>1, <2>2 DEF Fresh, ConnectOK, Unused
<1>6. CASE Reader /\ UNCHANGED server
  <2>1. user' = user
    BY <1>6 DEF Reader, Check, Read, ReadError, Problem, Expose, Welcome, Negotiated, Resubscribe, Resubscribed, Ignore,
       IoClose, IoState
  <2>2. CASE Check \/ Read \/ Problem \/ Expose \/ Negotiated \/ Resubscribed \/ Ignore
    BY <1>0, <1>3, <2>1, <2>2 DEF Check, Read, Problem, Expose, Negotiated, Resubscribed, Ignore, wire, history
  <2>3. CASE ReadError
    BY <1>0, <1>3, <2>1, <2>3 DEF ReadError, wire, history
  <2>4. CASE IoClose("reader") \/ IoState("reader")
    BY <1>0, <1>2, <2>4 DEF IoClose, IoState
  <2>5. CASE Welcome \/ Resubscribe
    <3>1. UNCHANGED <<state, sock, lapses, lk>>
      BY <1>0, <1>2, <2>5 DEF Welcome, Resubscribe, HeldPut, wire, history
    <3> QED
      BY <1>0, <1>3, <2>1, <3>1
  <2> QED
    BY <1>6, <2>2, <2>3, <2>4, <2>5 DEF Reader
<1>7. CASE TimesOut
  BY <1>0, <1>3, <1>7 DEF TimesOut, Inactive, history
<1>8. CASE Manager /\ UNCHANGED server
  BY <1>0, <1>2, <1>5, <1>8 DEF Manager, Reconnect, ConnectRefused, Ping
<1>9. CASE Caller /\ UNCHANGED server
  <2>1. CASE AwaitDispatching \/ SubscribeWaits \/ Put \/ WriteNothing \/ WriteLost \/ WriteError
    BY <1>0, <1>3, <2>1 DEF AwaitDispatching, SubscribeWaits, Put, WriteNothing, Writing, WriteLost, WriteError, wire, history
  <2>2. CASE Write \/ Push
    <3>1. state' = state /\ sock' = sock /\ lk' = lk /\ user.pc # "disconnect" /\ lapses \subseteq lapses'
      BY <2>2 DEF Write, Writing, Push, wire
    <3> QED
      BY <1>0, <1>4, <3>1
  <2>3. CASE IoClose("user") \/ IoState("user")
    BY <1>0, <1>2, <2>3 DEF IoClose, IoState
  <2>4. CASE Connect
    <3>1. CASE state # "CONNECTED" /\ ConnectOK /\ user' = [user EXCEPT !.pc = "await"]
      BY <1>1, <1>5, <1>9, <2>4, <3>1 DEF Connect, UserType
    <3>2. CASE UNCHANGED <<wire, state, mode, sock, subs, nullRead, rd, io, history>>
      BY <1>3, <2>4, <3>2 DEF Connect, wire, history
    <3> QED
      BY <1>0, <2>4, <3>1, <3>2 DEF Connect, ConnectRefused
  <2>5. CASE Disconnect
    BY <1>0, <1>2, <2>5 DEF Disconnect
  <2> QED
    BY <1>9, <2>1, <2>2, <2>3, <2>4, <2>5 DEF Caller
<1>10. CASE Application /\ UNCHANGED server
  <2>1. user.pc = "idle" /\ UNCHANGED <<state, sock, lk>> /\ lapses \subseteq lapses'
    BY <1>10 DEF Application, Calls, CallConnect, CallDisconnect, CallSubscribe, CallUnsubscribe, CallPublish, wire
  <2> QED
    BY <1>0, <1>4, <2>1
<1>11. CASE UNCHANGED <<client, history>> /\ \A l \in Link : lk'[l] = "up" => lk[l] = "up"
  BY <1>0, <1>1, <1>11 DEF Live, client, history
<1>12. CASE ServerStep
  <2>1. UNCHANGED lk
    BY <1>12 DEF ServerStep, Processor, Answer, Distribute, ServerUnsubscribe, ServerSubscribe, Fetch, Register,
       IOManager, Assign, Consume, Cleanup, wire
  <2> QED
    BY <1>11, <1>12, <2>1 DEF ServerStep
<1>13. ASSUME NEW l \in Link, Break(l), UNCHANGED <<client, history, server>> PROVE (Live /\ sock' = sock) \/ Fresh
  BY <1>1, <1>11, <1>13 DEF Break
<1>14. CASE UNCHANGED vars
  BY <1>11, <1>14 DEF vars, wire
<1> QED
  BY <1>6, <1>7, <1>8, <1>9, <1>10, <1>12, <1>13, <1>14 DEF Next, ReaderStep, CallerStep, ManagerStep
-----------------------------------------------------------------------------
\* What is known of a topic list.
LEMMA SubscribesTexts ==
  ASSUME NEW t \in Seq(Pattern)
  PROVE  t \in Seq(Seq(STRING))
<1>1. Pattern \subseteq Seq(STRING)
  BY WireAssumption
<1> QED
  BY <1>1

LEMMA TopicRange ==
  ASSUME NEW S, NEW t \in Seq(S)
  PROVE  /\ Range(t) \subseteq S /\ \A p : p \in Range(t) <=> \E i \in 1 .. Len(t) : t[i] = p
         /\ Len(t) = 1 => Range(t) = {t[1]}
         /\ t # <<>> => Head(t) = t[1] /\ Range(t) = {Head(t)} \cup Range(Tail(t))
<1>1. DOMAIN t = 1 .. Len(t) /\ Len(t) \in Nat /\ \A i \in 1 .. Len(t) : t[i] \in S
  BY ElementOfSeq
<1>2. \A p : p \in Range(t) <=> \E i \in 1 .. Len(t) : t[i] = p
  BY <1>1 DEF Range
<1>3. ASSUME t # <<>> PROVE Head(t) = t[1] /\ Range(t) = {Head(t)} \cup Range(Tail(t))
  <2>1. /\ Len(t) \in Nat \ {0} /\ Head(t) = t[1] /\ DOMAIN Tail(t) = 1 .. Len(t) - 1
        /\ \A i \in 1 .. Len(t) - 1 : Tail(t)[i] = t[i + 1]
    BY <1>3, TailEntries
  <2>2. ASSUME NEW p PROVE p \in Range(t) <=> p = Head(t) \/ p \in Range(Tail(t))
    <3>1. ASSUME NEW i \in 1 .. Len(t), t[i] = p PROVE p = Head(t) \/ p \in Range(Tail(t))
      <4>1. CASE i = 1
        BY <2>1, <3>1, <4>1
      <4>2. CASE i # 1
        <5>1. i - 1 \in 1 .. Len(t) - 1 /\ (i - 1) + 1 = i
          BY <2>1, <4>2
        <5> QED
          BY <2>1, <3>1, <5>1 DEF Range
      <4> QED
        BY <4>1, <4>2
    <3>2. ASSUME p \in Range(Tail(t)) PROVE p \in Range(t)
      <4>1. PICK i \in 1 .. Len(t) - 1 : Tail(t)[i] = p
        BY <2>1, <3>2 DEF Range
      <4>2. i + 1 \in 1 .. Len(t)
        BY <2>1
      <4> QED
        BY <1>2, <2>1, <4>1, <4>2
    <3>3. 1 \in 1 .. Len(t)
      BY <2>1
    <3> QED
      BY <1>2, <2>1, <3>1, <3>2, <3>3
  <2> QED
    BY <2>1, <2>2
<1>4. ASSUME Len(t) = 1 PROVE Range(t) = {t[1]}
  <2>1. \A i : i \in 1 .. 1 <=> i = 1
    OBVIOUS
  <2> QED
    BY <1>2, <1>4, <2>1
<1> QED
  BY <1>1, <1>2, <1>3, <1>4

\* The Processor's steps that take an entry do to the subscriptions what the entry asks.
LEMMA TakenApplies ==
  ASSUME TypeOK, procQ # <<>>, NEW k, NEW pkt, NEW l \in Link,
         Answer(k, pkt) \/ Distribute(k, pkt) \/ ServerUnsubscribe(k, pkt) \/ ServerSubscribe(k, pkt)
  PROVE  /\ KnownOf(proc', list'[l], l) = Applied(Head(procQ), l, KnownOf(proc, list[l], l))
         /\ KnownOf(proc, list[l], l) = list[l] /\ procQ' = Tail(procQ) /\ UNCHANGED up
         /\ \/ proc' = None
            \/ /\ proc'.link = k /\ proc'.topics = pkt.topics /\ list' = list
               /\ Head(procQ) = <<k, pkt>> /\ pkt.type = "SUBSCRIBE"
<1>0. /\ procQ \in Seq(Entry) /\ list \in [Link -> SUBSET Pattern] /\ list[l] \in SUBSET Pattern
  BY DEF TypeOK, ServerTypes, Entry
<1>1. /\ proc = None /\ Head(procQ) = <<k, pkt>> /\ procQ' = Tail(procQ) /\ UNCHANGED up
  BY DEF Answer, Distribute, ServerUnsubscribe, ServerSubscribe, Taken, wire
<1>2. k \in Link /\ pkt \in Requests
  <2>1. Head(procQ) \in Entry
    BY <1>0, TailEntries
  <2> QED
    BY <1>1, <2>1 DEF Entry
<1>3. KnownOf(proc, list[l], l) = list[l]
  BY <1>1 DEF KnownOf
<1>4. \A p : Mentions(<<k, pkt>>, l, p) <=> k = l /\ pkt.type \in {"SUBSCRIBE", "UNSUBSCRIBE"} /\ p \in Range(pkt.topics)
  BY DEF Mentions
<1>5. <<k, pkt>>[2].type = pkt.type
  OBVIOUS
<1>6. CASE (Answer(k, pkt) \/ Distribute(k, pkt)) /\ ~ServerUnsubscribe(k, pkt) /\ ~ServerSubscribe(k, pkt)
  <2>1. UNCHANGED <<list, proc>> /\ pkt.type \in {"NEGOTIATE", "PUBLISH"}
    BY <1>6 DEF Answer, Distribute, Taken
  <2>2. KnownOf(proc', list'[l], l) = Applied(Head(procQ), l, list[l])
    BY <1>0, <1>1, <1>4, <2>1 DEF KnownOf, Applied
  <2> QED
    BY <1>1, <1>3, <2>1, <2>2
<1>7. CASE ServerUnsubscribe(k, pkt)
  <2>1. proc' = None /\ list' = [list EXCEPT ![k] = @ \ {pkt.topics[1]}] /\ pkt.type = "UNSUBSCRIBE"
    BY <1>1, <1>7 DEF ServerUnsubscribe, Taken
  <2>2. Range(pkt.topics) = {pkt.topics[1]}
    <3>1. pkt.topics \in Seq(Pattern) /\ Len(pkt.topics) = 1
      BY <1>2, <2>1, RequestTypes
    <3> QED
      BY <3>1, TopicRange
  <2>3. list'[l] = IF k = l THEN list[l] \ {pkt.topics[1]} ELSE list[l]
    BY <1>0, <2>1
  <2>4. KnownOf(proc', list'[l], l) = Applied(Head(procQ), l, list[l])
    BY <1>0, <1>1, <1>4, <1>5, <2>1, <2>2, <2>3 DEF KnownOf, Applied
  <2> QED
    BY <1>1, <1>3, <2>1, <2>4
<1>8. CASE ServerSubscribe(k, pkt)
  <2>1. proc' = [link |-> k, topics |-> pkt.topics, real |-> None] /\ list' = list /\ pkt.type = "SUBSCRIBE"
    BY <1>8 DEF ServerSubscribe, Taken
  <2>2. pkt.topics \in Seq(Pattern) /\ pkt.topics # <<>>
    BY <1>2, <2>1, RequestTypes
  <2>3. Range(pkt.topics) \subseteq Pattern
    BY <2>2, TopicRange
  <2>4. proc' # None
    <3>1. pkt.topics \in Seq(Seq(STRING)) /\ k \in Link
      BY <1>2, <2>2, WireAssumption
    <3> QED
      BY <2>1, <3>1, ServerAssumption
  <2>5. proc'.link = k /\ proc'.topics = pkt.topics
    BY <2>1
  <2>6. KnownOf(proc', list'[l], l) = list[l] \cup (IF k = l THEN Range(pkt.topics) ELSE {})
    BY <2>1, <2>4, <2>5 DEF KnownOf
  <2>7. KnownOf(proc', list'[l], l) = Applied(Head(procQ), l, list[l])
    BY <1>0, <1>1, <1>4, <1>5, <2>1, <2>3, <2>6 DEF Applied
  <2> QED
    BY <1>1, <1>3, <2>1, <2>5, <2>7
<1> QED
  BY <1>6, <1>7, <1>8

\* A topic that is registered was known to be.
LEMMA RegisterKnown ==
  ASSUME TypeOK, ServerFits, Fetch \/ Register, NEW l \in Link, srv[l] # "dead", AtWork(proc, list[l], l)
  PROVE  KnownOf(proc', list'[l], l) = KnownOf(proc, list[l], l) /\ AtWork(proc', list'[l], l)
<1>0. /\ proc \in [link : Link, topics : Seq(Pattern) \ {<<>>}, real : BOOLEAN \cup {None}] /\ proc # None
      /\ list \in [Link -> SUBSET Pattern] /\ list[l] = Registered(l) /\ None \notin BOOLEAN
  BY ServerAssumption DEF Fetch, Register, TypeOK, ServerTypes, ServerFits
<1> DEFINE t == Head(proc.topics)
           n == Len(proc.topics)
<1>1. /\ t \in Pattern /\ n \in Nat \ {0} /\ t = proc.topics[1] /\ Range(proc.topics) = {t} \cup Range(Tail(proc.topics))
      /\ DOMAIN proc.topics = 1 .. n /\ DOMAIN Tail(proc.topics) = 1 .. n - 1
      /\ \A i \in 1 .. n - 1 : Tail(proc.topics)[i] = proc.topics[i + 1]
      /\ (n = 1 => Range(proc.topics) = {t})
      /\ \A p : p \in Range(proc.topics) <=> \E i \in 1 .. n : proc.topics[i] = p
  BY <1>0, TailEntries, TopicRange
<1>2. CASE Fetch
  <2>1. proc' = [proc EXCEPT !.real = (srv[proc.link] = "open")] /\ list' = list
    BY <1>2 DEF Fetch
  <2>2. proc'.link = proc.link /\ proc'.topics = proc.topics /\ proc' # None
    <3>0. proc.topics \in Seq(Seq(STRING)) /\ (srv[proc.link] = "open") \in BOOLEAN
      BY <1>0, SubscribesTexts
    <3>1. proc' \in [link : Link, topics : Seq(Seq(STRING)), real : BOOLEAN \cup {None}]
      BY <1>0, <2>1, <3>0
    <3> QED
      BY <1>0, <2>1, <3>1, ServerAssumption
  <2> QED
    BY <1>0, <2>1, <2>2 DEF KnownOf, AtWork
<1>3. CASE Register
  <2> DEFINE duplicate == proc.real /\ IsMember(t, proc.link)
             last == duplicate \/ n = 1
  <2>1. /\ proc.real # None
        /\ list' = [list EXCEPT ![proc.link] = IF duplicate THEN @ ELSE @ \cup {t}]
        /\ IF last THEN proc' = None ELSE proc' = [proc EXCEPT !.topics = Tail(@), !.real = None]
    BY <1>3 DEF Register
  <2>2. list'[l] = IF proc.link = l /\ ~duplicate THEN list[l] \cup {t} ELSE list[l]
    BY <1>0, <2>1
  <2>3. ASSUME proc.link # l PROVE KnownOf(proc', list'[l], l) = KnownOf(proc, list[l], l) /\ AtWork(proc', list'[l], l)
    <3>1. ~last => proc'.link = proc.link
      BY <1>0, <2>1
    <3> QED
      BY <1>0, <2>1, <2>2, <2>3, <3>1 DEF KnownOf, AtWork
  <2>4. ASSUME proc.link = l PROVE KnownOf(proc', list'[l], l) = KnownOf(proc, list[l], l) /\ AtWork(proc', list'[l], l)
    <3>1. RestIsServed(proc.topics, list[l]) /\ KnownOf(proc, list[l], l) = list[l] \cup Range(proc.topics)
      BY <1>0, <2>4 DEF AtWork, KnownOf
    <3>2. CASE duplicate
      <4>1. t \in list[l]
        BY <1>0, <1>1, <2>4, <3>2 DEF Registered
      <4>2. ASSUME NEW i \in 1 .. n PROVE proc.topics[i] \in list[l]
        <5>1. CASE i = 1
          BY <1>1, <4>1, <5>1
        <5>2. CASE i # 1
          <6>1. 1 \in 1 .. n /\ 1 < i
            BY <1>1, <5>2
          <6> QED
            BY <1>1, <3>1, <4>1, <6>1 DEF RestIsServed
        <5> QED
          BY <5>1, <5>2
      <4>3. Range(proc.topics) \subseteq list[l]
        BY <1>1, <4>2
      <4> QED
        BY <2>1, <2>2, <3>1, <3>2, <4>3 DEF KnownOf, AtWork
    <3>3. CASE ~duplicate /\ n = 1
      BY <1>1, <2>1, <2>2, <2>4, <3>1, <3>3 DEF KnownOf, AtWork
    <3>4. CASE ~duplicate /\ n # 1
      <4>1. proc' = [proc EXCEPT !.topics = Tail(@), !.real = None] /\ list'[l] = list[l] \cup {t}
        BY <2>1, <2>2, <2>4, <3>4
      <4>2. proc'.link = l /\ proc'.topics = Tail(proc.topics) /\ proc' # None
        <5>1. Tail(proc.topics) \in Seq(Seq(STRING))
          <6>1. Tail(proc.topics) \in Seq(Pattern)
            BY <1>0
          <6> QED
            BY <6>1, SubscribesTexts
        <5>2. proc' \in [link : Link, topics : Seq(Seq(STRING)), real : BOOLEAN \cup {None}]
          BY <1>0, <4>1, <5>1
        <5> QED
          BY <1>0, <2>4, <4>1, <5>2, ServerAssumption
      <4>3. KnownOf(proc', list'[l], l) = KnownOf(proc, list[l], l)
        BY <1>1, <3>1, <4>1, <4>2 DEF KnownOf
      <4>4. ASSUME NEW a \in 1 .. n - 1, NEW b \in 1 .. n - 1, a < b
            PROVE  /\ Tail(proc.topics)[a] # Tail(proc.topics)[b]
                   /\ Tail(proc.topics)[a] \in list'[l] => Tail(proc.topics)[b] \in list'[l]
        <5>1. 1 \in 1 .. n /\ a + 1 \in 1 .. n /\ b + 1 \in 1 .. n /\ a + 1 < b + 1 /\ 1 < a + 1
          BY <1>1, <4>4
        <5>2. /\ proc.topics[a + 1] # proc.topics[b + 1] /\ t # proc.topics[a + 1]
              /\ proc.topics[a + 1] \in list[l] => proc.topics[b + 1] \in list[l]
          BY <1>1, <3>1, <5>1 DEF RestIsServed
        <5> QED
          BY <1>1, <4>1, <5>2
      <4>5. RestIsServed(Tail(proc.topics), list'[l])
        BY <1>1, <4>4 DEF RestIsServed
      <4> QED
        BY <4>2, <4>3, <4>5 DEF AtWork
    <3> QED
      BY <3>2, <3>3, <3>4
  <2> QED
    BY <2>3, <2>4
<1> QED
  BY <1>2, <1>3

\* What the client and the server will agree on, and what comes back, after a step of
\* the server.
LEMMA ServerMoves ==
  ASSUME TypeOK, LinksFit, ServerFits, ServerStep, NEW l \in Link, lk[l] = "up", srv[l] # "dead",
         NEW q, q = LineOf(procQ, up[l], l), NEW known, known = KnownOf(proc, list[l], l),
         SubscribesFit(q, l, known), AtWork(proc, list[l], l)
  PROVE  LET next == LineOf(procQ', up'[l], l)
             then == KnownOf(proc', list'[l], l)
         IN  /\ SubscribesFit(next, l, then) /\ AtWork(proc', list'[l], l) /\ End(next, l, then) = End(q, l, known)
             /\ \A m : WillReturn(q, l, known, m) =>
                         WillReturn(next, l, then, m) \/ \E i \in DOMAIN down'[l] : Published(down'[l][i], m)
             /\ \A m : (\E i \in DOMAIN down[l] : Published(down[l][i], m)) =>
                         \E i \in DOMAIN down'[l] : Published(down'[l][i], m)
<1> DEFINE next == LineOf(procQ', up'[l], l)
           then == KnownOf(proc', list'[l], l)
           Arrives(d, m) == \E i \in DOMAIN d : Published(d[i], m)
           Goal == /\ SubscribesFit(next, l, then) /\ AtWork(proc', list'[l], l) /\ End(next, l, then) = End(q, l, known)
                   /\ \A m : WillReturn(q, l, known, m) => WillReturn(next, l, then, m) \/ Arrives(down'[l], m)
                   /\ \A m : Arrives(down[l], m) => Arrives(down'[l], m)
<1>0. /\ procQ \in Seq(Entry) /\ up \in [Link -> Seq(Requests)] /\ down \in [Link -> Seq(Answers)]
      /\ list \in [Link -> SUBSET Pattern] /\ list[l] \in SUBSET Pattern
  BY DEF TypeOK, WireTypes, ServerTypes, Entry
<1>1. q \in Seq(Entry) /\ up[l] \in Seq(Requests) /\ down[l] \in Seq(Answers)
  BY <1>0, LineEntries
<1>2. known \in SUBSET Pattern
  <2>1. ASSUME proc # None PROVE Range(proc.topics) \subseteq Pattern
    <3>1. proc.topics \in Seq(Pattern)
      BY <2>1 DEF TypeOK, ServerTypes
    <3> QED
      BY <3>1, TopicRange
  <2> QED
    BY <1>0, <2>1 DEF KnownOf
<1>3. ASSUME NEW d, down'[l] = down[l] \/ (d \in Answers /\ down'[l] = Append(down[l], d)), NEW m, Arrives(down[l], m)
      PROVE  Arrives(down'[l], m)
  BY <1>1, <1>3, AppendEntries
<1>4. ASSUME down'[l] = down[l], next = q, then = known, AtWork(proc', list'[l], l) PROVE Goal
  BY <1>4
<1>5. ASSUME NEW k \in Link, IOManager(k) PROVE Goal
  <2>1. CASE Assign(k)
    <3>1. /\ UNCHANGED <<up, procQ, list, proc>>
          /\ down' = [down EXCEPT ![k] = IF lk[k] = "up" THEN Append(@, Plain("WELCOME")) ELSE @]
      BY <2>1 DEF Assign
    <3>2. down'[l] = down[l] \/ down'[l] = Append(down[l], Plain("WELCOME"))
      BY <1>0, <3>1
    <3>3. \A m : Arrives(down[l], m) => Arrives(down'[l], m)
      BY <1>3, <3>2, PacketTypes
    <3>4. next = q /\ then = known /\ AtWork(proc', list'[l], l)
      BY <3>1
    <3> QED
      BY <3>3, <3>4
  <2>2. CASE Cleanup(k)
    <3>1. UNCHANGED <<up, down, procQ, proc>> /\ list' = [list EXCEPT ![k] = {}] /\ k # l
      BY <2>2 DEF Cleanup, wire
    <3>2. list'[l] = list[l]
      BY <1>0, <3>1
    <3> QED
      BY <1>4, <3>1, <3>2
  <2>3. CASE Consume(k)
    <3>1. /\ up[k] # <<>> /\ procQ' = Append(procQ, <<k, Head(up[k])>>) /\ up' = [up EXCEPT ![k] = Tail(@)]
          /\ UNCHANGED <<down, list, proc>>
      BY <2>3 DEF Consume
    <3>2. CASE k = l
      <4>1. up'[l] = Tail(up[l])
        BY <1>0, <3>1, <3>2
      <4>2. next = q
        BY <1>0, <1>1, <3>1, <3>2, <4>1, LineConsumed
      <4> QED
        BY <1>4, <3>1, <4>2
    <3>3. CASE k # l
      <4> DEFINE e == <<k, Head(up[k])>>
                 r == LineOf(Append(procQ, e), up[l], l)
                 n == Len(procQ)
      <4>1. e \in Entry /\ e[1] # l /\ up'[l] = up[l]
        <5>1. Head(up[k]) \in Requests
          BY <1>0, <3>1, TailEntries
        <5> QED
          BY <1>0, <3>1, <3>3, <5>1 DEF Entry
      <4>2. next = r /\ then = known
        BY <3>1, <4>1
      <4> HIDE DEF e
      <4>3. /\ r \in Seq(Entry) /\ n \in 0 .. Len(q) /\ Len(r) = Len(q) + 1 /\ r[n + 1] = e
            /\ \A j \in 1 .. n : r[j] = q[j]
            /\ \A j \in n + 1 .. Len(q) : r[j + 1] = q[j]
        <5> DEFINE c == LineOf(procQ, up[l], l)
        <5>1. /\ r \in Seq(Entry) /\ n \in 0 .. Len(c) /\ Len(r) = Len(c) + 1 /\ r[n + 1] = e
              /\ \A j \in 1 .. n : r[j] = c[j]
              /\ \A j \in n + 1 .. Len(c) : r[j + 1] = c[j]
          <6>1. procQ \in Seq(Entry) /\ up[l] \in Seq(Requests) /\ e \in Entry
            BY <1>0, <1>1, <4>1
          <6> QED
            BY ONLY <6>1, l \in Link, LineInserted DEF r, c, n
        <5>2. c = q
          OBVIOUS
        <5> HIDE DEF c, r, n
        <5> QED
          BY <5>1, <5>2
      <4> HIDE DEF r, n
      <4>4. /\ End(r, l, known) = End(q, l, known)
            /\ SubscribesFit(q, l, known) => SubscribesFit(r, l, known)
            /\ \A m : WillReturn(q, l, known, m) => WillReturn(r, l, known, m)
        <5>1. r[n + 1][1] # l
          BY <4>1, <4>3
        <5> QED
          BY ONLY <1>1, <4>3, <5>1, FlowInsert
      <4> QED
        BY <3>1, <4>2, <4>4
    <3> QED
      BY <3>2, <3>3
  <2> QED
    BY <1>5, <2>1, <2>2, <2>3 DEF IOManager
<1>6. CASE Fetch \/ Register
  <2>1. UNCHANGED <<up, procQ>> /\ (UNCHANGED down \/ \E clients : Output(clients, Plain("ACK")))
    BY <1>6 DEF Fetch, Register, wire
  <2>2. down'[l] = down[l] \/ down'[l] = Append(down[l], Plain("ACK"))
    BY <1>0, <2>1 DEF Output, Queued
  <2>3. then = known /\ AtWork(proc', list'[l], l) /\ next = q
    BY <1>6, <2>1, RegisterKnown
  <2>4. \A m : Arrives(down[l], m) => Arrives(down'[l], m)
    BY <1>3, <2>2, PacketTypes
  <2> QED
    BY <2>3, <2>4
<1>7. ASSUME procQ # <<>>, NEW k, NEW pkt,
             Answer(k, pkt) \/ Distribute(k, pkt) \/ ServerUnsubscribe(k, pkt) \/ ServerSubscribe(k, pkt)
      PROVE  Goal
  <2>1. /\ then = Applied(Head(procQ), l, known) /\ known = list[l] /\ procQ' = Tail(procQ) /\ UNCHANGED up
        /\ \/ proc' = None
           \/ /\ proc'.link = k /\ proc'.topics = pkt.topics /\ list' = list
              /\ Head(procQ) = <<k, pkt>> /\ pkt.type = "SUBSCRIBE"
    BY <1>7, TakenApplies
  <2>2. q # <<>> /\ Head(q) = Head(procQ) /\ next = Tail(q)
    BY <1>0, <1>1, <1>7, <2>1, LineTail
  <2>3. Head(procQ) = <<k, pkt>> /\ Head(procQ) \in Entry
    BY <1>0, <1>7, TailEntries DEF Answer, Distribute, ServerUnsubscribe, ServerSubscribe, Taken
  <2>4. k \in Link /\ pkt \in Requests /\ Head(procQ)[1] = k /\ Head(procQ)[2] = pkt
    BY <2>3 DEF Entry
  <2> HIDE DEF next, then
  <2>5. /\ End(next, l, then) = End(q, l, known)
        /\ SubscribesFit(q, l, known) =>
             /\ SubscribesFit(next, l, then)
             /\ k = l /\ pkt.type = "SUBSCRIBE" => RestIsServed(pkt.topics, known)
        /\ \A m : WillReturn(q, l, known, m) =>
             \/ WillReturn(next, l, then, m)
             \/ k = l /\ Published(pkt, m) /\ \E p \in known : Matches(pkt.topics[1], p)
    <3> DEFINE a == Tail(q)
               c == Applied(Head(q), l, known)
    <3>1. a = next /\ c = then /\ Head(q)[1] = k /\ Head(q)[2] = pkt
      BY <2>1, <2>2, <2>4
    <3>2. /\ End(a, l, c) = End(q, l, known)
          /\ SubscribesFit(q, l, known) =>
               /\ SubscribesFit(a, l, c)
               /\ Head(q)[1] = l /\ Head(q)[2].type = "SUBSCRIBE" => RestIsServed(Head(q)[2].topics, known)
          /\ \A m : WillReturn(q, l, known, m) =>
               \/ WillReturn(a, l, c, m)
               \/ /\ Head(q)[1] = l /\ Published(Head(q)[2], m)
                  /\ \E p \in known : Matches(Head(q)[2].topics[1], p)
      BY <1>1, <1>2, <2>2, FlowTail
    <3> HIDE DEF a, c
    <3> QED
      BY <3>1, <3>2
  <2>6. AtWork(proc', list'[l], l)
    BY <2>1, <2>3, <2>5 DEF AtWork
  <2>7. \A m : Arrives(down[l], m) => Arrives(down'[l], m)
    <3>1. CASE Answer(k, pkt)
      <4>1. down'[l] = down[l] \/ down'[l] = Append(down[l], Plain("ACK"))
        BY <1>0, <3>1 DEF Answer, Output, Queued
      <4> QED
        BY <1>3, <4>1, PacketTypes
    <3>2. CASE Distribute(k, pkt)
      <4>1. down'[l] = down[l] \/ down'[l] = Append(down[l], pkt)
        BY <1>0, <3>2 DEF Distribute, Output, Queued
      <4>2. pkt \in Answers
        BY <2>4, <3>2, RequestTypes DEF Distribute, Taken
      <4> QED
        BY <1>3, <4>1, <4>2
    <3>3. CASE ServerUnsubscribe(k, pkt) \/ ServerSubscribe(k, pkt)
      <4>1. down' = down
        BY <3>3 DEF ServerUnsubscribe, ServerSubscribe, wire
      <4> QED
        BY <4>1
    <3> QED
      BY <1>7, <3>1, <3>2, <3>3
  <2>8. ASSUME NEW m, k = l, Published(pkt, m), \E p \in known : Matches(pkt.topics[1], p) PROVE Arrives(down'[l], m)
    <3>1. pkt.type = "PUBLISH"
      BY <2>8 DEF Published
    <3>2. Distribute(k, pkt)
      BY <1>7, <3>1 DEF Answer, ServerUnsubscribe, ServerSubscribe, Taken
    <3>3. Len(pkt.topics) = 1 /\ pkt.topics[1] \in Subject /\ pkt \in Answers
      BY <2>4, <3>1, RequestTypes
    <3>4. pkt.topics[1] \in Seq(Element) /\ pkt.topics[1] # <<>>
      BY <3>3, Elements
    <3>5. list[l] = {p \in Pattern : IsMember(p, l)}
      BY DEF ServerFits, Registered
    <3>6. l \in GetClients(pkt.topics[1])
      BY <2>1, <2>8, <3>4, <3>5, WalkMatches
    <3>7. srv[l] = "open"
      <4>1. 1 \in DOMAIN procQ /\ procQ[1][1] = l
        BY <1>0, <1>7, <2>4, <2>8, TailEntries
      <4>2. srv[l] # "none"
        BY <4>1 DEF ServerFits, Unknown
      <4> QED
        BY <4>2 DEF TypeOK, ServerTypes
    <3>8. down'[l] = Append(down[l], pkt)
      BY <3>2, <3>6, <3>7 DEF Distribute, Output, Queued
    <3> QED
      BY <1>1, <2>8, <3>3, <3>8, AppendEntries
  <2> QED
    BY <2>5, <2>6, <2>7, <2>8
<1> QED
  BY <1>5, <1>6, <1>7 DEF ServerStep, Processor
-----------------------------------------------------------------------------
\* The client's list and the call that is under way.
Distinct(s) == \A i, j \in DOMAIN s : i # j => s[i] # s[j]

Busy(u) == u.pc \in {"wait", "put", "write", "push"}
Outside(u, s) == Busy(u) /\ u.pkt.type # "PUBLISH" => u.pkt.topics[1] \notin Range(s)

\* The conjuncts of ListFits.
LEMMA ListParts == (ListFits <=> Distinct(subs) /\ Outside(user, subs)) /\
                   (ListFits' <=> Distinct(subs') /\ Outside(user', subs'))
BY DEF ListFits, Distinct, Outside, Busy

\* A call that goes on keeps its packet.
LEMMA CallerPacket ==
  ASSUME TypeOK, Caller, Busy(user')
  PROVE  Busy(user) /\ user'.pkt = user.pkt /\ UNCHANGED subs
<1>0. UserFits(user) /\ ~Busy(IdleUser) /\ user \in UserType
  BY ClientParts DEF TypeOK, IdleUser, Call, Busy, UserFits
<1>1. CASE IoClose("user") \/ IoState("user")
  BY <1>1 DEF IoClose, IoState
<1>2. CASE Connect \/ AwaitDispatching
  <2>1. user.pc \in {"connect", "await"} => \A pc \in {"connect", "await"} : ~Busy([user EXCEPT !.pc = pc])
    BY <1>0 DEF UserType, Busy
  <2>2. user.pc \in {"connect", "await"} => ~Busy(user)
    BY DEF Busy
  <2>3. ~Busy(user')
    BY <1>0, <1>2, <2>1, <2>2 DEF Connect, AwaitDispatching
  <2> QED
    BY <2>3
<1>3. CASE Disconnect \/ Push
  BY <1>0, <1>3 DEF Disconnect, Push
<1>4. CASE SubscribeWaits \/ WriteError
  BY <1>0, <1>4 DEF SubscribeWaits, WriteError, Writing, Busy, UserType
<1>5. CASE Put
  <2>1. user.pkt \in Requests /\ user.pkt.type # "NEGOTIATE" /\ Len(user.pkt.topics) = 1 /\ Busy(user)
    BY <1>0, <1>5 DEF Put, UserFits, Busy
  <2>2. user'.pkt = user.pkt
    BY <1>0, <1>5, <2>1, PutsFits, CallLinks DEF Put
  <2> QED
    BY <1>5, <2>1, <2>2 DEF Put
<1>6. CASE WriteNothing
  <2>1. user.pc = "write" /\ user' \in After(user) /\ UNCHANGED subs
    BY <1>6 DEF WriteNothing, Writing
  <2>2. [user EXCEPT !.pc = "push"].pkt = user.pkt /\ [user EXCEPT !.pc = "put"].pkt = user.pkt
    BY <1>0 DEF UserType
  <2> QED
    BY <1>0, <2>1, <2>2, AfterFits DEF Busy
<1>7. CASE Write \/ WriteLost
  <2> DEFINE u == [user EXCEPT !.link = sock]
  <2>1. UserFits(u) /\ u.pc = "write" /\ u.pkt = user.pkt /\ user.pc = "write"
    BY <1>0, <1>7 DEF Write, WriteLost, Writing, TypeOK, ClientTypes, UserFits, UserType
  <2>2. user' \in After(u) /\ UNCHANGED subs
    BY <1>7 DEF Write, WriteLost
  <2> HIDE DEF u
  <2>3. [u EXCEPT !.pc = "push"].pkt = u.pkt /\ [u EXCEPT !.pc = "put"].pkt = u.pkt
    BY <2>1 DEF UserFits, UserType
  <2> QED
    BY <1>0, <2>1, <2>2, <2>3, AfterFits DEF Busy
<1> QED
  BY <1>1, <1>2, <1>3, <1>4, <1>5, <1>6, <1>7 DEF Caller

\* A pattern that enters the list, or leaves it.
LEMMA DistinctAppend ==
  ASSUME NEW S, NEW s \in Seq(S), NEW x \in S, Distinct(s), x \notin Range(s)
  PROVE  Distinct(Append(s, x)) /\ Range(Append(s, x)) = Range(s) \cup {x}
<1>1. /\ Len(s) \in Nat /\ DOMAIN Append(s, x) = 1 .. Len(s) + 1 /\ DOMAIN s = 1 .. Len(s)
      /\ Append(s, x)[Len(s) + 1] = x /\ \A i \in DOMAIN s : Append(s, x)[i] = s[i]
      /\ \A i \in DOMAIN Append(s, x) : i \in DOMAIN s \/ i = Len(s) + 1
  BY AppendEntries
<1>2. \A i \in DOMAIN s : s[i] # x /\ i # Len(s) + 1 /\ i \in DOMAIN Append(s, x)
  BY <1>1 DEF Range
<1>3. Len(s) + 1 \in DOMAIN Append(s, x)
  BY <1>1
<1> DEFINE t == Append(s, x)
           n == Len(s) + 1
           d == DOMAIN s
<1>4. /\ t[n] = x /\ (\A i \in d : t[i] = s[i] /\ s[i] # x /\ i # n /\ i \in DOMAIN t) /\ n \in DOMAIN t
      /\ \A i \in DOMAIN t : i \in d \/ i = n
  BY <1>1, <1>2, <1>3
<1> HIDE DEF t, n, d
<1>5. Distinct(t)
  BY <1>4 DEF Distinct, d
<1>6. Range(t) = Range(s) \cup {x}
  BY <1>4 DEF Range, d
<1> QED
  BY <1>5, <1>6 DEF t

LEMMA DistinctRemoved ==
  ASSUME NEW S, NEW s \in Seq(S), NEW n \in DOMAIN s, Distinct(s)
  PROVE  LET t == RemoveAt(s, n)
         IN  /\ Distinct(t) /\ Range(t) = Range(s) \ {s[n]}
             /\ \A served : RestIsServed(s, served) => RestIsServed(t, served)
<1> DEFINE t == RemoveAt(s, n)
           k == Len(s)
<1>1. k \in Nat /\ n \in 1 .. k /\ DOMAIN s = 1 .. k
  OBVIOUS
<1>2. DOMAIN t = 1 .. k - 1 /\ \A i \in 1 .. k - 1 : t[i] = IF i < n THEN s[i] ELSE s[i + 1]
  <2>1. t \in Seq(S) /\ Len(t) = k - 1 /\ \A i \in 1 .. k - 1 : t[i] = IF i < n THEN s[i] ELSE s[i + 1]
    BY Removed
  <2> HIDE DEF t
  <2> QED
    BY <2>1
<1> DEFINE f == [i \in 1 .. k - 1 |-> IF i < n THEN i ELSE i + 1]
<1>3. \A i \in DOMAIN t : /\ f[i] \in DOMAIN s /\ f[i] # n /\ t[i] = s[f[i]]
                          /\ \A j \in DOMAIN t : (i < j => f[i] < f[j]) /\ (i # j => f[i] # f[j])
  BY <1>1, <1>2
<1>4. \A j \in DOMAIN s : j = n \/ \E i \in DOMAIN t : j = f[i]
  <2> SUFFICES ASSUME NEW j \in DOMAIN s, j # n PROVE \E i \in DOMAIN t : j = f[i]
    OBVIOUS
  <2>1. CASE j < n
    <3>1. j \in DOMAIN t /\ f[j] = j
      BY <1>1, <1>2, <2>1
    <3> QED
      BY <3>1
  <2>2. CASE j > n
    <3>1. j - 1 \in DOMAIN t /\ f[j - 1] = j
      BY <1>1, <1>2, <2>2
    <3> QED
      BY <3>1
  <2> QED
    BY <1>1, <2>1, <2>2
<1> HIDE DEF t, f, k
<1>5. Distinct(t)
  BY <1>3 DEF Distinct
<1>6. Range(t) = Range(s) \ {s[n]}
  <2>1. ASSUME NEW p \in Range(t) PROVE p \in Range(s) \ {s[n]}
    BY <1>3, <2>1 DEF Range, Distinct
  <2>2. ASSUME NEW p \in Range(s) \ {s[n]} PROVE p \in Range(t)
    BY <1>3, <1>4, <2>2 DEF Range
  <2> QED
    BY <2>1, <2>2
<1>7. \A served : RestIsServed(s, served) => RestIsServed(t, served)
  BY <1>3 DEF RestIsServed
<1> QED
  BY <1>5, <1>6, <1>7 DEF t

LEMMA RestAppended ==
  ASSUME NEW S, NEW s \in Seq(S), NEW x \in S, NEW served, x \in served, x \notin Range(s), RestIsServed(s, served)
  PROVE  RestIsServed(Append(s, x), served)
<1>1. /\ Len(s) \in Nat /\ DOMAIN Append(s, x) = 1 .. Len(s) + 1 /\ DOMAIN s = 1 .. Len(s)
      /\ Append(s, x)[Len(s) + 1] = x /\ \A i \in DOMAIN s : Append(s, x)[i] = s[i]
  BY AppendEntries
<1> DEFINE t == Append(s, x)
           n == Len(s)
<1> SUFFICES ASSUME NEW a \in DOMAIN t, NEW b \in DOMAIN t, a < b
             PROVE  t[a] # t[b] /\ (t[a] \in served => t[b] \in served)
  BY DEF RestIsServed
<1>2. a \in DOMAIN s /\ t[a] = s[a] /\ (b = n + 1 \/ (b \in DOMAIN s /\ t[b] = s[b]))
  BY <1>1
<1>3. CASE b = n + 1
  BY <1>1, <1>2, <1>3 DEF Range
<1>4. CASE b \in DOMAIN s /\ t[b] = s[b]
  BY <1>2, <1>4 DEF RestIsServed
<1> HIDE DEF t, n
<1> QED
  BY <1>2, <1>3, <1>4

LEMMA ListFitsInit == Init => ListFits
BY DEF Init, ClientInit, IdleUser, Call, ListFits

\* The list after a step.
LEMMA ListFitsStep == TypeOK /\ ListFits /\ [Next]_vars => ListFits'
<1> SUFFICES ASSUME TypeOK, ListFits, [Next]_vars PROVE ListFits'
  OBVIOUS
<1>0. /\ Distinct(subs) /\ Outside(user, subs) /\ subs \in Seq(Pattern) /\ UserFits(user) /\ ~Busy(IdleUser)
  BY ListParts, ClientParts DEF TypeOK, ClientTypes, IdleUser, Call, Busy
<1>1. CASE UNCHANGED <<user, subs>>
  BY <1>0, <1>1, ListParts
<1>2. CASE ~Busy(user') /\ UNCHANGED subs
  BY <1>0, <1>2, ListParts DEF Outside
<1>3. CASE Reader \/ TimesOut \/ Manager
  <2>1. UNCHANGED <<user, subs>>
    BY <1>3 DEF Reader, Manager, TimesOut, Inactive, Check, Read, ReadError, Problem, Expose, Welcome,
       Negotiated, Resubscribe, Resubscribed, Ignore, IoClose, IoState, Reconnect, ConnectOK, ConnectRefused, Ping
  <2> QED
    BY <1>1, <2>1
<1>4. CASE Caller
  <2>1. CASE Push
    <3>1. subs' = Append(subs, user.pkt.topics[1]) /\ user' = IdleUser /\ user.pc = "push"
      BY <2>1 DEF Push
    <3>2. user.pkt.topics[1] \in Pattern /\ user.pkt.topics[1] \notin Range(subs)
      <4>1. user.pkt.type = "SUBSCRIBE" /\ user.pkt \in Requests /\ Len(user.pkt.topics) = 1
        BY <1>0, <3>1 DEF UserFits
      <4>2. user.pkt.topics \in Seq(Pattern)
        BY <4>1, RequestTypes
      <4> QED
        BY <1>0, <3>1, <4>1, <4>2 DEF Outside, Busy
    <3>3. Distinct(subs')
      BY <1>0, <3>1, <3>2, DistinctAppend
    <3> QED
      BY <1>0, <3>1, <3>3, ListParts DEF Outside
  <2>2. CASE ~Push
    <3>1. UNCHANGED subs
      BY <1>4, <2>2 DEF Caller, Connect, ConnectOK, ConnectRefused, AwaitDispatching, Disconnect, SubscribeWaits, Put,
         WriteNothing, Write, WriteLost, WriteError, IoClose, IoState
    <3>2. CASE Busy(user')
      <4>1. Busy(user) /\ user'.pkt = user.pkt
        BY <1>4, <3>2, CallerPacket
      <4> QED
        BY <1>0, <3>1, <4>1, ListParts DEF Outside
    <3> QED
      BY <1>2, <3>1, <3>2
  <2> QED
    BY <2>1, <2>2
<1>5. CASE Application
  <2>1. CASE CallConnect
    BY <1>2, <2>1, CallLinks DEF CallConnect, Busy
  <2>2. CASE CallDisconnect
    <3>1. subs' = <<>> /\ user'.pc = "disconnect"
      BY <2>2, CallLinks DEF CallDisconnect
    <3> QED
      BY <3>1, ListParts DEF Distinct, Outside, Busy
  <2>3. ASSUME NEW p \in Pattern, CallSubscribe(p) PROVE ListFits'
    <3>1. /\ Packet("SUBSCRIBE", <<p>>, 0) \in Requests /\ Packet("SUBSCRIBE", <<p>>, 0).type = "SUBSCRIBE"
          /\ Len(Packet("SUBSCRIBE", <<p>>, 0).topics) = 1 /\ Packet("SUBSCRIBE", <<p>>, 0).topics[1] = p
      BY CallTypes
    <3>2. user' = IdleUser \/ user'.pkt = Packet("SUBSCRIBE", <<p>>, 0)
      BY <2>3, <3>1, PutsFits, CallLinks DEF CallSubscribe
    <3>3. p \notin Range(subs) /\ UNCHANGED subs
      BY <2>3 DEF CallSubscribe
    <3> QED
      BY <1>0, <3>1, <3>2, <3>3, ListParts DEF Outside
  <2>4. ASSUME NEW p \in Pattern, CallUnsubscribe(p) PROVE ListFits'
    <3>1. /\ Packet("UNSUBSCRIBE", <<p>>, 0) \in Requests /\ Packet("UNSUBSCRIBE", <<p>>, 0).type = "UNSUBSCRIBE"
          /\ Len(Packet("UNSUBSCRIBE", <<p>>, 0).topics) = 1 /\ Packet("UNSUBSCRIBE", <<p>>, 0).topics[1] = p
      BY CallTypes
    <3>2. user' = IdleUser \/ user'.pkt = Packet("UNSUBSCRIBE", <<p>>, 0)
      BY <2>4, <3>1, PutsFits, CallLinks DEF CallUnsubscribe
    <3>3. PICK n \in DOMAIN subs : subs[n] = p /\ subs' = RemoveAt(subs, n)
      BY <2>4 DEF CallUnsubscribe
    <3>4. Distinct(subs') /\ Range(subs') = Range(subs) \ {p}
      BY <1>0, <3>3, DistinctRemoved
    <3> QED
      BY <1>0, <3>1, <3>2, <3>4, ListParts DEF Outside
  <2>5. ASSUME NEW s \in Subject, CallPublish(s) PROVE ListFits'
    <3>0. msgs + 1 \in Msg
      <4>1. msgs \in 0 .. MaxMsgs /\ msgs < MaxMsgs /\ MaxMsgs \in Nat
        BY <2>5, ClientAssumption DEF CallPublish, TypeOK, HistoryTypes
      <4> QED
        BY <4>1 DEF Msg
    <3>1. /\ Packet("PUBLISH", <<s>>, msgs + 1) \in Requests /\ Packet("PUBLISH", <<s>>, msgs + 1).type = "PUBLISH"
          /\ Len(Packet("PUBLISH", <<s>>, msgs + 1).topics) = 1
      BY <3>0, PublishType
    <3>2. user' = IdleUser \/ user'.pkt = Packet("PUBLISH", <<s>>, msgs + 1)
      BY <2>5, <3>1, PutsFits, CallLinks DEF CallPublish
    <3>3. UNCHANGED subs
      BY <2>5 DEF CallPublish
    <3> QED
      BY <1>0, <3>1, <3>2, <3>3, ListParts DEF Outside
  <2> QED
    BY <1>5, <2>1, <2>2, <2>3, <2>4, <2>5 DEF Application
<1> QED
  BY <1>1, <1>3, <1>4, <1>5
     DEF Next, ReaderStep, CallerStep, ManagerStep, ServerStep, vars, client
-----------------------------------------------------------------------------
\* What a packet more on the client's link makes of the server's subscriptions.
LEMMA AppliedPut ==
  ASSUME NEW l, NEW x \in Requests, NEW served \in SUBSET Pattern
  PROVE  /\ x.type \in {"NEGOTIATE", "PUBLISH"} => Applied(<<l, x>>, l, served) = served
         /\ x.type = "SUBSCRIBE" => Applied(<<l, x>>, l, served) = served \cup Range(x.topics)
         /\ x.type = "UNSUBSCRIBE" => Applied(<<l, x>>, l, served) = served \ Range(x.topics)
         /\ Applied(<<l, x>>, l, served) \in SUBSET Pattern
<1>1. x.type \in {"SUBSCRIBE", "UNSUBSCRIBE"} => Range(x.topics) \subseteq Pattern
  BY RequestTypes, TopicRange
<1>2. \A p : Mentions(<<l, x>>, l, p) <=> x.type \in {"SUBSCRIBE", "UNSUBSCRIBE"} /\ p \in Range(x.topics)
  BY DEF Mentions
<1>3. Applied(<<l, x>>, l, served) =
        {p \in Pattern : IF Mentions(<<l, x>>, l, p) THEN x.type = "SUBSCRIBE" ELSE p \in served}
  BY DEF Applied
<1> QED
  BY <1>1, <1>2, <1>3

\* A step that leaves the lists alone.
LEMMA AgreedKept ==
  ASSUME NEW served, NEW l, NEW md, NEW md2, NEW u, NEW v, NEW s, NEW r, NEW r2,
         Agreed(served, l, md, u, s, r),
         md2 \in {"STARTING", "NEGOTIATING"} <=> md \in {"STARTING", "NEGOTIATING"},
         v.pc = "push" => u.pc = "push" /\ v.link = u.link /\ v.pkt = u.pkt,
         \A p : Telling(u, p) => Telling(v, p),
         \A p : Telling(v, p) => Telling(u, p) \/ p \notin Range(s),
         r2.pc = "resub" => r.pc = "resub" /\ r2.patterns = r.patterns
  PROVE  Agreed(served, l, md2, v, s, r2)
BY DEF Agreed, NotResub, HasResub

\* A subscribe() or unsubscribe() is written.
LEMMA RestUnder ==
  ASSUME NEW topics, NEW served, NEW next, \A i \in DOMAIN topics : topics[i] \in served <=> topics[i] \in next,
         RestIsServed(topics, served)
  PROVE  RestIsServed(topics, next)
BY DEF RestIsServed

LEMMA AgreedWritten ==
  ASSUME NEW served \in SUBSET Pattern, NEW next \in SUBSET Pattern, NEW l, NEW md, NEW u, NEW v, NEW s \in Seq(Pattern), NEW r, NEW t,
         r.patterns \in Seq(Pattern),
         Agreed(served, l, md, u, s, r), t \notin Range(s), u.pc = "write", \A p : Telling(u, p) <=> p = t,
         \/ next = served \cup {t} /\ v.pc = "push" /\ v.pkt.topics[1] = t /\ \A p : Telling(v, p) <=> p = t
         \/ next = served \ {t} /\ v.pc = "idle"
  PROVE  Agreed(next, l, md, v, s, r)
<1>1. v.pc = "push" => v.pkt.topics[1] \in next
  OBVIOUS
<1>2. \A p : p # t => (p \in next <=> p \in served) /\ ~Telling(v, p)
  BY DEF Telling
<1>3. \A p : Telling(v, p) \/ p \in next => p # t \/ Telling(v, p)
  BY DEF Telling
<1>4. ASSUME NEW topics \in Seq(Pattern), RestIsServed(topics, served), t \notin Range(topics)
      PROVE  RestIsServed(topics, next)
  <2>1. \A i \in DOMAIN topics : topics[i] \in Range(topics)
    BY DEF Range
  <2> QED
    BY <1>2, <1>4, <2>1, RestUnder
<1>5. CASE md \in {"STARTING", "NEGOTIATING"}
  <2>1. NotResub(served, u, s, r)
    BY <1>5 DEF Agreed
  <2>2. RestIsServed(s, next)
    BY <1>4, <2>1 DEF NotResub
  <2>3. \A p \in next : p \in Range(s) \/ Telling(v, p)
    BY <1>2, <1>3, <2>1 DEF NotResub
  <2>4. r.pc = "resub" => t \notin Range(r.patterns) /\ RestIsServed(r.patterns, next)
    BY <1>4, <2>1 DEF NotResub
  <2>5. NotResub(next, v, s, r)
    BY <1>2, <2>1, <2>2, <2>3, <2>4 DEF NotResub
  <2> QED
    BY <1>1, <1>5, <2>5 DEF Agreed
<1>6. CASE md \notin {"STARTING", "NEGOTIATING"}
  <2>1. HasResub(served, u, s)
    BY <1>6 DEF Agreed
  <2>2. HasResub(next, v, s)
    <3> SUFFICES ASSUME NEW p \in Pattern, ~Telling(v, p) PROVE p \in next <=> p \in Range(s)
      BY DEF HasResub
    <3>1. CASE p # t
      BY <1>2, <2>1, <3>1 DEF HasResub
    <3>2. CASE p = t
      BY <3>2
    <3> QED
      BY <3>1, <3>2
  <2> QED
    BY <1>1, <1>6, <2>2 DEF Agreed
<1> QED
  BY <1>5, <1>6

\* A subscribe() ends.
LEMMA AgreedPushed ==
  ASSUME NEW served \in SUBSET Pattern, NEW l, NEW md, NEW u, NEW v, NEW s \in Seq(Pattern), NEW r, NEW t \in Pattern,
         Agreed(served, l, md, u, s, r), Distinct(s), t \notin Range(s), u.pc = "push", u.link = l, u.pkt.topics[1] = t, v.pc = "idle"
  PROVE  Agreed(served, l, md, v, Append(s, t), r)
<1>1. t \in served /\ ~(v.pc = "push") /\ \A p : ~Telling(v, p)
  BY DEF Agreed, Telling
<1>2. Range(Append(s, t)) = Range(s) \cup {t}
  BY DistinctAppend
<1>3. \A p : Telling(u, p) => p = t
  BY DEF Telling
<1>4. CASE md \in {"STARTING", "NEGOTIATING"}
  <2>1. NotResub(served, u, s, r)
    BY <1>4 DEF Agreed
  <2>2. RestIsServed(s, served)
    BY <2>1 DEF NotResub
  <2>3. RestIsServed(Append(s, t), served)
    BY <1>1, <2>2, RestAppended
  <2>4. NotResub(served, v, Append(s, t), r)
    BY <1>1, <1>2, <1>3, <2>1, <2>3 DEF NotResub
  <2> QED
    BY <1>1, <1>4, <2>4 DEF Agreed
<1>5. CASE md \notin {"STARTING", "NEGOTIATING"}
  <2>1. HasResub(served, u, s)
    BY <1>5 DEF Agreed
  <2>2. HasResub(served, v, Append(s, t))
    BY <1>1, <1>2, <1>3, <2>1 DEF HasResub
  <2> QED
    BY <1>1, <1>5, <2>2 DEF Agreed
<1> QED
  BY <1>4, <1>5

\* An unsubscribe() begins.
LEMMA AgreedRemoved ==
  ASSUME NEW served \in SUBSET Pattern, NEW l, NEW md, NEW u, NEW v, NEW s \in Seq(Pattern), NEW n \in DOMAIN s, NEW r,
         Agreed(served, l, md, u, s, r), Distinct(s), r.pc # "resub", u.pc = "idle", v.pc = "write", Telling(v, s[n])
  PROVE  Agreed(served, l, md, v, RemoveAt(s, n), r)
<1>1. \A p : ~Telling(u, p)
  BY DEF Telling
<1> DEFINE t == RemoveAt(s, n)
<1>2. Range(t) = Range(s) \ {s[n]} /\ (RestIsServed(s, served) => RestIsServed(t, served))
  BY DistinctRemoved
<1> HIDE DEF t
<1>3. Agreed(served, l, md, v, t, r)
  BY <1>1, <1>2 DEF Agreed, NotResub, HasResub
<1> QED
  BY <1>3 DEF t

\* The reader copies the list, and sends it.
LEMMA AgreedCopied ==
  ASSUME NEW served, NEW l, NEW u, NEW s, NEW r, NEW r2,
         Agreed(served, l, "NEGOTIATING", u, s, r), Outside(u, s), r2.pc = "resub", r2.patterns = s
  PROVE  Agreed(served, l, "NEGOTIATING", u, s, r2)
BY DEF Agreed, NotResub, Outside, Busy, Telling

LEMMA AgreedResubscribed ==
  ASSUME NEW served, NEW l, NEW u, NEW s, NEW r, NEW r2,
         Agreed(served, l, "NEGOTIATING", u, s, r), r.pc = "resub"
  PROVE  /\ RestIsServed(r.patterns, served)
         /\ Agreed(served \cup Range(r.patterns), l, "RESUBSCRIBING", u, s, r2)
BY DEF Agreed, NotResub, HasResub
-----------------------------------------------------------------------------
\* A step of the client that puts nothing on the link in use.
LEMMA FlowKept ==
  ASSUME TypeOK, FlowFits, Live, sock' = sock, UNCHANGED <<up, server>>,
         \A served \in SUBSET Pattern :
           Agreed(served, sock, mode, user, subs, rd) => Agreed(served, sock, mode', user', subs', rd')
  PROVE  FlowFits'
<1> PICK l : l = sock
  OBVIOUS
<1> PICK q : q = LineOf(procQ, up[l], l)
  OBVIOUS
<1> PICK known : known = KnownOf(proc, list[l], l)
  OBVIOUS
<1>1. SubscribesFit(q, l, known) /\ AtWork(proc, list[l], l) /\ Agreed(End(q, l, known), l, mode, user, subs, rd)
  BY FlowNow
<1>2. End(q, l, known) \in SUBSET Pattern
  BY DEF End, WillServe
<1>3. Agreed(End(q, l, known), l, mode', user', subs', rd')
  BY <1>1, <1>2
<1>4. LineOf(procQ', up'[l], l) = q /\ KnownOf(proc', list'[l], l) = known /\ AtWork(proc', list'[l], l) /\ sock' = l
  BY <1>1 DEF server
<1> HIDE DEF Agreed, SubscribesFit, AtWork
<1> QED
  BY <1>1, <1>3, <1>4, FlowNext

\* A step that puts one.
LEMMA FlowPut ==
  ASSUME TypeOK, FlowFits, Live, sock \in Link, sock' = sock, UNCHANGED server,
         NEW x \in Requests, up' = [up EXCEPT ![sock] = Append(@, x)],
         \A served \in SUBSET Pattern :
           Agreed(served, sock, mode, user, subs, rd) =>
             /\ x.type = "SUBSCRIBE" => RestIsServed(x.topics, served)
             /\ Agreed(Applied(<<sock, x>>, sock, served), sock, mode', user', subs', rd')
  PROVE  FlowFits'
<1> PICK l : l = sock
  OBVIOUS
<1> PICK q : q = LineOf(procQ, up[l], l)
  OBVIOUS
<1> PICK known : known = KnownOf(proc, list[l], l)
  OBVIOUS
<1> PICK next : next = LineOf(procQ', up'[l], l)
  OBVIOUS
<1> PICK e : e = <<l, x>>
  OBVIOUS
<1>1. SubscribesFit(q, l, known) /\ AtWork(proc, list[l], l) /\ Agreed(End(q, l, known), l, mode, user, subs, rd)
  BY FlowNow
<1>2. End(q, l, known) \in SUBSET Pattern
  BY DEF End, WillServe
<1>3. /\ x.type = "SUBSCRIBE" => RestIsServed(x.topics, End(q, l, known))
      /\ Agreed(Applied(e, l, End(q, l, known)), l, mode', user', subs', rd')
  BY <1>1, <1>2
<1>4. procQ \in Seq(Entry) /\ up[l] \in Seq(Requests) /\ l \in Link /\ up \in [Link -> Seq(Requests)]
  BY DEF TypeOK, WireTypes, ServerTypes, Entry
<1>5. next = Append(q, e) /\ e \in Entry
  <2>1. up'[l] = Append(up[l], x) /\ procQ' = procQ
    BY <1>4 DEF server
  <2> QED
    BY <1>4, <2>1, LineAppend
<1>6. q \in Seq(Entry) /\ known \in SUBSET Pattern
  <2>1. list[l] \in SUBSET Pattern /\ (proc # None => proc.topics \in Seq(Pattern))
    BY <1>4 DEF TypeOK, ServerTypes
  <2>2. proc # None => Range(proc.topics) \subseteq Pattern
    BY <2>1, TopicRange
  <2>3. q \in Seq(Entry)
    BY <1>4, LineEntries
  <2> QED
    BY <2>1, <2>2, <2>3 DEF KnownOf
<1>7. End(next, l, known) = Applied(e, l, End(q, l, known)) /\ SubscribesFit(next, l, known)
  <2>1. e[1] = l /\ e[2].type = "SUBSCRIBE" => RestIsServed(e[2].topics, End(q, l, known))
    BY <1>3
  <2> HIDE DEF Agreed, SubscribesFit, AtWork
  <2> QED
    BY ONLY <1>1, <1>5, <1>6, <2>1, FlowAppend
<1>8. KnownOf(proc', list'[l], l) = known /\ AtWork(proc', list'[l], l) /\ sock' = l
  BY <1>1 DEF server
<1>9. Agreed(End(next, l, known), l, mode', user', subs', rd')
  BY <1>3, <1>7
<1> QED
  BY ONLY <1>7, <1>8, <1>9, FlowNext, next = LineOf(procQ', up'[l], l)
-----------------------------------------------------------------------------
\* What a step of the reader does with the lists of a link that is up.
LEMMA ReaderAgrees ==
  ASSUME TypeOK, ListFits, ReadingFits, FlowFits, Live, sock' = sock, sock \in Link, lk[sock] = "up", lk'[sock] = "up",
         state' = "CONNECTED", ReaderStep
  PROVE  FlowFits'
<1>1. /\ rd \in ReaderType /\ user \in UserType /\ 0 \notin Link /\ WireTypes /\ sock \in {0} \cup Link
      /\ subs \in Seq(Pattern) /\ (rd.pc = "resub" => rd.patterns # <<>>)
  <2>1. 0 \notin Link
    BY DEF Link
  <2> QED
    BY <2>1 DEF TypeOK, ClientTypes
<1>2. state = "CONNECTED" /\ sock # 0 /\ ~SocketFails
  BY <1>1 DEF Live, SocketFails
<1>3. ~CloseSocket
  BY <1>1, CloseTypes
<1>4. ASSUME NEW x \in Requests, NEW r, HeldPut(x, r) PROVE up' = [up EXCEPT ![sock] = Append(@, x)] /\ rd' = r
  BY <1>2, <1>3, <1>4 DEF HeldPut, SocketFails
<1>5. Outside(user, subs) /\ Distinct(subs)
  BY ListParts
<1>6. CASE (Check \/ Read \/ Problem \/ Expose \/ Ignore \/ Resubscribed) /\ UNCHANGED server
  <2>1. UNCHANGED <<up, user, subs>>
    BY <1>6 DEF Check, Read, Problem, Expose, Ignore, Resubscribed, wire
  <2>2. mode' \in {"STARTING", "NEGOTIATING"} <=> mode \in {"STARTING", "NEGOTIATING"}
    BY <1>6 DEF Check, Read, Problem, Expose, Ignore, Resubscribed, Handles
  <2>3. rd'.pc # "resub"
    <3>1. CASE Check \/ Expose \/ Ignore \/ Resubscribed
      BY <3>1, ReaderRecords DEF Check, Reads, Expose, Ignore, Resubscribed
    <3>2. CASE Problem
      <4>1. Checked \in ReaderType
        BY ReaderRecords
      <4> QED
        BY <3>2, <4>1 DEF Problem, ReaderType
    <3>3. CASE Read
      <4>1. rd.pc = "read" /\ (rd.part # None => rd.part \in Answers)
        BY <1>1, <3>3 DEF Read, Reads, ReaderType
      <4> QED
        BY <1>1, <3>3, <4>1 DEF Read, ReaderType
    <3> QED
      BY <1>6, <3>1, <3>2, <3>3
  <2>4. \A served \in SUBSET Pattern :
          Agreed(served, sock, mode, user, subs, rd) => Agreed(served, sock, mode', user', subs', rd')
    BY <2>1, <2>2, <2>3, AgreedKept
  <2> QED
    BY <1>6, <2>1, <2>4, FlowKept
<1>7. CASE TimesOut
  <2>1. UNCHANGED <<up, user, subs, mode, server>> /\ rd'.pc # "resub"
    BY <1>1, <1>7 DEF TimesOut, Inactive, Reads, ReaderType
  <2>2. \A served \in SUBSET Pattern :
          Agreed(served, sock, mode, user, subs, rd) => Agreed(served, sock, mode', user', subs', rd')
    BY <2>1, AgreedKept
  <2> QED
    BY <2>1, <2>2, FlowKept
<1>8. CASE Welcome /\ UNCHANGED server
  <2> DEFINE x == Plain("NEGOTIATE")
  <2>1. x \in Requests /\ x.type = "NEGOTIATE"
    BY PacketTypes
  <2>2. up' = [up EXCEPT ![sock] = Append(@, x)] /\ rd' = Handled
    BY <1>4, <1>8, <2>1 DEF Welcome
  <2> HIDE DEF x
  <2>3. UNCHANGED <<user, subs>> /\ mode = "STARTING" /\ mode' = "NEGOTIATING" /\ rd'.pc # "resub"
    BY <1>8, <2>2, ReaderRecords DEF Welcome, Handles
  <2>4. ASSUME NEW served \in SUBSET Pattern, Agreed(served, sock, mode, user, subs, rd)
        PROVE  Agreed(Applied(<<sock, x>>, sock, served), sock, mode', user', subs', rd')
    <3>1. Applied(<<sock, x>>, sock, served) = served
      BY <2>1, AppliedPut
    <3>2. Agreed(served, sock, mode', user', subs', rd')
      BY <2>3, <2>4, AgreedKept
    <3> QED
      BY <3>1, <3>2
  <2> QED
    BY <1>8, <2>1, <2>2, <2>4, FlowPut
<1>9. CASE Negotiated /\ UNCHANGED server
  <2>1. UNCHANGED <<up, user, subs>> /\ mode = "NEGOTIATING"
    BY <1>9 DEF Negotiated, Handles, wire
  <2>2. ASSUME NEW served \in SUBSET Pattern, Agreed(served, sock, mode, user, subs, rd)
        PROVE  Agreed(served, sock, mode', user', subs', rd')
    <3>1. CASE subs = <<>>
      <4>1. mode' = "DISPATCHING" /\ Range(subs) = {}
        BY <1>9, <3>1 DEF Negotiated, Range
      <4> QED
        BY <2>1, <2>2, <4>1 DEF Agreed, NotResub, HasResub
    <3>2. CASE subs # <<>>
      <4>1. mode' = mode /\ rd' = [Handled EXCEPT !.pc = "resub", !.patterns = subs]
        BY <1>9, <3>2 DEF Negotiated
      <4>2. rd'.pc = "resub" /\ rd'.patterns = subs
        <5>1. Handled \in ReaderType
          BY ReaderRecords
        <5> QED
          BY <4>1, <5>1 DEF ReaderType
      <4> QED
        BY <1>5, <2>1, <2>2, <4>1, <4>2, AgreedCopied
    <3> QED
      BY <3>1, <3>2
  <2> QED
    BY <1>9, <2>1, <2>2, FlowKept
<1>10. CASE Resubscribe /\ UNCHANGED server
  <2> DEFINE x == Packet("SUBSCRIBE", rd.patterns, 0)
  <2>0. rd.pc = "resub" /\ rd.patterns # <<>> /\ rd.patterns \in Seq(Pattern)
    BY <1>1, <1>10 DEF Resubscribe, ReaderType
  <2>1. x \in Requests /\ x.type = "SUBSCRIBE" /\ x.topics = rd.patterns
    BY <2>0, SubscribeType
  <2>2. up' = [up EXCEPT ![sock] = Append(@, x)]
    BY <1>4, <1>10, <2>1 DEF Resubscribe
  <2> HIDE DEF x
  <2>3. UNCHANGED <<user, subs>> /\ mode = "NEGOTIATING" /\ mode' = "RESUBSCRIBING"
    BY <1>10, <2>0 DEF Resubscribe, ReadingFits
  <2>4. ASSUME NEW served \in SUBSET Pattern, Agreed(served, sock, mode, user, subs, rd)
        PROVE  /\ x.type = "SUBSCRIBE" => RestIsServed(x.topics, served)
               /\ Agreed(Applied(<<sock, x>>, sock, served), sock, mode', user', subs', rd')
    <3>1. Applied(<<sock, x>>, sock, served) = served \cup Range(rd.patterns)
      BY <2>1, AppliedPut
    <3>2. RestIsServed(rd.patterns, served) /\
          Agreed(served \cup Range(rd.patterns), sock, "RESUBSCRIBING", user, subs, rd')
      BY <2>0, <2>3, <2>4, AgreedResubscribed
    <3> QED
      BY <2>1, <2>3, <3>1, <3>2
  <2> QED
    BY <1>10, <2>1, <2>2, <2>4, FlowPut
<1>11. CASE ReadError
  BY <1>1, <1>2, <1>11 DEF ReadError
<1>12. CASE IoClose("reader") \/ IoState("reader")
  BY <1>3, <1>12 DEF IoClose, IoState
<1> QED
  BY <1>6, <1>7, <1>8, <1>9, <1>10, <1>11, <1>12 DEF ReaderStep, Reader

\* What a step of the application, or of a call it is in, does with them.
LEMMA CallerAgrees ==
  ASSUME TypeOK, ListFits, FlowFits, Live, Live', sock' = sock, sock \in Link, lk[sock] = "up",
         lk'[sock] = "up", CallerStep \/ (LinksLeft /\ Application /\ UNCHANGED server)
  PROVE  FlowFits'
<1>1. /\ user \in UserType /\ UserFits(user) /\ 0 \notin Link /\ WireTypes /\ sock \in {0} \cup Link /\ sock # 0
      /\ subs \in Seq(Pattern) /\ rd \in ReaderType /\ rd.patterns \in Seq(Pattern)
  <2>1. 0 \notin Link
    BY DEF Link
  <2>2. rd \in ReaderType
    BY DEF TypeOK, ClientTypes
  <2> QED
    BY <2>1, <2>2, ClientParts DEF TypeOK, ClientTypes, ReaderType
<1>2. /\ state = "CONNECTED" /\ ~SocketFails /\ lapses = {} /\ user.pc # "disconnect"
      /\ state' = "CONNECTED" /\ lapses' = {} /\ user'.pc # "disconnect"
  BY <1>1 DEF Live, SocketFails
<1>3. ~CloseSocket
  BY <1>1, CloseTypes
<1>4. Outside(user, subs) /\ Distinct(subs)
  BY ListParts
<1>5. \A pc, pkt : Call(pc, pkt).pc = pc /\ Call(pc, pkt).pkt = pkt /\ IdleUser.pc = "idle"
  BY DEF Call, IdleUser
<1>6. ASSUME NEW x, user' \in Puts(x) PROVE user'.pc = "write" /\ user'.pkt = x
  BY <1>2, <1>5, <1>6 DEF Puts
<1>7. ASSUME UNCHANGED <<up, mode, subs, rd, server>>, user.pc \notin {"write", "push"}, user'.pc # "push",
             \A p : Telling(user', p) => p \notin Range(subs)
      PROVE  FlowFits'
  <2>1. \A p : ~Telling(user, p)
    BY <1>7 DEF Telling
  <2>2. \A served \in SUBSET Pattern :
          Agreed(served, sock, mode, user, subs, rd) => Agreed(served, sock, mode', user', subs', rd')
    BY <1>7, <2>1, AgreedKept
  <2> QED
    BY <1>7, <2>2, FlowKept
<1>8. CASE (Connect \/ AwaitDispatching \/ SubscribeWaits) /\ UNCHANGED server
  <2>1. UNCHANGED <<up, mode, subs, rd>> /\ user.pc \in {"connect", "await", "wait"}
    BY <1>2, <1>8 DEF Connect, AwaitDispatching, SubscribeWaits, wire
  <2>2. user'.pc \in {"connect", "idle", "put"}
    BY <1>1, <1>2, <1>5, <1>8 DEF Connect, AwaitDispatching, SubscribeWaits, UserType
  <2> QED
    BY <1>7, <1>8, <2>1, <2>2 DEF Telling
<1>9. CASE Put /\ UNCHANGED server
  <2>1. UNCHANGED <<up, mode, subs, rd>> /\ user.pc = "put" /\ user'.pc = "write" /\ user'.pkt = user.pkt
    BY <1>6, <1>9 DEF Put, wire
  <2> QED
    BY <1>4, <1>7, <1>9, <2>1 DEF Telling, Outside, Busy
<1>10. CASE (CallConnect \/ (\E s \in Subject : CallPublish(s))) /\ UNCHANGED server
  <2>1. UNCHANGED <<up, mode, subs, rd>> /\ user.pc = "idle"
    BY <1>10 DEF CallConnect, CallPublish, Calls, wire
  <2>2. user'.pc = "connect" \/ (user'.pc = "write" /\ user'.pkt.type = "PUBLISH")
    <3>1. CASE CallConnect
      BY <1>5, <3>1 DEF CallConnect
    <3>2. ASSUME NEW s \in Subject, CallPublish(s) PROVE user'.pc = "write" /\ user'.pkt.type = "PUBLISH"
      <4>1. user' \in Puts(Packet("PUBLISH", <<s>>, msgs + 1)) /\ Packet("PUBLISH", <<s>>, msgs + 1).type = "PUBLISH"
        BY <3>2 DEF CallPublish, Packet
      <4> QED
        BY <1>6, <4>1
    <3> QED
      BY <1>10, <3>1, <3>2
  <2> QED
    BY <1>7, <1>10, <2>1, <2>2 DEF Telling
<1>11. ASSUME NEW t \in Pattern, CallSubscribe(t), UNCHANGED server PROVE FlowFits'
  <2> DEFINE x == Packet("SUBSCRIBE", <<t>>, 0)
  <2>1. UNCHANGED <<up, mode, subs, rd>> /\ user.pc = "idle" /\ t \notin Range(subs)
    BY <1>11 DEF CallSubscribe, Calls, wire
  <2>2. x.topics[1] = t
    BY CallTypes
  <2>3. user'.pc \in {"wait", "write"} /\ user'.pkt = x
    BY <1>5, <1>6, <1>11 DEF CallSubscribe
  <2> HIDE DEF x
  <2> QED
    BY <1>7, <1>11, <2>1, <2>2, <2>3 DEF Telling
<1>12. ASSUME NEW t \in Pattern, CallUnsubscribe(t), UNCHANGED server PROVE FlowFits'
  <2> DEFINE x == Packet("UNSUBSCRIBE", <<t>>, 0)
  <2>1. UNCHANGED <<up, mode, rd>> /\ user.pc = "idle" /\ rd.pc # "resub"
    BY <1>2, <1>12 DEF CallUnsubscribe, Calls, wire
  <2>2. x.topics[1] = t /\ x.type = "UNSUBSCRIBE"
    BY CallTypes
  <2>3. user'.pc = "write" /\ user'.pkt = x
    BY <1>6, <1>12 DEF CallUnsubscribe
  <2>4. PICK n \in DOMAIN subs : subs[n] = t /\ subs' = RemoveAt(subs, n)
    BY <1>12 DEF CallUnsubscribe
  <2>5. Telling(user', subs[n])
    BY <2>2, <2>3, <2>4 DEF Telling
  <2>6. \A served \in SUBSET Pattern :
          Agreed(served, sock, mode, user, subs, rd) => Agreed(served, sock, mode', user', subs', rd')
    BY <1>1, <1>4, <2>1, <2>3, <2>4, <2>5, AgreedRemoved
  <2> QED
    BY <1>12, <2>1, <2>6, FlowKept
<1>13. CASE Push /\ UNCHANGED server
  <2> DEFINE t == user.pkt.topics[1]
  <2>1. UNCHANGED <<up, mode, rd>> /\ user.pc = "push" /\ user' = IdleUser /\ subs' = Append(subs, t) /\ user.link = sock
    BY <1>1, <1>2, <1>13 DEF Push, wire
  <2>2. t \in Pattern /\ t \notin Range(subs)
    <3>1. user.pkt \in Requests /\ user.pkt.type = "SUBSCRIBE" /\ Len(user.pkt.topics) = 1
      BY <1>1, <2>1 DEF UserFits
    <3>2. user.pkt.topics \in Seq(Pattern)
      BY <3>1, RequestTypes
    <3> QED
      BY <1>4, <2>1, <3>1, <3>2 DEF Outside, Busy
  <2> HIDE DEF t
  <2>3. t = user.pkt.topics[1]
    BY DEF t
  <2>4. \A served \in SUBSET Pattern :
          Agreed(served, sock, mode, user, subs, rd) => Agreed(served, sock, mode', user', subs', rd')
    BY <1>1, <1>4, <1>5, <2>1, <2>2, <2>3, AgreedPushed
  <2> QED
    BY <1>13, <2>1, <2>4, FlowKept
<1>14. CASE Write /\ UNCHANGED server
  <2> DEFINE x == user.pkt
             t == user.pkt.topics[1]
             u == [user EXCEPT !.link = sock]
  <2>1. x \in Requests /\ x.type # "NEGOTIATE" /\ Len(x.topics) = 1 /\ user.pc = "write"
    BY <1>1, <1>14 DEF Write, Writing, UserFits
  <2>2. UNCHANGED <<mode, rd, subs>> /\ ~user.err /\ up' = [up EXCEPT ![sock] = Append(@, x)] /\ user' \in After(u)
    BY <1>1, <1>2, <1>14 DEF Write, UserType
  <2>3. /\ u.pc = "write" /\ u.pkt = x /\ u.err = user.err
        /\ [u EXCEPT !.pc = "push"].pc = "push" /\ [u EXCEPT !.pc = "push"].pkt = x
    BY <1>1, <2>1 DEF UserType
  <2> HIDE DEF u
  <2>4. IF x.type = "SUBSCRIBE" THEN user'.pc = "push" /\ user'.pkt = x ELSE user'.pc = "idle"
    BY <1>5, <2>1, <2>2, <2>3 DEF After
  <2>5. x.type # "PUBLISH" =>
          /\ x.type \in {"SUBSCRIBE", "UNSUBSCRIBE"} /\ x.topics \in Seq(Pattern) /\ Range(x.topics) = {t}
          /\ t \notin Range(subs) /\ RestIsServed(x.topics, {}) /\ \A p : Telling(user, p) <=> p = t
    <3> SUFFICES ASSUME x.type # "PUBLISH"
                 PROVE  /\ x.type \in {"SUBSCRIBE", "UNSUBSCRIBE"} /\ x.topics \in Seq(Pattern) /\ Range(x.topics) = {t}
                        /\ t \notin Range(subs) /\ \A p : Telling(user, p) <=> p = t
      <4>1. x.type # "PUBLISH" => x.topics \in Seq(Pattern)
        BY <2>1, RequestTypes
      <4>2. x.topics \in Seq(Pattern) => \A a, b \in DOMAIN x.topics : ~(a < b)
        BY <2>1
      <4> QED
        BY <4>1, <4>2 DEF RestIsServed
    <3>1. x.type \in {"SUBSCRIBE", "UNSUBSCRIBE"} /\ x.topics \in Seq(Pattern)
      BY <2>1, RequestTypes
    <3>2. Range(x.topics) = {t}
      BY <2>1, <3>1, TopicRange
    <3>3. t \notin Range(subs)
      BY <1>4, <2>1 DEF Outside, Busy
    <3> QED
      BY <2>1, <3>1, <3>2, <3>3 DEF Telling
  <2>6. \A served : RestIsServed(x.topics, {}) => RestIsServed(x.topics, served)
    <3>1. x.topics \in Seq(Pattern \cup Subject)
      BY <2>1 DEF Requests, Packets
    <3> QED
      BY <2>1, <3>1 DEF RestIsServed
  <2> HIDE DEF x, t
  <2>7. ASSUME NEW served \in SUBSET Pattern, Agreed(served, sock, mode, user, subs, rd)
        PROVE  /\ x.type = "SUBSCRIBE" => RestIsServed(x.topics, served)
               /\ Agreed(Applied(<<sock, x>>, sock, served), sock, mode', user', subs', rd')
    <3> DEFINE next == Applied(<<sock, x>>, sock, served)
    <3>0. /\ x.type = "PUBLISH" => next = served
          /\ x.type = "SUBSCRIBE" => next = served \cup Range(x.topics)
          /\ x.type = "UNSUBSCRIBE" => next = served \ Range(x.topics)
          /\ next \in SUBSET Pattern
      BY <2>1, AppliedPut
    <3> HIDE DEF next
    <3>1. CASE x.type = "PUBLISH"
      <4>1. \A p : ~Telling(user, p) /\ ~Telling(user', p)
        BY <2>4, <3>1 DEF Telling, x
      <4>2. Agreed(served, sock, mode', user', subs', rd')
        BY <2>2, <2>4, <2>7, <3>1, <4>1, AgreedKept
      <4> QED
        BY <3>0, <3>1, <4>2 DEF next
    <3>2. CASE x.type = "SUBSCRIBE"
      <4>1. next = served \cup {t} /\ user'.pc = "push" /\ user'.pkt.topics[1] = t
        BY <2>4, <2>5, <3>0, <3>2 DEF x, t
      <4>2. \A p : Telling(user', p) <=> p = t
        BY <2>4, <3>2, <4>1 DEF Telling
      <4>3. Agreed(next, sock, mode, user', subs, rd)
        BY <1>1, <2>1, <2>5, <2>7, <3>0, <3>2, <4>1, <4>2, AgreedWritten
      <4> QED
        BY <2>2, <2>5, <2>6, <3>2, <4>3 DEF next
    <3>3. CASE x.type = "UNSUBSCRIBE"
      <4>1. next = served \ {t} /\ user'.pc = "idle"
        BY <2>4, <2>5, <3>0, <3>3
      <4>2. Agreed(next, sock, mode, user', subs, rd)
        BY <1>1, <2>1, <2>5, <2>7, <3>0, <3>3, <4>1, AgreedWritten
      <4> QED
        BY <2>2, <3>3, <4>2 DEF next
    <3> QED
      BY <2>5, <3>1, <3>2, <3>3
  <2> QED
    BY <1>14, <2>1, <2>2, <2>7, FlowPut DEF x
<1>15. CASE WriteNothing \/ WriteLost \/ WriteError \/ Disconnect \/ IoClose("user") \/ IoState("user")
  BY <1>2, <1>3, <1>15 DEF WriteNothing, Writing, WriteLost, WriteError, Disconnect, IoClose, IoState
<1>16. ~CallDisconnect
  BY <1>2, <1>5 DEF CallDisconnect
<1> QED
  BY <1>8, <1>9, <1>10, <1>11, <1>12, <1>13, <1>14, <1>15, <1>16 DEF CallerStep, Caller, Application
-----------------------------------------------------------------------------
\* A line without packets of the link.
LEMMA NoEntries ==
  ASSUME NEW q \in Seq(Entry), NEW l, NEW known \in SUBSET Pattern, \A i \in DOMAIN q : q[i][1] # l
  PROVE  End(q, l, known) = known /\ SubscribesFit(q, l, known) /\ \A m : ~WillReturn(q, l, known, m)
<1>1. Len(q) \in Nat /\ \A j \in 1 .. Len(q) : q[j][1] # l
  OBVIOUS
<1>2. \A p : ~\E j \in 1 .. (Len(q) + 1) - 1 : Mentions(q[j], l, p)
  BY <1>1 DEF Mentions
<1>3. \A p : Serves(q, l, known, p, Len(q) + 1) <=> p \in known
  BY <1>2 DEF Serves
<1>4. End(q, l, known) = known
  BY <1>3 DEF End, WillServe
<1> QED
  BY <1>4 DEF SubscribesFit, WillReturn

\* A link that was made just now.
LEMMA FreshFits ==
  ASSUME TypeOK, LinksFit, ServerFits, ListFits, Fresh
  PROVE  FlowFits' /\ \A m \in Msg : due'[m] # sock'
<1> PICK l : l = sock'
  OBVIOUS
<1>1. /\ l \in Link /\ lk[l] = "none" /\ up' = up /\ procQ' = procQ /\ proc' = proc /\ list' = list /\ due' = due
      /\ subs' = subs /\ mode' = "STARTING" /\ rd'.pc # "resub" /\ user'.link = user.link
  BY DEF Fresh, server
<1>2. up[l] = <<>> /\ srv[l] = "none" /\ user.link # l /\ \A m \in Msg : due[m] # l
  BY <1>1 DEF LinksFit
<1>3. list[l] = {} /\ (\A i \in DOMAIN procQ : procQ[i][1] # l) /\ (proc # None => proc.link # l)
  BY <1>1, <1>2 DEF ServerFits, Unknown
<1>4. procQ \in Seq(Entry) /\ up[l] \in Seq(Requests)
  BY <1>1 DEF TypeOK, WireTypes, ServerTypes, Entry
<1> PICK q : q = LineOf(procQ, up[l], l)
  OBVIOUS
<1>5. q \in Seq(Entry) /\ \A i \in DOMAIN q : q[i][1] # l
  <2>1. q \in Seq(Entry) /\ Len(q) = Len(procQ) + Len(up[l]) /\ \A i \in 1 .. Len(procQ) : q[i] = procQ[i]
    BY <1>1, <1>4, LineEntries
  <2>2. Len(up[l]) = 0 /\ Len(procQ) \in Nat /\ DOMAIN procQ = 1 .. Len(procQ)
    BY <1>2, <1>4
  <2>3. Len(q) = Len(procQ) /\ DOMAIN q = 1 .. Len(q)
    BY <2>1, <2>2
  <2> QED
    BY <1>3, <2>1, <2>2, <2>3
<1>6. End(q, l, {}) = {} /\ SubscribesFit(q, l, {})
  BY <1>5, NoEntries
<1>7. KnownOf(proc', list'[l], l) = {} /\ AtWork(proc', list'[l], l) /\ LineOf(procQ', up'[l], l) = q
  BY <1>1, <1>3 DEF KnownOf, AtWork
<1>8. RestIsServed(subs, {})
  <2>1. Distinct(subs) /\ subs \in Seq(Pattern)
    BY ListParts DEF TypeOK, ClientTypes
  <2> QED
    BY <2>1 DEF Distinct, RestIsServed
<1>9. Agreed(End(q, l, {}), l, mode', user', subs', rd')
  BY <1>1, <1>2, <1>6, <1>8 DEF Agreed, NotResub
<1>10. FlowFits'
  BY ONLY <1>6, <1>7, <1>9, FlowNext, l = sock'
<1> QED
  BY <1>1, <1>2, <1>10

\* A step of the server.
LEMMA ServerAgrees ==
  ASSUME TypeOK, LinksFit, ServerFits, FlowFits, Live, sock' = sock, sock \in Link, lk[sock] = "up", srv[sock] # "dead",
         ServerStep
  PROVE  FlowFits'
<1> PICK l : l = sock
  OBVIOUS
<1> PICK q : q = LineOf(procQ, up[l], l)
  OBVIOUS
<1> PICK known : known = KnownOf(proc, list[l], l)
  OBVIOUS
<1> PICK next : next = LineOf(procQ', up'[l], l)
  OBVIOUS
<1> PICK then : then = KnownOf(proc', list'[l], l)
  OBVIOUS
<1>1. SubscribesFit(q, l, known) /\ AtWork(proc, list[l], l) /\ Agreed(End(q, l, known), l, mode, user, subs, rd)
  BY FlowNow
<1>2. SubscribesFit(next, l, then) /\ AtWork(proc', list'[l], l) /\ End(next, l, then) = End(q, l, known)
  <2>1. l \in Link /\ lk[l] = "up" /\ srv[l] # "dead"
    OBVIOUS
  <2> QED
    BY <1>1, <2>1, ServerMoves
<1>3. UNCHANGED <<mode, user, subs, rd>>
  BY DEF ServerStep, client
<1>4. Agreed(End(next, l, then), l, mode', user', subs', rd')
  BY <1>1, <1>2, <1>3
<1> QED
  BY ONLY <1>2, <1>4, FlowNext, next = LineOf(procQ', up'[l], l), then = KnownOf(proc', list'[l], l), l = sock, sock' = sock

LEMMA FlowFitsInit == Init => FlowFits
BY DEF Init, ClientInit, FlowFits, Live

\* Client and server will agree after every step.
LEMMA FlowFitsStep ==
  TypeOK /\ LinksFit /\ ServerFits /\ ReadingFits /\ ListFits /\ FlowFits /\ [Next]_vars => FlowFits'
<1> SUFFICES ASSUME TypeOK, LinksFit, ServerFits, ReadingFits, ListFits, FlowFits, [Next]_vars, Live'
             PROVE  FlowFits'
  BY DEF FlowFits
<1>1. CASE Fresh
  BY <1>1, FreshFits
<1>2. CASE Live /\ sock' = sock /\ sock \in Link /\ lk[sock] = "up" /\ lk'[sock] = "up" /\ srv[sock] # "dead"
  <2>1. state = "CONNECTED" /\ state' = "CONNECTED" /\ sock # 0 /\ ~SocketFails
    BY <1>2 DEF Live, SocketFails, Link
  <2>2. CASE ReaderStep
    BY <1>2, <2>1, <2>2, ReaderAgrees
  <2>3. CASE CallerStep \/ (LinksLeft /\ Application /\ UNCHANGED server)
    BY <1>2, <2>3, CallerAgrees
  <2>4. CASE ManagerStep
    BY <2>1, <2>4 DEF ManagerStep, Manager, Reconnect, Ping
  <2>5. CASE ServerStep
    BY <1>2, <2>5, ServerAgrees
  <2>6. CASE UNCHANGED <<up, client, history, server>>
    <3>1. \A served \in SUBSET Pattern :
            Agreed(served, sock, mode, user, subs, rd) => Agreed(served, sock, mode', user', subs', rd')
      BY <2>6 DEF client
    <3> QED
      BY <1>2, <2>6, <3>1, FlowKept
  <2>7. ASSUME NEW l \in Link, Break(l), UNCHANGED <<client, history, server>> PROVE FlowFits'
    <3>1. l = sock
      BY <2>7 DEF LinksFit, Break
    <3> QED
      BY <1>2, <2>7, <3>1 DEF Break, TypeOK, WireTypes
  <2> QED
    BY <2>2, <2>3, <2>4, <2>5, <2>6, <2>7 DEF Next, vars, wire
<1> QED
  BY <1>1, <1>2, LiveStep
-----------------------------------------------------------------------------
\* Where a message is that has reached the client, or is on its way there.
Here(g, r, d, m) ==
  (\E i \in DOMAIN g : g[i] = m) \/ Handling(r, m) \/ \E i \in DOMAIN d : Published(d[i], m)

\* Arriving for the link in use.
LEMMA ArrivingNow ==
  ASSUME NEW l, sock = l, Arriving, Live, NEW m \in Msg, due[m] = l
  PROVE  /\ mode = "DISPATCHING"
         /\ Here(got, rd, down[l], m) \/ WillReturn(LineOf(procQ, up[l], l), l, KnownOf(proc, list[l], l), m)
BY DEF Arriving, Coming, Here, Handling, Line, LineOf, Known, KnownOf

LEMMA ArrivingNext ==
  ASSUME NEW l, sock' = l, NEW q, NEW known, LineOf(procQ', up'[l], l) = q, KnownOf(proc', list'[l], l) = known,
         \A m \in Msg : due'[m] = l =>
           mode' = "DISPATCHING" /\ (Here(got', rd', down'[l], m) \/ WillReturn(q, l, known, m))
  PROVE  Arriving'
BY DEF Arriving, Coming, Here, Handling, Line, LineOf, Known, KnownOf

\* A step of the client other than a write.
LEMMA ArrivingKept ==
  ASSUME TypeOK, Arriving, Live, sock' = sock, UNCHANGED <<up, server, due>>,
         mode = "DISPATCHING" => mode' = "DISPATCHING" /\
           \A m : Here(got, rd, down[sock], m) => Here(got', rd', down'[sock], m)
  PROVE  Arriving'
<1> PICK l : l = sock
  OBVIOUS
<1> PICK q : q = LineOf(procQ, up[l], l)
  OBVIOUS
<1> PICK known : known = KnownOf(proc, list[l], l)
  OBVIOUS
<1>1. LineOf(procQ', up'[l], l) = q /\ KnownOf(proc', list'[l], l) = known /\ sock' = l
  BY DEF server
<1>2. ASSUME NEW m \in Msg, due'[m] = l
      PROVE  mode' = "DISPATCHING" /\ (Here(got', rd', down'[l], m) \/ WillReturn(q, l, known, m))
  BY <1>2, ArrivingNow
<1> QED
  BY ONLY <1>1, <1>2, ArrivingNext

\* The reader takes a message to the application.
LEMMA ReaderBrings ==
  ASSUME TypeOK, ReadingFits, Arriving, Live, Live', sock' = sock, sock \in Link, lk[sock] = "up", lk'[sock] = "up",
         ReaderStep
  PROVE  Arriving'
<1>1. /\ rd \in ReaderType /\ 0 \notin Link /\ WireTypes /\ sock \in {0} \cup Link /\ sock # 0 /\ got \in Seq(1 .. Mixed)
      /\ down[sock] \in Seq(Answers)
  <2>1. 0 \notin Link
    BY DEF Link
  <2> QED
    BY <2>1 DEF TypeOK, ClientTypes, HistoryTypes, WireTypes
<1>2. state = "CONNECTED" /\ ~SocketFails /\ state' = "CONNECTED"
  BY <1>1 DEF Live, SocketFails
<1>3. ~CloseSocket
  BY <1>1, CloseTypes
<1>4. CASE (Check \/ Problem \/ Ignore) /\ UNCHANGED server
  <2>1. UNCHANGED <<up, down, due, mode, got>>
    BY <1>4 DEF Check, Problem, Ignore, wire, history
  <2>2. mode = "DISPATCHING" => \A m : ~Handling(rd, m)
    BY <1>4 DEF Check, Reads, Problem, Ignore, Handling, Published
  <2>3. mode = "DISPATCHING" => \A m : Here(got, rd, down[sock], m) => Here(got', rd', down'[sock], m)
    BY <2>1, <2>2 DEF Here
  <2> QED
    BY <1>4, <2>1, <2>3, ArrivingKept
<1>5. CASE TimesOut
  <2>1. UNCHANGED <<up, down, due, mode, got, server>> /\ rd.pc = "read"
    BY <1>5 DEF TimesOut, Inactive, Reads, history
  <2>2. \A m : Here(got, rd, down[sock], m) => Here(got', rd', down'[sock], m)
    BY <2>1 DEF Here, Handling
  <2> QED
    BY <2>1, <2>2, ArrivingKept
<1>6. CASE Expose /\ UNCHANGED server
  <2>1. UNCHANGED <<up, down, due, mode>> /\ got' = Append(got, rd.in.msg)
    BY <1>6 DEF Expose, wire
  <2>2. \A m : Handling(rd, m) \/ (\E i \in DOMAIN got : got[i] = m) => \E i \in DOMAIN got' : got'[i] = m
    <3>1. Len(got) \in Nat /\ DOMAIN got = 1 .. Len(got) /\ DOMAIN got' = 1 .. Len(got) + 1
          /\ (\A i \in 1 .. Len(got) : got'[i] = got[i]) /\ got'[Len(got) + 1] = rd.in.msg
      BY <1>1, <2>1
    <3> HIDE DEF ReaderType
    <3> QED
      BY <3>1 DEF Handling, Published
  <2>3. \A m : Here(got, rd, down[sock], m) => Here(got', rd', down'[sock], m)
    BY <2>1, <2>2 DEF Here
  <2> QED
    BY <1>6, <2>1, <2>3, ArrivingKept
<1>7. CASE Read /\ UNCHANGED server
  <2>1. UNCHANGED <<up, due, mode, got>> /\ down' = [down EXCEPT ![sock] = Tail(@)] /\ down[sock] # <<>> /\ rd.pc = "read"
    BY <1>7 DEF Read, Reads, history
  <2>2. mode = "DISPATCHING" => rd.part = None /\ rd.torn # sock
    BY <1>1 DEF ReadingFits
  <2>3. ~Head(down[sock]).cut
    <3>1. 1 \in DOMAIN down[sock] /\ Head(down[sock]) = down[sock][1]
      BY <1>1, <2>1
    <3> QED
      BY <3>1 DEF ReadingFits
  <2>4. mode = "DISPATCHING" => rd'.pc = "handle" /\ rd'.in = Head(down[sock])
    <3>1. mode = "DISPATCHING" => rd' = [rd EXCEPT !.pc = "handle", !.in = Head(down[sock]), !.part = None]
      BY <1>7, <2>2, <2>3 DEF Read
    <3> QED
      BY <1>1, <3>1 DEF ReaderType
  <2>5. ASSUME NEW m, NEW i \in DOMAIN down[sock], Published(down[sock][i], m)
        PROVE  Published(Head(down[sock]), m) \/ \E j \in DOMAIN down'[sock] : Published(down'[sock][j], m)
    <3> DEFINE s == down[sock]
    <3>1. down'[sock] = Tail(s) /\ s \in Seq(Answers) /\ s # <<>>
      BY <1>1, <2>1 DEF WireTypes
    <3>2. i \in 1 .. Len(s) /\ Len(s) \in Nat /\ Head(s) = s[1]
      BY <2>5, <3>1
    <3>3. i # 1 => i - 1 \in 1 .. Len(s) - 1 /\ (i - 1) + 1 = i
      BY <3>2
    <3>4. DOMAIN Tail(s) = 1 .. Len(s) - 1 /\ \A j \in 1 .. Len(s) - 1 : Tail(s)[j] = s[j + 1]
      BY <3>1
    <3> HIDE DEF s
    <3> QED
      BY <2>5, <3>1, <3>2, <3>3, <3>4 DEF s
  <2>6. mode = "DISPATCHING" => \A m : Here(got, rd, down[sock], m) => Here(got', rd', down'[sock], m)
    BY <2>1, <2>4, <2>5 DEF Here, Handling
  <2> QED
    BY <1>7, <2>1, <2>6, ArrivingKept
<1>8. CASE (Welcome \/ Negotiated \/ Resubscribe \/ Resubscribed) /\ UNCHANGED server
  <2>1. mode # "DISPATCHING" /\ due' = due
    BY <1>8 DEF Welcome, Negotiated, Resubscribe, Resubscribed, Handles, ReadingFits, history
  <2>2. \A m \in Msg : due[m] # sock
    BY <2>1, ArrivingNow
  <2>3. \A m \in Msg : due'[m] # sock'
    BY <2>1, <2>2
  <2> QED
    BY <2>3 DEF Arriving
<1>9. CASE ReadError \/ IoClose("reader") \/ IoState("reader")
  BY <1>1, <1>2, <1>3, <1>9 DEF ReadError, IoClose, IoState
<1> QED
  BY <1>4, <1>5, <1>6, <1>7, <1>8, <1>9 DEF ReaderStep, Reader

\* A write puts a message on the way, before a server that will have its subscription.
LEMMA CallerBrings ==
  ASSUME TypeOK, FlowFits, Arriving, Live, Live', sock' = sock, sock \in Link, lk[sock] = "up", lk'[sock] = "up",
         CallerStep \/ (LinksLeft /\ Application /\ UNCHANGED server)
  PROVE  Arriving'
<1>1. /\ user \in UserType /\ UserFits(user) /\ 0 \notin Link /\ WireTypes /\ sock \in {0} \cup Link /\ sock # 0
      /\ due \in [Msg -> {0} \cup Link]
  <2>1. 0 \notin Link
    BY DEF Link
  <2> QED
    BY <2>1, ClientParts DEF TypeOK, ClientTypes, HistoryTypes
<1>2. state = "CONNECTED" /\ ~SocketFails /\ state' = "CONNECTED" /\ user.pc # "disconnect"
  BY <1>1 DEF Live, SocketFails
<1>3. ~CloseSocket
  BY <1>1, CloseTypes
<1>4. ASSUME UNCHANGED <<up, down, due, mode, got, rd, server>> PROVE Arriving'
  <2>1. \A m : Here(got, rd, down[sock], m) => Here(got', rd', down'[sock], m)
    BY <1>4
  <2> QED
    BY <1>4, <2>1, ArrivingKept
<1>5. CASE (Connect \/ AwaitDispatching \/ SubscribeWaits \/ Put \/ Push) /\ UNCHANGED server
  BY <1>2, <1>4, <1>5 DEF Connect, AwaitDispatching, SubscribeWaits, Put, Push, wire, history
<1>6. CASE Application /\ UNCHANGED server
  BY <1>4, <1>6 DEF Application, CallConnect, CallDisconnect, CallSubscribe, CallUnsubscribe, CallPublish, wire
<1>7. CASE WriteNothing \/ WriteLost \/ WriteError \/ Disconnect \/ IoClose("user") \/ IoState("user")
  BY <1>2, <1>3, <1>7 DEF WriteNothing, Writing, WriteLost, WriteError, Disconnect, IoClose, IoState
<1>8. CASE Write /\ UNCHANGED server
  <2> DEFINE x == user.pkt
  <2>1. x \in Requests /\ user.pc = "write"
    BY <1>1, <1>8 DEF Write, Writing, UserFits
  <2>2. UNCHANGED <<down, mode, got, rd, subs>> /\ up' = [up EXCEPT ![sock] = Append(@, x)]
    BY <1>8 DEF Write
  <2>3. ASSUME NEW m \in Msg, due'[m] = sock
        PROVE  due[m] = sock \/ (Published(x, m) /\ mode = "DISPATCHING" /\ Wanted(x.topics[1]))
    <3>1. x.type = "PUBLISH" => x.msg \in Msg
      BY <2>1, RequestTypes
    <3> QED
      BY <1>1, <1>8, <2>3, <3>1 DEF Write, Published
  <2> HIDE DEF x
  <2> PICK l : l = sock
    OBVIOUS
  <2> PICK q : q = LineOf(procQ, up[l], l)
    OBVIOUS
  <2> PICK known : known = KnownOf(proc, list[l], l)
    OBVIOUS
  <2> PICK next : next = LineOf(procQ', up'[l], l)
    OBVIOUS
  <2> PICK e : e = <<l, x>>
    OBVIOUS
  <2>4. Agreed(End(q, l, known), l, mode, user, subs, rd)
    BY FlowNow
  <2>5. procQ \in Seq(Entry) /\ up[l] \in Seq(Requests) /\ l \in Link /\ up \in [Link -> Seq(Requests)]
    BY DEF TypeOK, WireTypes, ServerTypes, Entry
  <2>6. next = Append(q, e) /\ e \in Entry
    <3>1. up'[l] = Append(up[l], x) /\ procQ' = procQ
      BY <1>8, <2>2, <2>5 DEF server
    <3> QED
      BY <2>1, <2>5, <3>1, LineAppend
  <2>7. q \in Seq(Entry) /\ known \in SUBSET Pattern
    <3>1. list[l] \in SUBSET Pattern /\ (proc # None => proc.topics \in Seq(Pattern))
      BY <2>5 DEF TypeOK, ServerTypes
    <3>2. proc # None => Range(proc.topics) \subseteq Pattern
      BY <3>1, TopicRange
    <3>3. q \in Seq(Entry)
      BY <2>5, LineEntries
    <3> QED
      BY <3>1, <3>2, <3>3 DEF KnownOf
  <2>8. KnownOf(proc', list'[l], l) = known /\ sock' = l
    BY <1>8 DEF server
  <2>9. /\ \A m : WillReturn(q, l, known, m) => WillReturn(next, l, known, m)
        /\ \A m : e[1] = l /\ Published(e[2], m) /\ (\E p \in End(q, l, known) : Matches(e[2].topics[1], p)) =>
             WillReturn(next, l, known, m)
    <3> HIDE DEF WillReturn
    <3> QED
      BY ONLY <2>6, <2>7, FlowAppend
  <2>10. ASSUME NEW m \in Msg, Published(x, m), mode = "DISPATCHING", Wanted(x.topics[1])
         PROVE  WillReturn(next, l, known, m)
    <3>1. HasResub(End(q, l, known), user, subs) /\ \A p : ~Telling(user, p)
      BY <2>4, <2>10 DEF Agreed, Telling, Published, x
    <3>2. PICK i \in DOMAIN subs : Matches(x.topics[1], subs[i])
      BY <2>10 DEF Wanted
    <3>3. subs[i] \in Pattern /\ subs[i] \in Range(subs)
      BY <3>2 DEF TypeOK, ClientTypes, Range
    <3>4. subs[i] \in End(q, l, known)
      BY <3>1, <3>3 DEF HasResub
    <3>5. e[1] = l /\ e[2] = x
      OBVIOUS
    <3> QED
      BY <2>9, <2>10, <3>2, <3>4, <3>5
  <2>11. ASSUME NEW m \in Msg, due'[m] = l
         PROVE  mode' = "DISPATCHING" /\ (Here(got', rd', down'[l], m) \/ WillReturn(next, l, known, m))
    <3>1. CASE due[m] = l
      <4>1. mode = "DISPATCHING" /\ (Here(got, rd, down[l], m) \/ WillReturn(q, l, known, m))
        BY <3>1, ArrivingNow
      <4> HIDE DEF WillReturn, Here
      <4> QED
        BY <2>2, <2>9, <4>1
    <3>2. CASE due[m] # l
      BY <2>2, <2>3, <2>10, <2>11, <3>2
    <3> QED
      BY <3>1, <3>2
  <2> QED
    BY ONLY <2>8, <2>11, ArrivingNext, next = LineOf(procQ', up'[l], l)
<1> QED
  BY <1>5, <1>6, <1>7, <1>8 DEF CallerStep, Caller

\* The server takes it back to the client.
LEMMA ServerBrings ==
  ASSUME TypeOK, LinksFit, ServerFits, FlowFits, Arriving, Live, sock' = sock, sock \in Link, lk[sock] = "up",
         srv[sock] # "dead", ServerStep
  PROVE  Arriving'
<1> PICK l : l = sock
  OBVIOUS
<1> PICK q : q = LineOf(procQ, up[l], l)
  OBVIOUS
<1> PICK known : known = KnownOf(proc, list[l], l)
  OBVIOUS
<1> PICK next : next = LineOf(procQ', up'[l], l)
  OBVIOUS
<1> PICK then : then = KnownOf(proc', list'[l], l)
  OBVIOUS
<1>1. SubscribesFit(q, l, known) /\ AtWork(proc, list[l], l)
  BY FlowNow
<1>2. /\ \A m : WillReturn(q, l, known, m) =>
                  WillReturn(next, l, then, m) \/ \E i \in DOMAIN down'[l] : Published(down'[l][i], m)
      /\ \A m : (\E i \in DOMAIN down[l] : Published(down[l][i], m)) =>
                  \E i \in DOMAIN down'[l] : Published(down'[l][i], m)
  <2>1. l \in Link /\ lk[l] = "up" /\ srv[l] # "dead"
    OBVIOUS
  <2> QED
    BY <1>1, <2>1, ServerMoves
<1>3. UNCHANGED <<mode, due, got, rd>>
  BY DEF ServerStep, client, history
<1>4. ASSUME NEW m \in Msg, due'[m] = l
      PROVE  mode' = "DISPATCHING" /\ (Here(got', rd', down'[l], m) \/ WillReturn(next, l, then, m))
  <2>1. mode = "DISPATCHING" /\ (Here(got, rd, down[l], m) \/ WillReturn(q, l, known, m))
    BY <1>3, <1>4, ArrivingNow
  <2> HIDE DEF WillReturn
  <2> QED
    BY <1>2, <1>3, <2>1 DEF Here
<1> QED
  BY ONLY <1>4, ArrivingNext, next = LineOf(procQ', up'[l], l), then = KnownOf(proc', list'[l], l), l = sock, sock' = sock

LEMMA ArrivingInit == Init => Arriving
BY DEF Init, ClientInit, Arriving, Live

\* What is to come back is on its way after every step.
LEMMA ArrivingStep ==
  TypeOK /\ LinksFit /\ ServerFits /\ ReadingFits /\ ListFits /\ FlowFits /\ Arriving /\ [Next]_vars => Arriving'
<1> SUFFICES ASSUME TypeOK, LinksFit, ServerFits, ReadingFits, ListFits, FlowFits, Arriving, [Next]_vars, Live'
             PROVE  Arriving'
  BY DEF Arriving
<1>1. CASE Fresh
  <2>1. \A m \in Msg : due'[m] # sock'
    BY <1>1, FreshFits
  <2> QED
    BY <2>1 DEF Arriving
<1>2. CASE Live /\ sock' = sock /\ sock \in Link /\ lk[sock] = "up" /\ lk'[sock] = "up" /\ srv[sock] # "dead"
  <2>1. state = "CONNECTED" /\ sock # 0 /\ ~SocketFails
    BY <1>2 DEF Live, SocketFails, Link
  <2>2. CASE ReaderStep
    BY <1>2, <2>2, ReaderBrings
  <2>3. CASE CallerStep \/ (LinksLeft /\ Application /\ UNCHANGED server)
    BY <1>2, <2>3, CallerBrings
  <2>4. CASE ManagerStep
    BY <2>1, <2>4 DEF ManagerStep, Manager, Reconnect, Ping
  <2>5. CASE ServerStep
    BY <1>2, <2>5, ServerBrings
  <2>6. CASE UNCHANGED vars
    <3>1. UNCHANGED <<up, due, mode, server>> /\ \A m : Here(got, rd, down[sock], m) => Here(got', rd', down'[sock], m)
      BY <2>6 DEF vars, wire, client, history
    <3> QED
      BY <1>2, <3>1, ArrivingKept
  <2>7. ASSUME NEW l \in Link, Break(l) PROVE FALSE
    <3>1. l = sock
      BY <2>7 DEF LinksFit, Break
    <3> QED
      BY <1>2, <2>7, <3>1 DEF Break, TypeOK, WireTypes
  <2> QED
    BY <2>2, <2>3, <2>4, <2>5, <2>6, <2>7 DEF Next
<1> QED
  BY <1>1, <1>2, LiveStep
-----------------------------------------------------------------------------
\* BoltInv holds in every state: links, Clients of the server, the reader's record and the
\* places of messages fit together, and the server will have what the client has when it
\* has worked through the packets of a live link.  (Shared and SingleConnection on the
\* client's side, IOManager and RealProcessor on the server's.)
THEOREM Invariant == Spec => []BoltInv
<1>1. Init => BoltInv
  BY TypesInit, ServerFitsInit, LinksFitInit, ReadingFitsInit, OnceInit, ListFitsInit, FlowFitsInit, ArrivingInit DEF BoltInv
<1>2. BoltInv /\ [Next]_vars => BoltInv'
  <2> SUFFICES ASSUME BoltInv, [Next]_vars PROVE BoltInv'
    OBVIOUS
  <2>1. TypeOK /\ LinksFit /\ ServerFits /\ ReadingFits /\ Once /\ ListFits /\ FlowFits /\ Arriving
    BY DEF BoltInv
  <2>2. TypeOK' /\ LinksFit' /\ ServerFits' /\ ReadingFits'
    BY <2>1, TypesStep, LinksFitStep, ServerFitsStep, ReadingFitsStep
  <2>3. Once' /\ ListFits' /\ FlowFits' /\ Arriving'
    BY <2>1, OnceStep, ListFitsStep, FlowFitsStep, ArrivingStep
  <2> QED
    BY <2>2, <2>3 DEF BoltInv
<1> QED
  BY <1>1, <1>2, PTL DEF Spec

\* Every variable of the client (Shared, SingleConnection), of the links and of the server
\* (IOManager, RealProcessor) keeps its type.
THEOREM Types == Spec => []TypeOK
<1>1. BoltInv => TypeOK
  BY DEF BoltInv
<1> QED
  BY <1>1, Invariant, PTL

\* Nothing of the client's link is under way.
LEMMA QuietLine ==
  ASSUME BoltInv, Quiet, lapses = {}
  PROVE  /\ Live /\ sock \in Link /\ Registered(sock) = list[sock]
         /\ HasResub(list[sock], user, subs) /\ \A p : ~Telling(user, p)
         /\ \A m : ~WillReturn(LineOf(procQ, up[sock], sock), sock, KnownOf(proc, list[sock], sock), m)
<1>0. TypeOK /\ LinksFit /\ ServerFits /\ ReadingFits /\ FlowFits
  BY DEF BoltInv
<1> PICK l : l = sock
  OBVIOUS
<1> PICK q : q = LineOf(procQ, up[l], l)
  OBVIOUS
<1>1. /\ l \in Link /\ lk[l] = "up" /\ up[l] = <<>> /\ srv[l] # "dead" /\ Live /\ mode = "DISPATCHING" /\ user.pc = "idle"
      /\ proc = None /\ (\A i \in DOMAIN procQ : procQ[i][1] # l)
  <2>1. l \in Link /\ lk[l] = "up" /\ sock # 0
    BY <1>0 DEF Quiet, TypeOK, ClientTypes
  <2> QED
    BY <1>0, <2>1 DEF Quiet, Live, LinksFit
<1>2. procQ \in Seq(Entry) /\ up[l] \in Seq(Requests) /\ list[l] \in SUBSET Pattern
  BY <1>0, <1>1 DEF TypeOK, WireTypes, ServerTypes, Entry
<1>3. q \in Seq(Entry) /\ \A i \in DOMAIN q : q[i][1] # l
  <2>1. q \in Seq(Entry) /\ Len(q) = Len(procQ) + Len(up[l]) /\ \A i \in 1 .. Len(procQ) : q[i] = procQ[i]
    BY <1>1, <1>2, LineEntries
  <2>2. Len(up[l]) = 0 /\ Len(procQ) \in Nat /\ DOMAIN procQ = 1 .. Len(procQ)
    BY <1>1, <1>2
  <2>3. Len(q) = Len(procQ) /\ DOMAIN q = 1 .. Len(q)
    BY <2>1, <2>2
  <2> QED
    BY <1>1, <2>1, <2>2, <2>3
<1>4. KnownOf(proc, list[l], l) = list[l]
  BY <1>1 DEF KnownOf
<1>5. End(q, l, list[l]) = list[l] /\ \A m : ~WillReturn(q, l, list[l], m)
  BY <1>2, <1>3, NoEntries
<1>6. Agreed(End(q, l, list[l]), l, mode, user, subs, rd)
  BY <1>0, <1>1, <1>4, FlowNow
<1>7. HasResub(list[l], user, subs) /\ \A p : ~Telling(user, p)
  BY <1>1, <1>5, <1>6 DEF Agreed, Telling
<1>8. Registered(l) = list[l]
  BY <1>0, <1>1 DEF ServerFits
<1> HIDE DEF WillReturn, HasResub, Telling
<1> QED
  BY <1>1, <1>4, <1>5, <1>7, <1>8

\* When nothing is under way on a link that is set up, the server's Client and the
\* Distributor's tree have for it the subscriptions the client has, whatever links were
\* lost and resubscribed before (Shared::resubscribe(), SingleConnection::subscribe() and
\* unsubscribe(), RealProcessor.subscribe()), but for what `lapses` records.
THEOREM SettledSubscriptions == Spec => []Settled
<1>1. BoltInv => Settled
  <2> SUFFICES ASSUME BoltInv, Quiet, lapses = {} PROVE list[sock] = Range(subs) /\ Registered(sock) = Range(subs)
    BY DEF Settled
  <2>1. /\ sock \in Link /\ Registered(sock) = list[sock] /\ HasResub(list[sock], user, subs)
        /\ \A p : ~Telling(user, p)
    BY QuietLine
  <2>2. list[sock] \in SUBSET Pattern /\ subs \in Seq(Pattern)
    BY <2>1 DEF BoltInv, TypeOK, ServerTypes, ClientTypes
  <2>3. Range(subs) \subseteq Pattern
    BY <2>2, TopicRange
  <2> QED
    BY <2>1, <2>2, <2>3 DEF HasResub
<1> QED
  BY <1>1, Invariant, PTL

\* A message on a subject the client is subscribed to, written to a link that is set up,
\* has come back when nothing is under way any more and the link is still there
\* (Shared::write(), RealDistributor.distribute(), Shared::handle()).
THEOREM PublishedReturn == Spec => []PublishedArrives
<1>1. BoltInv => PublishedArrives
  <2> SUFFICES ASSUME BoltInv, Quiet, lapses = {}, down[sock] = <<>>, rd.pc = "read", NEW m \in Msg, due[m] = sock
               PROVE  \E i \in DOMAIN got : got[i] = m
    BY DEF PublishedArrives
  <2>1. Live /\ ~WillReturn(LineOf(procQ, up[sock], sock), sock, KnownOf(proc, list[sock], sock), m)
    BY QuietLine
  <2>2. Here(got, rd, down[sock], m)
    BY <2>1, ArrivingNow DEF BoltInv
  <2>3. DOMAIN down[sock] = {}
    OBVIOUS
  <2> QED
    BY <2>2, <2>3 DEF Here, Handling
<1> QED
  BY <1>1, Invariant, PTL

\* Shared::handle() exposes no message put together from the bytes of two links, and none
\* twice unless write() has met an error and written it again.
THEOREM ExposedOnce == Spec => []Exposed
<1>1. ASSUME BoltInv, NEW i \in DOMAIN got PROVE got[i] # Mixed
  BY <1>1 DEF BoltInv, ReadingFits
<1>2. ASSUME BoltInv, NEW i \in DOMAIN got, NEW j \in DOMAIN got \ {i}, got[i] = got[j] PROVE "rewritten" \in lapses
  <2>1. got \in Seq(1 .. Mixed) /\ MaxMsgs \in Nat
    BY <1>2, ClientAssumption DEF BoltInv, TypeOK, HistoryTypes
  <2>2. i \in Nat /\ j \in Nat /\ got[i] \in 1 .. Mixed /\ got[i] # Mixed
    <3>1. DOMAIN got = 1 .. Len(got) /\ Len(got) \in Nat /\ \A k \in 1 .. Len(got) : got[k] \in 1 .. Mixed
      BY <2>1, LenProperties, ElementOfSeq
    <3> QED
      BY <1>1, <1>2, <3>1
  <2>3. got[i] \in Msg
    BY <2>1, <2>2 DEF Mixed, Msg
  <2>4. <<"got", 0, i>> \in Place /\ <<"got", 0, j>> \in Place /\ <<"got", 0, i>> # <<"got", 0, j>>
    BY <1>2, <2>2, Places
  <2>5. Holds(<<"got", 0, i>>, got[i]) /\ Holds(<<"got", 0, j>>, got[i])
    BY <1>2, <2>2, HoldsParts DEF Gets
  <2> QED
    BY <1>2, <2>3, <2>4, <2>5 DEF BoltInv, Once
<1>3. BoltInv => Exposed
  BY <1>1, <1>2 DEF Exposed
<1> QED
  BY <1>3, Invariant, PTL

\* RealDistributor.getClients() finds a client for a subject, or for a part of it from the
\* front, exactly when one of its subscriptions matches by doesSubjectMatchPattern().
THEOREM DistributesAsMatched == Spec => []Distributes
<1>1. ASSUME BoltInv, NEW l \in Link, NEW subject \in Subject, srv[l] = "open", NEW s \in Prefixes(subject) \ {<<>>}
      PROVE  l \in GetClients(s) <=> \E p \in list[l] : Matches(s, p)
  <2>2. PICK n \in 0 .. Len(subject) : s = SubSeq(subject, 1, n)
    BY DEF Prefixes
  <2>3. s \in Seq(Element)
    <3>1. subject \in Seq(Element) /\ Len(subject) \in Nat
      BY Elements, LenProperties
    <3>2. \A i \in 1 .. n : subject[i] \in Element
      BY <3>1, ElementOfSeq
    <3> QED
      BY <2>2, <3>1, <3>2, SubSeqProperties
  <2>4. list[l] = {p \in Pattern : IsMember(p, l)}
    BY <1>1 DEF BoltInv, ServerFits, Registered
  <2> QED
    BY <2>3, <2>4, WalkMatches
<1>2. BoltInv => Distributes
  BY <1>1 DEF Distributes
<1> QED
  BY <1>2, Invariant, PTL
=============================================================================
