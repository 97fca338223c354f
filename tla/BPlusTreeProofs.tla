---------------------------- MODULE BPlusTreeProofs ----------------------------
(***************************************************************************)
(* Proofs about BPlusTree, wherever its page accesses fail: the shape that *)
(* every step of every insert keeps (ShapeInv), and what follows from it   *)
(* of descents and scans.  Most lemmas are about a file of pages (ns, or   *)
(* ns before a step and ms after it) and a call (t before, u after).       *)
(***************************************************************************)
EXTENDS BPlusTree, FiniteSetTheorems, SequenceTheorems, WellFoundedInduction, TLAPS

\* A set of naturals that is not empty has a least member.
LEMMA LeastNatural ==
    ASSUME NEW S, S \subseteq Nat, S # {}
    PROVE  \E n \in S : \A m \in S : n <= m
<1>. DEFINE Less == {ss \in Nat \X Nat : ss[1] < ss[2]}
<1>1. IsWellFoundedOn(Less, Nat)
  BY NatLessThanWellFounded DEF OpToRel
<1>. HIDE DEF Less
<1>2. PICK n \in S : \A m \in S : ~ (<<m, n>> \in Less)
  BY <1>1, WFMin
<1>3. ASSUME NEW m \in S PROVE n <= m
  <2>1. m < n => <<m, n>> \in Less
    BY DEF Less
  <2>. QED BY <2>1, <1>2
<1>. QED BY <1>2, <1>3

(***************************************************************************)
(* Iterating a function.  A recursive function is the one that satisfies   *)
(* its equation, if there is one; here there is.                           *)
(***************************************************************************)
Iterates(g, f, x, a, b) == g[a] = x /\ \A n \in a + 1 .. b : g[n] = f[g[n - 1]]

ClosedUnder(S, f) == \A y \in S : f[y] \in S

\* The walk along f from x, numbered from a to b.
Walk(f, x, a, b) == LET at[n \in a .. b] == IF n = a THEN x ELSE f[at[n - 1]] IN at

\* Over a set closed under it, a function can be iterated any number of times.
LEMMA IterationExists ==
    ASSUME NEW S, NEW x \in S, NEW f, ClosedUnder(S, f),
           NEW a \in Nat, NEW N \in Nat
    PROVE  \E g \in [a .. a + N -> S] : Iterates(g, f, x, a, a + N)
<1>. DEFINE Iter(m) == \E g \in [a .. a + m -> S] : Iterates(g, f, x, a, a + m)
            Bad == {m \in Nat : ~ Iter(m)}
<1>1. SUFFICES Bad = {}
  OBVIOUS
<1>2. SUFFICES ASSUME Bad # {} PROVE FALSE
  OBVIOUS
<1>3. PICK m \in Bad : \A k \in Bad : m <= k
  <2>. HIDE DEF Iter
  <2>. QED BY <1>2, LeastNatural
<1>4. Iter(0)
  <2>. DEFINE z == [n \in a .. a |-> x]
  <2>1. z \in [a .. a -> S] /\ z[a] = x
    OBVIOUS
  <2>2. \A n \in a + 1 .. a : z[n] = f[z[n - 1]]
    OBVIOUS
  <2>. HIDE DEF z
  <2>. QED BY <2>1, <2>2 DEF Iterates
<1>5. m # 0 /\ m \in Nat
  BY <1>4
<1>6. m - 1 \in Nat /\ m - 1 \notin Bad
  <2>. HIDE DEF Iter
  <2>. QED BY <1>3, <1>5
<1>7. PICK g \in [a .. a + (m - 1) -> S] : Iterates(g, f, x, a, a + (m - 1))
  BY <1>6
<1>. DEFINE end == a + m
            e == [n \in a .. end |-> IF n = end THEN f[g[end - 1]] ELSE g[n]]
<1>8. g[a] = x /\ \A n \in a + 1 .. end - 1 : g[n] = f[g[n - 1]]
  BY <1>5, <1>7 DEF Iterates
<1>9. e \in [a .. end -> S]
  BY <1>5, <1>7 DEF ClosedUnder
<1>10. e[a] = x
  BY <1>5, <1>8
<1>11. ASSUME NEW n \in a + 1 .. end PROVE e[n] = f[e[n - 1]]
  <2>1. CASE n = end
    BY <2>1, <1>5
  <2>2. CASE n # end
    BY <2>2, <1>5, <1>8
  <2>. QED BY <2>1, <2>2
<1>12. Iter(m)
  BY <1>9, <1>10, <1>11 DEF Iterates
<1>. QED BY <1>12

\* The walk is the iteration: it starts at x and follows f.
LEMMA WalkFacts ==
    ASSUME NEW S, NEW x \in S, NEW f, ClosedUnder(S, f),
           NEW a \in Nat, NEW b \in Nat, a <= b
    PROVE  /\ Walk(f, x, a, b) \in [a .. b -> S]
           /\ Walk(f, x, a, b)[a] = x
           /\ \A n \in a + 1 .. b : Walk(f, x, a, b)[n] = f[Walk(f, x, a, b)[n - 1]]
<1>0. PICK g \in [a .. b -> S] : Iterates(g, f, x, a, b)
  <2>1. b - a \in Nat /\ b = a + (b - a)
    OBVIOUS
  <2>2. \A N \in Nat : \E g \in [a .. a + N -> S] : Iterates(g, f, x, a, a + N)
    BY IterationExists
  <2>. QED BY <2>1, <2>2
<1>1. g[a] = x /\ \A n \in a + 1 .. b : g[n] = f[g[n - 1]]
  BY <1>0 DEF Iterates
<1>2. g = [n \in a .. b |-> IF n = a THEN x ELSE f[g[n - 1]]]
  BY <1>1
<1>. DEFINE at == CHOOSE at : at = [n \in a .. b |-> IF n = a THEN x ELSE f[at[n - 1]]]
<1>3. at = [n \in a .. b |-> IF n = a THEN x ELSE f[at[n - 1]]]
  BY <1>2
<1>4. Walk(f, x, a, b) = at
  BY DEF Walk
<1>. HIDE DEF at
<1>5. at[a] = x
  BY <1>3
<1>6. \A n \in a + 1 .. b : at[n] = f[at[n - 1]]
  BY <1>3
<1>7. \A n \in a .. b : at[n] = g[n]
  <2>. DEFINE Bad == {n \in a .. b : at[n] # g[n]}
  <2>1. SUFFICES ASSUME Bad # {} PROVE FALSE
    OBVIOUS
  <2>2. PICK m \in Bad : \A k \in Bad : m <= k
    <3>1. Bad \subseteq Nat
      OBVIOUS
    <3>. HIDE DEF Bad
    <3>. QED BY <2>1, <3>1, LeastNatural
  <2>3. m # a
    BY <1>1, <1>5
  <2>4. m - 1 \in a .. b /\ m - 1 \notin Bad
    BY <2>2, <2>3
  <2>. QED BY <2>3, <2>4, <1>1, <1>6
<1>8. at = g
  BY <1>2, <1>3, <1>7
<1>. QED BY <1>1, <1>4, <1>8

\* The same of a walk numbered from zero.
LEMMA WalkFromZero ==
    ASSUME NEW S, NEW x \in S, NEW f, ClosedUnder(S, f), NEW N \in Nat
    PROVE  /\ Walk(f, x, 0, N) \in [0 .. N -> S]
           /\ Walk(f, x, 0, N)[0] = x
           /\ \A n \in 1 .. N : Walk(f, x, 0, N)[n] = f[Walk(f, x, 0, N)[n - 1]]
<1>1. \A a, b \in Nat : a <= b =>
         /\ Walk(f, x, a, b) \in [a .. b -> S]
         /\ Walk(f, x, a, b)[a] = x
         /\ \A n \in a + 1 .. b : Walk(f, x, a, b)[n] = f[Walk(f, x, a, b)[n - 1]]
  BY WalkFacts
<1>2. /\ Walk(f, x, 0, N) \in [0 .. N -> S]
      /\ Walk(f, x, 0, N)[0] = x
      /\ \A n \in 0 + 1 .. N : Walk(f, x, 0, N)[n] = f[Walk(f, x, 0, N)[n - 1]]
  <2>1. 0 \in Nat /\ 0 <= N
    OBVIOUS
  <2>. QED BY <1>1, <2>1
<1>. QED BY <1>2

\* The descent from the root is a walk.
LEMMA DescendIs == ASSUME NEW below PROVE Descend(below) = Walk(below, root, 0, Len(nodes))[Len(nodes)]
  BY DEF Descend, Walk

(***************************************************************************)
(* Finite sets of keys.                                                    *)
(***************************************************************************)
\* A finite set of integers that is not empty has a least and a greatest
\* member.
LEMMA FiniteHasExtremes ==
    ASSUME NEW S, S \subseteq Int, IsFiniteSet(S), S # {}
    PROVE  /\ \E x \in S : \A y \in S : x <= y
           /\ \E x \in S : \A y \in S : y <= x
<1>. DEFINE below(x) == {y \in S : y < x}
            above(x) == {y \in S : y > x}
            B == {Cardinality(below(x)) : x \in S}
            A == {Cardinality(above(x)) : x \in S}
<1>1. \A T \in SUBSET S : IsFiniteSet(T) /\ Cardinality(T) \in Nat
  BY FS_Subset, FS_CardinalityType
<1>2. ASSUME NEW T \in SUBSET S, NEW U \in SUBSET T, NEW x \in T, x \notin U
      PROVE  Cardinality(U) < Cardinality(T)
  <2>1. IsFiniteSet(T)
    BY <1>1
  <2>2. U # T
    BY <1>2
  <2>3. Cardinality(T) \in Nat /\ Cardinality(U) \in Nat
    BY <1>1
  <2>4. Cardinality(U) <= Cardinality(T) /\ (Cardinality(T) = Cardinality(U) => T = U)
    BY <2>1, FS_Subset
  <2>. QED BY <2>2, <2>3, <2>4
<1>3. B \subseteq Nat /\ B # {}
  <2>1. \A x \in S : below(x) \in SUBSET S
    OBVIOUS
  <2>. QED BY <1>1, <2>1
<1>4. A \subseteq Nat /\ A # {}
  <2>1. \A x \in S : above(x) \in SUBSET S
    OBVIOUS
  <2>. QED BY <1>1, <2>1
<1>5. \E x \in S : \A y \in S : x <= y
  <2>1. PICK n \in B : \A m \in B : n <= m
    <3>. HIDE DEF B
    <3>. QED BY <1>3, LeastNatural
  <2>2. PICK x \in S : n = Cardinality(below(x))
    OBVIOUS
  <2>3. ASSUME NEW y \in S, y < x PROVE FALSE
    <3>0. x \in Int /\ y \in Int /\ \A z \in S : z \in Int
      OBVIOUS
    <3>1. below(x) \in SUBSET S /\ below(y) \in SUBSET below(x) /\ y \in below(x) /\ y \notin below(y)
      <4>1. y \in below(x) /\ y \notin below(y)
        BY <2>3, <3>0
      <4>2. \A z \in below(y) : z \in below(x)
        BY <2>3, <3>0
      <4>. QED BY <4>1, <4>2
    <3>2. Cardinality(below(y)) < Cardinality(below(x))
      <4>. HIDE DEF below
      <4>. QED BY <3>1, <1>2
    <3>3. Cardinality(below(y)) \in B /\ Cardinality(below(y)) \in Nat /\ n \in Nat
      BY <1>3
    <3>. HIDE DEF B, below
    <3>. QED BY <2>1, <2>2, <3>2, <3>3
  <2>. QED BY <2>3
<1>6. \E x \in S : \A y \in S : y <= x
  <2>1. PICK n \in A : \A m \in A : n <= m
    <3>. HIDE DEF A
    <3>. QED BY <1>4, LeastNatural
  <2>2. PICK x \in S : n = Cardinality(above(x))
    OBVIOUS
  <2>3. ASSUME NEW y \in S, y > x PROVE FALSE
    <3>0. x \in Int /\ y \in Int /\ \A z \in S : z \in Int
      OBVIOUS
    <3>1. above(x) \in SUBSET S /\ above(y) \in SUBSET above(x) /\ y \in above(x) /\ y \notin above(y)
      <4>1. y \in above(x) /\ y \notin above(y)
        BY <2>3, <3>0
      <4>2. \A z \in above(y) : z \in above(x)
        BY <2>3, <3>0
      <4>. QED BY <4>1, <4>2
    <3>2. Cardinality(above(y)) < Cardinality(above(x))
      <4>. HIDE DEF above
      <4>. QED BY <3>1, <1>2
    <3>3. Cardinality(above(y)) \in A /\ Cardinality(above(y)) \in Nat /\ n \in Nat
      BY <1>4
    <3>. HIDE DEF A, above
    <3>. QED BY <2>1, <2>2, <3>2, <3>3
  <2>. QED BY <2>3
<1>. QED BY <1>5, <1>6

\* Of the keys of a leaf that overflows, the greatest goes to the right half.
LEMMA HighHalf ==
    ASSUME NEW K, K \subseteq Int, IsFiniteSet(K), Cardinality(K) > 1
    PROVE  LET high == K \ Smallest(Cardinality(K) \div 2, K)
           IN  /\ high # {} /\ high \subseteq K
               /\ \E k \in high : \A j \in high : k <= j
<1>. DEFINE n == Cardinality(K) \div 2
            low == Smallest(n, K)
            high == K \ low
<1>1. Cardinality(K) \in Nat
  BY FS_CardinalityType
<1>2. K # {}
  BY <1>1, FS_EmptySet
<1>3. PICK x \in K : \A y \in K : y <= x
  BY <1>2, FiniteHasExtremes
<1>. DEFINE L == {j \in K : j < x}
<1>4. L = K \ {x}
  <2>1. \A j \in K : j \in Int /\ j <= x
    BY <1>3
  <2>2. x \in Int
    OBVIOUS
  <2>3. \A j \in K : j < x <=> j # x
    BY <2>1, <2>2
  <2>. QED BY <2>3
<1>5. Cardinality(L) = Cardinality(K) - 1
  BY <1>4, FS_RemoveElement
<1>6. ~ (Cardinality(L) < n)
  BY <1>1, <1>5
<1>7. x \in high
  BY <1>6 DEF Smallest
<1>8. IsFiniteSet(high)
  BY FS_Subset
<1>9. high # {} /\ high \subseteq K /\ high \subseteq Int
  BY <1>7
<1>. HIDE DEF high
<1>10. \E k \in high : \A j \in high : k <= j
  BY <1>8, <1>9, FiniteHasExtremes
<1>. QED BY <1>9, <1>10 DEF high

(***************************************************************************)
(* Nodes.                                                                  *)
(***************************************************************************)
\* The fields of a node of either kind.
LEMMA NodeFields ==
    ASSUME NEW n \in Node
    PROVE  /\ n.kind \in {"leaf", "internal", "blank"}
           /\ n.kind = "leaf" =>
                 /\ n.parent \in PageIds /\ n.next \in PageIds /\ n.entries \in Entries
                 /\ n = Leaf(n.parent, n.next, n.entries)
           /\ n.kind = "internal" =>
                 /\ n.parent \in PageIds /\ n.keys \in Seq(Keys) /\ n.children \in Seq(PageIds)
                 /\ n = Internal(n.parent, n.keys, n.children)
  BY DEF Node, BlankNode, Leaf, Internal

\* A leaf is a node with the fields it was given.
LEMMA LeafNode ==
    ASSUME NEW parent \in PageIds, NEW next \in PageIds, NEW entries \in Entries
    PROVE  LET n == Leaf(parent, next, entries)
           IN  /\ n \in Node /\ n.kind = "leaf" /\ n.parent = parent /\ n.next = next
               /\ n.entries = entries
  BY DEF Node, Leaf

\* So is an internal node.
LEMMA InternalNode ==
    ASSUME NEW parent \in PageIds, NEW keys \in Seq(Keys), NEW children \in Seq(PageIds)
    PROVE  LET n == Internal(parent, keys, children)
           IN  /\ n \in Node /\ n.kind = "internal" /\ n.parent = parent /\ n.keys = keys
               /\ n.children = children
  BY DEF Node, Internal

\* A node with another parent, as SetParent writes it, is the same node
\* otherwise.
LEMMA Reparented ==
    ASSUME NEW n \in Node, n.kind # "blank", NEW q \in PageIds
    PROVE  LET m == [n EXCEPT !.parent = q]
           IN  /\ m \in Node /\ m.kind = n.kind /\ m.parent = q
               /\ n.kind = "leaf" => m.next = n.next /\ m.entries = n.entries
               /\ n.kind = "internal" => m.keys = n.keys /\ m.children = n.children
  BY DEF Node, BlankNode

\* The entries of a leaf with one more.
LEMMA WithEntryFacts ==
    ASSUME NEW e \in Entries, IsFiniteSet(DOMAIN e), NEW key \in Keys, NEW rid \in Rids
    PROVE  /\ WithEntry(e, key, rid) \in Entries
           /\ DOMAIN WithEntry(e, key, rid) = DOMAIN e \cup {key}
           /\ IsFiniteSet(DOMAIN WithEntry(e, key, rid))
           /\ WithEntry(e, key, rid)[key] = rid
           /\ \A k \in DOMAIN e : k # key => WithEntry(e, key, rid)[k] = e[k]
<1>1. DOMAIN e \in SUBSET Keys /\ e \in [DOMAIN e -> Rids]
  BY DEF Entries
<1>2. WithEntry(e, key, rid) \in [DOMAIN e \cup {key} -> Rids]
  BY <1>1 DEF WithEntry
<1>3. DOMAIN e \cup {key} \in SUBSET Keys
  BY <1>1
<1>4. IsFiniteSet(DOMAIN e \cup {key})
  BY FS_AddElement
<1>. QED BY <1>2, <1>3, <1>4 DEF Entries, WithEntry

\* Some of the entries of a leaf are entries.
LEMMA OnKeysFacts ==
    ASSUME NEW e \in Entries, NEW K \in SUBSET DOMAIN e
    PROVE  /\ OnKeys(e, K) \in Entries /\ DOMAIN OnKeys(e, K) = K
           /\ \A k \in K : OnKeys(e, K)[k] = e[k]
  BY DEF Entries, OnKeys

(***************************************************************************)
(* Sequences.                                                              *)
(***************************************************************************)
\* The sequence w is s with x before its i-th element.
IsInserted(w, s, i, x) ==
    /\ Len(w) = Len(s) + 1
    /\ \A j \in 1 .. Len(s) + 1 :
          w[j] = IF j < i THEN s[j] ELSE IF j = i THEN x ELSE s[j - 1]

\* InsertAt puts its element where it says.
LEMMA InsertAtFacts ==
    ASSUME NEW S, NEW s \in Seq(S), NEW x \in S, NEW i \in 1 .. Len(s) + 1
    PROVE  InsertAt(s, i, x) \in Seq(S) /\ IsInserted(InsertAt(s, i, x), s, i, x)
<1>. DEFINE a == SubSeq(s, 1, i - 1)
            b == SubSeq(s, i, Len(s))
<1>1. a \in Seq(S) /\ Len(a) = i - 1 /\ \A j \in 1 .. i - 1 : a[j] = s[j]
  OBVIOUS
<1>2. b \in Seq(S) /\ Len(b) = Len(s) - i + 1 /\ \A j \in 1 .. Len(s) - i + 1 : b[j] = s[i + j - 1]
  OBVIOUS
<1>3. InsertAt(s, i, x) = a \o << x >> \o b
  BY DEF InsertAt
<1>. HIDE DEF a, b
<1>. DEFINE c == a \o << x >>
<1>4. c \in Seq(S) /\ Len(c) = i /\ \A j \in 1 .. i : c[j] = IF j < i THEN a[j] ELSE x
  BY <1>1
<1>. HIDE DEF c
<1>5. c \o b \in Seq(S) /\ Len(c \o b) = Len(s) + 1
      /\ \A j \in 1 .. Len(s) + 1 : (c \o b)[j] = IF j <= i THEN c[j] ELSE b[j - i]
  <2>1. Len(c) + Len(b) = Len(s) + 1
    BY <1>2, <1>4
  <2>. QED BY <1>2, <1>4, <2>1, ConcatProperties
<1>6. InsertAt(s, i, x) = c \o b
  BY <1>3 DEF c
<1>7. ASSUME NEW j \in 1 .. Len(s) + 1
      PROVE  (c \o b)[j] = IF j < i THEN s[j] ELSE IF j = i THEN x ELSE s[j - 1]
  <2>1. CASE j < i
    BY <2>1, <1>1, <1>4, <1>5
  <2>2. CASE j = i
    BY <2>2, <1>4, <1>5
  <2>3. CASE j > i
    <3>1. (c \o b)[j] = b[j - i]
      BY <2>3, <1>5
    <3>2. j - i \in 1 .. Len(s) - i + 1
      BY <2>3
    <3>3. b[j - i] = s[i + (j - i) - 1]
      BY <3>2, <1>2
    <3>4. i + (j - i) - 1 = j - 1
      OBVIOUS
    <3>. QED BY <2>3, <3>1, <3>3, <3>4
  <2>4. i \in Int /\ j \in Int
    OBVIOUS
  <2>5. j < i \/ j = i \/ j > i
    BY <2>4
  <2>. QED BY <2>1, <2>2, <2>3, <2>5
<1>. QED BY <1>5, <1>6, <1>7 DEF IsInserted

\* The head and the tail of a sequence that is not empty.
LEMMA TailFacts ==
    ASSUME NEW S, NEW s \in Seq(S), s # << >>
    PROVE  /\ Head(s) \in S /\ Head(s) = s[1] /\ Len(s) >= 1
           /\ Tail(s) \in Seq(S) /\ Len(Tail(s)) = Len(s) - 1
           /\ \A j \in 1 .. Len(s) - 1 : Tail(s)[j] = s[j + 1]
  OBVIOUS

\* Child names a child of an internal node.
LEMMA ChildFacts ==
    ASSUME NEW n \in Node, n.kind = "internal", Len(n.children) = Len(n.keys) + 1, NEW key \in Int
    PROVE  \E i \in DOMAIN n.children :
              /\ Child(n, key) = n.children[i]
              /\ i = Cardinality({j \in DOMAIN n.keys : n.keys[j] <= key}) + 1
<1>. DEFINE J == {j \in DOMAIN n.keys : n.keys[j] <= key}
<1>1. n.keys \in Seq(Keys) /\ n.children \in Seq(PageIds)
  BY NodeFields
<1>2. DOMAIN n.keys = 1 .. Len(n.keys) /\ Len(n.keys) \in Nat
  BY <1>1
<1>3. IsFiniteSet(1 .. Len(n.keys)) /\ Cardinality(1 .. Len(n.keys)) = Len(n.keys)
  BY <1>2, FS_Interval
<1>4. J \subseteq 1 .. Len(n.keys)
  BY <1>2
<1>5. Cardinality(J) \in 0 .. Len(n.keys)
  <2>. HIDE DEF J
  <2>1. J \in SUBSET (1 .. Len(n.keys))
    BY <1>4
  <2>2. IsFiniteSet(J) /\ Cardinality(J) <= Cardinality(1 .. Len(n.keys))
    BY <1>3, <2>1, FS_Subset
  <2>3. Cardinality(J) \in Nat
    BY <2>2, FS_CardinalityType
  <2>. QED BY <1>2, <1>3, <2>2, <2>3
<1>6. Cardinality(J) + 1 \in DOMAIN n.children
  BY <1>1, <1>5
<1>. QED BY <1>6 DEF Child

(***************************************************************************)
(* Files of pages.                                                         *)
(***************************************************************************)
\* The file with one page more.
Adds(ms, ns, n) == ms = Append(ns, n)

\* The pages of a file that NewPage added one to.
LEMMA Appended ==
    ASSUME NEW ns \in Seq(Node), NEW n \in Node, NEW ms, Adds(ms, ns, n)
    PROVE  /\ ms \in Seq(Node) /\ Len(ms) = Len(ns) + 1 /\ Len(ns) \in Nat
           /\ DOMAIN ns = 1 .. Len(ns) /\ DOMAIN ms = 1 .. Len(ns) + 1
           /\ ms[Len(ns) + 1] = n
           /\ \A p \in DOMAIN ns : p \in DOMAIN ms /\ ms[p] = ns[p]
  BY DEF Adds

\* The file with one page written.
Writes(ms, ns, q, n) == ms = [ns EXCEPT ![q] = n]

\* The pages of a file that WriteNode wrote one of.
LEMMA Updated ==
    ASSUME NEW ns \in Seq(Node), NEW q \in DOMAIN ns, NEW n \in Node,
           NEW ms, Writes(ms, ns, q, n)
    PROVE  /\ ms \in Seq(Node) /\ Len(ms) = Len(ns)
           /\ DOMAIN ms = DOMAIN ns /\ DOMAIN ns = 1 .. Len(ns) /\ Len(ns) \in Nat
           /\ ms[q] = n
           /\ \A p \in DOMAIN ns : p # q => ms[p] = ns[p]
  BY DEF Writes

(***************************************************************************)
(* The shape of the tree, whatever calls were broken off.  It is stated of *)
(*   C     the pages whose children are in order: the tree, and what fell  *)
(*         off it without damage;                                          *)
(*   h     their heights, 0 for a leaf;                                    *)
(*   S     the left spine, from page 1 to top;                             *)
(*   top   the ancestor of the root that has no parent: the root, or, when *)
(*         a growth was broken off, a page above it;                       *)
(*   bad   the child of top that a broken growth left without a parent;    *)
(*   d     the place of each leaf in the chain of links;                   *)
(*   P     the pages on the way from the one that splits up to the spine.  *)
(***************************************************************************)
Pairs(entries) == {<<k, entries[k]>> : k \in DOMAIN entries}
Leaves(ns, C) == {p \in C : ns[p].kind = "leaf"}

\* The entries of the leaves.
Shown(ns, C) == UNION {Pairs(ns[p].entries) : p \in Leaves(ns, C)}

ChildOf(ns, w, c) == \E i \in DOMAIN ns[w].children : ns[w].children[i] = c
Detached(ns, C, c) == \A w \in C : ns[w].kind = "internal" => ~ ChildOf(ns, w, c)
Injective(s) == \A i, j \in DOMAIN s : s[i] = s[j] => i = j

\* An internal node: its children are one level down and name it as their parent.
Inner(ns, C, h, top, bad, p) ==
    /\ h[p] > 0
    /\ Len(ns[p].children) = Len(ns[p].keys) + 1
    /\ Injective(ns[p].children)
    /\ \A i \in DOMAIN ns[p].children :
          LET c == ns[p].children[i]
          IN  /\ c \in C /\ h[c] = h[p] - 1
              /\ ns[c].parent = p \/ (p = top /\ c = bad)

Consistent(ns, C, h, top, bad) ==
    /\ C \subseteq DOMAIN ns /\ h \in [C -> Nat]
    /\ \A p \in C :
          /\ ns[p].kind \in {"leaf", "internal"} /\ h[p] < Len(ns)
          /\ ns[p].kind = "leaf" => h[p] = 0
          /\ ns[p].kind = "internal" => Inner(ns, C, h, top, bad, p)

\* Every walk down from a page that follows children ends at a leaf.
LEMMA DescentFacts ==
    ASSUME NEW ns \in Seq(Node), NEW C, NEW h, NEW top, NEW bad,
           Consistent(ns, C, h, top, bad),
           NEW x \in C, NEW f,
           \A p \in C : ns[p].kind = "leaf" => f[p] = p,
           \A p \in C : ns[p].kind = "internal" => ChildOf(ns, p, f[p])
    PROVE  LET at == Walk(f, x, 0, Len(ns))
           IN  /\ at \in [0 .. Len(ns) -> C] /\ at[0] = x
               /\ \A n \in 1 .. Len(ns) : at[n] = f[at[n - 1]]
               /\ \A n \in 0 .. Len(ns) : h[at[n]] = IF n <= h[x] THEN h[x] - n ELSE 0
               /\ ns[at[Len(ns)]].kind = "leaf"
<1>. DEFINE at == Walk(f, x, 0, Len(ns))
<1>1. \A p \in C : f[p] \in C /\ h[f[p]] = IF h[p] = 0 THEN 0 ELSE h[p] - 1
  <2>. SUFFICES ASSUME NEW p \in C PROVE f[p] \in C /\ h[f[p]] = IF h[p] = 0 THEN 0 ELSE h[p] - 1
    OBVIOUS
  <2>1. CASE ns[p].kind = "leaf"
    BY <2>1 DEF Consistent
  <2>2. CASE ns[p].kind = "internal"
    <3>1. PICK i \in DOMAIN ns[p].children : ns[p].children[i] = f[p]
      BY <2>2 DEF ChildOf
    <3>2. h[p] > 0 /\ f[p] \in C /\ h[f[p]] = h[p] - 1
      BY <2>2, <3>1 DEF Consistent, Inner
    <3>. QED BY <3>2
  <2>. QED BY <2>1, <2>2 DEF Consistent
<1>2. Len(ns) \in Nat
  OBVIOUS
<1>3. at \in [0 .. Len(ns) -> C] /\ at[0] = x /\ \A n \in 1 .. Len(ns) : at[n] = f[at[n - 1]]
  <2>1. ClosedUnder(C, f)
    BY <1>1 DEF ClosedUnder
  <2>. DEFINE N == Len(ns)
  <2>2. N \in Nat
    BY <1>2
  <2>. HIDE DEF N
  <2>3. /\ Walk(f, x, 0, N) \in [0 .. N -> C] /\ Walk(f, x, 0, N)[0] = x
        /\ \A n \in 1 .. N : Walk(f, x, 0, N)[n] = f[Walk(f, x, 0, N)[n - 1]]
    BY <2>1, <2>2, WalkFromZero
  <2>. QED BY <2>3 DEF N
<1>. HIDE DEF at
<1>4. h \in [C -> Nat] /\ h[x] < Len(ns)
  BY DEF Consistent
<1>5. \A n \in 0 .. Len(ns) : h[at[n]] = IF n <= h[x] THEN h[x] - n ELSE 0
  <2>. DEFINE Bad == {n \in 0 .. Len(ns) : h[at[n]] # IF n <= h[x] THEN h[x] - n ELSE 0}
  <2>1. SUFFICES ASSUME Bad # {} PROVE FALSE
    OBVIOUS
  <2>2. PICK m \in Bad : \A k \in Bad : m <= k
    <3>1. Bad \subseteq Nat
      OBVIOUS
    <3>. HIDE DEF Bad
    <3>. QED BY <2>1, <3>1, LeastNatural
  <2>3. m # 0
    BY <1>3, <1>4
  <2>4. m - 1 \in 0 .. Len(ns) /\ m - 1 \notin Bad
    BY <2>2, <2>3
  <2>5. at[m - 1] \in C /\ at[m] = f[at[m - 1]] /\ h[at[m - 1]] \in Nat
    BY <2>3, <2>4, <1>3, <1>4
  <2>6. h[at[m]] = IF h[at[m - 1]] = 0 THEN 0 ELSE h[at[m - 1]] - 1
    BY <2>5, <1>1
  <2>7. h[at[m - 1]] = IF m - 1 <= h[x] THEN h[x] - (m - 1) ELSE 0
    BY <2>4
  <2>8. h[x] \in Nat /\ m \in Nat
    BY <1>4
  <2>9. h[at[m]] = IF m <= h[x] THEN h[x] - m ELSE 0
    BY <2>3, <2>6, <2>7, <2>8
  <2>. QED BY <2>9
<1>6. ns[at[Len(ns)]].kind = "leaf"
  <2>1. at[Len(ns)] \in C /\ h[at[Len(ns)]] = 0
    BY <1>2, <1>3, <1>4, <1>5
  <2>. QED BY <2>1 DEF Consistent, Inner
<1>. QED BY <1>3, <1>5, <1>6 DEF at

\* A broken growth of the root left the last child of top without a parent.
BadOK(ns, C, h, rt, top, bad) ==
    bad # None =>
        /\ h[top] > h[rt] /\ bad \in C /\ ns[bad].parent = None
        /\ ns[top].kind = "internal" /\ Len(ns[top].children) > 1
        /\ bad = ns[top].children[Len(ns[top].children)]

\* The left spine holds the root; its only leaf is page 1, the first there was.
Spine(ns, rt, C, h, S, top) ==
    /\ S \subseteq C /\ 1 \in S /\ rt \in S /\ top \in S /\ ns[top].parent = None
    /\ \A p \in S :
          /\ ns[p].kind = "leaf" => p = 1
          /\ ns[p].kind = "internal" => ns[p].children[1] \in S
          /\ p # top => /\ h[p] < h[top] /\ ns[p].parent \in S
                        /\ ns[ns[p].parent].kind = "internal"
                        /\ ns[ns[p].parent].children[1] = p

\* The leaves are linked in one chain that starts at page 1.
Chain(ns, C, d) ==
    LET L == Leaves(ns, C)
    IN  /\ d \in [L -> Nat] /\ 1 \in L /\ d[1] = 1
        /\ \A p \in L :
              /\ 1 <= d[p] /\ d[p] <= Len(ns)
              /\ ns[p].next # None => ns[p].next \in L /\ d[ns[p].next] = d[p] + 1
              /\ p # 1 => \E q \in L : ns[q].next = p

(* What ScanAll follows. *)
Leftmost(ns) ==
    [p \in DOMAIN ns |-> IF ns[p].kind = "internal" THEN Head(ns[p].children) ELSE p]
Links(ns) ==
    [p \in 0 .. Len(ns) |-> IF p = None \/ ns[p].kind # "leaf" THEN None ELSE ns[p].next]
FirstLeaf(ns, rt) == Walk(Leftmost(ns), rt, 0, Len(ns))[Len(ns)]
OrderOf(ns, rt) == Walk(Links(ns), FirstLeaf(ns, rt), 1, Len(ns) + 1)
YieldOf(ns, rt) ==
    LET at == OrderOf(ns, rt)
        on(n) == IF at[n] = None THEN << >> ELSE ns[at[n]].entries
    IN  UNION {{<<n, key, on(n)[key]>> : key \in DOMAIN on(n)} : n \in DOMAIN at}

\* The pages ScanAll visits and what it yields, as walks along the leftmost
\* children and the links.
LEMMA ScanIs == ScanOrder = OrderOf(nodes, root) /\ Scan = YieldOf(nodes, root)
<1>1. ScanOrder = OrderOf(nodes, root)
  BY DEF ScanOrder, OrderOf, FirstLeaf, Leftmost, Links, Walk, Descend
<1>. QED BY <1>1 DEF Scan, YieldOf

\* The leftmost leaf is the page the tree was created with.
LEMMA FirstLeafIsOne ==
    ASSUME NEW ns \in Seq(Node), NEW C, NEW h, NEW top, NEW bad, NEW rt, NEW S,
           Consistent(ns, C, h, top, bad), Spine(ns, rt, C, h, S, top)
    PROVE  FirstLeaf(ns, rt) = 1
<1>. DEFINE f == Leftmost(ns)
            N == Len(ns)
<1>1. \A p \in C : ns[p].kind = "leaf" => f[p] = p
  BY DEF Leftmost, Consistent
<1>2. ASSUME NEW p \in C, ns[p].kind = "internal"
      PROVE  f[p] = ns[p].children[1] /\ ChildOf(ns, p, f[p])
  <2>1. ns[p] \in Node /\ p \in DOMAIN ns
    BY DEF Consistent
  <2>2. ns[p].children \in Seq(PageIds) /\ ns[p].keys \in Seq(Keys)
    BY <1>2, <2>1, NodeFields
  <2>3. Len(ns[p].children) = Len(ns[p].keys) + 1
    BY <1>2 DEF Consistent, Inner
  <2>4. ns[p].children # << >> /\ 1 \in DOMAIN ns[p].children
    BY <2>2, <2>3
  <2>5. f[p] = Head(ns[p].children)
    BY <1>2, <2>1 DEF Leftmost
  <2>. QED BY <2>2, <2>4, <2>5, TailFacts DEF ChildOf
<1>3. rt \in C /\ N \in Nat /\ rt \in S
  BY DEF Spine
<1>4. ns[Walk(f, rt, 0, N)[N]].kind = "leaf"
  <2>. HIDE DEF f
  <2>. QED BY <1>1, <1>2, <1>3, DescentFacts
<1>5. ClosedUnder(S, f)
  BY <1>1, <1>2 DEF ClosedUnder, Spine, Consistent
<1>6. Walk(f, rt, 0, N)[N] \in S
  <2>. HIDE DEF f, N
  <2>1. Walk(f, rt, 0, N) \in [0 .. N -> S]
    BY <1>3, <1>5, WalkFromZero
  <2>. QED BY <2>1, <1>3
<1>. QED BY <1>4, <1>6 DEF FirstLeaf, Spine

\* ScanAll visits the leaves in the order of the chain, each once, and comes to
\* its end.
LEMMA OrderFacts ==
    ASSUME NEW ns \in Seq(Node), NEW C, NEW h, NEW top, NEW bad, NEW rt, NEW S, NEW d,
           Consistent(ns, C, h, top, bad), Spine(ns, rt, C, h, S, top), Chain(ns, C, d)
    PROVE  /\ OrderOf(ns, rt) \in [1 .. Len(ns) + 1 -> Leaves(ns, C) \cup {None}]
           /\ OrderOf(ns, rt)[Len(ns) + 1] = None
           /\ \A n \in 1 .. Len(ns) + 1 :
                 OrderOf(ns, rt)[n] # None => d[OrderOf(ns, rt)[n]] = n
           /\ \A p \in Leaves(ns, C) : d[p] \in 1 .. Len(ns) /\ OrderOf(ns, rt)[d[p]] = p
<1>. DEFINE f == Links(ns)
            L == Leaves(ns, C)
            V == L \cup {None}
            b == Len(ns) + 1
            at == Walk(f, 1, 1, b)
<1>1. OrderOf(ns, rt) = at
  BY FirstLeafIsOne DEF OrderOf
<1>2. b \in Nat /\ 1 <= b /\ Len(ns) \in Nat /\ b > Len(ns)
  OBVIOUS
<1>3. L \subseteq 1 .. Len(ns) /\ None \notin L
  BY DEF Leaves, Consistent, None
<1>4. f[None] = None /\ \A p \in L : f[p] = ns[p].next
  <2>1. None \in 0 .. Len(ns) /\ \A p \in L : p \in 0 .. Len(ns) /\ p # None /\ ns[p].kind = "leaf"
    BY <1>3 DEF None, Leaves
  <2>. QED BY <2>1 DEF Links
<1>5. /\ 1 \in L /\ d[1] = 1 /\ d \in [L -> Nat]
      /\ \A p \in L : /\ 1 <= d[p] /\ d[p] <= Len(ns)
                      /\ ns[p].next # None => ns[p].next \in L /\ d[ns[p].next] = d[p] + 1
                      /\ p # 1 => \E q \in L : ns[q].next = p
  BY DEF Chain
<1>. HIDE DEF f, L, b
<1>6. ClosedUnder(V, f)
  BY <1>4, <1>5 DEF ClosedUnder
<1>7. at \in [1 .. b -> V] /\ at[1] = 1 /\ \A n \in 1 + 1 .. b : at[n] = f[at[n - 1]]
  <2>1. 1 \in V /\ 1 \in Nat
    BY <1>5
  <2>. HIDE DEF V
  <2>. QED BY <1>2, <1>6, <2>1, WalkFacts
<1>. HIDE DEF at
<1>8. \A n \in 1 .. b : at[n] # None => d[at[n]] = n
  <2>. DEFINE Bad == {n \in 1 .. b : at[n] # None /\ d[at[n]] # n}
  <2>1. SUFFICES ASSUME Bad # {} PROVE FALSE
    OBVIOUS
  <2>2. PICK m \in Bad : \A k \in Bad : m <= k
    <3>1. Bad \subseteq Nat
      OBVIOUS
    <3>. HIDE DEF Bad
    <3>. QED BY <2>1, <3>1, LeastNatural
  <2>3. m # 1 /\ m \in 1 .. b
    BY <1>5, <1>7
  <2>4. m - 1 \in 1 .. b /\ m - 1 \notin Bad /\ m \in 1 + 1 .. b
    BY <1>2, <2>2, <2>3
  <2>5. at[m] = f[at[m - 1]] /\ at[m - 1] \in V
    BY <1>7, <2>4
  <2>6. at[m - 1] # None
    BY <1>4, <2>2, <2>5
  <2>7. at[m] = ns[at[m - 1]].next /\ at[m] # None /\ at[m - 1] \in L
    BY <1>4, <2>2, <2>5, <2>6
  <2>8. d[at[m]] = d[at[m - 1]] + 1 /\ d[at[m - 1]] = m - 1
    BY <1>5, <2>4, <2>6, <2>7
  <2>9. d[at[m]] = m
    BY <2>3, <2>8
  <2>. QED BY <2>2, <2>9
<1>9. at[b] = None
  <2>1. b \in 1 .. b
    BY <1>2
  <2>2. at[b] # None => d[at[b]] = b /\ at[b] \in L
    BY <1>7, <1>8, <2>1
  <2>3. ~ (b <= Len(ns))
    BY <1>2
  <2>. QED BY <1>5, <2>2, <2>3
<1>10. \A p \in L : at[d[p]] = p
  <2>. DEFINE Bad == {n \in Nat : \E p \in L : d[p] = n /\ at[n] # p}
  <2>1. SUFFICES ASSUME Bad # {} PROVE FALSE
    BY <1>5
  <2>2. PICK m \in Bad : \A k \in Bad : m <= k
    <3>1. Bad \subseteq Nat
      OBVIOUS
    <3>. HIDE DEF Bad
    <3>. QED BY <2>1, <3>1, LeastNatural
  <2>3. PICK p \in L : d[p] = m /\ at[m] # p
    OBVIOUS
  <2>4. p # 1
    BY <1>5, <1>7, <2>3
  <2>5. PICK q \in L : ns[q].next = p
    BY <1>5, <2>4
  <2>6. p # None
    BY <1>3
  <2>7. d[p] = d[q] + 1 /\ d[q] \in Nat /\ d[q] >= 1 /\ m <= Len(ns)
    BY <1>5, <2>3, <2>5, <2>6
  <2>8. d[q] < m /\ m - 1 = d[q]
    BY <2>3, <2>7
  <2>9. d[q] \notin Bad
    BY <2>2, <2>7, <2>8
  <2>10. at[m - 1] = q
    BY <2>7, <2>8, <2>9
  <2>11. m \in 1 + 1 .. b
    BY <1>2, <2>3, <2>7
  <2>12. at[m] = f[q]
    BY <1>7, <2>10, <2>11
  <2>. QED BY <1>4, <2>3, <2>5, <2>12
<1>11. \A p \in L : d[p] \in 1 .. Len(ns)
  BY <1>2, <1>5
<1>. QED BY <1>1, <1>7, <1>8, <1>9, <1>10, <1>11 DEF L, b

\* What a scan yields is what the leaves hold.
LEMMA YieldFacts ==
    ASSUME NEW ns \in Seq(Node), NEW C, NEW h, NEW top, NEW bad, NEW rt, NEW S, NEW d,
           Consistent(ns, C, h, top, bad), Spine(ns, rt, C, h, S, top), Chain(ns, C, d)
    PROVE  /\ \A e \in YieldOf(ns, rt) :
                 \E p \in Leaves(ns, C) : \E k \in DOMAIN ns[p].entries :
                    e = <<d[p], k, ns[p].entries[k]>>
           /\ \A p \in Leaves(ns, C) : \A k \in DOMAIN ns[p].entries :
                 <<d[p], k, ns[p].entries[k]>> \in YieldOf(ns, rt)
           /\ {<<e[2], e[3]>> : e \in YieldOf(ns, rt)} = Shown(ns, C)
<1>. DEFINE at == OrderOf(ns, rt)
            on(n) == IF at[n] = None THEN << >> ELSE ns[at[n]].entries
            L == Leaves(ns, C)
<1>1. /\ DOMAIN at = 1 .. Len(ns) + 1
      /\ \A n \in 1 .. Len(ns) + 1 : at[n] \in L \cup {None}
      /\ \A n \in 1 .. Len(ns) + 1 : at[n] # None => d[at[n]] = n
      /\ \A p \in L : d[p] \in 1 .. Len(ns) + 1 /\ at[d[p]] = p
  <2>1. 1 .. Len(ns) \subseteq 1 .. Len(ns) + 1
    OBVIOUS
  <2>. QED BY <2>1, OrderFacts
<1>2. None \notin L
  BY DEF Leaves, Consistent, None
<1>3. YieldOf(ns, rt) = UNION {{<<n, key, on(n)[key]>> : key \in DOMAIN on(n)} : n \in DOMAIN at}
  BY DEF YieldOf
<1>. HIDE DEF at, L
<1>4. ASSUME NEW e \in YieldOf(ns, rt)
      PROVE  \E p \in L : \E k \in DOMAIN ns[p].entries : e = <<d[p], k, ns[p].entries[k]>>
  <2>1. PICK n \in DOMAIN at : \E k \in DOMAIN on(n) : e = <<n, k, on(n)[k]>>
    BY <1>3, <1>4
  <2>2. at[n] # None
    BY <2>1
  <2>3. at[n] \in L /\ d[at[n]] = n /\ on(n) = ns[at[n]].entries
    BY <1>1, <2>2
  <2>. QED BY <2>1, <2>3
<1>5. ASSUME NEW p \in L, NEW k \in DOMAIN ns[p].entries
      PROVE  <<d[p], k, ns[p].entries[k]>> \in YieldOf(ns, rt)
  <2>1. d[p] \in DOMAIN at /\ at[d[p]] = p /\ p # None
    BY <1>1, <1>2
  <2>2. on(d[p]) = ns[p].entries
    BY <2>1
  <2>. QED BY <1>3, <2>1, <2>2
<1>6. {<<e[2], e[3]>> : e \in YieldOf(ns, rt)} \subseteq Shown(ns, C)
  BY <1>4 DEF Shown, Pairs, L
<1>7. ASSUME NEW x \in Shown(ns, C) PROVE x \in {<<e[2], e[3]>> : e \in YieldOf(ns, rt)}
  <2>1. PICK p \in L : \E k \in DOMAIN ns[p].entries : x = <<k, ns[p].entries[k]>>
    BY <1>7 DEF Shown, Pairs, L
  <2>3. PICK k \in DOMAIN ns[p].entries : x = <<k, ns[p].entries[k]>>
    BY <2>1
  <2>2. <<d[p], k, ns[p].entries[k]>> \in YieldOf(ns, rt)
    BY <1>5
  <2>. QED BY <2>2, <2>3
<1>. QED BY <1>4, <1>5, <1>6, <1>7 DEF L

-----------------------------------------------------------------------------
(* The call in progress. *)

\* From the page up to the spine, the parents are those the pages name.
Path(ns, C, h, S, P, page) ==
    /\ P \subseteq C /\ page \in P
    /\ \A x \in P : /\ h[x] >= h[page]
                    /\ x \in S \/ (ns[x].parent \in P /\ h[ns[x].parent] = h[x] + 1)

\* What holds of a split in the two phases "write" and "adopt".
Splitting(ns, t, C, h, S, P) ==
    /\ Path(ns, C, h, S, P, t.page)
    /\ t.right \in DOMAIN ns /\ t.right \notin S /\ t.right # t.page /\ Detached(ns, C, t.right)
    /\ t.up = ns[t.page].parent /\ t.node.parent = t.up /\ ns[t.right].parent = t.up

\* A leaf split: the halves hold the entries and the new one.
WriteLeaf(ns, t, C, d) ==
    /\ t.node.kind = "leaf" /\ ns[t.right].kind = "leaf" /\ t.kids = << >>
    /\ IsFiniteSet(DOMAIN t.node.entries)
    /\ t.node.next = t.right /\ ns[t.right].next = ns[t.page].next
    /\ \A p \in Leaves(ns, C) : d[p] < Len(ns)
    /\ Pairs(t.node.entries) \cup Pairs(ns[t.right].entries)
          = Pairs(ns[t.page].entries) \cup {<<t.key, t.rid>>}

\* The right half of an internal node.
Half(ns, t, C, h, S) ==
    /\ ns[t.right].kind = "internal"
    /\ Len(ns[t.right].children) = Len(ns[t.right].keys) + 1
    /\ Injective(ns[t.right].children)
    /\ \A i \in DOMAIN ns[t.right].children :
          LET c == ns[t.right].children[i]
          IN  c \in C /\ c \notin S /\ h[c] = h[t.page] - 1

\* An internal node split: the children of its right half still name the left one.
WriteInner(ns, t, C, h, S) ==
    /\ t.node.kind = "internal"
    /\ Half(ns, t, C, h, S)
    /\ t.kids = ns[t.right].children
    /\ Len(t.node.children) = Len(t.node.keys) + 1
    /\ Injective(t.node.children)
    /\ t.node.children[1] = ns[t.page].children[1]
    /\ \A i \in DOMAIN t.node.children :
          LET c == t.node.children[i]
          IN  c \in C /\ h[c] = h[t.page] - 1 /\ ns[c].parent = t.page
    /\ \A i \in DOMAIN t.kids :
          /\ \A j \in DOMAIN t.node.children : t.kids[i] # t.node.children[j]
          /\ Detached(ns, C \ {t.page}, t.kids[i])

\* The right half of an internal node, some of whose children name it.
Adopting(ns, t, C, h, S) ==
    /\ t.right \notin C /\ ns[t.page].kind = "internal"
    /\ Half(ns, t, C, h, S)
    /\ \A i \in DOMAIN ns[t.right].children :
          LET c == ns[t.right].children[i]
          IN  /\ Detached(ns, C, c)
              /\ ns[c].parent = t.right \/ \E j \in DOMAIN t.kids : t.kids[j] = c
    /\ \A j \in DOMAIN t.kids : ChildOf(ns, t.right, t.kids[j])

\* The new root is in the file and its children do not name it yet.
GrowFirst(ns, t, C, h, S, top, bad) ==
    /\ t.kids = << top, t.right >>
    /\ t.page \in DOMAIN ns /\ t.page \notin C
    /\ ns[t.page].kind = "internal" /\ ns[t.page].parent = None
    /\ ns[t.page].children = t.kids /\ Len(ns[t.page].keys) = 1
    /\ t.right \in C /\ t.right \notin S /\ h[t.right] = h[top] /\ ns[t.right].parent = None
    /\ Detached(ns, C, t.right)
    /\ bad = None /\ \A p \in C : h[p] < Len(ns) - 1

\* The left half names the new root, the right one does not yet.
GrowSecond(t, C, top, bad) == t.kids = << t.right >> /\ t.page = top /\ bad = t.right /\ bad \in C

\* A call in each of its phases.
PendingWrite(ns, t, C, h, S, d, P) ==
    /\ Splitting(ns, t, C, h, S, P)
    /\ t.right \notin C
    /\ t.node.kind = ns[t.page].kind
    /\ \/ WriteLeaf(ns, t, C, d)
       \/ WriteInner(ns, t, C, h, S) /\ <<t.key, t.rid>> \in Shown(ns, C)

PendingAdopt(ns, t, C, h, S, top, bad, P) ==
    /\ Splitting(ns, t, C, h, S, P)
    /\ t.page = top => bad = None
    /\ <<t.key, t.rid>> \in Shown(ns, C)
    /\ \/ t.kids = << >> /\ t.right \in C /\ h[t.right] = h[t.page]
       \/ t.kids # << >> /\ Adopting(ns, t, C, h, S)

PendingGrow(ns, t, C, h, S, top, bad) ==
    /\ <<t.key, t.rid>> \in Shown(ns, C)
    /\ GrowFirst(ns, t, C, h, S, top, bad) \/ GrowSecond(t, C, top, bad)

Pending(ns, t, C, h, S, top, bad, d, P) ==
    /\ t.phase = "write" => PendingWrite(ns, t, C, h, S, d, P)
    /\ t.phase = "adopt" => PendingAdopt(ns, t, C, h, S, top, bad, P)
    /\ t.phase = "grow" => PendingGrow(ns, t, C, h, S, top, bad)

\* The tree, and the tree with the call in progress.
Tree(ns, rt, C, h, S, top, bad, d) ==
    /\ Consistent(ns, C, h, top, bad)
    /\ BadOK(ns, C, h, rt, top, bad)
    /\ Spine(ns, rt, C, h, S, top)
    /\ Chain(ns, C, d)

Shape(ns, rt, t, C, h, S, top, bad, d, P) ==
    Tree(ns, rt, C, h, S, top, bad, d) /\ Pending(ns, t, C, h, S, top, bad, d, P)

FiniteLeaves(ns) ==
    \A p \in DOMAIN ns : ns[p].kind = "leaf" => IsFiniteSet(DOMAIN ns[p].entries)

\* The inductive invariant.
ShapeInv ==
    /\ TypeOK
    /\ FiniteLeaves(nodes)
    /\ \E C, h, S, top, bad, d, P :
          /\ Shape(nodes, root, task, C, h, S, top, bad, d, P)
          /\ acked \subseteq Shown(nodes, C)

-----------------------------------------------------------------------------
(* Nodes that differ in nothing the tree is made of. *)
Alike(m, n) ==
    /\ m.kind = n.kind /\ m.parent = n.parent
    /\ n.kind = "leaf" => m.next = n.next
    /\ n.kind = "internal" => m.keys = n.keys /\ m.children = n.children

AllAlike(ms, ns, C) == \A p \in C : Alike(ms[p], ns[p])

\* A step that changes no parent, child or link of the pages in order keeps the
\* shape.
LEMMA TreeFrame ==
    ASSUME NEW ns, NEW ms, NEW rt, NEW C, NEW h, NEW S, NEW top, NEW bad, NEW d,
           DOMAIN ns \subseteq DOMAIN ms, Len(ns) \in Nat, Len(ms) \in Nat, Len(ns) <= Len(ms),
           AllAlike(ms, ns, C), Tree(ns, rt, C, h, S, top, bad, d)
    PROVE  /\ Tree(ms, rt, C, h, S, top, bad, d)
           /\ Leaves(ms, C) = Leaves(ns, C)
           /\ \A c : Detached(ms, C, c) <=> Detached(ns, C, c)
<1>. USE DEF AllAlike
<1>1. /\ Consistent(ns, C, h, top, bad) /\ BadOK(ns, C, h, rt, top, bad)
      /\ Spine(ns, rt, C, h, S, top) /\ Chain(ns, C, d)
  BY DEF Tree
<1>2. Leaves(ms, C) = Leaves(ns, C)
  BY DEF Leaves, Alike
<1>3. Consistent(ms, C, h, top, bad)
  <2>1. C \subseteq DOMAIN ms /\ h \in [C -> Nat]
    BY <1>1 DEF Consistent
  <2>2. ASSUME NEW p \in C
        PROVE  /\ ms[p].kind \in {"leaf", "internal"} /\ h[p] < Len(ms)
               /\ ms[p].kind = "leaf" => h[p] = 0
    <3>1. h[p] < Len(ns) /\ h[p] \in Nat
      BY <1>1 DEF Consistent
    <3>. QED BY <1>1, <3>1 DEF Consistent, Alike
  <2>3. ASSUME NEW p \in C, ms[p].kind = "internal" PROVE Inner(ms, C, h, top, bad, p)
    <3>1. ns[p].kind = "internal" /\ ms[p].keys = ns[p].keys /\ ms[p].children = ns[p].children
      BY <2>3 DEF Alike
    <3>2. Inner(ns, C, h, top, bad, p)
      BY <1>1, <3>1 DEF Consistent
    <3>. QED BY <3>1, <3>2 DEF Inner, Alike
  <2>. QED BY <2>1, <2>2, <2>3 DEF Consistent
<1>4. BadOK(ms, C, h, rt, top, bad)
  <2>1. top \in C
    BY <1>1 DEF Spine
  <2>. QED BY <1>1, <2>1 DEF BadOK, Alike
<1>5. Spine(ms, rt, C, h, S, top)
  <2>1. S \subseteq C /\ 1 \in S /\ rt \in S /\ top \in S /\ ms[top].parent = None
    BY <1>1 DEF Spine, Alike
  <2>2. ASSUME NEW p \in S
        PROVE  /\ ms[p].kind = "leaf" => p = 1
               /\ ms[p].kind = "internal" => ms[p].children[1] \in S
               /\ p # top => /\ h[p] < h[top] /\ ms[p].parent \in S
                             /\ ms[ms[p].parent].kind = "internal"
                             /\ ms[ms[p].parent].children[1] = p
    BY <1>1, <2>1 DEF Spine, Alike
  <2>. QED BY <2>1, <2>2 DEF Spine
<1>6. Chain(ms, C, d)
  <2>. DEFINE L == Leaves(ns, C)
  <2>1. \A p \in L : ms[p].next = ns[p].next
    BY DEF Leaves, Alike
  <2>2. /\ d \in [L -> Nat] /\ 1 \in L /\ d[1] = 1
        /\ \A p \in L :
              /\ 1 <= d[p] /\ d[p] <= Len(ns)
              /\ ns[p].next # None => ns[p].next \in L /\ d[ns[p].next] = d[p] + 1
              /\ p # 1 => \E q \in L : ns[q].next = p
    BY <1>1 DEF Chain
  <2>. HIDE DEF L
  <2>3. \A p \in L : d[p] <= Len(ms)
    BY <2>2
  <2>4. Leaves(ms, C) = L
    BY <1>2 DEF L
  <2>. QED BY <2>1, <2>2, <2>3, <2>4 DEF Chain
<1>7. \A c : Detached(ms, C, c) <=> Detached(ns, C, c)
  BY DEF Detached, ChildOf, Alike
<1>. QED BY <1>2, <1>3, <1>4, <1>5, <1>6, <1>7 DEF Tree

-----------------------------------------------------------------------------
(* The state, seen through the shape. *)
DownTo(ns, key) ==
    [p \in DOMAIN ns |-> IF ns[p].kind = "internal" THEN Child(ns[p], key) ELSE p]

\* The leaf of a key, and the way to it.
LEMMA LeafForFacts ==
    ASSUME nodes \in Seq(Node), NEW C, NEW h, NEW S, NEW top, NEW bad, NEW d,
           Tree(nodes, root, C, h, S, top, bad, d), NEW key \in Int
    PROVE  /\ LeafFor(key) \in Leaves(nodes, C)
           /\ LeafFor(key) \in 1 .. Len(nodes)
           /\ \E P : Path(nodes, C, h, S, P, LeafFor(key))
<1>1. /\ Consistent(nodes, C, h, top, bad) /\ BadOK(nodes, C, h, root, top, bad)
      /\ Spine(nodes, root, C, h, S, top)
  BY DEF Tree
<1>. DEFINE f == DownTo(nodes, key)
            N == Len(nodes)
            at == Walk(f, root, 0, N)
<1>2. LeafFor(key) = at[N]
  BY DEF LeafFor, Descend, Walk, DownTo
<1>3. \A p \in C : nodes[p].kind = "leaf" => f[p] = p
  BY <1>1 DEF DownTo, Consistent
<1>4. ASSUME NEW p \in C, nodes[p].kind = "internal" PROVE ChildOf(nodes, p, f[p])
  <2>1. nodes[p] \in Node /\ p \in DOMAIN nodes /\ Len(nodes[p].children) = Len(nodes[p].keys) + 1
    BY <1>1, <1>4 DEF Consistent, Inner
  <2>2. f[p] = Child(nodes[p], key)
    BY <1>4, <2>1 DEF DownTo
  <2>. QED BY <1>4, <2>1, <2>2, ChildFacts DEF ChildOf
<1>5. root \in C /\ root \in S /\ N \in Nat /\ S \subseteq C
  BY <1>1 DEF Spine
<1>6. /\ at \in [0 .. N -> C] /\ at[0] = root
      /\ \A n \in 1 .. N : at[n] = f[at[n - 1]]
      /\ \A n \in 0 .. N : h[at[n]] = IF n <= h[root] THEN h[root] - n ELSE 0
      /\ nodes[at[N]].kind = "leaf"
  <2>. HIDE DEF f
  <2>. QED BY <1>1, <1>3, <1>4, <1>5, DescentFacts
<1>. DEFINE P == {at[n] : n \in 0 .. N}
<1>. HIDE DEF at, f, N
<1>7. at[N] \in C /\ at[N] \in P /\ P \subseteq C /\ h \in [C -> Nat]
  BY <1>1, <1>5, <1>6 DEF Consistent
<1>8. h[at[N]] = 0
  BY <1>1, <1>6, <1>7 DEF Consistent
<1>9. ASSUME NEW n \in 0 .. N
      PROVE  at[n] \in S \/ (nodes[at[n]].parent \in P /\ h[nodes[at[n]].parent] = h[at[n]] + 1)
  <2>. DEFINE Bad == {m \in 0 .. N : at[m] = at[n]}
  <2>1. PICK m \in Bad : \A k \in Bad : m <= k
    <3>1. Bad \subseteq Nat /\ n \in Bad
      OBVIOUS
    <3>. HIDE DEF Bad
    <3>. QED BY <3>1, LeastNatural
  <2>2. CASE m = 0
    BY <2>1, <2>2, <1>5, <1>6
  <2>3. CASE m # 0
    <3>1. m - 1 \in 0 .. N /\ m \in 1 .. N
      BY <2>3, <1>5
    <3>. DEFINE w == at[m - 1]
    <3>2. w \in C /\ w \in P /\ at[m] = f[w] /\ m - 1 \notin Bad
      BY <3>1, <2>1, <1>6
    <3>3. w # at[m]
      BY <2>1, <3>1, <3>2
    <3>4. nodes[w].kind = "internal"
      BY <1>1, <1>3, <3>2, <3>3 DEF Consistent
    <3>5. PICK i \in DOMAIN nodes[w].children : nodes[w].children[i] = at[m]
      BY <1>4, <3>2, <3>4 DEF ChildOf
    <3>6. h[at[m]] = h[w] - 1 /\ (nodes[at[m]].parent = w \/ (w = top /\ at[m] = bad))
      BY <1>1, <3>2, <3>4, <3>5 DEF Consistent, Inner
    <3>7. h[w] <= h[root] /\ h[w] \in Nat
      BY <1>5, <1>6, <1>7, <3>1
    <3>8. nodes[at[m]].parent = w
      <4>1. CASE bad # None
        <5>1. h[top] > h[root] /\ h[top] \in Nat /\ h[root] \in Nat
          BY <4>1, <1>1, <1>5, <1>7 DEF BadOK, Spine
        <5>. QED BY <3>6, <3>7, <5>1
      <4>2. CASE bad = None
        <5>1. at[m] # None
          BY <1>1, <1>6 DEF Consistent, None
        <5>. QED BY <3>6, <4>2, <5>1
      <4>. QED BY <4>1, <4>2
    <3>9. h[w] \in Nat /\ h[at[m]] = h[w] - 1 /\ w \in P
      BY <3>2, <3>6, <3>7
    <3>10. nodes[at[m]].parent \in P /\ h[nodes[at[m]].parent] = h[at[m]] + 1
      BY <3>8, <3>9
    <3>11. at[m] = at[n]
      BY <2>1
    <3>. QED BY <3>10, <3>11
  <2>. QED BY <2>2, <2>3
<1>10. Path(nodes, C, h, S, P, at[N])
  <2>1. \A x \in P : h[x] >= h[at[N]]
    BY <1>7, <1>8
  <2>. QED BY <1>7, <1>9, <2>1 DEF Path
<1>11. at[N] \in 1 .. Len(nodes)
  BY <1>1, <1>7 DEF Consistent
<1>. QED BY <1>2, <1>6, <1>7, <1>10, <1>11 DEF Leaves

-----------------------------------------------------------------------------
(* Types. *)
\* Page ids, and the one NewPage hands out.
LEMMA PageFacts ==
    ASSUME TypeOK
    PROVE  /\ nodes \in Seq(Node) /\ Len(nodes) \in Nat /\ DOMAIN nodes = 1 .. Len(nodes)
           /\ \A p \in 0 .. Len(nodes) : p \in PageIds
           /\ \A p \in DOMAIN nodes : p \in PageIds /\ p # None /\ nodes[p] \in Node
           /\ None \in PageIds
           /\ NewPageFits => Len(nodes) + 1 \in PageIds /\ Len(nodes) + 1 <= MaxPages
  BY TreeConstants DEF TypeOK, PageIds, None, NewPageFits

\* The fields of a call in progress.
LEMMA TaskFields ==
    ASSUME NEW t \in Task
    PROVE  /\ t.phase = "idle" <=> t = Idle
           /\ t # Idle =>
                /\ t.phase \in {"write", "adopt", "grow"}
                /\ t.key \in Keys /\ t.rid \in Rids /\ t.page \in PageIds /\ t.node \in Node
                /\ t.right \in PageIds /\ t.sep \in Keys /\ t.up \in PageIds
                /\ t.kids \in Seq(PageIds)
  BY DEF Task, Idle, Phases

\* A call that splits a leaf is a call in progress.
LEMMA TaskMade ==
    ASSUME NEW phase \in {"write", "adopt", "grow"}, NEW key \in Keys, NEW rid \in Rids,
           NEW page \in PageIds, NEW node \in Node, NEW right \in PageIds, NEW sep \in Keys,
           NEW up \in PageIds, NEW kids \in Seq(PageIds)
    PROVE  [phase |-> phase, key |-> key, rid |-> rid, page |-> page, node |-> node,
            right |-> right, sep |-> sep, up |-> up, kids |-> kids] \in Task
  BY DEF Task, Idle, Phases

\* The call in another phase.
LEMMA TaskPhase ==
    ASSUME NEW t \in Task, t # Idle, NEW phase \in {"write", "adopt", "grow"}
    PROVE  LET u == [t EXCEPT !.phase = phase]
           IN  /\ u \in Task /\ u.phase = phase
               /\ u.key = t.key /\ u.rid = t.rid /\ u.page = t.page /\ u.node = t.node
               /\ u.right = t.right /\ u.sep = t.sep /\ u.up = t.up /\ u.kids = t.kids
<1>1. t \in [phase : Phases \ {"idle"}, key : Keys, rid : Rids, page : PageIds, node : Node,
             right : PageIds, sep : Keys, up : PageIds, kids : Seq(PageIds)]
  BY DEF Task
<1>2. phase \in Phases \ {"idle"}
  BY DEF Phases
<1>. QED BY <1>1, <1>2 DEF Task

\* The call with other children still to adopt.
LEMMA TaskKids ==
    ASSUME NEW t \in Task, t # Idle, NEW kids \in Seq(PageIds)
    PROVE  LET u == [t EXCEPT !.kids = kids]
           IN  /\ u \in Task /\ u.phase = t.phase
               /\ u.key = t.key /\ u.rid = t.rid /\ u.page = t.page /\ u.node = t.node
               /\ u.right = t.right /\ u.sep = t.sep /\ u.up = t.up /\ u.kids = kids
<1>1. t \in [phase : Phases \ {"idle"}, key : Keys, rid : Rids, page : PageIds, node : Node,
             right : PageIds, sep : Keys, up : PageIds, kids : Seq(PageIds)]
  BY DEF Task
<1>. QED BY <1>1 DEF Task

\* The call at another page.
LEMMA TaskPage ==
    ASSUME NEW t \in Task, t # Idle, NEW page \in PageIds
    PROVE  LET u == [t EXCEPT !.page = page]
           IN  /\ u \in Task /\ u.phase = t.phase
               /\ u.key = t.key /\ u.rid = t.rid /\ u.page = page /\ u.node = t.node
               /\ u.right = t.right /\ u.sep = t.sep /\ u.up = t.up /\ u.kids = t.kids
<1>1. t \in [phase : Phases \ {"idle"}, key : Keys, rid : Rids, page : PageIds, node : Node,
             right : PageIds, sep : Keys, up : PageIds, kids : Seq(PageIds)]
  BY DEF Task
<1>. QED BY <1>1 DEF Task

\* What a call that returns leaves behind.
LEMMA EndsTypes ==
    ASSUME TypeOK, NEW key \in Keys, NEW rid \in Rids, NEW code \in Codes,
           code = "io" => faults < MaxFaults, Ends(key, rid, code)
    PROVE  /\ task' = Idle /\ task' \in Task /\ faults' \in 0 .. MaxFaults
           /\ acked' \subseteq Keys \X Rids
           /\ last' \in {[code |-> "none"]} \cup [key : Keys, rid : Rids, code : Codes]
           /\ acked' = IF code = "ok" THEN acked \cup {<<key, rid>>} ELSE acked
  BY TreeConstants DEF TypeOK, Ends, Task

\* Nothing is pending between calls.
LEMMA IdlePending ==
    ASSUME NEW ns, NEW C, NEW h, NEW S, NEW top, NEW bad, NEW d, NEW P
    PROVE  Pending(ns, Idle, C, h, S, top, bad, d, P)
  BY DEF Pending, Idle

-----------------------------------------------------------------------------
(* A step, seen through the shape. *)

\* A scan yields what the leaves hold.
LEMMA ScannedIs ==
    ASSUME nodes \in Seq(Node), NEW C, NEW h, NEW S, NEW top, NEW bad, NEW d,
           Tree(nodes, root, C, h, S, top, bad, d)
    PROVE  Scanned = Shown(nodes, C)
<1>1. Consistent(nodes, C, h, top, bad) /\ Spine(nodes, root, C, h, S, top) /\ Chain(nodes, C, d)
  BY DEF Tree
<1>2. Scanned = {<<e[2], e[3]>> : e \in YieldOf(nodes, root)}
  BY ScanIs DEF Scanned
<1>. QED BY <1>1, <1>2, YieldFacts

\* The same of the state after a step.
LEMMA ScannedNextIs ==
    ASSUME nodes' \in Seq(Node), NEW C, NEW h, NEW S, NEW top, NEW bad, NEW d,
           Tree(nodes', root', C, h, S, top, bad, d)
    PROVE  Scanned' = Shown(nodes', C)
<1>1. /\ Consistent(nodes', C, h, top, bad) /\ Spine(nodes', root', C, h, S, top)
      /\ Chain(nodes', C, d)
  BY DEF Tree
<1>2. ScanOrder' = OrderOf(nodes', root')
  BY DEF ScanOrder, OrderOf, FirstLeaf, Leftmost, Links, Walk, Descend
<1>3. Scan' = YieldOf(nodes', root')
  BY <1>2 DEF Scan, YieldOf
<1>4. Scanned' = {<<e[2], e[3]>> : e \in YieldOf(nodes', root')}
  BY <1>3 DEF Scanned
<1>. QED BY <1>1, <1>4, YieldFacts

\* What every step keeps.
Kept == ShapeInv' /\ Scanned \subseteq Scanned'

\* A step keeps the invariant when the state after it has a shape that shows no
\* less.
LEMMA StepTo ==
    ASSUME TypeOK, NEW C, NEW h, NEW S, NEW top, NEW bad, NEW d,
           Tree(nodes, root, C, h, S, top, bad, d),
           TypeOK', FiniteLeaves(nodes'),
           NEW C2, NEW h2, NEW S2, NEW top2, NEW bad2, NEW d2, NEW P2,
           Shape(nodes', root', task', C2, h2, S2, top2, bad2, d2, P2),
           Shown(nodes, C) \cup acked' \subseteq Shown(nodes', C2)
    PROVE  Kept
<1>1. Scanned = Shown(nodes, C)
  BY ScannedIs DEF TypeOK
<1>2. Scanned' = Shown(nodes', C2)
  BY ScannedNextIs DEF TypeOK, Shape
<1>. QED BY <1>1, <1>2 DEF Kept, ShapeInv

\* No child is a page outside the tree.
LEMMA OutsideDetached ==
    ASSUME NEW ns, NEW C, NEW h, NEW top, NEW bad, Consistent(ns, C, h, top, bad), NEW c, c \notin C
    PROVE  Detached(ns, C, c)
  BY DEF Consistent, Inner, Detached, ChildOf

\* What the steps of a split leave as it is.
LEMMA SplitFrame ==
    ASSUME NEW ns, NEW ms, NEW C, NEW h, NEW S, AllAlike(ms, ns, C)
    PROVE  /\ \A P, page : Path(ns, C, h, S, P, page) => Path(ms, C, h, S, P, page)
           /\ \A c : Detached(ms, C, c) <=> Detached(ns, C, c)
<1>1. \A p \in C : Alike(ms[p], ns[p])
  BY DEF AllAlike
<1>2. ASSUME NEW P, NEW page, Path(ns, C, h, S, P, page) PROVE Path(ms, C, h, S, P, page)
  BY <1>1, <1>2 DEF Path, Alike
<1>3. ASSUME NEW c PROVE Detached(ms, C, c) <=> Detached(ns, C, c)
  BY <1>1 DEF Detached, ChildOf, Alike
<1>. QED BY <1>2, <1>3

\* Pages outside those in order show nothing.
LEMMA ShownFrame ==
    ASSUME NEW ns, NEW ms, NEW C, \A p \in C : ms[p] = ns[p]
    PROVE  AllAlike(ms, ns, C) /\ Shown(ms, C) = Shown(ns, C) /\ Leaves(ms, C) = Leaves(ns, C)
<1>1. Leaves(ms, C) = Leaves(ns, C) /\ \A p \in Leaves(ns, C) : ms[p] = ns[p]
  BY DEF Leaves
<1>. QED BY <1>1 DEF AllAlike, Alike, Shown

-----------------------------------------------------------------------------
(* A call that ends with the file as it is. *)
\* A call that returns an error and writes nothing keeps the invariant.
LEMMA RefusedShape ==
    ASSUME ShapeInv, UNCHANGED <<nodes, root>>, NEW key \in Keys, NEW rid \in Rids,
           NEW code \in Codes \ {"ok"}, code = "io" => faults < MaxFaults, Ends(key, rid, code)
    PROVE  Kept
<1>1. PICK C, h, S, top, bad, d, P :
         /\ Shape(nodes, root, task, C, h, S, top, bad, d, P) /\ acked \subseteq Shown(nodes, C)
  BY DEF ShapeInv
<1>2. TypeOK /\ FiniteLeaves(nodes)
  BY DEF ShapeInv
<1>3. /\ task' = Idle /\ task' \in Task /\ faults' \in 0 .. MaxFaults
      /\ acked' \subseteq Keys \X Rids /\ acked' = acked
      /\ last' \in {[code |-> "none"]} \cup [key : Keys, rid : Rids, code : Codes]
  BY <1>2, EndsTypes
<1>4. TypeOK'
  BY <1>2, <1>3 DEF TypeOK
<1>5. Shape(nodes', root', task', C, h, S, top, bad, d, P)
  BY <1>1, <1>3, IdlePending DEF Shape
<1>6. Tree(nodes, root, C, h, S, top, bad, d)
  BY <1>1 DEF Shape
<1>7. Shown(nodes, C) \cup acked' \subseteq Shown(nodes', C) /\ FiniteLeaves(nodes')
  BY <1>1, <1>2, <1>3
<1>. QED BY <1>2, <1>4, <1>5, <1>6, <1>7, StepTo

\* Insert that is refused keeps the invariant.
LEMMA InsertRefusedShape ==
    ASSUME ShapeInv, NEW key \in Keys, NEW rid \in Rids, InsertRefused(key, rid)
    PROVE  Kept
<1>1. PICK code \in InsertRefusals(key) : Ends(key, rid, code)
  BY DEF InsertRefused
<1>2. code \in Codes \ {"ok"} /\ (code = "io" => faults < MaxFaults)
  BY <1>1 DEF InsertRefusals, CanFail, Codes
<1>. QED BY <1>1, <1>2, RefusedShape DEF InsertRefused

\* A split broken off anywhere keeps the invariant: what it wrote stays.
LEMMA GiveUpShape ==
    ASSUME ShapeInv, GiveUp
    PROVE  Kept
<1>1. PICK code \in Refusals : Ends(task.key, task.rid, code)
  BY DEF GiveUp
<1>2. code \in Codes \ {"ok"} /\ (code = "io" => faults < MaxFaults)
  BY <1>1 DEF Refusals, CanFail, Codes
<1>3. task.key \in Keys /\ task.rid \in Rids
  BY TaskFields DEF ShapeInv, TypeOK, GiveUp
<1>. QED BY <1>1, <1>2, <1>3, RefusedShape DEF GiveUp

-----------------------------------------------------------------------------
(* An insert into a leaf with room. *)

\* Other entries in one leaf leave the tree as it is.
LEMMA EntriesWritten ==
    ASSUME NEW ns \in Seq(Node), NEW rt, NEW C, NEW h, NEW S, NEW top, NEW bad, NEW d,
           Tree(ns, rt, C, h, S, top, bad, d),
           NEW p \in Leaves(ns, C), NEW entries \in Entries,
           NEW ms, Writes(ms, ns, p, Leaf(ns[p].parent, ns[p].next, entries))
    PROVE  /\ ms \in Seq(Node) /\ Len(ms) = Len(ns) /\ DOMAIN ms = DOMAIN ns
           /\ ms[p].kind = "leaf" /\ ms[p].entries = entries
           /\ \A q \in DOMAIN ns : q # p => ms[q] = ns[q]
           /\ Tree(ms, rt, C, h, S, top, bad, d)
           /\ Leaves(ms, C) = Leaves(ns, C)
<1>. DEFINE n == Leaf(ns[p].parent, ns[p].next, entries)
<1>1. p \in DOMAIN ns /\ p \in C /\ ns[p].kind = "leaf" /\ C \subseteq DOMAIN ns
  BY DEF Tree, Consistent, Leaves
<1>2. ns[p] \in Node
  BY <1>1
<1>3. n \in Node /\ n.kind = "leaf" /\ n.entries = entries /\ Alike(n, ns[p])
  BY <1>1, <1>2, NodeFields, LeafNode DEF Alike
<1>. HIDE DEF n
<1>4. Writes(ms, ns, p, n)
  BY DEF n
<1>5. /\ ms \in Seq(Node) /\ Len(ms) = Len(ns) /\ DOMAIN ms = DOMAIN ns /\ ms[p] = n
      /\ Len(ns) \in Nat /\ \A q \in DOMAIN ns : q # p => ms[q] = ns[q]
  BY <1>1, <1>3, <1>4, Updated
<1>6. AllAlike(ms, ns, C)
  BY <1>1, <1>3, <1>5 DEF AllAlike, Alike
<1>7. Tree(ms, rt, C, h, S, top, bad, d) /\ Leaves(ms, C) = Leaves(ns, C)
  <2>1. Len(ns) <= Len(ms) /\ DOMAIN ns \subseteq DOMAIN ms /\ Len(ms) \in Nat /\ Len(ns) \in Nat
    BY <1>5
  <2>. QED BY <1>6, <2>1, TreeFrame
<1>. QED BY <1>3, <1>5, <1>7

\* Insert into a leaf with room keeps the invariant and shows the new entry.
LEMMA InsertIntoLeafShape ==
    ASSUME ShapeInv, NEW key \in Keys, NEW rid \in Rids, InsertIntoLeaf(key, rid)
    PROVE  Kept
<1>1. PICK C, h, S, top, bad, d, P :
         /\ Shape(nodes, root, task, C, h, S, top, bad, d, P) /\ acked \subseteq Shown(nodes, C)
  BY DEF ShapeInv
<1>2. TypeOK /\ FiniteLeaves(nodes) /\ nodes \in Seq(Node)
  BY DEF ShapeInv, TypeOK
<1>3. Tree(nodes, root, C, h, S, top, bad, d)
  BY <1>1 DEF Shape
<1>. DEFINE p == LeafFor(key)
            old == nodes[p].entries
            new == WithEntry(old, key, rid)
<1>4. p \in Leaves(nodes, C)
  BY <1>2, <1>3, TreeConstants, LeafForFacts
<1>5. p \in DOMAIN nodes /\ nodes[p].kind = "leaf" /\ old \in Entries /\ IsFiniteSet(DOMAIN old)
  <2>1. p \in DOMAIN nodes /\ nodes[p].kind = "leaf"
    BY <1>3, <1>4 DEF Tree, Consistent, Leaves
  <2>2. nodes[p] \in Node
    BY <1>2, <2>1
  <2>. QED BY <1>2, <2>1, <2>2, NodeFields DEF FiniteLeaves
<1>6. /\ key \notin DOMAIN old
      /\ Writes(nodes', nodes, p, Leaf(nodes[p].parent, nodes[p].next, new))
      /\ Ends(key, rid, "ok") /\ root' = root
  BY DEF InsertIntoLeaf, Writes
<1>7. /\ new \in Entries /\ DOMAIN new = DOMAIN old \cup {key} /\ IsFiniteSet(DOMAIN new)
      /\ new[key] = rid /\ \A k \in DOMAIN old : k # key => new[k] = old[k]
  <2>1. old \in Entries /\ IsFiniteSet(DOMAIN old)
    BY <1>5
  <2>. HIDE DEF p, old
  <2>. QED BY <2>1, WithEntryFacts
<1>. HIDE DEF p, old, new
<1>8. /\ nodes' \in Seq(Node) /\ Len(nodes') = Len(nodes) /\ DOMAIN nodes' = DOMAIN nodes
      /\ nodes'[p].kind = "leaf" /\ nodes'[p].entries = new
      /\ \A q \in DOMAIN nodes : q # p => nodes'[q] = nodes[q]
      /\ Tree(nodes', root, C, h, S, top, bad, d)
      /\ Leaves(nodes', C) = Leaves(nodes, C)
  BY <1>2, <1>3, <1>4, <1>6, <1>7, EntriesWritten
<1>9. "ok" \in Codes /\ "ok" # "io"
  BY DEF Codes
<1>10. /\ task' = Idle /\ task' \in Task /\ faults' \in 0 .. MaxFaults
       /\ acked' \subseteq Keys \X Rids /\ acked' = acked \cup {<<key, rid>>}
       /\ last' \in {[code |-> "none"]} \cup [key : Keys, rid : Rids, code : Codes]
  BY <1>2, <1>6, <1>9, EndsTypes
<1>11. TypeOK'
  BY <1>2, <1>6, <1>8, <1>10 DEF TypeOK
<1>12. FiniteLeaves(nodes')
  BY <1>2, <1>7, <1>8 DEF FiniteLeaves
<1>13. Shown(nodes, C) \cup {<<key, rid>>} \subseteq Shown(nodes', C)
  <2>1. Pairs(old) \cup {<<key, rid>>} \subseteq Pairs(new)
    <3>1. ASSUME NEW k \in DOMAIN old PROVE <<k, old[k]>> \in Pairs(new)
      BY <1>6, <1>7 DEF Pairs
    <3>2. <<key, rid>> \in Pairs(new)
      BY <1>7 DEF Pairs
    <3>. QED BY <3>1, <3>2 DEF Pairs
  <2>2. \A q \in Leaves(nodes, C) : q \in DOMAIN nodes
    BY <1>3 DEF Tree, Consistent, Leaves
  <2>3. \A q \in Leaves(nodes, C) : Pairs(nodes[q].entries) \subseteq Pairs(nodes'[q].entries)
    BY <1>8, <2>1, <2>2 DEF old
  <2>4. <<key, rid>> \in Pairs(nodes'[p].entries)
    BY <1>8, <2>1
  <2>. QED BY <1>4, <1>8, <2>3, <2>4 DEF Shown
<1>14. Shape(nodes', root', task', C, h, S, top, bad, d, P)
  BY <1>6, <1>8, <1>10, IdlePending DEF Shape
<1>15. Shown(nodes, C) \cup acked' \subseteq Shown(nodes', C)
  BY <1>1, <1>10, <1>13
<1>. QED BY <1>2, <1>3, <1>11, <1>12, <1>14, <1>15, StepTo

-----------------------------------------------------------------------------
(* A leaf splits. *)
\* The entries of a leaf with a new key are the old ones and the new one.
LEMMA PairsWithEntry ==
    ASSUME NEW e \in Entries, NEW key \in Keys, NEW rid \in Rids, IsFiniteSet(DOMAIN e),
           key \notin DOMAIN e
    PROVE  Pairs(WithEntry(e, key, rid)) = Pairs(e) \cup {<<key, rid>>}
<1>. DEFINE new == WithEntry(e, key, rid)
<1>1. /\ DOMAIN new = DOMAIN e \cup {key} /\ new[key] = rid
      /\ \A k \in DOMAIN e : k # key => new[k] = e[k]
  BY WithEntryFacts
<1>. HIDE DEF new
<1>2. Pairs(new) \subseteq Pairs(e) \cup {<<key, rid>>}
  BY <1>1 DEF Pairs
<1>3. Pairs(e) \subseteq Pairs(new)
  BY <1>1 DEF Pairs
<1>4. <<key, rid>> \in Pairs(new)
  BY <1>1 DEF Pairs
<1>. QED BY <1>2, <1>3, <1>4 DEF new

\* The two halves of the entries lose none.
LEMMA PairsOfHalves ==
    ASSUME NEW e \in Entries, NEW low \in SUBSET DOMAIN e
    PROVE  Pairs(OnKeys(e, low)) \cup Pairs(OnKeys(e, DOMAIN e \ low)) = Pairs(e)
<1>1. \A K \in SUBSET DOMAIN e : Pairs(OnKeys(e, K)) = {<<k, e[k]>> : k \in K}
  BY DEF Pairs, OnKeys
<1>2. Pairs(OnKeys(e, low)) = {<<k, e[k]>> : k \in low}
  BY <1>1
<1>3. Pairs(OnKeys(e, DOMAIN e \ low)) = {<<k, e[k]>> : k \in DOMAIN e \ low}
  BY <1>1
<1>. QED BY <1>2, <1>3 DEF Pairs

\* The halves of the entries of a leaf that overflows.
LEMMA HalvesFacts ==
    ASSUME NEW e \in Entries, IsFiniteSet(DOMAIN e), Cardinality(DOMAIN e) > MaxLeaf
    PROVE  LET low == LeftHalf(e)
               high == DOMAIN e \ low
           IN  /\ low \in SUBSET DOMAIN e /\ high \in SUBSET DOMAIN e
               /\ IsFiniteSet(low) /\ IsFiniteSet(high)
               /\ OnKeys(e, low) \in Entries /\ DOMAIN OnKeys(e, low) = low
               /\ OnKeys(e, high) \in Entries /\ DOMAIN OnKeys(e, high) = high
               /\ Separator(low, high) \in high /\ Separator(low, high) \in Keys
               /\ Pairs(OnKeys(e, low)) \cup Pairs(OnKeys(e, high)) = Pairs(e)
<1>. DEFINE low == LeftHalf(e)
            high == DOMAIN e \ low
<1>1. DOMAIN e \subseteq Keys /\ DOMAIN e \subseteq Int
  BY TreeConstants DEF Entries
<1>2. Cardinality(DOMAIN e) > 1
  <2>1. Cardinality(DOMAIN e) \in Nat
    BY FS_CardinalityType
  <2>. QED BY <2>1, TreeConstants
<1>3. low = Smallest(Cardinality(DOMAIN e) \div 2, DOMAIN e)
  BY DEF LeftHalf
<1>4. high # {} /\ high \subseteq DOMAIN e /\ \E k \in high : \A j \in high : k <= j
  BY <1>1, <1>2, <1>3, HighHalf
<1>5. low \in SUBSET DOMAIN e
  BY <1>3 DEF Smallest
<1>. HIDE DEF low
<1>6. IsFiniteSet(low) /\ IsFiniteSet(high)
  BY <1>4, <1>5, FS_Subset
<1>7. Separator(low, high) \in high
  BY <1>4 DEF Separator
<1>8. /\ OnKeys(e, low) \in Entries /\ DOMAIN OnKeys(e, low) = low
      /\ OnKeys(e, high) \in Entries /\ DOMAIN OnKeys(e, high) = high
  BY <1>4, <1>5, OnKeysFacts
<1>9. Pairs(OnKeys(e, low)) \cup Pairs(OnKeys(e, high)) = Pairs(e)
  BY <1>5, PairsOfHalves
<1>. QED BY <1>1, <1>4, <1>5, <1>6, <1>7, <1>8, <1>9 DEF low

\* Adding the right half of a leaf changes nothing the tree shows.
LEMMA SplitLeafShape ==
    ASSUME ShapeInv, NEW key \in Keys, NEW rid \in Rids, SplitLeaf(key, rid)
    PROVE  Kept
<1>1. PICK C, h, S, top, bad, d, P :
         /\ Shape(nodes, root, task, C, h, S, top, bad, d, P) /\ acked \subseteq Shown(nodes, C)
  BY DEF ShapeInv
<1>2. TypeOK /\ FiniteLeaves(nodes) /\ nodes \in Seq(Node)
  BY DEF ShapeInv, TypeOK
<1>3. /\ Tree(nodes, root, C, h, S, top, bad, d) /\ Consistent(nodes, C, h, top, bad)
      /\ Spine(nodes, root, C, h, S, top) /\ Chain(nodes, C, d)
  BY <1>1 DEF Shape, Tree
<1>. DEFINE p == LeafFor(key)
            old == nodes[p].entries
            new == WithEntry(old, key, rid)
            low == LeftHalf(new)
            high == DOMAIN new \ low
            right == Len(nodes) + 1
            node == Leaf(nodes[p].parent, right, OnKeys(new, low))
            rightNode == RightLeaf(nodes[p], OnKeys(new, high))
            sep == Separator(low, high)
<1>4. p \in Leaves(nodes, C) /\ \E Q : Path(nodes, C, h, S, Q, p)
  BY <1>2, <1>3, TreeConstants, LeafForFacts
<1>5. PICK Q : Path(nodes, C, h, S, Q, p)
  BY <1>4
<1>6. /\ p \in DOMAIN nodes /\ nodes[p].kind = "leaf" /\ old \in Entries /\ IsFiniteSet(DOMAIN old)
      /\ nodes[p].parent \in PageIds /\ nodes[p].next \in PageIds /\ p \in C /\ p \in PageIds
  <2>1. p \in DOMAIN nodes /\ nodes[p].kind = "leaf" /\ p \in C
    BY <1>3, <1>4 DEF Consistent, Leaves
  <2>2. nodes[p] \in Node /\ p \in PageIds
    BY <1>2, <2>1, PageFacts
  <2>. QED BY <1>2, <2>1, <2>2, NodeFields DEF FiniteLeaves
<1>7. /\ key \notin DOMAIN old /\ Cardinality(DOMAIN new) > MaxLeaf /\ NewPageFits
      /\ Adds(nodes', nodes, rightNode)
      /\ task' = [phase |-> "write", key |-> key, rid |-> rid, page |-> p, node |-> node,
                  right |-> right, sep |-> sep, up |-> nodes[p].parent, kids |-> << >>]
      /\ UNCHANGED <<root, faults, acked, last>>
  BY DEF SplitLeaf, Adds
<1>. HIDE DEF p, old
<1>8. /\ new \in Entries /\ IsFiniteSet(DOMAIN new)
      /\ Pairs(new) = Pairs(old) \cup {<<key, rid>>}
  <2>1. new \in Entries /\ IsFiniteSet(DOMAIN new)
    BY <1>6, WithEntryFacts
  <2>. QED BY <2>1, <1>6, <1>7, PairsWithEntry
<1>. HIDE DEF new
<1>9. /\ IsFiniteSet(low) /\ IsFiniteSet(high)
      /\ OnKeys(new, low) \in Entries /\ DOMAIN OnKeys(new, low) = low
      /\ OnKeys(new, high) \in Entries /\ DOMAIN OnKeys(new, high) = high
      /\ sep \in Keys
      /\ Pairs(OnKeys(new, low)) \cup Pairs(OnKeys(new, high)) = Pairs(new)
  BY <1>7, <1>8, HalvesFacts
<1>. HIDE DEF low, high, sep
<1>10. right \in PageIds /\ right <= MaxPages /\ Len(nodes) \in Nat /\ None \in PageIds
  BY <1>2, <1>7, PageFacts
<1>11. /\ node \in Node /\ node.kind = "leaf" /\ node.parent = nodes[p].parent
       /\ node.next = right /\ node.entries = OnKeys(new, low)
       /\ rightNode \in Node /\ rightNode.kind = "leaf" /\ rightNode.parent = nodes[p].parent
       /\ rightNode.next = nodes[p].next /\ rightNode.entries = OnKeys(new, high)
  BY <1>6, <1>9, <1>10, LeafNode DEF RightLeaf
<1>. HIDE DEF node, rightNode
<1>12. /\ nodes' \in Seq(Node) /\ Len(nodes') = right
       /\ DOMAIN nodes = 1 .. Len(nodes) /\ DOMAIN nodes' = 1 .. right
       /\ nodes'[right] = rightNode
       /\ \A q \in DOMAIN nodes : q \in DOMAIN nodes' /\ nodes'[q] = nodes[q]
  BY <1>2, <1>7, <1>11, Appended
<1>13. << >> \in Seq(PageIds)
  OBVIOUS
<1>14. /\ task' \in Task /\ task'.phase = "write" /\ task'.key = key /\ task'.rid = rid
       /\ task'.page = p /\ task'.node = node /\ task'.right = right /\ task'.sep = sep
       /\ task'.up = nodes[p].parent /\ task'.kids = << >>
  <2>1. "write" \in {"write", "adopt", "grow"}
    OBVIOUS
  <2>2. task' \in Task
    BY <1>6, <1>7, <1>9, <1>10, <1>11, <1>13, <2>1, TaskMade
  <2>. QED BY <1>7, <2>2
<1>15. TypeOK'
  BY <1>2, <1>7, <1>10, <1>12, <1>14 DEF TypeOK
<1>. DEFINE ms == nodes'
<1>16. FiniteLeaves(ms)
  <2>. SUFFICES ASSUME NEW q \in DOMAIN ms, ms[q].kind = "leaf"
                PROVE  IsFiniteSet(DOMAIN ms[q].entries)
    BY DEF FiniteLeaves
  <2>1. CASE q = right
    BY <2>1, <1>9, <1>11, <1>12
  <2>2. CASE q # right
    <3>1. q \in DOMAIN nodes
      BY <2>2, <1>10, <1>12
    <3>. QED BY <3>1, <1>2, <1>12 DEF FiniteLeaves
  <2>. QED BY <2>1, <2>2
<1>17. C \subseteq DOMAIN nodes /\ right \notin C /\ S \subseteq C
  BY <1>3, <1>10, <1>12 DEF Consistent, Spine
<1>18. \A q \in C : ms[q] = nodes[q]
  BY <1>12, <1>17
<1>19. AllAlike(ms, nodes, C) /\ Shown(ms, C) = Shown(nodes, C) /\ Leaves(ms, C) = Leaves(nodes, C)
  BY <1>18, ShownFrame
<1>20. Tree(ms, root', C, h, S, top, bad, d)
  <2>1. DOMAIN nodes \subseteq DOMAIN ms /\ Len(ms) \in Nat /\ Len(nodes) <= Len(ms) /\ root' = root
    BY <1>7, <1>10, <1>12
  <2>. QED BY <1>3, <1>10, <1>19, <2>1, TreeFrame
<1>21. Path(ms, C, h, S, Q, p) /\ Detached(ms, C, right)
  <2>1. Detached(nodes, C, right)
    BY <1>3, <1>17, OutsideDetached
  <2>. QED BY <1>5, <1>19, <2>1, SplitFrame
<1>22. Splitting(ms, task', C, h, S, Q)
  <2>1. right \in DOMAIN ms /\ right \notin S /\ right # p
    BY <1>6, <1>10, <1>12, <1>17
  <2>. QED BY <1>6, <1>11, <1>12, <1>14, <1>21, <2>1 DEF Splitting
<1>23. WriteLeaf(ms, task', C, d)
  <2>1. \A q \in Leaves(ms, C) : d[q] < Len(ms)
    <3>1. \A q \in Leaves(nodes, C) : d[q] \in Nat /\ d[q] <= Len(nodes)
      BY <1>3 DEF Chain
    <3>. QED BY <1>10, <1>12, <1>19, <3>1
  <2>2. ms[p] = nodes[p]
    BY <1>6, <1>12
  <2>. QED BY <1>8, <1>9, <1>11, <1>12, <1>14, <2>1, <2>2 DEF WriteLeaf, old
<1>24. PendingWrite(ms, task', C, h, S, d, Q)
  BY <1>6, <1>11, <1>12, <1>14, <1>17, <1>22, <1>23 DEF PendingWrite
<1>25. Shape(ms, root', task', C, h, S, top, bad, d, Q)
  BY <1>14, <1>20, <1>24 DEF Shape, Pending
<1>26. Shown(nodes, C) \cup acked' \subseteq Shown(ms, C)
  BY <1>1, <1>7, <1>19
<1>. QED BY <1>2, <1>3, <1>15, <1>16, <1>25, <1>26, StepTo

-----------------------------------------------------------------------------
(* The left half is written. *)

\* A task in another phase of the same split.
Rephased(u, t, phase) ==
    /\ u.phase = phase /\ u.key = t.key /\ u.rid = t.rid /\ u.page = t.page /\ u.node = t.node
    /\ u.right = t.right /\ u.sep = t.sep /\ u.up = t.up /\ u.kids = t.kids

\* What a step of a split starts from and what it comes to.
Advances(ns, ms, rt, u, C, S, top, P) ==
    \E C2, h2, bad2, d2 :
        /\ Tree(ms, rt, C2, h2, S, top, bad2, d2)
        /\ PendingAdopt(ms, u, C2, h2, S, top, bad2, P)
        /\ Shown(ns, C) \subseteq Shown(ms, C2)

\* The chain of leaves L, over N pages.
Linked(L, ns, d, N) ==
    /\ d \in [L -> Nat] /\ 1 \in L /\ d[1] = 1
    /\ \A q \in L :
          /\ 1 <= d[q] /\ d[q] <= N
          /\ ns[q].next # None => ns[q].next \in L /\ d[ns[q].next] = d[q] + 1
          /\ q # 1 => \E x \in L : ns[x].next = q

\* The leaf r comes into the chain after p.
Spliced(ms, ns, L, d, p, r, N) ==
    /\ r \notin L
    /\ \A q \in L : d[q] < N /\ (d[q] = d[p] => q = p)
    /\ \A q \in L : q # p => ms[q].next = ns[q].next
    /\ ms[p].next = r /\ ms[r].next = ns[p].next

\* A leaf linked in after p moves the ones behind it one place on.
LEMMA LinkIn ==
    ASSUME NEW ns, NEW ms, NEW L, NEW d, NEW N \in Nat, Linked(L, ns, d, N),
           NEW p \in L, NEW r, Spliced(ms, ns, L, d, p, r, N)
    PROVE  \E d2 : Linked(L \cup {r}, ms, d2, N)
<1>. DEFINE M == L \cup {r}
            d2 == [q \in M |->
                     IF q = r THEN d[p] + 1 ELSE IF d[q] > d[p] THEN d[q] + 1 ELSE d[q]]
            Placed(q) == /\ 1 <= d2[q] /\ d2[q] <= N
                         /\ ms[q].next # None => ms[q].next \in M /\ d2[ms[q].next] = d2[q] + 1
                         /\ q # 1 => \E x \in M : ms[x].next = q
<1>1. /\ d \in [L -> Nat] /\ 1 \in L /\ d[1] = 1
      /\ \A q \in L : /\ 1 <= d[q] /\ d[q] \in Nat /\ d[q] < N
                      /\ ns[q].next # None => ns[q].next \in L /\ d[ns[q].next] = d[q] + 1
                      /\ q # 1 => \E x \in L : ns[x].next = q
                      /\ d[q] = d[p] => q = p
  BY DEF Linked, Spliced
<1>2. /\ r \notin L /\ ms[p].next = r /\ ms[r].next = ns[p].next
      /\ \A q \in L : q # p => ms[q].next = ns[q].next
  BY DEF Spliced
<1>3. /\ d2 \in [M -> Nat] /\ d2[r] = d[p] + 1
      /\ \A q \in L : d2[q] = IF d[q] > d[p] THEN d[q] + 1 ELSE d[q]
  BY <1>1, <1>2
<1>. HIDE DEF d2
<1>4. 1 \in M /\ d2[1] = 1 /\ d2[p] = d[p]
  BY <1>1, <1>3
<1>5. ASSUME NEW q \in L PROVE Placed(q)
  <2>1. 1 <= d2[q] /\ d2[q] <= N
    BY <1>1, <1>3
  <2>2. ASSUME ms[q].next # None PROVE ms[q].next \in M /\ d2[ms[q].next] = d2[q] + 1
    <3>1. CASE q = p
      BY <3>1, <1>2, <1>3, <1>4
    <3>2. CASE q # p
      <4>. DEFINE n == ns[q].next
      <4>1. n \in L /\ d[n] = d[q] + 1 /\ ms[q].next = n
        BY <2>2, <3>2, <1>1, <1>2
      <4>. HIDE DEF n
      <4>2. d[q] # d[p] /\ d[q] \in Nat /\ d[p] \in Nat
        BY <3>2, <1>1
      <4>3. d[q] < d[p] \/ d[q] > d[p]
        BY <4>2
      <4>4. d2[n] = IF d[q] + 1 > d[p] THEN d[q] + 2 ELSE d[q] + 1
        BY <4>1, <4>2, <1>3
      <4>5. d2[q] = IF d[q] > d[p] THEN d[q] + 1 ELSE d[q]
        BY <1>3
      <4>6. d2[n] = d2[q] + 1
        BY <4>2, <4>3, <4>4, <4>5
      <4>. QED BY <4>1, <4>6
    <3>. QED BY <3>1, <3>2
  <2>3. ASSUME q # 1 PROVE \E x \in M : ms[x].next = q
    <3>1. PICK x \in L : ns[x].next = q
      BY <2>3, <1>1
    <3>2. CASE x = p
      BY <3>1, <3>2, <1>2
    <3>3. CASE x # p
      BY <3>1, <3>3, <1>2
    <3>. QED BY <3>2, <3>3
  <2>. QED BY <2>1, <2>2, <2>3
<1>6. Placed(r)
  <2>1. 1 <= d2[r] /\ d2[r] <= N
    BY <1>1, <1>3
  <2>2. ASSUME ms[r].next # None PROVE ms[r].next \in M /\ d2[ms[r].next] = d2[r] + 1
    <3>. DEFINE n == ns[p].next
    <3>1. n \in L /\ d[n] = d[p] + 1 /\ ms[r].next = n /\ d[p] \in Nat
      BY <2>2, <1>1, <1>2
    <3>. HIDE DEF n
    <3>2. d2[n] = d[p] + 2
      BY <3>1, <1>3
    <3>. QED BY <3>1, <3>2, <1>3
  <2>3. \E x \in M : ms[x].next = r
    BY <1>2
  <2>. QED BY <2>1, <2>2, <2>3
<1>7. \A q \in M : Placed(q)
  <2>. HIDE DEF Placed
  <2>. QED BY <1>5, <1>6
<1>. QED BY <1>3, <1>4, <1>7 DEF Linked

\* Once the left half of a leaf is written the right one is in the chain, and
\* no entry is lost.
LEMMA LeafWritten ==
    ASSUME NEW ns \in Seq(Node), NEW rt, NEW C, NEW h, NEW S, NEW top, NEW bad, NEW d, NEW P,
           Tree(ns, rt, C, h, S, top, bad, d),
           NEW t, t.node \in Node, Splitting(ns, t, C, h, S, P), t.right \notin C,
           ns[t.page].kind = "leaf", WriteLeaf(ns, t, C, d),
           NEW ms, Writes(ms, ns, t.page, t.node),
           NEW u, Rephased(u, t, "adopt")
    PROVE  Advances(ns, ms, rt, u, C, S, top, P)
<1>. DEFINE p == t.page
            r == t.right
            L == Leaves(ns, C)
            N == Len(ns)
            C2 == C \cup {r}
            h2 == [q \in C2 |-> IF q = r THEN 0 ELSE h[q]]
<1>1. /\ Consistent(ns, C, h, top, bad) /\ BadOK(ns, C, h, rt, top, bad)
      /\ Spine(ns, rt, C, h, S, top) /\ Chain(ns, C, d)
  BY DEF Tree
<1>2. /\ Path(ns, C, h, S, P, p) /\ r \in DOMAIN ns /\ r \notin S /\ r # p /\ Detached(ns, C, r)
      /\ t.up = ns[p].parent /\ t.node.parent = t.up /\ ns[r].parent = t.up /\ r \notin C
  BY DEF Splitting
<1>3. /\ t.node.kind = "leaf" /\ ns[r].kind = "leaf" /\ t.kids = << >>
      /\ t.node.next = r /\ ns[r].next = ns[p].next
      /\ \A q \in L : d[q] < N
      /\ Pairs(t.node.entries) \cup Pairs(ns[r].entries)
            = Pairs(ns[p].entries) \cup {<<t.key, t.rid>>}
  BY DEF WriteLeaf
<1>4. p \in C /\ P \subseteq C /\ p \in L /\ p \in DOMAIN ns /\ C \subseteq DOMAIN ns
  BY <1>1, <1>2 DEF Path, Consistent, Leaves
<1>5. /\ ms \in Seq(Node) /\ Len(ms) = N /\ DOMAIN ms = DOMAIN ns /\ N \in Nat
      /\ ms[p] = t.node /\ \A q \in DOMAIN ns : q # p => ms[q] = ns[q]
      /\ DOMAIN ns = 1 .. N
  BY <1>4, Updated
<1>6. ms[r] = ns[r] /\ ms[p].parent = ns[p].parent /\ ms[p].kind = "leaf" /\ \A q \in C : q # p => ms[q] = ns[q]
  BY <1>2, <1>3, <1>4, <1>5
<1>7. \A q \in C : /\ ms[q].parent = ns[q].parent /\ ms[q].kind = ns[q].kind
                   /\ ms[q].kind = "internal" => ms[q] = ns[q]
  BY <1>6
<1>8. h \in [C -> Nat] /\ h2 \in [C2 -> Nat] /\ h2[r] = 0 /\ \A q \in C : h2[q] = h[q]
  BY <1>1, <1>2 DEF Consistent
<1>. HIDE DEF h2
<1>9. Consistent(ms, C2, h2, top, bad)
  <2>1. C2 \subseteq DOMAIN ms
    BY <1>2, <1>4, <1>5
  <2>2. ASSUME NEW q \in C2
        PROVE  /\ ms[q].kind \in {"leaf", "internal"} /\ h2[q] < Len(ms)
               /\ ms[q].kind = "leaf" => h2[q] = 0
               /\ ms[q].kind = "internal" => q \in C
    <3>1. CASE q = r
      <4>1. 0 < N
        BY <1>4, <1>5
      <4>. QED BY <3>1, <4>1, <1>3, <1>5, <1>6, <1>8
    <3>2. CASE q # r
      BY <3>2, <1>1, <1>5, <1>7, <1>8 DEF Consistent
    <3>. QED BY <3>1, <3>2
  <2>3. ASSUME NEW q \in C, ms[q].kind = "internal" PROVE Inner(ms, C2, h2, top, bad, q)
    <3>1. ms[q] = ns[q] /\ Inner(ns, C, h, top, bad, q) /\ h2[q] = h[q]
      BY <2>3, <1>1, <1>7, <1>8 DEF Consistent
    <3>2. \A c \in C : c \in C2 /\ h2[c] = h[c] /\ ms[c].parent = ns[c].parent
      BY <1>7, <1>8
    <3>. HIDE DEF C2
    <3>. QED BY <3>1, <3>2 DEF Inner
  <2>. QED BY <1>8, <2>1, <2>2, <2>3 DEF Consistent
<1>10. BadOK(ms, C2, h2, rt, top, bad) /\ (p = top => bad = None)
  <2>1. top \in C /\ rt \in C
    BY <1>1 DEF Spine
  <2>. QED BY <1>1, <1>4, <1>7, <1>8, <2>1 DEF BadOK, Leaves
<1>11. Spine(ms, rt, C2, h2, S, top)
  <2>1. S \subseteq C
    BY <1>1 DEF Spine
  <2>2. ASSUME NEW q \in S
        PROVE  /\ ms[q].kind = "leaf" => q = 1
               /\ ms[q].kind = "internal" => ms[q].children[1] \in S
               /\ q # top => /\ h2[q] < h2[top] /\ ms[q].parent \in S
                             /\ ms[ms[q].parent].kind = "internal"
                             /\ ms[ms[q].parent].children[1] = q
    <3>1. /\ ns[q].kind = "leaf" => q = 1
          /\ ns[q].kind = "internal" => ns[q].children[1] \in S
          /\ q # top => /\ h[q] < h[top] /\ ns[q].parent \in S
                        /\ ns[ns[q].parent].kind = "internal"
                        /\ ns[ns[q].parent].children[1] = q
      BY <1>1 DEF Spine
    <3>2. q \in C /\ top \in C /\ ms[q].parent = ns[q].parent /\ ms[q].kind = ns[q].kind
          /\ h2[q] = h[q] /\ h2[top] = h[top]
      BY <1>1, <1>7, <1>8, <2>1 DEF Spine
    <3>3. ms[q].kind = "internal" => ms[q].children = ns[q].children
      BY <1>7, <3>2
    <3>4. ASSUME q # top
          PROVE  /\ ns[q].parent \in C /\ ms[ns[q].parent].kind = "internal"
                 /\ ms[ns[q].parent].children = ns[ns[q].parent].children
      BY <1>7, <2>1, <3>1, <3>4
    <3>. QED BY <3>1, <3>2, <3>3, <3>4
  <2>3. S \subseteq C2 /\ 1 \in S /\ rt \in S /\ top \in S
    BY <1>1, <2>1 DEF Spine
  <2>4. ms[top].parent = None
    BY <1>1, <1>7, <2>1 DEF Spine
  <2>. HIDE DEF C2
  <2>. QED BY <2>2, <2>3, <2>4 DEF Spine
<1>12. Leaves(ms, C2) = L \cup {r}
  BY <1>2, <1>3, <1>6, <1>7 DEF Leaves
<1>13. PICK d2 : Linked(L \cup {r}, ms, d2, N)
  <2>1. Linked(L, ns, d, N)
    BY <1>1 DEF Chain, Linked
  <2>2. \A q \in L : d[q] = d[p] => q = p
    BY <1>1, <1>4, OrderFacts
  <2>3. r \notin L /\ L \subseteq C
    BY <1>2 DEF Leaves
  <2>4. Spliced(ms, ns, L, d, p, r, N)
    BY <1>3, <1>5, <1>6, <2>2, <2>3 DEF Spliced
  <2>. QED BY <1>4, <1>5, <2>1, <2>4, LinkIn
<1>15. L \subseteq C
  BY DEF Leaves
<1>17. Chain(ms, C2, d2)
  <2>. DEFINE M == L \cup {r}
  <2>1. Linked(M, ms, d2, Len(ms)) /\ Leaves(ms, C2) = M
    BY <1>5, <1>12, <1>13
  <2>. HIDE DEF M, C2
  <2>. QED BY <2>1 DEF Chain, Linked
<1>18. Tree(ms, rt, C2, h2, S, top, bad, d2)
  BY <1>9, <1>10, <1>11, <1>17 DEF Tree
<1>19. Shown(ns, C) \subseteq Shown(ms, C2) /\ <<t.key, t.rid>> \in Shown(ms, C2)
  <2>1. Pairs(ns[p].entries) \cup {<<t.key, t.rid>>} \subseteq Pairs(ms[p].entries) \cup Pairs(ms[r].entries)
    BY <1>3, <1>5, <1>6
  <2>2. p \in Leaves(ms, C2) /\ r \in Leaves(ms, C2)
    BY <1>4, <1>12
  <2>3. Pairs(ms[p].entries) \subseteq Shown(ms, C2) /\ Pairs(ms[r].entries) \subseteq Shown(ms, C2)
    BY <2>2 DEF Shown
  <2>4. ASSUME NEW q \in L PROVE Pairs(ns[q].entries) \subseteq Shown(ms, C2)
    <3>1. CASE q = p
      BY <3>1, <2>1, <2>3
    <3>2. CASE q # p
      <4>1. ms[q] = ns[q] /\ q \in Leaves(ms, C2)
        BY <3>2, <1>6, <1>12, <1>15
      <4>. QED BY <4>1 DEF Shown
    <3>. QED BY <3>1, <3>2
  <2>5. Shown(ns, C) \subseteq Shown(ms, C2)
    <3>. DEFINE X == Shown(ms, C2)
    <3>. HIDE DEF X
    <3>1. \A q \in L : Pairs(ns[q].entries) \subseteq X
      BY <2>4 DEF X
    <3>2. Shown(ns, C) \subseteq X
      BY <3>1 DEF Shown
    <3>. QED BY <3>2 DEF X
  <2>. QED BY <2>1, <2>3, <2>5
<1>20. Splitting(ms, u, C2, h2, S, P)
  <2>1. Path(ms, C2, h2, S, P, p)
    BY <1>2, <1>4, <1>7, <1>8 DEF Path
  <2>2. Detached(ms, C2, r)
    <3>1. \A w \in C2 : ms[w].kind = "internal" => w \in C /\ ms[w] = ns[w]
      BY <1>3, <1>6, <1>7
    <3>. QED BY <3>1, <1>2 DEF Detached, ChildOf
  <2>. QED BY <2>1, <2>2, <1>2, <1>5, <1>6 DEF Splitting, Rephased
<1>21. PendingAdopt(ms, u, C2, h2, S, top, bad, P)
  <2>1. h2[r] = h2[p]
    BY <1>1, <1>4, <1>8 DEF Consistent, Leaves
  <2>. QED BY <2>1, <1>3, <1>10, <1>19, <1>20 DEF PendingAdopt, Rephased
<1>. QED BY <1>18, <1>19, <1>21 DEF Advances

\* Once the left half of an internal node is written its other children have no
\* parent in the tree.
LEMMA InnerWritten ==
    ASSUME NEW ns \in Seq(Node), NEW rt, NEW C, NEW h, NEW S, NEW top, NEW bad, NEW d, NEW P,
           Tree(ns, rt, C, h, S, top, bad, d),
           NEW t, t.node \in Node, Splitting(ns, t, C, h, S, P), t.right \notin C,
           ns[t.page].kind = "internal", WriteInner(ns, t, C, h, S),
           <<t.key, t.rid>> \in Shown(ns, C),
           NEW ms, Writes(ms, ns, t.page, t.node),
           NEW u, Rephased(u, t, "adopt")
    PROVE  Advances(ns, ms, rt, u, C, S, top, P)
<1>. DEFINE p == t.page
            r == t.right
            N == Len(ns)
            bad2 == IF p = top THEN None ELSE bad
<1>1. /\ Consistent(ns, C, h, top, bad) /\ BadOK(ns, C, h, rt, top, bad)
      /\ Spine(ns, rt, C, h, S, top) /\ Chain(ns, C, d)
  BY DEF Tree
<1>2. /\ Path(ns, C, h, S, P, p) /\ r \in DOMAIN ns /\ r \notin S /\ r # p /\ Detached(ns, C, r)
      /\ t.up = ns[p].parent /\ t.node.parent = t.up /\ ns[r].parent = t.up /\ r \notin C
  BY DEF Splitting
<1>3. /\ t.node.kind = "internal" /\ Half(ns, t, C, h, S) /\ t.kids = ns[r].children
      /\ Len(t.node.children) = Len(t.node.keys) + 1 /\ Injective(t.node.children)
      /\ t.node.children[1] = ns[p].children[1]
      /\ \A i \in DOMAIN t.node.children :
            /\ t.node.children[i] \in C /\ h[t.node.children[i]] = h[p] - 1
            /\ ns[t.node.children[i]].parent = p
      /\ \A i \in DOMAIN t.kids :
            /\ \A j \in DOMAIN t.node.children : t.kids[i] # t.node.children[j]
            /\ Detached(ns, C \ {p}, t.kids[i])
  BY DEF WriteInner
<1>4. p \in C /\ P \subseteq C /\ p \in DOMAIN ns /\ C \subseteq DOMAIN ns /\ h[p] > 0
  BY <1>1, <1>2 DEF Path, Consistent, Inner
<1>5. /\ ms \in Seq(Node) /\ Len(ms) = N /\ DOMAIN ms = DOMAIN ns /\ N \in Nat
      /\ ms[p] = t.node /\ \A q \in DOMAIN ns : q # p => ms[q] = ns[q]
  BY <1>4, Updated
<1>6. ms[r] = ns[r] /\ \A q \in C : q # p => ms[q] = ns[q]
  BY <1>2, <1>4, <1>5
<1>7. \A q \in C : /\ ms[q].parent = ns[q].parent /\ ms[q].kind = ns[q].kind
                   /\ ms[q].kind = "leaf" => ms[q] = ns[q]
                   /\ ms[q].children[1] = ns[q].children[1]
  BY <1>2, <1>3, <1>5, <1>6
<1>8. Consistent(ms, C, h, top, bad2)
  <2>1. ASSUME NEW q \in C, ms[q].kind = "internal" PROVE Inner(ms, C, h, top, bad2, q)
    <3>1. CASE q = p
      <4>. DEFINE m == t.node
      <4>1. /\ ms[p] = m /\ h[p] > 0 /\ Len(m.children) = Len(m.keys) + 1 /\ Injective(m.children)
            /\ \A i \in DOMAIN m.children :
                  m.children[i] \in C /\ h[m.children[i]] = h[p] - 1 /\ ms[m.children[i]].parent = p
        <5>1. ms[p] = m /\ h[p] > 0 /\ Len(m.children) = Len(m.keys) + 1 /\ Injective(m.children)
          BY <1>3, <1>4, <1>5
        <5>. QED BY <5>1, <1>3, <1>7
      <4>. HIDE DEF m, p, bad2
      <4>. QED BY <3>1, <4>1 DEF Inner
    <3>2. CASE q # p
      <4>1. ms[q] = ns[q] /\ Inner(ns, C, h, top, bad, q)
        BY <2>1, <3>2, <1>1, <1>6 DEF Consistent
      <4>2. q = top => bad2 = bad
        BY <3>2
      <4>3. \A c \in C : ms[c].parent = ns[c].parent
        BY <1>7
      <4>. HIDE DEF bad2
      <4>. QED BY <4>1, <4>2, <4>3 DEF Inner
    <3>. QED BY <3>1, <3>2
  <2>. QED BY <2>1, <1>1, <1>5, <1>7 DEF Consistent
<1>9. BadOK(ms, C, h, rt, top, bad2)
  <2>1. top \in C
    BY <1>1 DEF Spine
  <2>. QED BY <1>1, <1>6, <1>7, <2>1 DEF BadOK
<1>10. Spine(ms, rt, C, h, S, top)
  BY <1>1, <1>7 DEF Spine
<1>11. Leaves(ms, C) = Leaves(ns, C) /\ \A q \in Leaves(ns, C) : ms[q] = ns[q]
  BY <1>7 DEF Leaves
<1>12. Chain(ms, C, d)
  BY <1>1, <1>5, <1>11 DEF Chain
<1>13. Shown(ms, C) = Shown(ns, C)
  BY <1>11 DEF Shown
<1>14. Splitting(ms, u, C, h, S, P)
  <2>1. Path(ms, C, h, S, P, p)
    BY <1>2, <1>4, <1>7 DEF Path
  <2>2. Detached(ms, C, r)
    BY <1>2, <1>8, OutsideDetached
  <2>. QED BY <2>1, <2>2, <1>2, <1>5, <1>6 DEF Splitting, Rephased
<1>15. Adopting(ms, u, C, h, S)
  <2>1. Half(ms, u, C, h, S)
    BY <1>3, <1>6 DEF Half, Rephased
  <2>2. ASSUME NEW i \in DOMAIN ns[r].children PROVE Detached(ms, C, ns[r].children[i])
    <3>. DEFINE c == ns[r].children[i]
    <3>1. \A j \in DOMAIN t.node.children : c # t.node.children[j]
      BY <1>3
    <3>2. Detached(ns, C \ {p}, c)
      BY <1>3
    <3>3. ASSUME NEW w \in C, ms[w].kind = "internal" PROVE ~ ChildOf(ms, w, c)
      <4>1. CASE w = p
        BY <4>1, <3>1, <1>5 DEF ChildOf
      <4>2. CASE w # p
        BY <4>2, <3>2, <3>3, <1>6 DEF ChildOf, Detached
      <4>. QED BY <4>1, <4>2
    <3>. QED BY <3>3 DEF Detached
  <2>3. u.kids = ns[r].children /\ u.right = r /\ u.page = p
    BY <1>3 DEF Rephased
  <2>4. ms[p].kind = "internal"
    BY <1>3, <1>5
  <2>. QED BY <1>2, <1>6, <2>1, <2>2, <2>3, <2>4 DEF Adopting, ChildOf
<1>16. u.kids # << >>
  <2>1. ns[r] \in Node /\ ns[r].kind = "internal" /\ Len(ns[r].children) = Len(ns[r].keys) + 1
    BY <1>2, <1>3 DEF Half
  <2>2. ns[r].keys \in Seq(Keys)
    BY <2>1, NodeFields
  <2>. QED BY <1>3, <2>1, <2>2 DEF Rephased
<1>17. PendingAdopt(ms, u, C, h, S, top, bad2, P)
  BY <1>13, <1>14, <1>15, <1>16 DEF PendingAdopt, Rephased
<1>18. Tree(ms, rt, C, h, S, top, bad2, d)
  BY <1>8, <1>9, <1>10, <1>12 DEF Tree
<1>. QED BY <1>13, <1>17, <1>18 DEF Advances

\* Writing the left half keeps the invariant.
LEMMA WriteLeftShape ==
    ASSUME ShapeInv, WriteLeft
    PROVE  Kept
<1>1. PICK C, h, S, top, bad, d, P :
         /\ Shape(nodes, root, task, C, h, S, top, bad, d, P) /\ acked \subseteq Shown(nodes, C)
  BY DEF ShapeInv
<1>2. TypeOK /\ FiniteLeaves(nodes) /\ nodes \in Seq(Node)
  BY DEF ShapeInv, TypeOK
<1>3. Tree(nodes, root, C, h, S, top, bad, d) /\ task.phase = "write"
      /\ PendingWrite(nodes, task, C, h, S, d, P)
  BY <1>1 DEF Shape, Pending, WriteLeft
<1>4. task \in Task /\ task # Idle /\ task.node \in Node
  BY <1>2, <1>3, TaskFields DEF TypeOK
<1>5. /\ Splitting(nodes, task, C, h, S, P) /\ task.right \notin C
      /\ task.node.kind = nodes[task.page].kind
      /\ \/ WriteLeaf(nodes, task, C, d)
         \/ WriteInner(nodes, task, C, h, S) /\ <<task.key, task.rid>> \in Shown(nodes, C)
  BY <1>3 DEF PendingWrite
<1>6. Writes(nodes', nodes, task.page, task.node) /\ UNCHANGED <<root, faults, acked, last>>
  BY DEF WriteLeft, Writes
<1>7. task' \in Task /\ Rephased(task', task, "adopt")
  <2>1. task' = [task EXCEPT !.phase = "adopt"]
    BY DEF WriteLeft
  <2>. QED BY <1>4, <2>1, TaskPhase DEF Rephased
<1>8. task.page \in DOMAIN nodes
  BY <1>3, <1>5 DEF Splitting, Path, Tree, Consistent
<1>9. /\ nodes' \in Seq(Node) /\ Len(nodes') = Len(nodes) /\ DOMAIN nodes' = DOMAIN nodes
      /\ nodes'[task.page] = task.node
      /\ \A q \in DOMAIN nodes : q # task.page => nodes'[q] = nodes[q]
  BY <1>2, <1>4, <1>6, <1>8, Updated
<1>10. TypeOK'
  BY <1>2, <1>6, <1>7, <1>9 DEF TypeOK
<1>11. FiniteLeaves(nodes')
  <2>1. task.node.kind = "leaf" => IsFiniteSet(DOMAIN task.node.entries)
    BY <1>5 DEF WriteLeaf, WriteInner
  <2>. QED BY <1>2, <1>9, <2>1 DEF FiniteLeaves
<1>12. Advances(nodes, nodes', root, task', C, S, top, P)
  <2>1. CASE WriteLeaf(nodes, task, C, d)
    BY <2>1, <1>2, <1>3, <1>4, <1>5, <1>6, <1>7, LeafWritten DEF WriteLeaf
  <2>2. CASE WriteInner(nodes, task, C, h, S) /\ <<task.key, task.rid>> \in Shown(nodes, C)
    BY <2>2, <1>2, <1>3, <1>4, <1>5, <1>6, <1>7, InnerWritten DEF WriteInner
  <2>. QED BY <1>5, <2>1, <2>2
<1>13. PICK C2, h2, bad2, d2 :
        /\ Tree(nodes', root, C2, h2, S, top, bad2, d2)
        /\ PendingAdopt(nodes', task', C2, h2, S, top, bad2, P)
        /\ Shown(nodes, C) \subseteq Shown(nodes', C2)
  BY <1>12 DEF Advances
<1>14. Shape(nodes', root', task', C2, h2, S, top, bad2, d2, P)
  BY <1>6, <1>7, <1>13 DEF Shape, Pending, Rephased
<1>15. Shown(nodes, C) \cup acked' \subseteq Shown(nodes', C2)
  BY <1>1, <1>6, <1>13
<1>. QED BY <1>2, <1>3, <1>10, <1>11, <1>14, <1>15, StepTo

-----------------------------------------------------------------------------
(* A child of the right half learns its parent. *)

\* Nodes that differ at most in their parent.
SameBody(m, n) ==
    /\ m.kind = n.kind
    /\ n.kind = "leaf" => m.next = n.next /\ m.entries = n.entries
    /\ n.kind = "internal" => m.keys = n.keys /\ m.children = n.children

SetParent(ms, ns, k, q) ==
    /\ ms \in Seq(Node) /\ Len(ms) = Len(ns) /\ DOMAIN ms = DOMAIN ns /\ Len(ns) \in Nat
    /\ ms[k].parent = q /\ SameBody(ms[k], ns[k])
    /\ \A p \in DOMAIN ns : p # k => ms[p] = ns[p]

ParentWritten(ms, ns, k, q) == ms = [ns EXCEPT ![k].parent = q]

\* SetParent changes the parent of one page.
LEMMA SetParentFacts ==
    ASSUME NEW ns \in Seq(Node), NEW k \in DOMAIN ns, ns[k].kind # "blank", NEW q \in PageIds,
           NEW ms, ParentWritten(ms, ns, k, q)
    PROVE  SetParent(ms, ns, k, q) /\ \A p \in DOMAIN ns : SameBody(ms[p], ns[p])
<1>. DEFINE m == [ns[k] EXCEPT !.parent = q]
<1>1. ns[k] \in Node
  OBVIOUS
<1>2. m \in Node /\ m.parent = q /\ SameBody(m, ns[k])
  BY <1>1, Reparented DEF SameBody
<1>3. Writes(ms, ns, k, m)
  BY DEF Writes, ParentWritten
<1>. HIDE DEF m
<1>4. /\ ms \in Seq(Node) /\ Len(ms) = Len(ns) /\ DOMAIN ms = DOMAIN ns /\ Len(ns) \in Nat
      /\ ms[k] = m /\ \A p \in DOMAIN ns : p # k => ms[p] = ns[p]
  BY <1>2, <1>3, Updated
<1>5. \A p \in DOMAIN ns : SameBody(ms[p], ns[p])
  BY <1>2, <1>4 DEF SameBody
<1>. QED BY <1>2, <1>4, <1>5 DEF SetParent

SameLinks(ms, D, ns, C) ==
    /\ Leaves(ms, D) = Leaves(ns, C)
    /\ \A p \in Leaves(ns, C) : ms[p].next = ns[p].next

\* A step that changes no link keeps the chain.
LEMMA ChainFrame ==
    ASSUME NEW ns, NEW ms, NEW C, NEW D, NEW d, Chain(ns, C, d), SameLinks(ms, D, ns, C),
           Len(ns) \in Nat, Len(ms) \in Nat, Len(ns) <= Len(ms)
    PROVE  Chain(ms, D, d)
<1>. DEFINE L == Leaves(ns, C)
<1>1. Leaves(ms, D) = L /\ \A p \in L : ms[p].next = ns[p].next
  BY DEF SameLinks
<1>2. /\ d \in [L -> Nat] /\ 1 \in L /\ d[1] = 1
      /\ \A p \in L :
            /\ 1 <= d[p] /\ d[p] <= Len(ns)
            /\ ns[p].next # None => ns[p].next \in L /\ d[ns[p].next] = d[p] + 1
            /\ p # 1 => \E q \in L : ns[q].next = p
  BY DEF Chain
<1>. HIDE DEF L
<1>3. \A p \in L : d[p] <= Len(ms)
  BY <1>2
<1>. QED BY <1>1, <1>2, <1>3 DEF Chain

\* A page off the spine that is nobody's child may name any parent.
LEMMA DetachedLearns ==
    ASSUME NEW ns \in Seq(Node), NEW rt, NEW C, NEW h, NEW S, NEW top, NEW bad, NEW d,
           Tree(ns, rt, C, h, S, top, bad, d),
           NEW k \in C, k \notin S, Detached(ns, C, k), NEW q, NEW ms, SetParent(ms, ns, k, q)
    PROVE  /\ Tree(ms, rt, C, h, S, top, bad, d)
           /\ Shown(ms, C) = Shown(ns, C)
           /\ \A c : Detached(ms, C, c) <=> Detached(ns, C, c)
           /\ k # top
<1>1. /\ Consistent(ns, C, h, top, bad) /\ BadOK(ns, C, h, rt, top, bad)
      /\ Spine(ns, rt, C, h, S, top) /\ Chain(ns, C, d)
  BY DEF Tree
<1>2. C \subseteq DOMAIN ns
  BY <1>1 DEF Consistent
<1>3. \A p \in C : SameBody(ms[p], ns[p]) /\ (p # k => ms[p].parent = ns[p].parent)
  BY <1>2 DEF SetParent, SameBody
<1>4. Len(ms) = Len(ns) /\ DOMAIN ms = DOMAIN ns
  BY DEF SetParent
<1>5. top \in C /\ S \subseteq C /\ k # top
  BY <1>1 DEF Spine
<1>6. Consistent(ms, C, h, top, bad)
  <2>1. ASSUME NEW p \in C, ms[p].kind = "internal" PROVE Inner(ms, C, h, top, bad, p)
    <3>1. ns[p].kind = "internal" /\ ms[p].keys = ns[p].keys /\ ms[p].children = ns[p].children
      BY <2>1, <1>3 DEF SameBody
    <3>2. Inner(ns, C, h, top, bad, p)
      BY <1>1, <3>1 DEF Consistent
    <3>3. \A i \in DOMAIN ns[p].children : ns[p].children[i] # k
      BY <3>1 DEF Detached, ChildOf
    <3>. QED BY <3>1, <3>2, <3>3, <1>3 DEF Inner
  <2>. QED BY <2>1, <1>1, <1>3, <1>4 DEF Consistent, SameBody
<1>7. BadOK(ms, C, h, rt, top, bad)
  <2>1. ASSUME bad # None PROVE bad # k
    <3>1. ns[top].kind = "internal" /\ Len(ns[top].children) > 1
          /\ bad = ns[top].children[Len(ns[top].children)]
      BY <2>1, <1>1 DEF BadOK
    <3>2. ns[top] \in Node
      BY <1>2, <1>5
    <3>3. ns[top].children \in Seq(PageIds)
      BY <3>1, <3>2, NodeFields
    <3>4. Len(ns[top].children) \in DOMAIN ns[top].children
      BY <3>1, <3>3
    <3>5. ChildOf(ns, top, bad)
      BY <3>1, <3>4 DEF ChildOf
    <3>. QED BY <3>1, <3>5, <1>5 DEF Detached
  <2>. QED BY <2>1, <1>1, <1>3, <1>5 DEF BadOK, SameBody
<1>8. Spine(ms, rt, C, h, S, top)
  <2>1. ASSUME NEW p \in S
        PROVE  /\ ms[p].kind = "leaf" => p = 1
               /\ ms[p].kind = "internal" => ms[p].children[1] \in S
               /\ p # top => /\ h[p] < h[top] /\ ms[p].parent \in S
                             /\ ms[ms[p].parent].kind = "internal"
                             /\ ms[ms[p].parent].children[1] = p
    <3>1. /\ ns[p].kind = "leaf" => p = 1
          /\ ns[p].kind = "internal" => ns[p].children[1] \in S
          /\ p # top => /\ h[p] < h[top] /\ ns[p].parent \in S
                        /\ ns[ns[p].parent].kind = "internal"
                        /\ ns[ns[p].parent].children[1] = p
      BY <1>1 DEF Spine
    <3>2. p \in C /\ ms[p].parent = ns[p].parent
      BY <1>3, <1>5
    <3>. QED BY <3>1, <3>2, <1>3, <1>5 DEF SameBody
  <2>. QED BY <2>1, <1>1, <1>3, <1>5 DEF Spine
<1>9. /\ Leaves(ms, C) = Leaves(ns, C)
      /\ \A p \in Leaves(ns, C) : ms[p].next = ns[p].next /\ ms[p].entries = ns[p].entries
  BY <1>3 DEF Leaves, SameBody
<1>10. Chain(ms, C, d)
  BY <1>1, <1>4, <1>9 DEF Chain
<1>11. Shown(ms, C) = Shown(ns, C)
  BY <1>9 DEF Shown
<1>12. ASSUME NEW c PROVE Detached(ms, C, c) <=> Detached(ns, C, c)
  BY <1>3 DEF Detached, ChildOf, SameBody
<1>. QED BY <1>5, <1>6, <1>7, <1>8, <1>10, <1>11, <1>12 DEF Tree

\* The internal node all of whose children name it.
Complete(ns, C, h, p, r) ==
    /\ r \in DOMAIN ns /\ r \notin C /\ ns[r].kind = "internal"
    /\ p \in C /\ h[p] > 0
    /\ Len(ns[r].children) = Len(ns[r].keys) + 1
    /\ Injective(ns[r].children)
    /\ \A i \in DOMAIN ns[r].children :
          LET c == ns[r].children[i]
          IN  c \in C /\ h[c] = h[p] - 1 /\ ns[c].parent = r

\* The heights, once r is as high as p.
Joined(h, C, p, r) == [q \in C \cup {r} |-> IF q = r THEN h[p] ELSE h[q]]

\* The right half whose children all name it is a page in order.
LEMMA InnerJoins ==
    ASSUME NEW ns, NEW rt, NEW C, NEW h, NEW S, NEW top, NEW bad, NEW d,
           Tree(ns, rt, C, h, S, top, bad, d),
           NEW p, NEW r, Complete(ns, C, h, p, r)
    PROVE  LET C2 == C \cup {r}
               h2 == Joined(h, C, p, r)
           IN  /\ Tree(ns, rt, C2, h2, S, top, bad, d)
               /\ Detached(ns, C, r) => Detached(ns, C2, r)
<1>. DEFINE C2 == C \cup {r}
            h2 == Joined(h, C, p, r)
<1>1. /\ Consistent(ns, C, h, top, bad) /\ BadOK(ns, C, h, rt, top, bad)
      /\ Spine(ns, rt, C, h, S, top) /\ Chain(ns, C, d)
  BY DEF Tree
<1>2. /\ r \in DOMAIN ns /\ r \notin C /\ ns[r].kind = "internal"
      /\ p \in C /\ h[p] > 0
      /\ Len(ns[r].children) = Len(ns[r].keys) + 1
      /\ Injective(ns[r].children)
      /\ \A i \in DOMAIN ns[r].children :
          LET c == ns[r].children[i]
          IN  c \in C /\ h[c] = h[p] - 1 /\ ns[c].parent = r
  BY DEF Complete
<1>3. h \in [C -> Nat] /\ C \subseteq DOMAIN ns /\ \A q \in C : h[q] < Len(ns)
  BY <1>1 DEF Consistent
<1>4. h2 \in [C2 -> Nat] /\ h2[r] = h[p] /\ \A q \in C : h2[q] = h[q]
  BY <1>2, <1>3 DEF Joined
<1>. HIDE DEF h2
<1>5. Consistent(ns, C2, h2, top, bad)
  <2>1. ASSUME NEW q \in C, ns[q].kind = "internal" PROVE Inner(ns, C2, h2, top, bad, q)
    <3>1. Inner(ns, C, h, top, bad, q) /\ h2[q] = h[q]
      BY <2>1, <1>1, <1>4 DEF Consistent
    <3>2. \A c \in C : c \in C2 /\ h2[c] = h[c]
      BY <1>4
    <3>. HIDE DEF C2
    <3>. QED BY <3>1, <3>2 DEF Inner
  <2>2. Inner(ns, C2, h2, top, bad, r)
    <3>1. \A c \in C : c \in C2 /\ h2[c] = h[c]
      BY <1>4
    <3>. HIDE DEF C2
    <3>. QED BY <3>1, <1>2, <1>4 DEF Inner
  <2>3. ASSUME NEW q \in C2
        PROVE  /\ ns[q].kind \in {"leaf", "internal"} /\ h2[q] < Len(ns)
               /\ ns[q].kind = "leaf" => h2[q] = 0
               /\ ns[q].kind = "internal" => Inner(ns, C2, h2, top, bad, q)
    <3>1. CASE q = r
      BY <3>1, <2>2, <1>2, <1>3, <1>4
    <3>2. CASE q # r
      <4>1. q \in C
        BY <3>2
      <4>. QED BY <4>1, <2>1, <1>1, <1>4 DEF Consistent
    <3>. QED BY <3>1, <3>2
  <2>4. C2 \subseteq DOMAIN ns
    BY <1>2, <1>3
  <2>. HIDE DEF C2
  <2>. QED BY <2>3, <2>4, <1>4 DEF Consistent
<1>6. top \in C /\ rt \in C /\ S \subseteq C
  BY <1>1 DEF Spine
<1>7. BadOK(ns, C2, h2, rt, top, bad)
  BY <1>1, <1>4, <1>6 DEF BadOK
<1>8. Spine(ns, rt, C2, h2, S, top)
  BY <1>1, <1>4, <1>6 DEF Spine
<1>9. Leaves(ns, C2) = Leaves(ns, C)
  BY <1>2 DEF Leaves
<1>10. Chain(ns, C2, d)
  BY <1>1, <1>9 DEF Chain
<1>11. ASSUME Detached(ns, C, r) PROVE Detached(ns, C2, r)
  BY <1>2, <1>11 DEF Detached, ChildOf
<1>. QED BY <1>5, <1>7, <1>8, <1>10, <1>11 DEF Tree, h2

\* A child of the right half learns its parent, and the last one makes the half
\* a page in order.
LEMMA Adopted ==
    ASSUME NEW ns \in Seq(Node), NEW rt, NEW C, NEW h, NEW S, NEW top, NEW bad, NEW d, NEW P,
           Tree(ns, rt, C, h, S, top, bad, d),
           NEW t, t.kids \in Seq(PageIds), t.kids # << >>,
           PendingAdopt(ns, t, C, h, S, top, bad, P), Adopting(ns, t, C, h, S),
           NEW ms, SetParent(ms, ns, Head(t.kids), t.right),
           NEW u, u.key = t.key, u.rid = t.rid, u.page = t.page, u.node = t.node,
           u.right = t.right, u.up = t.up, u.kids = Tail(t.kids)
    PROVE  Advances(ns, ms, rt, u, C, S, top, P)
<1>. DEFINE p == t.page
            r == t.right
            k == Head(t.kids)
            kids == Tail(t.kids)
<1>1. /\ Consistent(ns, C, h, top, bad) /\ Spine(ns, rt, C, h, S, top)
  BY DEF Tree
<1>2. /\ Splitting(ns, t, C, h, S, P) /\ (p = top => bad = None)
      /\ <<t.key, t.rid>> \in Shown(ns, C)
  BY DEF PendingAdopt
<1>3. /\ Path(ns, C, h, S, P, p) /\ r \in DOMAIN ns /\ r \notin S /\ r # p /\ Detached(ns, C, r)
      /\ t.up = ns[p].parent /\ t.node.parent = t.up /\ ns[r].parent = t.up
  BY <1>2 DEF Splitting
<1>4. /\ r \notin C /\ ns[p].kind = "internal" /\ Half(ns, t, C, h, S)
      /\ \A i \in DOMAIN ns[r].children :
            /\ Detached(ns, C, ns[r].children[i])
            /\ ns[ns[r].children[i]].parent = r \/ \E j \in DOMAIN t.kids : t.kids[j] = ns[r].children[i]
      /\ \A j \in DOMAIN t.kids : ChildOf(ns, r, t.kids[j])
  BY DEF Adopting
<1>5. /\ ns[r].kind = "internal" /\ Len(ns[r].children) = Len(ns[r].keys) + 1
      /\ Injective(ns[r].children)
      /\ \A i \in DOMAIN ns[r].children :
            /\ ns[r].children[i] \in C /\ ns[r].children[i] \notin S
            /\ h[ns[r].children[i]] = h[p] - 1
  BY <1>4 DEF Half
<1>6. /\ k = t.kids[1] /\ 1 \in DOMAIN t.kids /\ Len(t.kids) \in Nat /\ Len(t.kids) >= 1
      /\ kids \in Seq(PageIds) /\ Len(kids) = Len(t.kids) - 1
      /\ \A j \in 1 .. Len(t.kids) - 1 : kids[j] = t.kids[j + 1]
      /\ DOMAIN t.kids = 1 .. Len(t.kids) /\ DOMAIN kids = 1 .. Len(t.kids) - 1
  BY TailFacts
<1>. HIDE DEF k, kids
<1>7. PICK i \in DOMAIN ns[r].children : ns[r].children[i] = k
  BY <1>4, <1>6 DEF ChildOf
<1>8. k \in C /\ k \notin S /\ h[k] = h[p] - 1 /\ Detached(ns, C, k)
  BY <1>4, <1>5, <1>7
<1>9. p \in C /\ P \subseteq C /\ h \in [C -> Nat] /\ h[p] > 0 /\ C \subseteq DOMAIN ns
  BY <1>1, <1>3, <1>4 DEF Path, Consistent, Inner
<1>10. SetParent(ms, ns, k, r)
  BY DEF k
<1>11. /\ Tree(ms, rt, C, h, S, top, bad, d) /\ Shown(ms, C) = Shown(ns, C)
       /\ \A c : Detached(ms, C, c) <=> Detached(ns, C, c)
  BY <1>8, <1>10, DetachedLearns
<1>12. /\ ms[k].parent = r /\ \A q \in DOMAIN ns : q # k => ms[q] = ns[q]
       /\ Len(ms) = Len(ns) /\ DOMAIN ms = DOMAIN ns
  BY <1>10 DEF SetParent
<1>13. k \notin P /\ k # p /\ k # r
  <2>1. \A x \in P : h[x] >= h[p]
    BY <1>3 DEF Path
  <2>2. h[p] \in Nat
    BY <1>9
  <2>. QED BY <1>3, <1>4, <1>8, <2>1, <2>2 DEF Path
<1>14. ms[p] = ns[p] /\ ms[r] = ns[r] /\ \A x \in P : ms[x] = ns[x]
  BY <1>3, <1>9, <1>12, <1>13
<1>15. Path(ms, C, h, S, P, p)
  BY <1>3, <1>14 DEF Path
<1>16. CASE kids # << >>
  <2>1. Splitting(ms, u, C, h, S, P)
    BY <1>3, <1>11, <1>12, <1>14, <1>15 DEF Splitting
  <2>2. Half(ms, u, C, h, S)
    BY <1>4, <1>14 DEF Half
  <2>3. u.kids = kids
    BY DEF kids
  <2>4. ASSUME NEW j \in DOMAIN kids PROVE ChildOf(ms, r, kids[j])
    <3>1. kids[j] = t.kids[j + 1] /\ j + 1 \in DOMAIN t.kids
      BY <1>6
    <3>. QED BY <3>1, <1>4, <1>14 DEF ChildOf
  <2>5. ASSUME NEW n \in DOMAIN ns[r].children
        PROVE  /\ Detached(ms, C, ns[r].children[n])
               /\ \/ ms[ns[r].children[n]].parent = r
                  \/ \E j \in DOMAIN kids : kids[j] = ns[r].children[n]
    <3>. DEFINE c == ns[r].children[n]
    <3>1. Detached(ms, C, c) /\ c \in C
      BY <1>4, <1>5, <1>11
    <3>2. CASE c = k
      BY <3>1, <3>2, <1>12
    <3>3. CASE c # k /\ ns[c].parent = r
      BY <3>1, <3>3, <1>9, <1>12
    <3>4. CASE c # k /\ \E j \in DOMAIN t.kids : t.kids[j] = c
      <4>1. PICK j \in DOMAIN t.kids : t.kids[j] = c
        BY <3>4
      <4>2. j # 1 /\ j \in 1 .. Len(t.kids)
        BY <3>4, <4>1, <1>6
      <4>3. j - 1 \in DOMAIN kids /\ j - 1 \in 1 .. Len(t.kids) - 1
        BY <4>2, <1>6
      <4>4. kids[j - 1] = t.kids[(j - 1) + 1] /\ (j - 1) + 1 = j
        BY <4>2, <4>3, <1>6
      <4>. QED BY <3>1, <4>1, <4>3, <4>4
    <3>. QED BY <3>2, <3>3, <3>4, <1>4
  <2>6. Adopting(ms, u, C, h, S)
    <3>1. u.right = r /\ u.page = p /\ ms[r].children = ns[r].children
      BY <1>14
    <3>2. u.right \notin C /\ ms[u.page].kind = "internal"
      BY <1>4, <1>14, <3>1
    <3>3. \A n \in DOMAIN ms[u.right].children :
            /\ Detached(ms, C, ms[u.right].children[n])
            /\ \/ ms[ms[u.right].children[n]].parent = u.right
               \/ \E j \in DOMAIN u.kids : u.kids[j] = ms[u.right].children[n]
      <4>. HIDE DEF p, r
      <4>1. ASSUME NEW n \in DOMAIN ms[r].children
            PROVE  /\ Detached(ms, C, ms[r].children[n])
                   /\ \/ ms[ms[r].children[n]].parent = r
                      \/ \E j \in DOMAIN kids : kids[j] = ms[r].children[n]
        BY <2>5, <3>1
      <4>. QED BY <2>3, <3>1, <4>1
    <3>4. \A j \in DOMAIN u.kids : ChildOf(ms, u.right, u.kids[j])
      BY <2>3, <2>4, <3>1
    <3>. QED BY <2>2, <3>2, <3>3, <3>4 DEF Adopting
  <2>7. PendingAdopt(ms, u, C, h, S, top, bad, P)
    BY <1>2, <1>11, <1>16, <2>1, <2>3, <2>6 DEF PendingAdopt
  <2>. QED BY <1>11, <2>7 DEF Advances
<1>17. CASE kids = << >>
  <2>1. \A j \in DOMAIN t.kids : t.kids[j] = k
    <3>1. Len(t.kids) = 1
      BY <1>6, <1>17
    <3>. QED BY <3>1, <1>6
  <2>2. ASSUME NEW n \in DOMAIN ns[r].children PROVE ms[ns[r].children[n]].parent = r
    <3>. DEFINE c == ns[r].children[n]
    <3>1. c \in DOMAIN ns /\ (c = k \/ ns[c].parent = r)
      BY <1>4, <1>5, <1>9, <2>1
    <3>. QED BY <3>1, <1>12
  <2>3. Complete(ms, C, h, p, r)
    BY <1>3, <1>4, <1>5, <1>9, <1>12, <1>14, <2>2 DEF Complete
  <2>. DEFINE C2 == C \cup {r}
              h2 == Joined(h, C, p, r)
  <2>4. /\ Tree(ms, rt, C2, h2, S, top, bad, d) /\ Shown(ms, C2) = Shown(ms, C)
        /\ \A q \in C : h2[q] = h[q]
        /\ h2[r] = h[p] /\ Detached(ms, C2, r)
    <3>1. Detached(ms, C, r)
      BY <1>3, <1>11
    <3>2. Tree(ms, rt, C, h, S, top, bad, d)
      BY <1>11
    <3>. HIDE DEF p, r
    <3>3. Tree(ms, rt, C \cup {r}, Joined(h, C, p, r), S, top, bad, d)
      BY <2>3, <3>1, <3>2, InnerJoins
    <3>4. Shown(ms, C \cup {r}) = Shown(ms, C)
      <4>1. ms[r].kind = "internal" /\ Leaves(ms, C \cup {r}) = Leaves(ms, C)
        BY <2>3 DEF Complete, Leaves
      <4>. QED BY <4>1 DEF Shown
    <3>5. Detached(ms, C \cup {r}, r)
      BY <2>3, <3>1, <3>2, InnerJoins
    <3>6. /\ \A q \in C : Joined(h, C, p, r)[q] = h[q]
          /\ Joined(h, C, p, r)[r] = h[p]
      BY <1>4, <1>9 DEF Joined, r
    <3>. QED BY <3>3, <3>4, <3>5, <3>6
  <2>. HIDE DEF h2
  <2>5. Path(ms, C2, h2, S, P, p)
    <3>1. \A x \in P : x \in C /\ h2[x] = h[x]
      BY <1>9, <2>4
    <3>2. \A x \in P : x \in S \/ (ms[x].parent \in P /\ h2[ms[x].parent] = h2[x] + 1)
      BY <1>15, <3>1 DEF Path
    <3>. QED BY <1>9, <1>15, <2>4, <3>1, <3>2 DEF Path
  <2>6. Splitting(ms, u, C2, h2, S, P)
    BY <1>3, <1>12, <1>14, <2>4, <2>5 DEF Splitting
  <2>7. u.kids = << >> /\ u.right \in C2 /\ h2[u.right] = h2[u.page]
    BY <1>9, <1>17, <2>4 DEF kids
  <2>8. <<u.key, u.rid>> \in Shown(ms, C2)
    BY <1>2, <1>11, <2>4
  <2>9. PendingAdopt(ms, u, C2, h2, S, top, bad, P)
    BY <1>2, <2>6, <2>7, <2>8 DEF PendingAdopt
  <2>. QED BY <1>11, <2>4, <2>9 DEF Advances
<1>. QED BY <1>16, <1>17

\* Adopting a child keeps the invariant.
LEMMA AdoptShape ==
    ASSUME ShapeInv, Adopt
    PROVE  Kept
<1>1. PICK C, h, S, top, bad, d, P :
         /\ Shape(nodes, root, task, C, h, S, top, bad, d, P) /\ acked \subseteq Shown(nodes, C)
  BY DEF ShapeInv
<1>2. TypeOK /\ FiniteLeaves(nodes) /\ nodes \in Seq(Node)
  BY DEF ShapeInv, TypeOK
<1>3. /\ Tree(nodes, root, C, h, S, top, bad, d) /\ task.phase = "adopt"
      /\ PendingAdopt(nodes, task, C, h, S, top, bad, P) /\ task.kids # << >>
  BY <1>1 DEF Shape, Pending, Adopt
<1>4. task \in Task /\ task # Idle /\ task.kids \in Seq(PageIds) /\ task.right \in PageIds
  BY <1>2, <1>3, TaskFields DEF TypeOK
<1>5. Adopting(nodes, task, C, h, S)
  BY <1>3 DEF PendingAdopt
<1>6. /\ ParentWritten(nodes', nodes, Head(task.kids), task.right)
      /\ UNCHANGED <<root, faults, acked, last>>
  BY DEF Adopt, ParentWritten
<1>7. /\ task' \in Task /\ task'.phase = "adopt"
      /\ task'.key = task.key /\ task'.rid = task.rid /\ task'.page = task.page
      /\ task'.node = task.node /\ task'.right = task.right /\ task'.up = task.up
      /\ task'.kids = Tail(task.kids)
  <2>1. task' = [task EXCEPT !.kids = Tail(task.kids)] /\ Tail(task.kids) \in Seq(PageIds)
    BY <1>3, <1>4 DEF Adopt
  <2>. QED BY <1>3, <1>4, <2>1, TaskKids
<1>. DEFINE k == Head(task.kids)
<1>8. k \in C /\ k \in DOMAIN nodes /\ nodes[k].kind # "blank"
  <2>1. k = task.kids[1] /\ 1 \in DOMAIN task.kids
    BY <1>3, <1>4, TailFacts
  <2>2. ChildOf(nodes, task.right, k)
    BY <1>5, <2>1 DEF Adopting
  <2>3. k \in C
    BY <1>5, <2>2 DEF Adopting, Half, ChildOf
  <2>. QED BY <1>3, <2>3 DEF Tree, Consistent
<1>9. SetParent(nodes', nodes, k, task.right) /\ \A p \in DOMAIN nodes : SameBody(nodes'[p], nodes[p])
  <2>. HIDE DEF k
  <2>1. ParentWritten(nodes', nodes, k, task.right)
    BY <1>6 DEF k
  <2>. QED BY <1>2, <1>4, <1>8, <2>1, SetParentFacts
<1>10. TypeOK'
  BY <1>2, <1>6, <1>7, <1>9 DEF TypeOK, SetParent
<1>11. FiniteLeaves(nodes')
  BY <1>2, <1>9 DEF FiniteLeaves, SetParent, SameBody
<1>12. Advances(nodes, nodes', root, task', C, S, top, P)
  BY <1>2, <1>3, <1>4, <1>5, <1>7, <1>9, Adopted
<1>13. PICK C2, h2, bad2, d2 :
        /\ Tree(nodes', root, C2, h2, S, top, bad2, d2)
        /\ PendingAdopt(nodes', task', C2, h2, S, top, bad2, P)
        /\ Shown(nodes, C) \subseteq Shown(nodes', C2)
  BY <1>12 DEF Advances
<1>14. Shape(nodes', root', task', C2, h2, S, top, bad2, d2, P)
  BY <1>6, <1>7, <1>13 DEF Shape, Pending
<1>15. Shown(nodes, C) \cup acked' \subseteq Shown(nodes', C2)
  BY <1>1, <1>6, <1>13
<1>. QED BY <1>2, <1>3, <1>10, <1>11, <1>14, <1>15, StepTo

-----------------------------------------------------------------------------
(* A new root. *)
Growing(u, t, page, kids) == u = [t EXCEPT !.phase = "grow", !.page = page, !.kids = kids]

\* The call that grows the root.
LEMMA TaskGrow ==
    ASSUME NEW t \in Task, t # Idle, NEW page \in PageIds, NEW kids \in Seq(PageIds),
           NEW u, Growing(u, t, page, kids)
    PROVE  /\ u \in Task /\ u.phase = "grow"
           /\ u.key = t.key /\ u.rid = t.rid /\ u.page = page /\ u.node = t.node
           /\ u.right = t.right /\ u.sep = t.sep /\ u.up = t.up /\ u.kids = kids
<1>1. t \in [phase : Phases \ {"idle"}, key : Keys, rid : Rids, page : PageIds, node : Node,
             right : PageIds, sep : Keys, up : PageIds, kids : Seq(PageIds)]
  BY DEF Task
<1>2. "grow" \in Phases \ {"idle"}
  BY DEF Phases
<1>. QED BY <1>1, <1>2 DEF Task, Growing

\* A node that splits and has no parent is the top.
LEMMA TopSplits ==
    ASSUME NEW ns, NEW rt, NEW C, NEW h, NEW S, NEW top, NEW bad, NEW d, NEW P,
           Tree(ns, rt, C, h, S, top, bad, d), NEW t, Splitting(ns, t, C, h, S, P), t.up = None,
           None \notin C
    PROVE  t.page = top
<1>1. Path(ns, C, h, S, P, t.page) /\ ns[t.page].parent = None
  BY DEF Splitting
<1>2. t.page \in S
  BY <1>1 DEF Path
<1>3. Spine(ns, rt, C, h, S, top)
  BY DEF Tree
<1>. QED BY <1>1, <1>2, <1>3 DEF Spine

\* Adding the new root changes nothing the tree shows.
LEMMA GrowRootShape ==
    ASSUME ShapeInv, GrowRoot
    PROVE  Kept
<1>1. PICK C, h, S, top, bad, d, P :
         /\ Shape(nodes, root, task, C, h, S, top, bad, d, P) /\ acked \subseteq Shown(nodes, C)
  BY DEF ShapeInv
<1>2. TypeOK /\ FiniteLeaves(nodes) /\ nodes \in Seq(Node)
  BY DEF ShapeInv, TypeOK
<1>3. /\ Tree(nodes, root, C, h, S, top, bad, d) /\ task.phase = "adopt" /\ task.kids = << >>
      /\ PendingAdopt(nodes, task, C, h, S, top, bad, P) /\ task.up = None /\ NewPageFits
  BY <1>1 DEF Shape, Pending, GrowRoot, Raising
<1>4. Consistent(nodes, C, h, top, bad) /\ Spine(nodes, root, C, h, S, top)
  BY <1>3 DEF Tree
<1>. DEFINE n == Len(nodes) + 1
            r == task.right
            kids == << task.page, r >>
            seps == << task.sep >>
            newRoot == Internal(None, seps, kids)
<1>5. /\ task \in Task /\ task # Idle /\ task.page \in PageIds /\ r \in PageIds /\ task.sep \in Keys
      /\ task.key \in Keys /\ task.rid \in Rids
  BY <1>2, <1>3, TaskFields DEF TypeOK
<1>6. /\ Splitting(nodes, task, C, h, S, P) /\ (task.page = top => bad = None)
      /\ <<task.key, task.rid>> \in Shown(nodes, C) /\ r \in C /\ h[r] = h[task.page]
  BY <1>3 DEF PendingAdopt
<1>7. n \in PageIds /\ n <= MaxPages /\ Len(nodes) \in Nat /\ None \in PageIds
      /\ DOMAIN nodes = 1 .. Len(nodes)
  BY <1>2, <1>3, PageFacts
<1>8. C \subseteq DOMAIN nodes /\ None \notin C /\ n \notin C /\ \A p \in C : h[p] < Len(nodes)
  BY <1>4, <1>7 DEF Consistent, None
<1>9. task.page = top /\ bad = None
  BY <1>3, <1>6, <1>8, TopSplits
<1>10. kids \in Seq(PageIds) /\ seps \in Seq(Keys)
  BY <1>5
<1>11. /\ newRoot \in Node /\ newRoot.kind = "internal" /\ newRoot.parent = None
       /\ newRoot.keys = seps /\ newRoot.children = kids
  <2>. HIDE DEF kids, seps
  <2>. QED BY <1>7, <1>10, InternalNode
<1>12. Adds(nodes', nodes, newRoot) /\ UNCHANGED <<root, faults, acked, last>>
  BY DEF GrowRoot, Adds
<1>13. /\ task' \in Task /\ task'.phase = "grow" /\ task'.key = task.key /\ task'.rid = task.rid
       /\ task'.page = n /\ task'.right = r /\ task'.kids = kids
  <2>1. Growing(task', task, n, kids)
    BY DEF GrowRoot, Growing
  <2>. HIDE DEF n, kids
  <2>. QED BY <1>5, <1>7, <1>10, <2>1, TaskGrow
<1>. HIDE DEF newRoot
<1>14. /\ nodes' \in Seq(Node) /\ Len(nodes') = n /\ DOMAIN nodes' = 1 .. n
       /\ nodes'[n] = newRoot
       /\ \A q \in DOMAIN nodes : q \in DOMAIN nodes' /\ nodes'[q] = nodes[q]
  BY <1>2, <1>11, <1>12, Appended
<1>15. TypeOK'
  BY <1>2, <1>7, <1>12, <1>13, <1>14 DEF TypeOK
<1>. DEFINE ms == nodes'
<1>16. FiniteLeaves(ms)
  <2>. SUFFICES ASSUME NEW q \in DOMAIN ms, ms[q].kind = "leaf"
                PROVE  IsFiniteSet(DOMAIN ms[q].entries)
    BY DEF FiniteLeaves
  <2>1. q # n
    BY <1>11, <1>14
  <2>2. q \in DOMAIN nodes
    BY <2>1, <1>7, <1>14
  <2>. QED BY <2>2, <1>2, <1>14 DEF FiniteLeaves
<1>17. \A q \in C : ms[q] = nodes[q]
  BY <1>8, <1>14
<1>18. AllAlike(ms, nodes, C) /\ Shown(ms, C) = Shown(nodes, C)
  BY <1>17, ShownFrame
<1>19. /\ Tree(ms, root', C, h, S, top, bad, d)
       /\ \A c : Detached(ms, C, c) <=> Detached(nodes, C, c)
  <2>1. DOMAIN nodes \subseteq DOMAIN ms /\ Len(ms) \in Nat /\ Len(nodes) <= Len(ms) /\ root' = root
    BY <1>7, <1>12, <1>14
  <2>. QED BY <1>3, <1>7, <1>18, <2>1, TreeFrame
<1>20. GrowFirst(ms, task', C, h, S, top, bad)
  <2>1. /\ r \notin S /\ Detached(nodes, C, r) /\ nodes[r].parent = None
    BY <1>3, <1>6 DEF Splitting
  <2>2. n \in DOMAIN ms
    BY <1>7, <1>14
  <2>3. Len(newRoot.keys) = 1
    BY <1>11
  <2>4. \A p \in C : h[p] < Len(ms) - 1
    BY <1>7, <1>8, <1>14
  <2>. QED BY <1>6, <1>8, <1>9, <1>11, <1>13, <1>14, <1>17, <1>19, <2>1, <2>2, <2>3, <2>4 DEF GrowFirst
<1>21. PendingGrow(ms, task', C, h, S, top, bad)
  BY <1>6, <1>13, <1>18, <1>20 DEF PendingGrow
<1>22. Shape(ms, root', task', C, h, S, top, bad, d, P)
  BY <1>13, <1>19, <1>21 DEF Shape, Pending
<1>23. Shown(nodes, C) \cup acked' \subseteq Shown(ms, C)
  BY <1>1, <1>12, <1>18
<1>. QED BY <1>2, <1>3, <1>15, <1>16, <1>22, <1>23, StepTo

\* The new root is the top, and the half on its right has to learn it.
LEMMA TopLearns ==
    ASSUME NEW ns \in Seq(Node), NEW rt, NEW C, NEW h, NEW S, NEW top, NEW bad, NEW d,
           Tree(ns, rt, C, h, S, top, bad, d),
           NEW t, GrowFirst(ns, t, C, h, S, top, bad),
           NEW ms, SetParent(ms, ns, top, t.page)
    PROVE  \E C2, h2, S2 :
              /\ Tree(ms, rt, C2, h2, S2, t.page, t.right, d)
              /\ t.right \in C2 /\ Shown(ns, C) \subseteq Shown(ms, C2)
<1>. DEFINE n == t.page
            r == t.right
            C2 == C \cup {n}
            S2 == S \cup {n}
            h2 == [q \in C2 |-> IF q = n THEN h[top] + 1 ELSE h[q]]
<1>1. /\ Consistent(ns, C, h, top, bad) /\ BadOK(ns, C, h, rt, top, bad)
      /\ Spine(ns, rt, C, h, S, top) /\ Chain(ns, C, d)
  BY DEF Tree
<1>2. /\ t.kids = << top, r >> /\ n \in DOMAIN ns /\ n \notin C
      /\ ns[n].kind = "internal" /\ ns[n].parent = None
      /\ ns[n].children = << top, r >> /\ Len(ns[n].keys) = 1
      /\ r \in C /\ r \notin S /\ h[r] = h[top] /\ ns[r].parent = None /\ Detached(ns, C, r)
      /\ bad = None /\ \A p \in C : h[p] < Len(ns) - 1
  BY DEF GrowFirst
<1>3. /\ C \subseteq DOMAIN ns /\ h \in [C -> Nat] /\ S \subseteq C /\ top \in S /\ top \in C
      /\ rt \in S /\ ns[top].parent = None /\ None \notin C
  BY <1>1 DEF Consistent, Spine, None
<1>4. /\ ms[top].parent = n /\ Len(ms) = Len(ns) /\ DOMAIN ms = DOMAIN ns /\ Len(ns) \in Nat
      /\ \A q \in DOMAIN ns : q # top => ms[q] = ns[q]
      /\ SameBody(ms[top], ns[top])
  BY DEF SetParent
<1>5. ms[n] = ns[n] /\ ms[r] = ns[r] /\ r # top /\ n # top /\ n # r
  BY <1>2, <1>3, <1>4
<1>6. \A q \in C : SameBody(ms[q], ns[q]) /\ (q # top => ms[q].parent = ns[q].parent)
  BY <1>3, <1>4 DEF SameBody
<1>7. h2 \in [C2 -> Nat] /\ h2[n] = h[top] + 1 /\ \A q \in C : h2[q] = h[q]
  BY <1>2, <1>3
<1>. HIDE DEF h2
<1>8. Inner(ms, C2, h2, n, r, n)
  <2>1. ns[n].children[1] = top /\ ns[n].children[2] = r /\ DOMAIN ns[n].children = {1, 2}
        /\ Len(ns[n].children) = 2
    BY <1>2
  <2>2. Injective(ns[n].children)
    BY <1>5, <2>1 DEF Injective
  <2>3. top \in C2 /\ r \in C2 /\ h2[top] = h2[n] - 1 /\ h2[r] = h2[n] - 1 /\ h2[n] > 0
    <3>1. h[top] \in Nat
      BY <1>3
    <3>. QED BY <3>1, <1>2, <1>3, <1>7
  <2>4. ASSUME NEW i \in DOMAIN ns[n].children
        PROVE  /\ ns[n].children[i] \in C2 /\ h2[ns[n].children[i]] = h2[n] - 1
               /\ ms[ns[n].children[i]].parent = n \/ ns[n].children[i] = r
    BY <2>1, <2>3, <1>4
  <2>5. ms[n].children = ns[n].children /\ Len(ns[n].children) = Len(ms[n].keys) + 1
    <3>1. ms[n] = ns[n]
      BY <1>5
    <3>2. Len(ns[n].keys) = 1 /\ Len(ns[n].children) = 2
      BY <1>2, <2>1
    <3>. HIDE DEF n
    <3>. QED BY <3>1, <3>2
  <2>. HIDE DEF C2, n, r
  <2>. QED BY <2>2, <2>3, <2>4, <2>5 DEF Inner
<1>9. ASSUME NEW q \in C, ns[q].kind = "internal" PROVE Inner(ms, C2, h2, n, r, q)
  <2>1. Inner(ns, C, h, top, bad, q) /\ h2[q] = h[q]
    BY <1>9, <1>1, <1>7 DEF Consistent
  <2>2. ms[q].keys = ns[q].keys /\ ms[q].children = ns[q].children
    BY <1>9, <1>6 DEF SameBody
  <2>3. ASSUME NEW i \in DOMAIN ns[q].children
        PROVE  /\ ns[q].children[i] \in C /\ h[ns[q].children[i]] = h[q] - 1
               /\ ms[ns[q].children[i]].parent = q
    <3>. DEFINE c == ns[q].children[i]
    <3>1. c \in C /\ h[c] = h[q] - 1 /\ (ns[c].parent = q \/ (q = top /\ c = bad))
      BY <2>1 DEF Inner
    <3>2. ns[c].parent = q
      BY <3>1, <1>2, <1>3
    <3>3. c # top
      BY <3>2, <1>3
    <3>. QED BY <3>1, <3>2, <3>3, <1>6
  <2>4. \A c \in C : c \in C2 /\ h2[c] = h[c]
    BY <1>7
  <2>. HIDE DEF C2, n, r
  <2>. QED BY <2>1, <2>2, <2>3, <2>4 DEF Inner
<1>10. Consistent(ms, C2, h2, n, r)
  <2>1. C2 \subseteq DOMAIN ms
    BY <1>2, <1>3, <1>4
  <2>2. ASSUME NEW q \in C2
        PROVE  /\ ms[q].kind \in {"leaf", "internal"} /\ h2[q] < Len(ms)
               /\ ms[q].kind = "leaf" => h2[q] = 0
               /\ ms[q].kind = "internal" => Inner(ms, C2, h2, n, r, q)
    <3>1. CASE q = n
      <4>1. h[top] < Len(ns) - 1 /\ h[top] \in Nat
        BY <1>2, <1>3
      <4>2. h2[n] < Len(ms)
        BY <4>1, <1>4, <1>7
      <4>. QED BY <3>1, <4>2, <1>2, <1>5, <1>8
    <3>2. CASE q # n
      <4>1. q \in C /\ h2[q] = h[q] /\ ms[q].kind = ns[q].kind
        BY <3>2, <1>6, <1>7 DEF SameBody
      <4>2. /\ ns[q].kind \in {"leaf", "internal"} /\ h[q] < Len(ns)
            /\ ns[q].kind = "leaf" => h[q] = 0
        BY <4>1, <1>1 DEF Consistent
      <4>. QED BY <4>1, <4>2, <1>4, <1>9
    <3>. QED BY <3>1, <3>2
  <2>. HIDE DEF C2, n, r
  <2>. QED BY <1>7, <2>1, <2>2 DEF Consistent
<1>11. BadOK(ms, C2, h2, rt, n, r)
  <2>1. h2[n] > h2[rt]
    <3>1. rt # top => h[rt] < h[top]
      BY <1>1 DEF Spine
    <3>2. h[rt] \in Nat /\ h[top] \in Nat /\ h2[rt] = h[rt]
      BY <1>3, <1>7
    <3>. QED BY <3>1, <3>2, <1>7
  <2>2. ms[n].children = << top, r >> /\ Len(<< top, r >>) = 2 /\ << top, r >>[2] = r
    BY <1>2, <1>5
  <2>3. Len(ms[n].children) > 1 /\ r = ms[n].children[Len(ms[n].children)]
    BY <2>2
  <2>. QED BY <1>2, <1>5, <2>1, <2>3 DEF BadOK
<1>12. Spine(ms, rt, C2, h2, S2, n)
  <2>1. S2 \subseteq C2 /\ 1 \in S2 /\ rt \in S2 /\ n \in S2 /\ ms[n].parent = None
    BY <1>1, <1>2, <1>5 DEF Spine
  <2>2. ms[n].kind = "internal" /\ ms[n].children[1] = top
    BY <1>2, <1>5
  <2>3. ASSUME NEW p \in S
        PROVE  /\ ms[p].kind = "leaf" => p = 1
               /\ ms[p].kind = "internal" => ms[p].children[1] \in S
               /\ h2[p] < h2[n] /\ ms[p].parent \in S2
               /\ ms[ms[p].parent].kind = "internal"
               /\ ms[ms[p].parent].children[1] = p
    <3>1. /\ ns[p].kind = "leaf" => p = 1
          /\ ns[p].kind = "internal" => ns[p].children[1] \in S
          /\ p # top => /\ h[p] < h[top] /\ ns[p].parent \in S
                        /\ ns[ns[p].parent].kind = "internal"
                        /\ ns[ns[p].parent].children[1] = p
      BY <1>1 DEF Spine
    <3>2. p \in C /\ SameBody(ms[p], ns[p]) /\ h2[p] = h[p] /\ h[p] \in Nat /\ h[top] \in Nat
      BY <1>3, <1>6, <1>7
    <3>3. CASE p = top
      BY <3>1, <3>2, <3>3, <2>2, <1>3, <1>4, <1>7 DEF SameBody
    <3>4. CASE p # top
      <4>. DEFINE w == ns[p].parent
      <4>1. w \in S /\ ns[w].kind = "internal" /\ ns[w].children[1] = p /\ h[p] < h[top]
        BY <3>1, <3>4
      <4>2. ms[p].parent = w /\ SameBody(ms[w], ns[w])
        BY <3>2, <3>4, <4>1, <1>3, <1>6
      <4>. HIDE DEF w
      <4>. QED BY <3>1, <3>2, <4>1, <4>2, <1>7 DEF SameBody
    <3>. QED BY <3>3, <3>4
  <2>4. \A p \in S2 : p = n \/ p \in S
    OBVIOUS
  <2>. HIDE DEF S2, C2, n
  <2>5. \A p \in S2 :
          /\ ms[p].kind = "leaf" => p = 1
          /\ ms[p].kind = "internal" => ms[p].children[1] \in S2
          /\ p # n => /\ h2[p] < h2[n] /\ ms[p].parent \in S2
                      /\ ms[ms[p].parent].kind = "internal"
                      /\ ms[ms[p].parent].children[1] = p
    <3>1. S \subseteq S2
      BY DEF S2
    <3>. QED BY <2>2, <2>3, <2>4, <3>1, <1>3
  <2>. QED BY <2>1, <2>5 DEF Spine
<1>13. /\ Leaves(ms, C2) = Leaves(ns, C)
       /\ \A p \in Leaves(ns, C) : ms[p].next = ns[p].next /\ ms[p].entries = ns[p].entries
  <2>1. ms[n].kind # "leaf" /\ \A p \in C : ms[p].kind = ns[p].kind
    BY <1>2, <1>5, <1>6 DEF SameBody
  <2>. QED BY <2>1, <1>6 DEF Leaves, SameBody
<1>14. Chain(ms, C2, d)
  <2>. HIDE DEF C2
  <2>1. SameLinks(ms, C2, ns, C)
    BY <1>13 DEF SameLinks
  <2>2. Len(ms) \in Nat /\ Len(ns) <= Len(ms)
    BY <1>4
  <2>. QED BY <1>1, <1>4, <2>1, <2>2, ChainFrame
<1>15. Shown(ms, C2) = Shown(ns, C)
  <2>. HIDE DEF C2
  <2>. QED BY <1>13 DEF Shown
<1>16. Tree(ms, rt, C2, h2, S2, n, r, d) /\ r \in C2
  BY <1>2, <1>10, <1>11, <1>12, <1>14 DEF Tree
<1>. QED BY <1>15, <1>16

\* The half on the right learns the new root.
LEMMA RightLearns ==
    ASSUME NEW ns \in Seq(Node), NEW rt, NEW C, NEW h, NEW S, NEW top, NEW bad, NEW d,
           Tree(ns, rt, C, h, S, top, bad, d), bad \in C,
           NEW ms, SetParent(ms, ns, bad, top)
    PROVE  Tree(ms, top, C, h, S, top, None, d) /\ Shown(ms, C) = Shown(ns, C)
<1>1. /\ Consistent(ns, C, h, top, bad) /\ BadOK(ns, C, h, rt, top, bad)
      /\ Spine(ns, rt, C, h, S, top) /\ Chain(ns, C, d)
  BY DEF Tree
<1>2. /\ C \subseteq DOMAIN ns /\ h \in [C -> Nat] /\ S \subseteq C /\ top \in S /\ top \in C
      /\ ns[top].parent = None /\ None \notin C
  BY <1>1 DEF Consistent, Spine, None
<1>3. /\ ns[bad].parent = None /\ ns[top].kind = "internal" /\ Len(ns[top].children) > 1
      /\ bad = ns[top].children[Len(ns[top].children)] /\ bad # None
  BY <1>1, <1>2 DEF BadOK
<1>4. bad # top
  <2>1. ns[top] \in Node
    BY <1>2
  <2>2. ns[top].children \in Seq(PageIds)
    BY <1>3, <2>1, NodeFields
  <2>3. Len(ns[top].children) \in DOMAIN ns[top].children
    BY <1>3, <2>2
  <2>4. h[bad] = h[top] - 1 /\ h[top] \in Nat
    BY <1>1, <1>2, <1>3, <2>3 DEF Consistent, Inner
  <2>. QED BY <2>4
<1>5. bad \notin S
  BY <1>1, <1>2, <1>3, <1>4 DEF Spine
<1>6. /\ ms[bad].parent = top /\ Len(ms) = Len(ns) /\ DOMAIN ms = DOMAIN ns
      /\ \A q \in C : SameBody(ms[q], ns[q]) /\ (q # bad => ms[q].parent = ns[q].parent)
  BY <1>2 DEF SetParent, SameBody
<1>7. Consistent(ms, C, h, top, None)
  <2>1. ASSUME NEW q \in C, ms[q].kind = "internal" PROVE Inner(ms, C, h, top, None, q)
    <3>1. ns[q].kind = "internal" /\ ms[q].keys = ns[q].keys /\ ms[q].children = ns[q].children
      BY <2>1, <1>6 DEF SameBody
    <3>2. Inner(ns, C, h, top, bad, q)
      BY <1>1, <3>1 DEF Consistent
    <3>3. ASSUME NEW i \in DOMAIN ns[q].children PROVE ms[ns[q].children[i]].parent = q
      <4>. DEFINE c == ns[q].children[i]
      <4>1. c \in C /\ (ns[c].parent = q \/ (q = top /\ c = bad))
        BY <3>2 DEF Inner
      <4>2. CASE c = bad
        BY <4>1, <4>2, <1>2, <1>3, <1>6
      <4>3. CASE c # bad
        BY <4>1, <4>3, <1>6
      <4>. QED BY <4>2, <4>3
    <3>. QED BY <3>1, <3>2, <3>3 DEF Inner
  <2>. QED BY <2>1, <1>1, <1>6 DEF Consistent, SameBody
<1>8. BadOK(ms, C, h, top, top, None)
  BY DEF BadOK
<1>9. Spine(ms, top, C, h, S, top)
  <2>1. ASSUME NEW p \in S
        PROVE  /\ ms[p].kind = "leaf" => p = 1
               /\ ms[p].kind = "internal" => ms[p].children[1] \in S
               /\ p # top => /\ h[p] < h[top] /\ ms[p].parent \in S
                             /\ ms[ms[p].parent].kind = "internal"
                             /\ ms[ms[p].parent].children[1] = p
    <3>1. /\ ns[p].kind = "leaf" => p = 1
          /\ ns[p].kind = "internal" => ns[p].children[1] \in S
          /\ p # top => /\ h[p] < h[top] /\ ns[p].parent \in S
                        /\ ns[ns[p].parent].kind = "internal"
                        /\ ns[ns[p].parent].children[1] = p
      BY <1>1 DEF Spine
    <3>2. p \in C /\ ms[p].parent = ns[p].parent
      BY <1>2, <1>5, <1>6
    <3>. QED BY <3>1, <3>2, <1>2, <1>6 DEF SameBody
  <2>. QED BY <2>1, <1>1, <1>2, <1>4, <1>6 DEF Spine
<1>10. /\ Leaves(ms, C) = Leaves(ns, C)
       /\ \A p \in Leaves(ns, C) : ms[p].next = ns[p].next /\ ms[p].entries = ns[p].entries
  BY <1>6 DEF Leaves, SameBody
<1>11. Chain(ms, C, d)
  <2>1. SameLinks(ms, C, ns, C)
    BY <1>10 DEF SameLinks
  <2>2. Len(ms) = Len(ns) /\ Len(ns) \in Nat
    BY <1>6
  <2>. QED BY <1>1, <2>1, <2>2, ChainFrame
<1>12. Shown(ms, C) = Shown(ns, C)
  BY <1>10 DEF Shown
<1>. QED BY <1>7, <1>8, <1>9, <1>11, <1>12 DEF Tree

\* Each half learning the new root keeps the invariant; after both the root is
\* the new one.
LEMMA LearnRootShape ==
    ASSUME ShapeInv, LearnRoot
    PROVE  Kept
<1>1. PICK C, h, S, top, bad, d, P :
         /\ Shape(nodes, root, task, C, h, S, top, bad, d, P) /\ acked \subseteq Shown(nodes, C)
  BY DEF ShapeInv
<1>2. TypeOK /\ FiniteLeaves(nodes) /\ nodes \in Seq(Node)
  BY DEF ShapeInv, TypeOK
<1>3. /\ Tree(nodes, root, C, h, S, top, bad, d) /\ task.phase = "grow"
      /\ PendingGrow(nodes, task, C, h, S, top, bad)
  BY <1>1 DEF Shape, Pending, LearnRoot
<1>4. /\ task \in Task /\ task # Idle /\ task.kids \in Seq(PageIds) /\ task.right \in PageIds
      /\ task.page \in PageIds /\ task.key \in Keys /\ task.rid \in Rids
  BY <1>2, <1>3, TaskFields DEF TypeOK
<1>5. ParentWritten(nodes', nodes, Head(task.kids), task.page)
  BY DEF LearnRoot, ParentWritten
<1>6. <<task.key, task.rid>> \in Shown(nodes, C)
  BY <1>3 DEF PendingGrow
<1>7. /\ C \subseteq DOMAIN nodes /\ top \in C /\ \A q \in C : nodes[q].kind # "blank"
  BY <1>3 DEF Tree, Consistent, Spine
<1>8. ASSUME NEW k \in C, Head(task.kids) = k
      PROVE  /\ SetParent(nodes', nodes, k, task.page)
             /\ FiniteLeaves(nodes')
             /\ nodes' \in Seq(Node) /\ Len(nodes') = Len(nodes)
  <2>1. ParentWritten(nodes', nodes, k, task.page)
    BY <1>5, <1>8
  <2>2. SetParent(nodes', nodes, k, task.page) /\ \A p \in DOMAIN nodes : SameBody(nodes'[p], nodes[p])
    BY <1>2, <1>4, <1>7, <2>1, SetParentFacts
  <2>. QED BY <1>2, <2>2 DEF FiniteLeaves, SetParent, SameBody
<1>9. CASE GrowFirst(nodes, task, C, h, S, top, bad)
  <2>1. task.kids = << top, task.right >>
    BY <1>9 DEF GrowFirst
  <2>2. Head(task.kids) = top /\ Len(task.kids) = 2 /\ Tail(task.kids) = << task.right >>
    BY <2>1
  <2>3. SetParent(nodes', nodes, top, task.page) /\ FiniteLeaves(nodes') /\ nodes' \in Seq(Node)
        /\ Len(nodes') = Len(nodes)
    BY <1>7, <1>8, <2>2
  <2>4. task' = [task EXCEPT !.kids = << task.right >>] /\ UNCHANGED <<root, faults, acked, last>>
    <3>1. Len(task.kids) # 1
      BY <2>2
    <3>2. task' = [task EXCEPT !.kids = Tail(task.kids)] /\ UNCHANGED <<root, faults, acked, last>>
      BY <3>1 DEF LearnRoot
    <3>. QED BY <2>2, <3>2
  <2>. DEFINE kids == << task.right >>
  <2>5. kids \in Seq(PageIds)
    BY <1>4
  <2>6. /\ task' \in Task /\ task'.phase = "grow" /\ task'.key = task.key /\ task'.rid = task.rid
        /\ task'.page = task.page /\ task'.right = task.right /\ task'.kids = kids
    <3>1. task' = [task EXCEPT !.kids = kids]
      BY <2>4
    <3>. HIDE DEF kids
    <3>. QED BY <1>3, <1>4, <2>5, <3>1, TaskKids
  <2>7. PICK C2, h2, S2 :
          /\ Tree(nodes', root, C2, h2, S2, task.page, task.right, d)
          /\ task.right \in C2 /\ Shown(nodes, C) \subseteq Shown(nodes', C2)
    BY <1>2, <1>3, <1>9, <2>3, TopLearns
  <2>8. PendingGrow(nodes', task', C2, h2, S2, task.page, task.right)
    BY <1>6, <2>6, <2>7 DEF PendingGrow, GrowSecond
  <2>9. Shape(nodes', root', task', C2, h2, S2, task.page, task.right, d, P)
    BY <2>4, <2>6, <2>7, <2>8 DEF Shape, Pending
  <2>10. TypeOK'
    BY <1>2, <2>3, <2>4, <2>6 DEF TypeOK
  <2>11. Shown(nodes, C) \cup acked' \subseteq Shown(nodes', C2)
    BY <1>1, <2>4, <2>7
  <2>. QED BY <1>2, <1>3, <2>3, <2>9, <2>10, <2>11, StepTo
<1>10. CASE GrowSecond(task, C, top, bad)
  <2>1. task.kids = << task.right >> /\ task.page = top /\ bad = task.right /\ bad \in C
    BY <1>10 DEF GrowSecond
  <2>2. Head(task.kids) = bad /\ Len(task.kids) = 1
    BY <2>1
  <2>3. SetParent(nodes', nodes, bad, top) /\ FiniteLeaves(nodes') /\ nodes' \in Seq(Node)
        /\ Len(nodes') = Len(nodes)
    BY <1>8, <2>1, <2>2
  <2>4. root' = top /\ Ends(task.key, task.rid, "ok")
    BY <2>1, <2>2 DEF LearnRoot
  <2>5. "ok" \in Codes /\ "ok" # "io"
    BY DEF Codes
  <2>6. /\ task' = Idle /\ task' \in Task /\ faults' \in 0 .. MaxFaults
        /\ acked' \subseteq Keys \X Rids /\ acked' = acked \cup {<<task.key, task.rid>>}
        /\ last' \in {[code |-> "none"]} \cup [key : Keys, rid : Rids, code : Codes]
    BY <1>2, <1>4, <2>4, <2>5, EndsTypes
  <2>7. TypeOK'
    BY <1>2, <1>4, <2>1, <2>3, <2>4, <2>6 DEF TypeOK
  <2>8. Tree(nodes', root', C, h, S, top, None, d) /\ Shown(nodes', C) = Shown(nodes, C)
    BY <1>2, <1>3, <2>1, <2>3, <2>4, RightLearns
  <2>9. Shape(nodes', root', task', C, h, S, top, None, d, P)
    BY <2>6, <2>8, IdlePending DEF Shape
  <2>10. Shown(nodes, C) \cup acked' \subseteq Shown(nodes', C)
    BY <1>1, <1>6, <2>6, <2>8
  <2>. QED BY <1>2, <1>3, <2>3, <2>7, <2>9, <2>10, StepTo
<1>. QED BY <1>3, <1>9, <1>10 DEF PendingGrow

-----------------------------------------------------------------------------
(* The parent of the node that split. *)

\* A node m that is n with one child more, right after the i-th, and its separator.
Wider(m, n, page, right, sep, i) ==
    /\ m \in Node /\ m.kind = "internal" /\ m.parent = n.parent
    /\ i \in DOMAIN n.children /\ n.children[i] = page
    /\ Len(m.keys) = Len(n.keys) + 1
    /\ Len(m.children) = Len(n.children) + 1
    /\ \A j \in 1 .. Len(n.keys) + 1 :
          m.keys[j] = IF j < i THEN n.keys[j] ELSE IF j = i THEN sep ELSE n.keys[j - 1]
    /\ \A j \in 1 .. Len(n.children) + 1 :
          m.children[j] = IF j <= i THEN n.children[j]
                          ELSE IF j = i + 1 THEN right ELSE n.children[j - 1]

\* Widened puts the right half just after the left one.
LEMMA WidenedFacts ==
    ASSUME task \in Task, task # Idle, NEW n \in Node, n.kind = "internal",
           Len(n.children) = Len(n.keys) + 1, References(n)
    PROVE  Wider(Widened(n), n, task.page, task.right, task.sep, PlaceOf(n))
<1>. DEFINE i == PlaceOf(n)
            keys == InsertAt(n.keys, i, task.sep)
            children == InsertAt(n.children, i + 1, task.right)
<1>1. task.right \in PageIds /\ task.sep \in Keys
  BY TaskFields
<1>2. n.keys \in Seq(Keys) /\ n.children \in Seq(PageIds) /\ n.parent \in PageIds
  BY NodeFields
<1>3. i \in DOMAIN n.children /\ n.children[i] = task.page
  <2>. DEFINE I == {k \in DOMAIN n.children : n.children[k] = task.page}
  <2>1. I \subseteq Nat /\ I # {}
    BY <1>2 DEF References
  <2>2. PICK k \in I : \A j \in I : k <= j
    <3>. HIDE DEF I
    <3>. QED BY <2>1, LeastNatural
  <2>3. ASSUME NEW j \in 1 .. k - 1 PROVE n.children[j] # task.page
    <3>1. j \in DOMAIN n.children /\ ~ (k <= j)
      BY <1>2, <2>1, <2>2
    <3>. QED BY <2>2, <3>1
  <2>4. \E k1 \in DOMAIN n.children :
           n.children[k1] = task.page /\ \A j \in 1 .. k1 - 1 : n.children[j] # task.page
    BY <2>2, <2>3
  <2>. QED BY <2>4 DEF PlaceOf
<1>4. i \in 1 .. Len(n.keys) + 1 /\ i + 1 \in 1 .. Len(n.children) + 1 /\ i \in Nat
  BY <1>2, <1>3
<1>. HIDE DEF i
<1>5. /\ keys \in Seq(Keys) /\ Len(keys) = Len(n.keys) + 1
      /\ \A j \in 1 .. Len(n.keys) + 1 :
            keys[j] = IF j < i THEN n.keys[j] ELSE IF j = i THEN task.sep ELSE n.keys[j - 1]
  <2>1. keys \in Seq(Keys) /\ IsInserted(keys, n.keys, i, task.sep)
    BY <1>1, <1>2, <1>4, InsertAtFacts
  <2>. QED BY <2>1 DEF IsInserted
<1>. DEFINE i1 == i + 1
<1>6. /\ children \in Seq(PageIds) /\ Len(children) = Len(n.children) + 1
      /\ \A j \in 1 .. Len(n.children) + 1 :
            children[j] = IF j < i1 THEN n.children[j]
                          ELSE IF j = i1 THEN task.right ELSE n.children[j - 1]
  <2>1. i1 \in 1 .. Len(n.children) + 1
    BY <1>4
  <2>2. children = InsertAt(n.children, i1, task.right)
    OBVIOUS
  <2>. HIDE DEF i1
  <2>3. children \in Seq(PageIds) /\ IsInserted(children, n.children, i1, task.right)
    BY <1>1, <1>2, <2>1, <2>2, InsertAtFacts
  <2>. HIDE DEF children
  <2>. QED BY <2>3 DEF IsInserted
<1>7. \A j \in 1 .. Len(n.children) + 1 :
         children[j] = IF j <= i THEN n.children[j]
                       ELSE IF j = i + 1 THEN task.right ELSE n.children[j - 1]
  <2>. HIDE DEF children
  <2>1. \A j \in 1 .. Len(n.children) + 1 : j < i1 <=> j <= i
    BY <1>4
  <2>. QED BY <1>6, <2>1
<1>8. Widened(n) = Internal(n.parent, keys, children)
  BY DEF Widened, i
<1>. HIDE DEF keys, children
<1>9. LET m == Internal(n.parent, keys, children)
      IN  /\ m \in Node /\ m.kind = "internal" /\ m.parent = n.parent
          /\ m.keys = keys /\ m.children = children
  BY <1>2, <1>5, <1>6, InternalNode
<1>. QED BY <1>3, <1>5, <1>6, <1>7, <1>8, <1>9 DEF Wider, i

\* The widened node has the children of the old one and the right half, each
\* once and in place.
LEMMA WiderFacts ==
    ASSUME NEW m, NEW n \in Node, NEW page, NEW right, NEW sep, NEW i,
           Wider(m, n, page, right, sep, i), n.kind = "internal",
           Len(n.children) = Len(n.keys) + 1,
           Injective(n.children), \A k \in DOMAIN n.children : n.children[k] # right
    PROVE  /\ Len(m.children) = Len(m.keys) + 1
           /\ Injective(m.children)
           /\ m.children[1] = n.children[1]
           /\ \A j \in DOMAIN m.children :
                 m.children[j] = right
                 \/ \E k \in DOMAIN n.children : n.children[k] = m.children[j] /\ (j > 2 => k > 1)
           /\ i # Len(n.children) => m.children[Len(m.children)] = n.children[Len(n.children)]
<1>1. n.keys \in Seq(Keys) /\ n.children \in Seq(PageIds) /\ m.keys \in Seq(Keys) /\ m.children \in Seq(PageIds)
  BY NodeFields DEF Wider
<1>2. /\ i \in DOMAIN n.children /\ n.children[i] = page
      /\ Len(m.keys) = Len(n.keys) + 1
      /\ Len(m.children) = Len(n.children) + 1
      /\ \A j \in 1 .. Len(n.children) + 1 :
          m.children[j] = IF j <= i THEN n.children[j]
                          ELSE IF j = i + 1 THEN right ELSE n.children[j - 1]
  BY DEF Wider
<1>. DEFINE l == Len(n.children)
            old == n.children
            new == m.children
<1>3. /\ l \in Nat /\ DOMAIN old = 1 .. l /\ DOMAIN new = 1 .. l + 1 /\ i \in 1 .. l /\ l >= 1
      /\ \A j \in 1 .. l + 1 : new[j] = IF j <= i THEN old[j] ELSE IF j = i + 1 THEN right ELSE old[j - 1]
      /\ \A k \in 1 .. l : old[k] # right
      /\ \A j, k \in 1 .. l : old[j] = old[k] => j = k
  BY <1>1, <1>2 DEF Injective
<1>4. Len(m.children) = Len(m.keys) + 1
  BY <1>1, <1>2
<1>5. Len(m.children) = l + 1
  BY <1>2
<1>. HIDE DEF l, old, new
<1>6. ASSUME NEW j \in 1 .. l + 1
      PROVE  \/ j = i + 1 /\ new[j] = right
             \/ \E k \in 1 .. l : /\ new[j] = old[k] /\ k = (IF j <= i THEN j ELSE j - 1)
                                  /\ j # i + 1
  <2>1. CASE j <= i
    BY <2>1, <1>3
  <2>2. CASE j = i + 1
    BY <2>2, <1>3
  <2>3. CASE j > i + 1
    <3>1. j - 1 \in 1 .. l
      BY <2>3, <1>3
    <3>2. new[j] = old[j - 1]
      BY <2>3, <1>3
    <3>. QED BY <2>3, <3>1, <3>2, <1>3
  <2>4. j \in Int /\ i \in Int
    BY <1>3
  <2>5. j <= i \/ j = i + 1 \/ j > i + 1
    BY <2>4
  <2>. QED BY <2>1, <2>2, <2>3, <2>5
<1>7. Injective(new)
  <2>. SUFFICES ASSUME NEW j1 \in 1 .. l + 1, NEW j2 \in 1 .. l + 1, new[j1] = new[j2]
                PROVE  j1 = j2
    BY <1>3 DEF Injective
  <2>1. CASE j1 = i + 1
    BY <2>1, <1>3, <1>6
  <2>2. CASE j2 = i + 1
    BY <2>2, <1>3, <1>6
  <2>3. CASE j1 # i + 1 /\ j2 # i + 1
    <3>. DEFINE k1 == IF j1 <= i THEN j1 ELSE j1 - 1
                k2 == IF j2 <= i THEN j2 ELSE j2 - 1
    <3>1. k1 \in 1 .. l /\ k2 \in 1 .. l /\ new[j1] = old[k1] /\ new[j2] = old[k2]
      BY <2>3, <1>6
    <3>2. k1 = k2
      <4>. HIDE DEF k1, k2
      <4>. QED BY <3>1, <1>3
    <3>3. i \in Int /\ j1 \in Int /\ j2 \in Int
      BY <1>3
    <3>. QED BY <2>3, <3>2, <3>3
  <2>. QED BY <2>1, <2>2, <2>3
<1>8. new[1] = old[1]
  BY <1>3
<1>9. ASSUME NEW j \in 1 .. l + 1
      PROVE  new[j] = right \/ \E k \in 1 .. l : old[k] = new[j] /\ (j > 2 => k > 1)
  <2>1. CASE j = i + 1
    BY <2>1, <1>6
  <2>2. CASE j # i + 1
    <3>1. PICK k \in 1 .. l : new[j] = old[k] /\ k = (IF j <= i THEN j ELSE j - 1)
      BY <2>2, <1>6
    <3>2. j > 2 => k > 1
      BY <3>1, <1>3
    <3>. QED BY <3>1, <3>2
  <2>. QED BY <2>1, <2>2
<1>10. i # l => new[l + 1] = old[l]
  <2>. SUFFICES ASSUME i # l PROVE new[l + 1] = old[l]
    OBVIOUS
  <2>1. l + 1 \in 1 .. l + 1 /\ ~ (l + 1 <= i) /\ l + 1 # i + 1 /\ (l + 1) - 1 = l
    BY <1>3
  <2>. QED BY <2>1, <1>3
<1>. QED BY <1>3, <1>4, <1>5, <1>7, <1>8, <1>9, <1>10 DEF l, old, new

\* The parent of a node that split is in order, one level up.
Parent(ns, C, h, S, top, bad, t) ==
    /\ t.up \in C /\ t.up # None /\ ns[t.up].kind = "internal"
    /\ Inner(ns, C, h, top, bad, t.up)
    /\ t.page \in C /\ h[t.page] = h[t.up] - 1 /\ t.page # bad
    /\ t.right \in C /\ h[t.right] = h[t.up] - 1 /\ t.right \notin S
    /\ ns[t.right].parent = t.up /\ Detached(ns, C, t.right)
    /\ \A k \in DOMAIN ns[t.up].children : ns[t.up].children[k] # t.right

\* The parent a call raises into is in order and one level above the node that
\* split.
LEMMA ParentFacts ==
    ASSUME NEW ns \in Seq(Node), NEW rt, NEW C, NEW h, NEW S, NEW top, NEW bad, NEW d, NEW P,
           Tree(ns, rt, C, h, S, top, bad, d),
           NEW t, PendingAdopt(ns, t, C, h, S, top, bad, P), t.kids = << >>,
           t.up # None, ns[t.up].kind = "internal", ChildOf(ns, t.up, t.page)
    PROVE  /\ Parent(ns, C, h, S, top, bad, t)
           /\ t.up \in S \/ t.up \in P
<1>. DEFINE p == t.page
            r == t.right
            up == t.up
<1>1. /\ Consistent(ns, C, h, top, bad) /\ BadOK(ns, C, h, rt, top, bad)
      /\ Spine(ns, rt, C, h, S, top)
  BY DEF Tree
<1>2. /\ Splitting(ns, t, C, h, S, P) /\ r \in C /\ h[r] = h[p]
  BY DEF PendingAdopt
<1>3. /\ Path(ns, C, h, S, P, p) /\ r \notin S /\ Detached(ns, C, r)
      /\ up = ns[p].parent /\ ns[r].parent = up
  BY <1>2 DEF Splitting
<1>4. p \in C /\ (p \in S \/ up \in P) /\ P \subseteq C /\ S \subseteq C
  BY <1>1, <1>3 DEF Path, Spine
<1>5. up \in S \/ up \in P
  <2>1. CASE p \in S
    <3>1. p # top
      BY <1>1, <1>3 DEF Spine
    <3>. QED BY <2>1, <3>1, <1>1, <1>3 DEF Spine
  <2>. QED BY <2>1, <1>4
<1>6. up \in C
  BY <1>4, <1>5
<1>7. Inner(ns, C, h, top, bad, up)
  BY <1>1, <1>6 DEF Consistent
<1>8. h[p] = h[up] - 1
  BY <1>7 DEF Inner, ChildOf
<1>9. p # bad
  <2>1. CASE bad = None
    BY <2>1, <1>1, <1>4 DEF Consistent, None
  <2>2. CASE bad # None
    BY <2>2, <1>1, <1>3 DEF BadOK
  <2>. QED BY <2>1, <2>2
<1>10. \A k \in DOMAIN ns[up].children : ns[up].children[k] # r
  BY <1>3, <1>6 DEF Detached, ChildOf
<1>. QED BY <1>2, <1>3, <1>4, <1>5, <1>6, <1>7, <1>8, <1>9, <1>10 DEF Parent

ShowsSame(ms, ns, C) == Shown(ms, C) = Shown(ns, C)

\* The parent with room takes the right half in.
LEMMA ParentWidens ==
    ASSUME NEW ns \in Seq(Node), NEW rt, NEW C, NEW h, NEW S, NEW top, NEW bad, NEW d,
           Tree(ns, rt, C, h, S, top, bad, d),
           NEW t, Parent(ns, C, h, S, top, bad, t),
           NEW m, NEW i, Wider(m, ns[t.up], t.page, t.right, t.sep, i),
           NEW ms, Writes(ms, ns, t.up, m)
    PROVE  Tree(ms, rt, C, h, S, top, bad, d) /\ ShowsSame(ms, ns, C)
<1>. DEFINE up == t.up
            r == t.right
            n == ns[up]
<1>1. /\ Consistent(ns, C, h, top, bad) /\ BadOK(ns, C, h, rt, top, bad)
      /\ Spine(ns, rt, C, h, S, top) /\ Chain(ns, C, d)
  BY DEF Tree
<1>2. /\ up \in C /\ n.kind = "internal" /\ Inner(ns, C, h, top, bad, up)
      /\ t.page # bad /\ r \in C /\ h[r] = h[up] - 1 /\ ns[r].parent = up
      /\ \A k \in DOMAIN n.children : n.children[k] # r
  BY DEF Parent
<1>3. up \in DOMAIN ns /\ C \subseteq DOMAIN ns /\ n \in Node
  BY <1>1, <1>2 DEF Consistent
<1>4. /\ h[up] > 0 /\ Len(n.children) = Len(n.keys) + 1 /\ Injective(n.children)
      /\ \A k \in DOMAIN n.children :
            /\ n.children[k] \in C /\ h[n.children[k]] = h[up] - 1
            /\ ns[n.children[k]].parent = up \/ (up = top /\ n.children[k] = bad)
  BY <1>2 DEF Inner
<1>5. /\ m \in Node /\ m.kind = "internal" /\ m.parent = n.parent
      /\ i \in DOMAIN n.children /\ n.children[i] = t.page
  BY DEF Wider
<1>6. /\ Len(m.children) = Len(m.keys) + 1 /\ Injective(m.children)
      /\ m.children[1] = n.children[1]
      /\ \A j \in DOMAIN m.children :
            m.children[j] = r \/ \E k \in DOMAIN n.children : n.children[k] = m.children[j]
      /\ i # Len(n.children) => m.children[Len(m.children)] = n.children[Len(n.children)]
  <2>1. Wider(m, n, t.page, r, t.sep, i)
    OBVIOUS
  <2>. HIDE DEF n, r
  <2>. QED BY <2>1, <1>2, <1>3, <1>4, WiderFacts
<1>7. /\ ms \in Seq(Node) /\ Len(ms) = Len(ns) /\ DOMAIN ms = DOMAIN ns
      /\ ms[up] = m /\ \A p \in DOMAIN ns : p # up => ms[p] = ns[p]
  BY <1>3, <1>5, Updated
<1>8. \A q \in C : /\ ms[q].parent = ns[q].parent /\ ms[q].kind = ns[q].kind
                   /\ q # up => ms[q] = ns[q]
                   /\ ms[q].children[1] = ns[q].children[1]
  BY <1>2, <1>3, <1>5, <1>6, <1>7
<1>9. Consistent(ms, C, h, top, bad)
  <2>1. Inner(ms, C, h, top, bad, up)
    <3>1. ASSUME NEW j \in DOMAIN m.children
          PROVE  /\ m.children[j] \in C /\ h[m.children[j]] = h[up] - 1
                 /\ ms[m.children[j]].parent = up \/ (up = top /\ m.children[j] = bad)
      <4>1. CASE m.children[j] = r
        BY <4>1, <1>2, <1>8
      <4>2. CASE \E k \in DOMAIN n.children : n.children[k] = m.children[j]
        BY <4>2, <1>4, <1>8
      <4>. QED BY <4>1, <4>2, <1>6
    <3>. HIDE DEF up
    <3>. QED BY <3>1, <1>4, <1>6, <1>7 DEF Inner
  <2>2. ASSUME NEW q \in C, ms[q].kind = "internal", q # up PROVE Inner(ms, C, h, top, bad, q)
    <3>1. ms[q] = ns[q] /\ Inner(ns, C, h, top, bad, q)
      BY <2>2, <1>1, <1>8 DEF Consistent
    <3>2. \A c \in C : ms[c].parent = ns[c].parent
      BY <1>8
    <3>. QED BY <3>1, <3>2 DEF Inner
  <2>3. \A q \in C : ms[q].kind = "internal" => Inner(ms, C, h, top, bad, q)
    BY <2>1, <2>2
  <2>. QED BY <2>3, <1>1, <1>7, <1>8 DEF Consistent
<1>10. BadOK(ms, C, h, rt, top, bad)
  <2>. SUFFICES ASSUME bad # None
                PROVE  /\ h[top] > h[rt] /\ bad \in C /\ ms[bad].parent = None
                       /\ ms[top].kind = "internal" /\ Len(ms[top].children) > 1
                       /\ bad = ms[top].children[Len(ms[top].children)]
    BY DEF BadOK
  <2>1. /\ h[top] > h[rt] /\ bad \in C /\ ns[bad].parent = None
        /\ ns[top].kind = "internal" /\ Len(ns[top].children) > 1
        /\ bad = ns[top].children[Len(ns[top].children)]
    BY <1>1 DEF BadOK
  <2>2. top \in C
    BY <1>1 DEF Spine
  <2>3. CASE top # up
    BY <2>1, <2>2, <2>3, <1>8
  <2>4. CASE top = up
    <3>1. i # Len(n.children)
      BY <2>1, <2>4, <1>2, <1>5
    <3>2. Len(m.children) = Len(n.children) + 1 /\ Len(n.children) \in Nat
      BY <1>2, <1>3, NodeFields DEF Wider
    <3>3. bad = m.children[Len(m.children)] /\ Len(m.children) > 1
      BY <2>1, <2>4, <3>1, <3>2, <1>6
    <3>4. ms[top] = m /\ m.kind = "internal" /\ ms[bad].parent = None
      BY <2>1, <2>4, <1>5, <1>7, <1>8
    <3>. QED BY <2>1, <3>3, <3>4
  <2>. QED BY <2>3, <2>4
<1>11. Spine(ms, rt, C, h, S, top)
  BY <1>1, <1>8 DEF Spine
<1>12. Leaves(ms, C) = Leaves(ns, C) /\ \A q \in Leaves(ns, C) : ms[q] = ns[q]
  BY <1>2, <1>8 DEF Leaves
<1>13. Chain(ms, C, d)
  <2>1. SameLinks(ms, C, ns, C) /\ Len(ms) = Len(ns) /\ Len(ns) \in Nat
    BY <1>7, <1>12 DEF SameLinks
  <2>. QED BY <1>1, <2>1, ChainFrame
<1>14. ShowsSame(ms, ns, C)
  BY <1>12 DEF Shown, ShowsSame
<1>. QED BY <1>9, <1>10, <1>11, <1>13, <1>14 DEF Tree

\* Writing the separator into a parent with room keeps the invariant.
LEMMA RaiseIntoParentShape ==
    ASSUME ShapeInv, RaiseIntoParent
    PROVE  Kept
<1>1. PICK C, h, S, top, bad, d, P :
         /\ Shape(nodes, root, task, C, h, S, top, bad, d, P) /\ acked \subseteq Shown(nodes, C)
  BY DEF ShapeInv
<1>2. TypeOK /\ FiniteLeaves(nodes) /\ nodes \in Seq(Node)
  BY DEF ShapeInv, TypeOK
<1>3. /\ Tree(nodes, root, C, h, S, top, bad, d) /\ task.phase = "adopt" /\ task.kids = << >>
      /\ PendingAdopt(nodes, task, C, h, S, top, bad, P)
      /\ task.up # None /\ nodes[task.up].kind = "internal" /\ References(nodes[task.up])
  BY <1>1 DEF Shape, Pending, RaiseIntoParent, CanRaise, Raising
<1>4. task \in Task /\ task # Idle /\ task.key \in Keys /\ task.rid \in Rids
  BY <1>2, <1>3, TaskFields DEF TypeOK
<1>5. Parent(nodes, C, h, S, top, bad, task)
  BY <1>2, <1>3, ParentFacts DEF References, ChildOf
<1>. DEFINE n == nodes[task.up]
            m == Widened(n)
            i == PlaceOf(n)
<1>6. n \in Node /\ n.kind = "internal" /\ Len(n.children) = Len(n.keys) + 1 /\ task.up \in DOMAIN nodes
  BY <1>2, <1>3, <1>5 DEF Parent, Inner, Tree, Consistent
<1>7. Wider(m, n, task.page, task.right, task.sep, i)
  BY <1>3, <1>4, <1>6, WidenedFacts
<1>8. Writes(nodes', nodes, task.up, m) /\ Ends(task.key, task.rid, "ok") /\ root' = root
  BY DEF RaiseIntoParent, Writes
<1>. HIDE DEF m, i
<1>9. Tree(nodes', root, C, h, S, top, bad, d) /\ Shown(nodes', C) = Shown(nodes, C)
  <2>1. Tree(nodes, root, C, h, S, top, bad, d)
    BY <1>3
  <2>2. Wider(m, nodes[task.up], task.page, task.right, task.sep, i)
    BY <1>7
  <2>3. Writes(nodes', nodes, task.up, m)
    BY <1>8
  <2>4. Tree(nodes', root, C, h, S, top, bad, d) /\ ShowsSame(nodes', nodes, C)
    BY <1>2, <1>5, <2>1, <2>2, <2>3, ParentWidens
  <2>. QED BY <2>4 DEF ShowsSame
<1>10. /\ nodes' \in Seq(Node) /\ Len(nodes') = Len(nodes) /\ DOMAIN nodes' = DOMAIN nodes
       /\ nodes'[task.up] = m /\ m.kind = "internal"
       /\ \A p \in DOMAIN nodes : p # task.up => nodes'[p] = nodes[p]
  BY <1>2, <1>6, <1>7, <1>8, Updated DEF Wider
<1>11. "ok" \in Codes /\ "ok" # "io"
  BY DEF Codes
<1>12. /\ task' = Idle /\ task' \in Task /\ faults' \in 0 .. MaxFaults
       /\ acked' \subseteq Keys \X Rids /\ acked' = acked \cup {<<task.key, task.rid>>}
       /\ last' \in {[code |-> "none"]} \cup [key : Keys, rid : Rids, code : Codes]
  BY <1>2, <1>4, <1>8, <1>11, EndsTypes
<1>13. TypeOK'
  BY <1>2, <1>8, <1>10, <1>12 DEF TypeOK
<1>14. FiniteLeaves(nodes')
  BY <1>2, <1>10 DEF FiniteLeaves
<1>15. Shape(nodes', root', task', C, h, S, top, bad, d, P)
  BY <1>8, <1>9, <1>12, IdlePending DEF Shape
<1>16. <<task.key, task.rid>> \in Shown(nodes, C)
  BY <1>3 DEF PendingAdopt
<1>17. Shown(nodes, C) \cup acked' \subseteq Shown(nodes', C)
  BY <1>1, <1>9, <1>12, <1>16
<1>. QED BY <1>2, <1>3, <1>13, <1>14, <1>15, <1>17, StepTo

\* The halves of an internal node at its mid-th key.
LowHalf(m, mid) == Internal(m.parent, SubSeq(m.keys, 1, mid - 1), SubSeq(m.children, 1, mid))
UpperHalf(m, mid) ==
    Internal(m.parent, SubSeq(m.keys, mid + 1, Len(m.keys)),
             SubSeq(m.children, mid + 1, Len(m.keys) + 1))

\* The halves of an internal node have its keys and children but the middle
\* key.
LEMMA InnerHalves ==
    ASSUME NEW m \in Node, m.kind = "internal", Len(m.children) = Len(m.keys) + 1,
           NEW mid \in 2 .. Len(m.keys)
    PROVE  /\ LowHalf(m, mid) \in Node /\ LowHalf(m, mid).kind = "internal"
           /\ LowHalf(m, mid).parent = m.parent
           /\ Len(LowHalf(m, mid).keys) = mid - 1 /\ Len(LowHalf(m, mid).children) = mid
           /\ \A j \in 1 .. mid : LowHalf(m, mid).children[j] = m.children[j]
           /\ DOMAIN LowHalf(m, mid).children = 1 .. mid
           /\ UpperHalf(m, mid) \in Node /\ UpperHalf(m, mid).kind = "internal"
           /\ UpperHalf(m, mid).parent = m.parent
           /\ Len(UpperHalf(m, mid).keys) = Len(m.keys) - mid
           /\ Len(UpperHalf(m, mid).children) = Len(m.keys) - mid + 1
           /\ \A j \in 1 .. Len(m.keys) - mid + 1 :
                 UpperHalf(m, mid).children[j] = m.children[mid + j]
           /\ DOMAIN UpperHalf(m, mid).children = 1 .. Len(m.keys) - mid + 1
           /\ m.keys[mid] \in Keys
<1>. DEFINE l == Len(m.keys)
            lk == SubSeq(m.keys, 1, mid - 1)
            lc == SubSeq(m.children, 1, mid)
            rk == SubSeq(m.keys, mid + 1, l)
            rc == SubSeq(m.children, mid + 1, l + 1)
<1>1. m.keys \in Seq(Keys) /\ m.children \in Seq(PageIds) /\ m.parent \in PageIds
  BY NodeFields
<1>2. l \in Nat /\ Len(m.children) = l + 1 /\ mid \in Nat /\ 2 <= mid /\ mid <= l
      /\ DOMAIN m.keys = 1 .. l /\ DOMAIN m.children = 1 .. l + 1
  BY <1>1
<1>3. lk \in Seq(Keys) /\ Len(lk) = mid - 1
  <2>1. \A k \in 1 .. mid - 1 : m.keys[k] \in Keys
    BY <1>1, <1>2
  <2>. QED BY <1>1, <1>2, <2>1, SubSeqProperties
<1>4. lc \in Seq(PageIds) /\ Len(lc) = mid /\ \A j \in 1 .. mid : lc[j] = m.children[j]
  <2>1. \A k \in 1 .. mid : m.children[k] \in PageIds
    BY <1>1, <1>2
  <2>2. lc \in Seq(PageIds) /\ Len(lc) = mid /\ \A j \in 1 .. mid : lc[j] = m.children[1 + j - 1]
    BY <1>1, <1>2, <2>1, SubSeqProperties
  <2>. QED BY <2>2, <1>2
<1>5. rk \in Seq(Keys) /\ Len(rk) = l - mid
  BY <1>1, <1>2, SubSeqProperties
<1>6. rc \in Seq(PageIds) /\ Len(rc) = l - mid + 1
      /\ \A j \in 1 .. l - mid + 1 : rc[j] = m.children[mid + j]
  <2>1. \A k \in mid + 1 .. l + 1 : m.children[k] \in PageIds
    BY <1>1, <1>2
  <2>. DEFINE a == mid + 1
              b == l + 1
              s == m.children
  <2>2. /\ a \in Int /\ b \in Int /\ a <= b /\ b - a + 1 = l - mid + 1
        /\ \A k \in a .. b : s[k] \in PageIds
    BY <1>2, <2>1
  <2>3. rc = SubSeq(s, a, b)
    OBVIOUS
  <2>. HIDE DEF a, b, s, rc
  <2>4. rc \in Seq(PageIds) /\ Len(rc) = b - a + 1 /\ \A j \in 1 .. b - a + 1 : rc[j] = s[a + j - 1]
    BY <2>2, <2>3, SubSeqProperties
  <2>5. \A j \in 1 .. l - mid + 1 : rc[j] = s[mid + j]
    <3>1. \A j \in 1 .. l - mid + 1 : a + j - 1 = mid + j
      BY <1>2 DEF a
    <3>. QED BY <2>2, <2>4, <3>1
  <2>. QED BY <2>2, <2>4, <2>5 DEF s
<1>. HIDE DEF lk, lc, rk, rc
<1>7. LET n == Internal(m.parent, lk, lc)
      IN  n \in Node /\ n.kind = "internal" /\ n.parent = m.parent /\ n.keys = lk /\ n.children = lc
  BY <1>1, <1>3, <1>4, InternalNode
<1>8. LET n == Internal(m.parent, rk, rc)
      IN  n \in Node /\ n.kind = "internal" /\ n.parent = m.parent /\ n.keys = rk /\ n.children = rc
  BY <1>1, <1>5, <1>6, InternalNode
<1>9. LowHalf(m, mid) = Internal(m.parent, lk, lc) /\ UpperHalf(m, mid) = Internal(m.parent, rk, rc)
  BY DEF LowHalf, UpperHalf, lk, lc, rk, rc
<1>10. m.keys[mid] \in Keys
  BY <1>1, <1>2
<1>11. DOMAIN lc = 1 .. mid /\ DOMAIN rc = 1 .. l - mid + 1
  BY <1>4, <1>6
<1>. QED BY <1>3, <1>4, <1>5, <1>6, <1>7, <1>8, <1>9, <1>10, <1>11

\* Where the children of the widened node come from.
FromOld(m, n, right) ==
    /\ Len(m.children) = Len(m.keys) + 1 /\ Injective(m.children)
    /\ m.children[1] = n.children[1]
    /\ \A j \in DOMAIN m.children :
          m.children[j] = right
          \/ \E k \in DOMAIN n.children : n.children[k] = m.children[j] /\ (j > 2 => k > 1)

KeepsLast(m, n, i) ==
    i # Len(n.children) => m.children[Len(m.children)] = n.children[Len(n.children)]

\* What is known of a widened node, by name.
LEMMA WiderPlaces ==
    ASSUME NEW m, NEW n \in Node, NEW page, NEW right, NEW sep, NEW i,
           Wider(m, n, page, right, sep, i), n.kind = "internal",
           Len(n.children) = Len(n.keys) + 1,
           Injective(n.children), \A k \in DOMAIN n.children : n.children[k] # right
    PROVE  FromOld(m, n, right) /\ KeepsLast(m, n, i)
  BY WiderFacts DEF FromOld, KeepsLast

\* What is known of the children of the node that has taken in the right half.
Filled(ns, C, h, S, top, bad, up, m) ==
    /\ m \in Node /\ m.kind = "internal" /\ Len(m.children) = Len(m.keys) + 1
    /\ m.parent = ns[up].parent
    /\ Injective(m.children) /\ m.children[1] = ns[up].children[1]
    /\ \A j \in DOMAIN m.children :
          /\ m.children[j] \in C /\ h[m.children[j]] = h[up] - 1
          /\ j > 2 => m.children[j] \notin S
          /\ j < Len(m.children) => ns[m.children[j]].parent = up
          /\ Detached(ns, C \ {up}, m.children[j])

\* A widened parent has children in order, and all but the last name it.
LEMMA ParentFilled ==
    ASSUME NEW ns \in Seq(Node), NEW rt, NEW C, NEW h, NEW S, NEW top, NEW bad, NEW d,
           Tree(ns, rt, C, h, S, top, bad, d),
           NEW t, Parent(ns, C, h, S, top, bad, t),
           NEW m, NEW i, Wider(m, ns[t.up], t.page, t.right, t.sep, i)
    PROVE  Filled(ns, C, h, S, top, bad, t.up, m)
<1>. DEFINE up == t.up
            r == t.right
            n == ns[up]
<1>1. /\ Consistent(ns, C, h, top, bad) /\ BadOK(ns, C, h, rt, top, bad)
      /\ Spine(ns, rt, C, h, S, top)
  BY DEF Tree
<1>2. /\ up \in C /\ n.kind = "internal" /\ Inner(ns, C, h, top, bad, up)
      /\ t.page # bad /\ r \in C /\ h[r] = h[up] - 1 /\ r \notin S /\ ns[r].parent = up
      /\ Detached(ns, C, r)
      /\ \A k \in DOMAIN n.children : n.children[k] # r
  BY DEF Parent
<1>3. up \in DOMAIN ns /\ C \subseteq DOMAIN ns /\ n \in Node /\ None \notin C
      /\ h \in [C -> Nat] /\ top \in C /\ top \in S /\ ns[top].parent = None /\ S \subseteq C
  BY <1>1, <1>2 DEF Consistent, Spine, None
<1>4. /\ h[up] > 0 /\ Len(n.children) = Len(n.keys) + 1 /\ Injective(n.children)
      /\ \A k \in DOMAIN n.children :
            /\ n.children[k] \in C /\ h[n.children[k]] = h[up] - 1
            /\ ns[n.children[k]].parent = up \/ (up = top /\ n.children[k] = bad)
  BY <1>2 DEF Inner
<1>5. /\ m \in Node /\ m.kind = "internal" /\ m.parent = n.parent
      /\ i \in DOMAIN n.children /\ n.children[i] = t.page
      /\ Len(m.children) = Len(n.children) + 1
  BY DEF Wider
<1>6. /\ Len(m.children) = Len(m.keys) + 1 /\ Injective(m.children)
      /\ m.children[1] = n.children[1]
      /\ \A j \in DOMAIN m.children :
            \/ m.children[j] = r
            \/ \E k \in DOMAIN n.children : n.children[k] = m.children[j] /\ (j > 2 => k > 1)
      /\ i # Len(n.children) => m.children[Len(m.children)] = n.children[Len(n.children)]
  <2>1. Wider(m, n, t.page, r, t.sep, i)
    OBVIOUS
  <2>. HIDE DEF n, r
  <2>2. FromOld(m, n, r) /\ KeepsLast(m, n, i)
    BY <2>1, <1>2, <1>3, <1>4, WiderPlaces
  <2>. QED BY <2>2 DEF FromOld, KeepsLast
<1>7. n.children \in Seq(PageIds) /\ m.children \in Seq(PageIds)
  BY <1>2, <1>3, <1>5, NodeFields
<1>8. DOMAIN n.children = 1 .. Len(n.children) /\ Len(n.children) \in Nat
      /\ DOMAIN m.children = 1 .. Len(n.children) + 1
  BY <1>5, <1>7
<1>9. bad # None => /\ ns[bad].parent = None /\ bad \in C
                    /\ bad = ns[top].children[Len(ns[top].children)]
  BY <1>1 DEF BadOK
<1>. HIDE DEF up, r, n
\* A child of the old node.
<1>10. ASSUME NEW k \in DOMAIN n.children
       PROVE  LET c == n.children[k]
              IN  /\ k > 1 => c \notin S
                  /\ ns[c].parent = up \/ (up = top /\ c = bad /\ bad # None)
                  /\ Detached(ns, C \ {up}, c)
  <2>. DEFINE c == n.children[k]
  <2>1. c \in C /\ h[c] = h[up] - 1 /\ (ns[c].parent = up \/ (up = top /\ c = bad))
    BY <1>4
  <2>. HIDE DEF c
  <2>2. c # None
    BY <2>1, <1>3
  <2>3. c # top
    <3>1. CASE ns[c].parent = up
      BY <3>1, <1>2, <1>3
    <3>2. CASE up = top
      <4>1. h[up] \in Nat
        BY <1>2, <1>3
      <4>. QED BY <2>1, <3>2, <4>1
    <3>. QED BY <2>1, <3>1, <3>2
  <2>4. c \in S => ns[c].parent = up /\ n.children[1] = c
    <3>. SUFFICES ASSUME c \in S PROVE ns[c].parent = up /\ n.children[1] = c
      OBVIOUS
    <3>1. ns[c].parent \in S /\ ns[ns[c].parent].children[1] = c
      BY <2>3, <1>1 DEF Spine
    <3>2. ns[c].parent # None
      BY <3>1, <1>3
    <3>3. ns[c].parent = up
      BY <2>1, <2>2, <3>2, <1>9
    <3>. QED BY <3>1, <3>3 DEF n
  <2>5. k > 1 => c \notin S
    <3>1. 1 \in DOMAIN n.children
      BY <1>8
    <3>2. n.children[1] = n.children[k] => k = 1
      BY <1>4, <3>1 DEF Injective
    <3>. QED BY <2>4, <3>2 DEF c
  <2>6. ASSUME NEW w \in C \ {up}, ns[w].kind = "internal" PROVE ~ ChildOf(ns, w, c)
    <3>. SUFFICES ASSUME ChildOf(ns, w, c) PROVE FALSE
      OBVIOUS
    <3>1. Inner(ns, C, h, top, bad, w)
      BY <2>6, <1>1 DEF Consistent
    <3>2. PICK j \in DOMAIN ns[w].children : ns[w].children[j] = c
      BY DEF ChildOf
    <3>3. ns[c].parent = w \/ (w = top /\ c = bad)
      BY <3>1, <3>2 DEF Inner
    <3>. QED BY <2>1, <2>2, <2>6, <3>3, <1>2, <1>3, <1>9
  <2>. QED BY <2>1, <2>2, <2>5, <2>6 DEF Detached, c
<1>11. ASSUME NEW j \in DOMAIN m.children
       PROVE  /\ m.children[j] \in C /\ h[m.children[j]] = h[up] - 1
              /\ j > 2 => m.children[j] \notin S
              /\ j < Len(m.children) => ns[m.children[j]].parent = up
              /\ Detached(ns, C \ {up}, m.children[j])
  <2>1. CASE m.children[j] = r
    <3>1. Detached(ns, C \ {up}, r)
      BY <1>2 DEF Detached
    <3>. QED BY <2>1, <3>1, <1>2
  <2>2. CASE \E k \in DOMAIN n.children : n.children[k] = m.children[j] /\ (j > 2 => k > 1)
    <3>1. PICK k \in DOMAIN n.children : n.children[k] = m.children[j] /\ (j > 2 => k > 1)
      BY <2>2
    <3>. DEFINE c == m.children[j]
    <3>2. /\ c \in C /\ h[c] = h[up] - 1 /\ (j > 2 => c \notin S)
          /\ ns[c].parent = up \/ (up = top /\ c = bad /\ bad # None)
          /\ Detached(ns, C \ {up}, c)
      BY <3>1, <1>4, <1>10
    <3>3. ASSUME j < Len(m.children), up = top, c = bad, bad # None PROVE FALSE
      <4>1. bad = n.children[Len(n.children)]
        BY <3>3, <1>9 DEF n
      <4>2. i # Len(n.children)
        BY <4>1, <1>2, <1>5
      <4>3. m.children[Len(m.children)] = bad
        BY <4>1, <4>2, <1>6
      <4>4. Len(m.children) \in DOMAIN m.children
        BY <1>5, <1>8
      <4>5. j = Len(m.children)
        BY <3>3, <4>3, <4>4, <1>6 DEF Injective
      <4>. QED BY <3>3, <4>5, <1>5, <1>8
    <3>. QED BY <3>2, <3>3
  <2>. QED BY <2>1, <2>2, <1>6
<1>. QED BY <1>5, <1>6, <1>11 DEF Filled, up, n

\* The call goes on with the node that takes in the right half, which splits too.
Resplit(u, t, page, node, right, sep, up, kids) ==
    u = [t EXCEPT !.phase = "write", !.page = page, !.node = node, !.right = right,
                  !.sep = sep, !.up = up, !.kids = kids]

\* The call that goes on with the parent.
LEMMA TaskResplit ==
    ASSUME NEW t \in Task, t # Idle, NEW page \in PageIds, NEW node \in Node, NEW right \in PageIds,
           NEW sep \in Keys, NEW up \in PageIds, NEW kids \in Seq(PageIds),
           NEW u, Resplit(u, t, page, node, right, sep, up, kids)
    PROVE  /\ u \in Task /\ u.phase = "write"
           /\ u.key = t.key /\ u.rid = t.rid /\ u.page = page /\ u.node = node
           /\ u.right = right /\ u.sep = sep /\ u.up = up /\ u.kids = kids
<1>1. t \in [phase : Phases \ {"idle"}, key : Keys, rid : Rids, page : PageIds, node : Node,
             right : PageIds, sep : Keys, up : PageIds, kids : Seq(PageIds)]
  BY DEF Task
<1>2. "write" \in Phases \ {"idle"}
  BY DEF Phases
<1>. QED BY <1>1, <1>2 DEF Task, Resplit

\* The split of a parent, as the call remembers it.
ParentSplit(u, t, ns, m, mid) ==
    /\ u.key = t.key /\ u.rid = t.rid
    /\ u.page = t.up /\ u.node = LowHalf(m, mid) /\ u.right = Len(ns) + 1
    /\ u.up = m.parent /\ u.kids = UpperHalf(m, mid).children

\* Adding the right half of the parent changes nothing the tree shows, and the
\* call is a split of the parent.
LEMMA ParentSplits ==
    ASSUME NEW ns \in Seq(Node), NEW rt, NEW C, NEW h, NEW S, NEW top, NEW bad, NEW d, NEW P,
           Tree(ns, rt, C, h, S, top, bad, d),
           NEW t, Parent(ns, C, h, S, top, bad, t), t.up \in S \/ t.up \in P,
           Path(ns, C, h, S, P, t.page), <<t.key, t.rid>> \in Shown(ns, C),
           NEW m, Filled(ns, C, h, S, top, bad, t.up, m), NEW mid \in 2 .. Len(m.keys),
           NEW ms, Adds(ms, ns, UpperHalf(m, mid)),
           NEW u, ParentSplit(u, t, ns, m, mid)
    PROVE  /\ Tree(ms, rt, C, h, S, top, bad, d) /\ ShowsSame(ms, ns, C)
           /\ \E P2 : PendingWrite(ms, u, C, h, S, d, P2)
<1>. DEFINE up == t.up
            right == Len(ns) + 1
            low == LowHalf(m, mid)
            high == UpperHalf(m, mid)
            P2 == {x \in P \cup {up} : h[x] >= h[up]}
            l == Len(m.keys)
<1>1. /\ Consistent(ns, C, h, top, bad) /\ Spine(ns, rt, C, h, S, top)
  BY DEF Tree
<1>2. up \in C /\ ns[up].kind = "internal"
  BY DEF Parent
<1>3. /\ m \in Node /\ m.kind = "internal" /\ Len(m.children) = Len(m.keys) + 1
      /\ m.parent = ns[up].parent
      /\ Injective(m.children) /\ m.children[1] = ns[up].children[1]
      /\ \A j \in DOMAIN m.children :
          /\ m.children[j] \in C /\ h[m.children[j]] = h[up] - 1
          /\ j > 2 => m.children[j] \notin S
          /\ j < Len(m.children) => ns[m.children[j]].parent = up
          /\ Detached(ns, C \ {up}, m.children[j])
  BY DEF Filled
<1>4. /\ u.key = t.key /\ u.rid = t.rid /\ u.page = up /\ u.node = low /\ u.right = right
      /\ u.up = m.parent /\ u.kids = high.children
  BY DEF ParentSplit
<1>5. m.keys \in Seq(Keys) /\ m.children \in Seq(PageIds)
  BY <1>3, NodeFields
<1>6. /\ l \in Nat /\ mid \in Nat /\ 2 <= mid /\ mid <= l
      /\ DOMAIN m.children = 1 .. l + 1
  BY <1>3, <1>5
<1>7. /\ low \in Node /\ low.kind = "internal" /\ low.parent = m.parent
      /\ Len(low.keys) = mid - 1 /\ Len(low.children) = mid
      /\ \A j \in 1 .. mid : low.children[j] = m.children[j]
      /\ DOMAIN low.children = 1 .. mid
      /\ high \in Node /\ high.kind = "internal" /\ high.parent = m.parent
      /\ Len(high.keys) = l - mid /\ Len(high.children) = l - mid + 1
      /\ \A j \in 1 .. l - mid + 1 : high.children[j] = m.children[mid + j]
      /\ DOMAIN high.children = 1 .. l - mid + 1
  BY <1>3, InnerHalves
<1>8. Adds(ms, ns, high)
  OBVIOUS
<1>. HIDE DEF low, high
<1>9. /\ ms \in Seq(Node) /\ Len(ms) = right /\ DOMAIN ns = 1 .. Len(ns) /\ DOMAIN ms = 1 .. right
      /\ Len(ns) \in Nat /\ ms[right] = high
      /\ \A q \in DOMAIN ns : q \in DOMAIN ms /\ ms[q] = ns[q]
  BY <1>7, <1>8, Appended
<1>10. C \subseteq DOMAIN ns /\ right \notin C /\ S \subseteq C /\ h \in [C -> Nat]
  BY <1>1, <1>9 DEF Consistent, Spine
<1>11. \A q \in C : ms[q] = ns[q]
  BY <1>9, <1>10
<1>12. AllAlike(ms, ns, C) /\ Shown(ms, C) = Shown(ns, C) /\ Leaves(ms, C) = Leaves(ns, C)
  BY <1>11, ShownFrame
<1>13. Tree(ms, rt, C, h, S, top, bad, d)
  <2>1. DOMAIN ns \subseteq DOMAIN ms /\ Len(ms) \in Nat /\ Len(ns) <= Len(ms)
    BY <1>9
  <2>. HIDE DEF right
  <2>. QED BY <1>9, <1>12, <2>1, TreeFrame
<1>14. Path(ns, C, h, S, P2, up)
  <2>1. /\ P \subseteq C
        /\ \A x \in P : x \in S \/ (ns[x].parent \in P /\ h[ns[x].parent] = h[x] + 1)
    BY DEF Path
  <2>2. h[up] \in Nat /\ \A x \in P : h[x] \in Nat
    BY <1>2, <1>10, <2>1
  <2>3. P2 \subseteq C /\ up \in P2 /\ \A x \in P2 : h[x] >= h[up]
    BY <1>2, <2>1, <2>2
  <2>4. ASSUME NEW x \in P2 PROVE x \in S \/ (ns[x].parent \in P2 /\ h[ns[x].parent] = h[x] + 1)
    <3>1. x \in S \/ x \in P
      BY <2>4
    <3>2. CASE x \in P /\ x \notin S
      <4>1. ns[x].parent \in P /\ h[ns[x].parent] = h[x] + 1
        BY <3>2, <2>1
      <4>2. h[ns[x].parent] >= h[up]
        BY <4>1, <2>2, <2>3, <3>2
      <4>. QED BY <4>1, <4>2
    <3>. QED BY <3>1, <3>2
  <2>. HIDE DEF P2
  <2>. QED BY <2>3, <2>4 DEF Path
<1>. HIDE DEF P2
<1>15. Path(ms, C, h, S, P2, up) /\ Detached(ms, C, right)
  <2>1. Detached(ns, C, right)
    BY <1>1, <1>10, OutsideDetached
  <2>. HIDE DEF right, up
  <2>. QED BY <1>12, <1>14, <2>1, SplitFrame
<1>16. Splitting(ms, u, C, h, S, P2)
  <2>1. right \in DOMAIN ms /\ right \notin S /\ right # up
    BY <1>2, <1>9, <1>10
  <2>2. ms[up].parent = m.parent
    BY <1>2, <1>3, <1>11
  <2>3. ms[right].parent = m.parent /\ u.node.parent = m.parent
    BY <1>4, <1>7, <1>9
  <2>. HIDE DEF right, up
  <2>. QED BY <1>4, <1>15, <2>1, <2>2, <2>3 DEF Splitting
\* The children of the left half.
<1>17. ASSUME NEW j \in 1 .. mid
       PROVE  LET c == low.children[j]
              IN  c = m.children[j] /\ c \in C /\ h[c] = h[up] - 1 /\ ms[c].parent = up
  <2>1. low.children[j] = m.children[j]
    BY <1>7
  <2>2. j \in DOMAIN m.children /\ j < Len(m.children)
    BY <1>3, <1>6
  <2>3. m.children[j] \in C /\ h[m.children[j]] = h[up] - 1 /\ ns[m.children[j]].parent = up
    BY <1>3, <2>2
  <2>. QED BY <1>11, <2>1, <2>3
\* The children of the right one.
<1>18. ASSUME NEW j \in 1 .. l - mid + 1
       PROVE  LET c == high.children[j]
              IN  /\ c = m.children[mid + j] /\ mid + j \in DOMAIN m.children
                  /\ c \in C /\ h[c] = h[up] - 1 /\ c \notin S
                  /\ Detached(ms, C \ {up}, c)
  <2>. DEFINE k == mid + j
  <2>1. high.children[j] = m.children[k]
    BY <1>7
  <2>2. k \in DOMAIN m.children /\ k > 2
    BY <1>6
  <2>3. /\ m.children[k] \in C /\ h[m.children[k]] = h[up] - 1 /\ m.children[k] \notin S
        /\ Detached(ns, C \ {up}, m.children[k])
    <3>. HIDE DEF k
    <3>. QED BY <1>3, <2>2
  <2>4. Detached(ms, C \ {up}, m.children[k])
    <3>. DEFINE D == C \ {up}
                c == m.children[k]
    <3>1. AllAlike(ms, ns, D)
      BY <1>12 DEF AllAlike
    <3>2. Detached(ns, D, c)
      BY <2>3
    <3>. HIDE DEF D, c
    <3>3. Detached(ms, D, c)
      BY <3>1, <3>2, SplitFrame
    <3>. QED BY <3>3 DEF D, c
  <2>. QED BY <2>1, <2>2, <2>3, <2>4
<1>19. Half(ms, u, C, h, S)
  <2>1. Injective(high.children)
    <3>. SUFFICES ASSUME NEW i \in 1 .. l - mid + 1, NEW j \in 1 .. l - mid + 1,
                         high.children[i] = high.children[j]
                  PROVE  i = j
      BY <1>7 DEF Injective
    <3>1. mid + i \in DOMAIN m.children /\ mid + j \in DOMAIN m.children
          /\ m.children[mid + i] = m.children[mid + j]
      BY <1>18
    <3>2. mid + i = mid + j
      BY <3>1, <1>3 DEF Injective
    <3>. QED BY <3>2, <1>6
  <2>2. Len(high.children) = Len(high.keys) + 1
    BY <1>6, <1>7
  <2>3. \A i \in DOMAIN high.children :
           high.children[i] \in C /\ high.children[i] \notin S
           /\ h[high.children[i]] = h[up] - 1
    BY <1>7, <1>18
  <2>4. ms[u.right] = high /\ u.page = up /\ high.kind = "internal"
    BY <1>4, <1>7, <1>9
  <2>. HIDE DEF right, up
  <2>. QED BY <2>1, <2>2, <2>3, <2>4 DEF Half
<1>20. WriteInner(ms, u, C, h, S)
  <2>1. Injective(low.children)
    <3>. SUFFICES ASSUME NEW i \in 1 .. mid, NEW j \in 1 .. mid, low.children[i] = low.children[j]
                  PROVE  i = j
      BY <1>7 DEF Injective
    <3>1. i \in DOMAIN m.children /\ j \in DOMAIN m.children /\ m.children[i] = m.children[j]
      BY <1>6, <1>17
    <3>. QED BY <3>1, <1>3 DEF Injective
  <2>2. Len(low.children) = Len(low.keys) + 1
    BY <1>6, <1>7
  <2>3. low.children[1] = ms[up].children[1]
    <3>1. 1 \in 1 .. mid
      BY <1>6
    <3>. QED BY <3>1, <1>2, <1>3, <1>11, <1>17
  <2>4. \A i \in DOMAIN low.children :
           /\ low.children[i] \in C /\ h[low.children[i]] = h[up] - 1
           /\ ms[low.children[i]].parent = up
    BY <1>7, <1>17
  <2>5. ASSUME NEW i \in DOMAIN high.children
        PROVE  /\ \A j \in DOMAIN low.children : high.children[i] # low.children[j]
               /\ Detached(ms, C \ {up}, high.children[i])
    <3>1. i \in 1 .. l - mid + 1
      BY <1>7
    <3>2. /\ high.children[i] = m.children[mid + i] /\ mid + i \in DOMAIN m.children
          /\ Detached(ms, C \ {up}, high.children[i])
      BY <3>1, <1>18
    <3>3. ASSUME NEW j \in 1 .. mid, high.children[i] = low.children[j] PROVE FALSE
      <4>1. j \in DOMAIN m.children /\ m.children[j] = m.children[mid + i]
        BY <1>6, <1>17, <3>2, <3>3
      <4>2. j = mid + i
        BY <4>1, <3>2, <1>3 DEF Injective
      <4>. QED BY <4>2, <3>1, <1>6
    <3>. QED BY <3>2, <3>3, <1>7
  <2>6. ms[u.right] = high
    BY <1>4, <1>9
  <2>. HIDE DEF right, up
  <2>7. u.kids = ms[u.right].children /\ u.node.kind = "internal"
    BY <1>4, <1>7, <2>6
  <2>8. /\ Len(u.node.children) = Len(u.node.keys) + 1 /\ Injective(u.node.children)
        /\ u.node.children[1] = ms[u.page].children[1]
    BY <1>4, <2>1, <2>2, <2>3
  <2>9. \A i \in DOMAIN u.node.children :
           LET c == u.node.children[i]
           IN  c \in C /\ h[c] = h[u.page] - 1 /\ ms[c].parent = u.page
    BY <1>4, <2>4
  <2>10. \A i \in DOMAIN u.kids :
           /\ \A j \in DOMAIN u.node.children : u.kids[i] # u.node.children[j]
           /\ Detached(ms, C \ {u.page}, u.kids[i])
    BY <1>4, <2>5
  <2>. QED BY <1>19, <2>7, <2>8, <2>9, <2>10 DEF WriteInner
<1>21. PendingWrite(ms, u, C, h, S, d, P2)
  <2>1. u.node.kind = ms[u.page].kind
    BY <1>2, <1>4, <1>7, <1>11
  <2>2. u.right \notin C /\ <<u.key, u.rid>> \in Shown(ms, C)
    BY <1>4, <1>10, <1>12
  <2>. QED BY <1>16, <1>20, <2>1, <2>2 DEF PendingWrite
<1>. QED BY <1>12, <1>13, <1>21 DEF ShowsSame

\* Splitting the parent keeps the invariant, with the right half written or
\* refused.
LEMMA SplitParentShape ==
    ASSUME ShapeInv, SplitParent
    PROVE  Kept
<1>1. PICK C, h, S, top, bad, d, P :
         /\ Shape(nodes, root, task, C, h, S, top, bad, d, P) /\ acked \subseteq Shown(nodes, C)
  BY DEF ShapeInv
<1>2. TypeOK /\ FiniteLeaves(nodes) /\ nodes \in Seq(Node)
  BY DEF ShapeInv, TypeOK
<1>3. /\ Tree(nodes, root, C, h, S, top, bad, d) /\ task.phase = "adopt" /\ task.kids = << >>
      /\ PendingAdopt(nodes, task, C, h, S, top, bad, P) /\ NewPageFits
      /\ task.up # None /\ nodes[task.up].kind = "internal" /\ References(nodes[task.up])
  BY <1>1 DEF Shape, Pending, SplitParent, CanRaise, Raising
<1>4. task \in Task /\ task # Idle /\ task.key \in Keys /\ task.rid \in Rids /\ task.up \in PageIds
  BY <1>2, <1>3, TaskFields DEF TypeOK
<1>5. Parent(nodes, C, h, S, top, bad, task) /\ (task.up \in S \/ task.up \in P)
  BY <1>2, <1>3, ParentFacts DEF References, ChildOf
<1>. DEFINE n == nodes[task.up]
            m == Widened(n)
            i == PlaceOf(n)
            l == Len(m.keys)
            mid == l \div 2 + 1
            low == LowHalf(m, mid)
            high == UpperHalf(m, mid)
            right == Len(nodes) + 1
<1>6. n \in Node /\ n.kind = "internal" /\ Len(n.children) = Len(n.keys) + 1 /\ task.up \in DOMAIN nodes
  BY <1>2, <1>3, <1>5 DEF Parent, Inner, Tree, Consistent
<1>7. Wider(m, n, task.page, task.right, task.sep, i)
  BY <1>3, <1>4, <1>6, WidenedFacts
<1>8. /\ l > MaxInternal /\ root' = root
      /\ \/ /\ Adds(nodes', nodes, high)
            /\ Resplit(task', task, task.up, low, right, m.keys[mid], m.parent, high.children)
            /\ UNCHANGED <<faults, acked, last>>
         \/ Adds(nodes', nodes, BlankNode) /\ Ends(task.key, task.rid, "corruption")
  BY DEF SplitParent, Adds, Resplit, LowHalf, UpperHalf, Internal
<1>. HIDE DEF m, i
<1>9. Filled(nodes, C, h, S, top, bad, task.up, m)
  <2>1. Wider(m, nodes[task.up], task.page, task.right, task.sep, i)
    BY <1>7
  <2>. QED BY <1>2, <1>3, <1>5, <2>1, ParentFilled
<1>10. m \in Node /\ m.kind = "internal" /\ Len(m.children) = Len(m.keys) + 1 /\ m.parent \in PageIds
       /\ m.keys \in Seq(Keys)
  BY <1>9, NodeFields DEF Filled
<1>11. mid \in 2 .. l /\ l \in Nat
  <2>1. l \in Nat /\ l >= 2
    BY <1>8, <1>10, TreeConstants
  <2>. HIDE DEF l
  <2>. QED BY <2>1
<1>. HIDE DEF mid
<1>12. right \in PageIds /\ right <= MaxPages /\ Len(nodes) \in Nat
  BY <1>2, <1>3, PageFacts
<1>13. /\ low \in Node /\ high \in Node /\ high.kind = "internal" /\ m.keys[mid] \in Keys
  BY <1>10, <1>11, InnerHalves
<1>14. high.children \in Seq(PageIds)
  BY <1>13, NodeFields
<1>15. CASE /\ Adds(nodes', nodes, high)
            /\ Resplit(task', task, task.up, low, right, m.keys[mid], m.parent, high.children)
            /\ UNCHANGED <<faults, acked, last>>
  <2>. HIDE DEF low, high
  <2>1. /\ nodes' \in Seq(Node) /\ Len(nodes') = right
        /\ DOMAIN nodes = 1 .. Len(nodes) /\ DOMAIN nodes' = 1 .. right
        /\ nodes'[right] = high
        /\ \A q \in DOMAIN nodes : q \in DOMAIN nodes' /\ nodes'[q] = nodes[q]
    BY <1>2, <1>13, <1>15, Appended
  <2>2. /\ task' \in Task /\ task'.phase = "write" /\ task'.key = task.key /\ task'.rid = task.rid
        /\ task'.page = task.up /\ task'.node = low /\ task'.right = right
        /\ task'.up = m.parent /\ task'.kids = high.children
    <3>. HIDE DEF right, l
    <3>. QED BY <1>4, <1>10, <1>12, <1>13, <1>14, <1>15, TaskResplit
  <2>3. TypeOK'
    BY <1>2, <1>8, <1>12, <1>15, <2>1, <2>2 DEF TypeOK
  <2>4. FiniteLeaves(nodes')
    <3>. SUFFICES ASSUME NEW q \in DOMAIN nodes', nodes'[q].kind = "leaf"
                  PROVE  IsFiniteSet(DOMAIN nodes'[q].entries)
      BY DEF FiniteLeaves
    <3>1. q # right
      BY <1>13, <2>1
    <3>2. q \in DOMAIN nodes
      BY <3>1, <1>12, <2>1
    <3>. QED BY <3>2, <1>2, <2>1 DEF FiniteLeaves
  <2>5. ParentSplit(task', task, nodes, m, mid)
    BY <2>2 DEF ParentSplit, low, high
  <2>6. Path(nodes, C, h, S, P, task.page) /\ <<task.key, task.rid>> \in Shown(nodes, C)
    BY <1>3 DEF PendingAdopt, Splitting
  <2>7. Adds(nodes', nodes, UpperHalf(m, mid))
    BY <1>15 DEF high
  <2>8. /\ Tree(nodes', root, C, h, S, top, bad, d) /\ ShowsSame(nodes', nodes, C)
        /\ \E P2 : PendingWrite(nodes', task', C, h, S, d, P2)
    <3>1. Tree(nodes, root, C, h, S, top, bad, d)
      BY <1>3
    <3>2. mid \in 2 .. Len(m.keys)
      BY <1>11
    <3>. QED BY <1>2, <1>5, <1>9, <2>5, <2>6, <2>7, <3>1, <3>2, ParentSplits
  <2>9. PICK P2 : PendingWrite(nodes', task', C, h, S, d, P2)
    BY <2>8
  <2>10. Shape(nodes', root', task', C, h, S, top, bad, d, P2)
    BY <1>8, <2>2, <2>8, <2>9 DEF Shape, Pending
  <2>11. Shown(nodes, C) \cup acked' \subseteq Shown(nodes', C)
    BY <1>1, <1>15, <2>8 DEF ShowsSame
  <2>. QED BY <1>2, <1>3, <2>3, <2>4, <2>10, <2>11, StepTo
<1>16. CASE Adds(nodes', nodes, BlankNode) /\ Ends(task.key, task.rid, "corruption")
  <2>1. BlankNode \in Node /\ BlankNode.kind = "blank"
    BY DEF Node, BlankNode
  <2>2. /\ nodes' \in Seq(Node) /\ Len(nodes') = right
        /\ DOMAIN nodes = 1 .. Len(nodes) /\ DOMAIN nodes' = 1 .. right
        /\ nodes'[right] = BlankNode
        /\ \A q \in DOMAIN nodes : q \in DOMAIN nodes' /\ nodes'[q] = nodes[q]
    BY <1>2, <1>16, <2>1, Appended
  <2>3. "corruption" \in Codes /\ "corruption" # "io" /\ "corruption" # "ok"
    BY DEF Codes
  <2>4. /\ task' = Idle /\ task' \in Task /\ faults' \in 0 .. MaxFaults
        /\ acked' \subseteq Keys \X Rids /\ acked' = acked
        /\ last' \in {[code |-> "none"]} \cup [key : Keys, rid : Rids, code : Codes]
    BY <1>2, <1>4, <1>16, <2>3, EndsTypes
  <2>5. TypeOK'
    BY <1>2, <1>8, <1>12, <2>2, <2>4 DEF TypeOK
  <2>6. FiniteLeaves(nodes')
    <3>. SUFFICES ASSUME NEW q \in DOMAIN nodes', nodes'[q].kind = "leaf"
                  PROVE  IsFiniteSet(DOMAIN nodes'[q].entries)
      BY DEF FiniteLeaves
    <3>1. q # right
      BY <2>1, <2>2
    <3>2. q \in DOMAIN nodes
      BY <3>1, <1>12, <2>2
    <3>. QED BY <3>2, <1>2, <2>2 DEF FiniteLeaves
  <2>7. C \subseteq DOMAIN nodes
    BY <1>3 DEF Tree, Consistent
  <2>8. \A q \in C : nodes'[q] = nodes[q]
    BY <2>2, <2>7
  <2>9. AllAlike(nodes', nodes, C) /\ Shown(nodes', C) = Shown(nodes, C)
    BY <2>8, ShownFrame
  <2>10. Tree(nodes', root, C, h, S, top, bad, d)
    <3>1. DOMAIN nodes \subseteq DOMAIN nodes' /\ Len(nodes') \in Nat /\ Len(nodes) <= Len(nodes')
      BY <1>12, <2>2
    <3>. QED BY <1>3, <1>12, <2>9, <3>1, TreeFrame
  <2>11. Shape(nodes', root', task', C, h, S, top, bad, d, P)
    BY <1>8, <2>4, <2>10, IdlePending DEF Shape
  <2>12. Shown(nodes, C) \cup acked' \subseteq Shown(nodes', C)
    BY <1>1, <2>4, <2>9
  <2>. QED BY <1>2, <1>3, <2>5, <2>6, <2>11, <2>12, StepTo
<1>. QED BY <1>8, <1>15, <1>16

-----------------------------------------------------------------------------
(* The theorems. *)
\* The new tree has no entries.
LEMMA NoEntries == << >> \in Entries /\ DOMAIN << >> = {}
<1>1. DOMAIN << >> = {}
  OBVIOUS
<1>2. << >> \in [{} -> Rids]
  OBVIOUS
<1>3. {} \in SUBSET Keys
  OBVIOUS
<1>. QED BY <1>1, <1>2, <1>3 DEF Entries

\* The tree Create writes has the shape: one leaf, the root and top of the
\* spine.
LEMMA InitShape == Init => ShapeInv
<1>. SUFFICES ASSUME Init PROVE ShapeInv
  OBVIOUS
<1>. DEFINE leaf == Leaf(None, None, << >>)
            C == {1}
            h == [p \in C |-> 0]
            d == [p \in C |-> 1]
<1>1. None \in PageIds /\ 1 \in PageIds /\ 1 <= MaxPages /\ None # 1
  BY TreeConstants DEF PageIds, None
<1>2. /\ leaf \in Node /\ leaf.kind = "leaf" /\ leaf.parent = None /\ leaf.next = None
      /\ leaf.entries = << >>
  BY <1>1, NoEntries, LeafNode
<1>. HIDE DEF leaf
<1>3. nodes = << leaf >> /\ root = 1 /\ task = Idle /\ faults = 0 /\ acked = {}
      /\ last = [code |-> "none"]
  BY DEF Init, leaf
<1>4. nodes \in Seq(Node) /\ Len(nodes) = 1 /\ DOMAIN nodes = {1} /\ nodes[1] = leaf
  BY <1>2, <1>3
<1>5. TypeOK
  BY <1>1, <1>3, <1>4, TreeConstants DEF TypeOK, Task
<1>6. FiniteLeaves(nodes)
  BY <1>2, <1>4, NoEntries, FS_EmptySet DEF FiniteLeaves
<1>7. Leaves(nodes, C) = {1}
  BY <1>2, <1>4 DEF Leaves
<1>8. Consistent(nodes, C, h, 1, None)
  BY <1>1, <1>2, <1>4 DEF Consistent
<1>9. BadOK(nodes, C, h, root, 1, None)
  BY DEF BadOK
<1>10. Spine(nodes, root, C, h, {1}, 1)
  BY <1>2, <1>3, <1>4 DEF Spine
<1>11. Chain(nodes, C, d)
  BY <1>2, <1>4, <1>7 DEF Chain
<1>12. Tree(nodes, root, C, h, {1}, 1, None, d)
  BY <1>8, <1>9, <1>10, <1>11 DEF Tree
<1>13. Shape(nodes, root, task, C, h, {1}, 1, None, d, {})
  BY <1>3, <1>12, IdlePending DEF Shape
<1>. QED BY <1>3, <1>5, <1>6, <1>13 DEF ShapeInv

\* Every step of every call keeps the invariant and loses nothing a scan has
\* shown.
LEMMA NextShape == ASSUME ShapeInv, Next PROVE Kept
<1>1. ASSUME NEW key \in Keys, NEW rid \in Rids, InsertRefused(key, rid) PROVE Kept
  BY <1>1, InsertRefusedShape
<1>2. ASSUME NEW key \in Keys, NEW rid \in Rids, InsertIntoLeaf(key, rid) PROVE Kept
  BY <1>2, InsertIntoLeafShape
<1>3. ASSUME NEW key \in Keys, NEW rid \in Rids, SplitLeaf(key, rid) PROVE Kept
  BY <1>3, SplitLeafShape
<1>4. CASE WriteLeft
  BY <1>4, WriteLeftShape
<1>5. CASE Adopt
  BY <1>5, AdoptShape
<1>6. CASE GrowRoot
  BY <1>6, GrowRootShape
<1>7. CASE LearnRoot
  BY <1>7, LearnRootShape
<1>8. CASE RaiseIntoParent
  BY <1>8, RaiseIntoParentShape
<1>9. CASE SplitParent
  BY <1>9, SplitParentShape
<1>10. CASE GiveUp
  BY <1>10, GiveUpShape
<1>. QED BY <1>1, <1>2, <1>3, <1>4, <1>5, <1>6, <1>7, <1>8, <1>9, <1>10 DEF Next, Continue

\* So does a step that changes nothing.
LEMMA StutterShape == ASSUME ShapeInv, UNCHANGED vars PROVE Kept
<1>1. /\ nodes' = nodes /\ root' = root /\ task' = task /\ faults' = faults
      /\ acked' = acked /\ last' = last
  BY DEF vars
<1>2. PICK C, h, S, top, bad, d, P :
         /\ Shape(nodes, root, task, C, h, S, top, bad, d, P) /\ acked \subseteq Shown(nodes, C)
  BY DEF ShapeInv
<1>3. TypeOK /\ FiniteLeaves(nodes)
  BY DEF ShapeInv
<1>4. TypeOK' /\ FiniteLeaves(nodes')
  BY <1>1, <1>3 DEF TypeOK
<1>5. Shape(nodes', root', task', C, h, S, top, bad, d, P)
  BY <1>1, <1>2
<1>6. Tree(nodes, root, C, h, S, top, bad, d)
  BY <1>2 DEF Shape
<1>7. Shown(nodes, C) \cup acked' \subseteq Shown(nodes', C)
  BY <1>1, <1>2
<1>. QED BY <1>3, <1>4, <1>5, <1>6, <1>7, StepTo

\* The two together.
LEMMA StepShape == ShapeInv /\ [Next]_vars => Kept
  BY NextShape, StutterShape

\* Wherever page accesses fail and inserts are broken off, the file keeps the
\* shape: pages in order that reach a leaf whichever child is followed, a left
\* spine that starts at page 1, and one chain of all leaves, with every
\* acknowledged entry in it.
THEOREM ShapeInvariant == Spec => []ShapeInv
<1>1. ShapeInv /\ [Next]_vars => ShapeInv'
  BY StepShape DEF Kept
<1>. QED BY InitShape, <1>1, PTL DEF Spec

\* No step of Insert, and no failure in one, loses an entry a scan has shown,
\* for any number of keys, pages and failures, and for nodes of any size.
THEOREM ScanNeverShrinks == Spec => ScanOnlyGrows
<1>1. ShapeInv /\ [Next]_vars => [Scanned \subseteq Scanned']_vars
  BY StepShape DEF Kept
<1>. QED BY <1>1, ShapeInvariant, PTL DEF Spec, ScanOnlyGrows

\* A tree of this shape has no descent that does not end at a leaf.
LEMMA ShapeDescends == ShapeInv => DescentEnds
<1>. SUFFICES ASSUME ShapeInv, NEW key \in Keys PROVE TypeOK /\ nodes[LeafFor(key)].kind = "leaf"
  BY DEF DescentEnds, ShapeInv
<1>1. PICK C, h, S, top, bad, d, P : Shape(nodes, root, task, C, h, S, top, bad, d, P)
  BY DEF ShapeInv
<1>2. TypeOK /\ nodes \in Seq(Node) /\ Tree(nodes, root, C, h, S, top, bad, d) /\ key \in Int
  BY <1>1, TreeConstants DEF ShapeInv, TypeOK, Shape
<1>3. LeafFor(key) \in Leaves(nodes, C)
  BY <1>2, LeafForFacts
<1>. QED BY <1>2, <1>3 DEF Leaves

\* Search and Insert come to a leaf from the root whatever splits were broken
\* off, and the nodes name only pages there are.
THEOREM EveryDescentEnds == Spec => []DescentEnds
  BY ShapeInvariant, ShapeDescends, PTL

\* A scan of a tree of this shape ends, and yields all that was acknowledged.
LEMMA ShapeScans == ShapeInv => ScanKeepsAcked
<1>. SUFFICES ASSUME ShapeInv PROVE ScanEnds /\ acked \subseteq Scanned
  BY DEF ScanKeepsAcked
<1>1. PICK C, h, S, top, bad, d, P :
         Shape(nodes, root, task, C, h, S, top, bad, d, P) /\ acked \subseteq Shown(nodes, C)
  BY DEF ShapeInv
<1>2. nodes \in Seq(Node) /\ Tree(nodes, root, C, h, S, top, bad, d)
  BY <1>1 DEF ShapeInv, TypeOK, Shape
<1>3. /\ Consistent(nodes, C, h, top, bad) /\ Spine(nodes, root, C, h, S, top)
      /\ Chain(nodes, C, d)
  BY <1>2 DEF Tree
<1>4. acked \subseteq Scanned
  BY <1>1, <1>2, ScannedIs
<1>5. ScanEnds
  <2>. DEFINE at == OrderOf(nodes, root)
  <2>1. ScanOrder = at
    BY ScanIs
  <2>2. /\ at \in [1 .. Len(nodes) + 1 -> Leaves(nodes, C) \cup {None}]
        /\ at[Len(nodes) + 1] = None
    BY <1>2, <1>3, OrderFacts
  <2>. HIDE DEF at
  <2>3. \A n \in DOMAIN at : at[n] # None => nodes[at[n]].kind = "leaf"
    BY <2>2 DEF Leaves
  <2>. QED BY <2>1, <2>2, <2>3 DEF ScanEnds
<1>. QED BY <1>4, <1>5

\* ScanAll ends over leaves only and yields every entry whose insert returned
\* ok, however many calls failed half way.
THEOREM ScansKeepAcked == Spec => []ScanKeepsAcked
  BY ShapeInvariant, ShapeScans, PTL
================================================================================
