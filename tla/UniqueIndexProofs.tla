-------------------------- MODULE UniqueIndexProofs --------------------------
(***************************************************************************)
(* Proofs about BPlusTree while no page access fails and the file has room *)
(* for the splits there are: the tree is well formed, a search and a scan  *)
(* see the same, and together they are a unique index.                     *)
(***************************************************************************)
EXTENDS BPlusTreeProofs

(***************************************************************************)
(* The smallest keys of a set.                                             *)
(***************************************************************************)
\* They lie before the others.
LEMMA SmallestBefore ==
    ASSUME NEW K, K \subseteq Int, IsFiniteSet(K), NEW n \in Nat,
           NEW k \in Smallest(n, K), NEW j \in K \ Smallest(n, K)
    PROVE  k < j
<1>. DEFINE below(x) == {y \in K : y < x}
<1>1. SUFFICES ASSUME ~ (k < j) PROVE FALSE
  OBVIOUS
<1>2. k \in K /\ k \in Int /\ j \in Int /\ j <= k
  <2>1. k \in K /\ j \in K
    BY DEF Smallest
  <2>2. k \in Int /\ j \in Int
    BY <2>1
  <2>. QED BY <1>1, <2>1, <2>2
<1>3. \A y \in K : y \in Int
  OBVIOUS
<1>4. below(j) \subseteq below(k)
  <2>1. \A y \in K : y < j => y < k
    BY <1>2, <1>3
  <2>. QED BY <2>1
<1>5. IsFiniteSet(below(k))
  BY FS_Subset
<1>6. Cardinality(below(j)) <= Cardinality(below(k))
  BY <1>4, <1>5, FS_Subset
<1>7. Cardinality(below(j)) \in Nat /\ Cardinality(below(k)) \in Nat
  BY <1>4, <1>5, FS_Subset, FS_CardinalityType
<1>8. Cardinality(below(k)) < n /\ ~ (Cardinality(below(j)) < n)
  BY <1>2 DEF Smallest
<1>. HIDE DEF below
<1>. QED BY <1>6, <1>7, <1>8

\* There are as many as asked for.
LEMMA SmallestCount ==
    ASSUME NEW K, K \subseteq Int, IsFiniteSet(K), NEW n \in Nat, n <= Cardinality(K)
    PROVE  IsFiniteSet(Smallest(n, K)) /\ Cardinality(Smallest(n, K)) = n
<1>. DEFINE below(x) == {y \in K : y < x}
            Bad == {m \in 0 .. Cardinality(K) : Cardinality(Smallest(m, K)) # m}
<1>1. Cardinality(K) \in Nat
  BY FS_CardinalityType
<1>2. \A m : Smallest(m, K) \subseteq K /\ IsFiniteSet(Smallest(m, K))
  <2>1. \A m : Smallest(m, K) \subseteq K
    BY DEF Smallest
  <2>. QED BY <2>1, FS_Subset
<1>3. \A x : IsFiniteSet(below(x)) /\ Cardinality(below(x)) \in Nat
  <2>1. \A x : below(x) \subseteq K
    OBVIOUS
  <2>. HIDE DEF below
  <2>. QED BY <2>1, FS_Subset, FS_CardinalityType
<1>4. SUFFICES ASSUME Bad # {} PROVE FALSE
  <2>. HIDE DEF below
  <2>. QED BY <1>1, <1>2
<1>5. PICK m \in Bad : \A i \in Bad : m <= i
  <2>1. Bad \subseteq Nat
    BY <1>1
  <2>. HIDE DEF Bad
  <2>. QED BY <1>4, <2>1, LeastNatural
<1>6. m # 0
  <2>1. Smallest(0, K) = {}
    <3>1. \A x \in K : ~ (Cardinality(below(x)) < 0)
      <4>. HIDE DEF below
      <4>. QED BY <1>3
    <3>. QED BY <3>1 DEF Smallest
  <2>2. Cardinality(Smallest(0, K)) = 0
    BY <2>1, FS_EmptySet
  <2>. QED BY <2>2
<1>. DEFINE l == m - 1
            L == Smallest(l, K)
<1>7. l \in Nat /\ l \in 0 .. Cardinality(K) /\ m = l + 1 /\ l < Cardinality(K)
  BY <1>1, <1>6
<1>8. Cardinality(L) = l
  <2>1. l \notin Bad
    BY <1>5, <1>7
  <2>. QED BY <1>7, <2>1
<1>9. L \subseteq K /\ IsFiniteSet(L)
  BY <1>2
<1>10. \A k \in L, j \in K \ L : k < j
  BY <1>7, SmallestBefore
<1>11. PICK x \in K \ L : \A y \in K \ L : x <= y
  <2>1. K \ L # {}
    <3>1. L # K
      BY <1>7, <1>8
    <3>. QED BY <1>9, <3>1
  <2>2. IsFiniteSet(K \ L) /\ K \ L \subseteq Int
    BY FS_Subset
  <2>. HIDE DEF L
  <2>. QED BY <2>1, <2>2, FiniteHasExtremes
<1>12. \A y \in K : y \in Int
  OBVIOUS
<1>13. below(x) = L
  <2>1. \A y \in K : y < x <=> y \in L
    <3>. HIDE DEF L
    <3>. QED BY <1>9, <1>10, <1>11, <1>12
  <2>. QED BY <1>9, <2>1
<1>14. x \in Smallest(m, K)
  <2>1. Cardinality(below(x)) < m
    BY <1>7, <1>8, <1>13
  <2>. QED BY <2>1 DEF Smallest
<1>15. L \subseteq Smallest(m, K)
  <2>1. \A y \in K : Cardinality(below(y)) < l => Cardinality(below(y)) < m
    <3>. HIDE DEF below
    <3>. QED BY <1>3, <1>7
  <2>. QED BY <2>1 DEF Smallest
<1>16. ASSUME NEW y \in K \ L, y # x PROVE y \notin Smallest(m, K)
  <2>1. L \cup {x} \subseteq below(y)
    <3>1. x < y /\ x \in K
      BY <1>11, <1>12, <1>16
    <3>2. \A z \in L : z < y
      BY <1>10, <1>16
    <3>. HIDE DEF L
    <3>. QED BY <1>9, <3>1, <3>2
  <2>2. Cardinality(L \cup {x}) = l + 1
    <3>. HIDE DEF L
    <3>. QED BY <1>8, <1>9, <1>11, FS_AddElement
  <2>3. Cardinality(L \cup {x}) <= Cardinality(below(y))
    <3>. HIDE DEF L, below
    <3>. QED BY <1>3, <2>1, FS_Subset
  <2>4. ~ (Cardinality(below(y)) < m)
    <3>. HIDE DEF L, below, l
    <3>. QED BY <1>3, <1>7, <2>2, <2>3
  <2>. QED BY <2>4 DEF Smallest
<1>17. Smallest(m, K) = L \cup {x}
  <2>1. Smallest(m, K) \subseteq K
    BY <1>2
  <2>. HIDE DEF L
  <2>. QED BY <1>9, <1>11, <1>14, <1>15, <1>16, <2>1
<1>18. Cardinality(Smallest(m, K)) = l + 1
  <2>. HIDE DEF L
  <2>. QED BY <1>8, <1>9, <1>11, <1>17, FS_AddElement
<1>. QED BY <1>7, <1>18

\* The halves of a leaf that overflows: how many keys each has, and the
\* separator between them.
LEMMA LeafHalves ==
    ASSUME NEW K, K \subseteq Keys, IsFiniteSet(K), Cardinality(K) = MaxLeaf + 1
    PROVE  LET low == Smallest(Cardinality(K) \div 2, K)
               high == K \ low
               sep == Separator(low, high)
           IN  /\ low \subseteq K /\ IsFiniteSet(low) /\ IsFiniteSet(high)
               /\ Cardinality(low) <= MaxLeaf /\ Cardinality(high) <= MaxLeaf
               /\ 2 * Cardinality(low) >= MaxLeaf /\ 2 * Cardinality(high) >= MaxLeaf
               /\ low # {} /\ sep \in high
               /\ \A k \in low : k < sep
               /\ \A k \in high : sep <= k
<1>. DEFINE n == Cardinality(K) \div 2
            low == Smallest(n, K)
            high == K \ low
            sep == Separator(low, high)
<1>1. K \subseteq Int /\ MaxLeaf \in Nat /\ MaxLeaf >= 1
  BY TreeConstants
<1>2. n \in Nat /\ n <= Cardinality(K) /\ n >= 1 /\ 2 * n >= MaxLeaf /\ 2 * n <= MaxLeaf + 1
  BY <1>1
<1>3. low \subseteq K
  BY DEF Smallest
<1>4. IsFiniteSet(low) /\ Cardinality(low) = n
  <2>. HIDE DEF n
  <2>. QED BY <1>1, <1>2, SmallestCount
<1>5. IsFiniteSet(high) /\ Cardinality(high) = MaxLeaf + 1 - n
  <2>. HIDE DEF n
  <2>1. IsFiniteSet(high)
    BY FS_Difference
  <2>2. Cardinality(high) = Cardinality(K) - Cardinality(K \cap low)
    BY FS_Difference
  <2>3. K \cap low = low
    BY <1>3
  <2>4. Cardinality(high) = Cardinality(K) - Cardinality(low)
    <3>. HIDE DEF high, low
    <3>. QED BY <2>2, <2>3
  <2>. HIDE DEF high, low
  <2>. QED BY <1>1, <1>2, <1>4, <2>1, <2>4
<1>6. low # {}
  BY <1>2, <1>4, FS_EmptySet
<1>7. sep \in high /\ \A k \in high : sep <= k
  <2>1. \E k \in high : \A j \in high : k <= j
    <3>1. Cardinality(K) > 1
      BY <1>1
    <3>. QED BY <1>1, <3>1, HighHalf
  <2>. HIDE DEF high
  <2>. QED BY <2>1 DEF Separator
<1>8. \A k \in low : k < sep
  <2>. HIDE DEF sep, n
  <2>. QED BY <1>1, <1>2, <1>7, SmallestBefore
<1>. HIDE DEF n
<1>. QED BY <1>1, <1>2, <1>3, <1>4, <1>5, <1>6, <1>7, <1>8 DEF n

-----------------------------------------------------------------------------
(***************************************************************************)
(* The tree when nothing fails.  It is stated of the file m that the       *)
(* writes of the call in progress lead to, with                            *)
(*   h     the height of each page, 0 for a leaf;                          *)
(*   R     its range, the keys a search comes to it for;                   *)
(*   page, right, sep                                                      *)
(*         while a split has not come to the parent: the two halves and    *)
(*         the key that separates them; otherwise page and right are None. *)
(***************************************************************************)
\* The key has its place at the i-th child of a node with these separators.
Between(keys, i, k) ==
    /\ \A j \in 1 .. i - 1 : keys[j] <= k
    /\ \A j \in i .. Len(keys) : k < keys[j]

Ascending(s) == \A i, j \in DOMAIN s : i < j => s[i] < s[j]
Before(K, J) == \A k \in K, j \in J : k < j

HalfFull(n) ==
    IF n.kind = "leaf" THEN 2 * Cardinality(DOMAIN n.entries) >= MaxLeaf
    ELSE 2 * Len(n.keys) >= MaxInternal - 1

\* The keys a search finds through the reference to a page.
Cover(R, page, right, c) == IF c = page THEN R[page] \cup R[right] ELSE R[c]

LeafFits(m, R, p) ==
    /\ IsFiniteSet(DOMAIN m[p].entries) /\ Cardinality(DOMAIN m[p].entries) <= MaxLeaf
    /\ DOMAIN m[p].entries \subseteq R[p]
    /\ m[p].next # None =>
          /\ m[p].next \in DOMAIN m /\ m[m[p].next].kind = "leaf"
          /\ Before(R[p], R[m[p].next])
          /\ HalfFull(m[p])

\* A child of an internal node, at the i-th place.
ChildFits(m, h, R, page, right, p, i) ==
    LET c == m[p].children[i]
    IN  /\ c \in DOMAIN m /\ c # right
        /\ m[c].parent = p /\ h[c] = h[p] - 1
        /\ Cover(R, page, right, c) = {k \in R[p] : Between(m[p].keys, i, k)}

InnerFits(m, h, R, page, right, p) ==
    /\ h[p] > 0
    /\ Len(m[p].children) = Len(m[p].keys) + 1 /\ Len(m[p].keys) <= MaxInternal
    /\ Injective(m[p].children) /\ Ascending(m[p].keys)
    /\ \A i \in DOMAIN m[p].keys : m[p].keys[i] \in R[p]
    /\ \A i \in DOMAIN m[p].children : ChildFits(m, h, R, page, right, p, i)

Hangs(m, h, rt, p) ==
    /\ h[p] < h[rt]
    /\ m[p].parent \in DOMAIN m /\ m[m[p].parent].kind = "internal"
    /\ ChildOf(m, m[p].parent, p)

PageFits(m, rt, h, R, page, right, p) ==
    /\ m[p].kind \in {"leaf", "internal"}
    /\ m[p].kind = "leaf" => h[p] = 0 /\ LeafFits(m, R, p)
    /\ m[p].kind = "internal" => InnerFits(m, h, R, page, right, p)
    /\ p # rt => HalfFull(m[p])
    /\ p \notin {rt, right} => Hangs(m, h, rt, p)

\* The right half of a split beside the left one.
Beside(m, rt, h, R, page, right, sep) ==
    /\ page \in DOMAIN m /\ right \in DOMAIN m /\ right # page /\ right # rt
    /\ m[right].parent = m[page].parent /\ h[right] = h[page] /\ HalfFull(m[page])
    /\ \A k \in R[page] : k < sep
    /\ \A k \in R[right] : sep <= k
    /\ sep \in R[right] /\ R[page] # {}

Fit(m, rt, h, R, page, right, sep) ==
    /\ m \in Seq(Node) /\ h \in [DOMAIN m -> Nat] /\ R \in [DOMAIN m -> SUBSET Keys]
    /\ rt \in DOMAIN m /\ m[rt].parent = None /\ h[rt] < Len(m)
    /\ Cover(R, page, right, rt) = Keys
    /\ \A p \in DOMAIN m : PageFits(m, rt, h, R, page, right, p)
    /\ IF page = None THEN right = None ELSE Beside(m, rt, h, R, page, right, sep)

\* The page as the call in progress will leave it.
Coming(ns, t, p) == IF t.phase = "write" /\ p = t.page THEN t.node ELSE ns[p]
Learns(t, p) == t.phase # "idle" /\ \E j \in DOMAIN t.kids : t.kids[j] = p
NewParent(t) == IF t.phase = "grow" THEN t.page ELSE t.right

\* m is the file once the writes the call has begun are done.
Target(m, ns, t) ==
    /\ m \in Seq(Node) /\ Len(m) = Len(ns)
    /\ \A p \in DOMAIN m :
          m[p] = IF Learns(t, p) THEN [Coming(ns, t, p) EXCEPT !.parent = NewParent(t)]
                 ELSE Coming(ns, t, p)

LeafWrite(t) == t.phase = "write" /\ t.node.kind = "leaf"

\* The leaf that splits, before its left half is written.
Halves(m, ns, t) ==
    /\ ns[t.page].kind = "leaf" /\ m[t.page].kind = "leaf" /\ m[t.right].kind = "leaf"
    /\ ns[t.page].next = m[t.right].next
    /\ Pairs(m[t.page].entries) \cup Pairs(m[t.right].entries)
          = Pairs(ns[t.page].entries) \cup {<<t.key, t.rid>>}
    /\ t.key \notin DOMAIN ns[t.page].entries

Fitting(ns, rt, t, m, h, R) ==
    /\ Target(m, ns, t)
    /\ t.phase = "idle" => Fit(m, rt, h, R, None, None, None)
    /\ t.phase \in {"write", "adopt"} =>
          Fit(m, rt, h, R, t.page, t.right, t.sep) /\ t.up = m[t.page].parent
    /\ t.phase = "grow" => Fit(m, t.page, h, R, None, None, None)
    /\ LeafWrite(t) => Halves(m, ns, t)

\* What a scan yields of the call's entry.
Yields(ns, t, scanned) ==
    /\ scanned = Shown(ns, IF LeafWrite(t) THEN DOMAIN ns \ {t.right} ELSE DOMAIN ns)
    /\ LeafWrite(t) => \A r \in Rids : <<t.key, r>> \notin scanned
    /\ t.phase # "idle" /\ ~ LeafWrite(t) => <<t.key, t.rid>> \in scanned

FitInv ==
    /\ \E m, h, R : Fitting(nodes, root, task, m, h, R)
    /\ Yields(nodes, task, Scanned)

\* Child follows the reference at whose place the key belongs.
LEMMA Routes ==
    ASSUME NEW n \in Node, n.kind = "internal", Len(n.children) = Len(n.keys) + 1,
           Ascending(n.keys), NEW key \in Int
    PROVE  \E i \in DOMAIN n.children : Child(n, key) = n.children[i] /\ Between(n.keys, i, key)
<1>. DEFINE T == {j \in DOMAIN n.keys : n.keys[j] <= key}
            c == Cardinality(T)
<1>1. n.keys \in Seq(Keys) /\ DOMAIN n.keys = 1 .. Len(n.keys) /\ Len(n.keys) \in Nat
  BY NodeFields
<1>2. \A j \in DOMAIN n.keys : n.keys[j] \in Int
  <2>1. \A j \in 1 .. Len(n.keys) : n.keys[j] \in Keys
    BY <1>1
  <2>. QED BY <1>1, <2>1, TreeConstants
<1>3. PICK i \in DOMAIN n.children : Child(n, key) = n.children[i] /\ i = c + 1
  BY ChildFacts
<1>4. c \in Nat /\ T = 1 .. c
  <2>1. CASE T = {}
    <3>1. c = 0
      BY <2>1, FS_EmptySet
    <3>2. 1 .. 0 = {}
      OBVIOUS
    <3>. HIDE DEF T, c
    <3>. QED BY <2>1, <3>1, <3>2
  <2>2. CASE T # {}
    <3>1. T \subseteq Int /\ T \subseteq 1 .. Len(n.keys)
      <4>1. T \subseteq DOMAIN n.keys
        OBVIOUS
      <4>. HIDE DEF T
      <4>. QED BY <1>1, <4>1
    <3>2. IsFiniteSet(T)
      <4>1. 1 \in Int /\ Len(n.keys) \in Int
        BY <1>1
      <4>. DEFINE l == Len(n.keys)
      <4>. HIDE DEF T, l
      <4>2. IsFiniteSet(1 .. l)
        BY <4>1, FS_Interval DEF l
      <4>3. T \subseteq 1 .. l
        BY <3>1 DEF l
      <4>. QED BY <4>2, <4>3, FS_Subset
    <3>3. PICK x \in T : \A y \in T : y <= x
      <4>. HIDE DEF T
      <4>. QED BY <2>2, <3>1, <3>2, FiniteHasExtremes
    <3>4. ASSUME NEW j \in 1 .. x PROVE j \in T
      <4>1. j \in DOMAIN n.keys /\ x \in DOMAIN n.keys /\ n.keys[x] <= key
        BY <1>1, <3>3
      <4>2. n.keys[j] \in Int /\ n.keys[x] \in Int
        BY <1>2, <4>1
      <4>3. j < x => n.keys[j] < n.keys[x]
        BY <4>1 DEF Ascending
      <4>4. n.keys[j] <= key
        BY <4>1, <4>2, <4>3, <1>1
      <4>. QED BY <4>1, <4>4
    <3>5. T = 1 .. x /\ x \in Nat
      <4>1. x \in Nat /\ \A y \in T : y \in 1 .. x
        BY <3>1, <3>3
      <4>. HIDE DEF T
      <4>. QED BY <3>4, <4>1
    <3>6. c = x
      <4>1. Cardinality(1 .. x) = IF 1 > x THEN 0 ELSE x - 1 + 1
        BY <3>5, FS_Interval
      <4>2. x >= 1
        BY <3>1, <3>3
      <4>3. Cardinality(1 .. x) = x
        BY <3>5, <4>1, <4>2
      <4>. QED BY <3>5, <4>3
    <3>. QED BY <3>5, <3>6
  <2>. QED BY <2>1, <2>2
<1>5. \A j \in 1 .. Len(n.keys) : j <= c <=> n.keys[j] <= key
  <2>1. \A j \in 1 .. Len(n.keys) : j \in T <=> n.keys[j] <= key
    BY <1>1
  <2>2. \A j \in 1 .. Len(n.keys) : j \in 1 .. c <=> j <= c
    BY <1>1, <1>4
  <2>3. 1 .. c = T
    BY <1>4
  <2>. HIDE DEF T, c
  <2>. QED BY <2>1, <2>2, <2>3
<1>6. c <= Len(n.keys)
  <2>1. c \in Nat /\ (c > 0 => c \in T)
    <3>. HIDE DEF T, c
    <3>. QED BY <1>4
  <2>2. \A y \in T : y <= Len(n.keys)
    BY <1>1
  <2>. HIDE DEF T, c
  <2>. QED BY <1>1, <2>1, <2>2
<1>7. Between(n.keys, i, key)
  <2>. HIDE DEF c
  <2>1. \A j \in 1 .. i - 1 : n.keys[j] <= key
    BY <1>1, <1>3, <1>4, <1>5, <1>6
  <2>2. \A j \in i .. Len(n.keys) : ~ (n.keys[j] <= key) /\ n.keys[j] \in Int
    BY <1>1, <1>2, <1>3, <1>4, <1>5
  <2>3. \A j \in i .. Len(n.keys) : key < n.keys[j]
    BY <2>2
  <2>. QED BY <2>1, <2>3 DEF Between
<1>. QED BY <1>3, <1>7

\* No key belongs at two places.
LEMMA OneRoute ==
    ASSUME NEW keys \in Seq(Keys), NEW i \in 1 .. Len(keys) + 1, NEW j \in 1 .. Len(keys) + 1,
           NEW k \in Int, Between(keys, i, k), Between(keys, j, k)
    PROVE  i = j
<1>1. ASSUME NEW a \in 1 .. Len(keys) + 1, NEW b \in 1 .. Len(keys) + 1,
             Between(keys, a, k), Between(keys, b, k), a < b
      PROVE  FALSE
  <2>1. a \in 1 .. b - 1 /\ a \in a .. Len(keys) /\ keys[a] \in Keys
    BY <1>1
  <2>2. keys[a] <= k /\ k < keys[a]
    BY <1>1, <2>1 DEF Between
  <2>3. keys[a] \in Int
    BY <2>1, TreeConstants
  <2>. QED BY <2>2, <2>3
<1>2. ~ (i < j) /\ ~ (j < i)
  BY <1>1
<1>. QED BY <1>2

(***************************************************************************)
(* Between calls.                                                          *)
(***************************************************************************)
Whole(ns, rt, h, R) == Fit(ns, rt, h, R, None, None, None)

\* What Fit says, when no split is on its way.
LEMMA WholeFacts ==
    ASSUME NEW ns, NEW rt, NEW h, NEW R, Whole(ns, rt, h, R)
    PROVE  /\ ns \in Seq(Node) /\ Len(ns) \in Nat /\ DOMAIN ns = 1 .. Len(ns) /\ None \notin DOMAIN ns
           /\ h \in [DOMAIN ns -> Nat] /\ R \in [DOMAIN ns -> SUBSET Keys]
           /\ rt \in DOMAIN ns /\ ns[rt].parent = None /\ h[rt] < Len(ns) /\ R[rt] = Keys
           /\ \A p \in DOMAIN ns : PageFits(ns, rt, h, R, None, None, p)
           /\ \A c \in DOMAIN ns : Cover(R, None, None, c) = R[c]
<1>1. ns \in Seq(Node) /\ Len(ns) \in Nat /\ DOMAIN ns = 1 .. Len(ns) /\ None \notin DOMAIN ns
  BY DEF Whole, Fit, None
<1>2. \A c \in DOMAIN ns : Cover(R, None, None, c) = R[c]
  BY <1>1 DEF Cover
<1>. QED BY <1>1, <1>2 DEF Whole, Fit

\* Its pages are in order in the sense of the invariant for broken-off calls.
LEMMA WholeConsistent ==
    ASSUME NEW ns, NEW rt, NEW h, NEW R, Whole(ns, rt, h, R)
    PROVE  Consistent(ns, DOMAIN ns, h, rt, None)
<1>1. /\ h \in [DOMAIN ns -> Nat] /\ h[rt] < Len(ns) /\ Len(ns) \in Nat /\ rt \in DOMAIN ns
      /\ \A p \in DOMAIN ns : PageFits(ns, rt, h, R, None, None, p)
      /\ None \notin DOMAIN ns
  BY WholeFacts
<1>2. ASSUME NEW p \in DOMAIN ns
      PROVE  /\ ns[p].kind \in {"leaf", "internal"} /\ h[p] < Len(ns)
             /\ ns[p].kind = "leaf" => h[p] = 0
             /\ ns[p].kind = "internal" => Inner(ns, DOMAIN ns, h, rt, None, p)
  <2>1. ns[p].kind \in {"leaf", "internal"} /\ (ns[p].kind = "leaf" => h[p] = 0)
    BY <1>1 DEF PageFits
  <2>2. h[p] < Len(ns)
    <3>1. p = rt \/ h[p] < h[rt]
      BY <1>1 DEF PageFits, Hangs
    <3>2. h[p] \in Nat /\ h[rt] \in Nat
      BY <1>1
    <3>. QED BY <1>1, <3>1, <3>2
  <2>3. ASSUME ns[p].kind = "internal" PROVE Inner(ns, DOMAIN ns, h, rt, None, p)
    <3>1. InnerFits(ns, h, R, None, None, p)
      BY <1>1, <2>3 DEF PageFits
    <3>. QED BY <3>1 DEF InnerFits, ChildFits, Inner
  <2>. QED BY <2>1, <2>2, <2>3
<1>. QED BY <1>1, <1>2 DEF Consistent

\* A search for a key ends at the one leaf the key belongs in.
LEMMA OneLeaf ==
    ASSUME NEW ns, NEW rt, NEW h, NEW R, Whole(ns, rt, h, R), NEW key \in Keys,
           NEW f, \A p \in DOMAIN ns : f[p] = IF ns[p].kind = "internal" THEN Child(ns[p], key) ELSE p
    PROVE  LET leaf == Walk(f, rt, 0, Len(ns))[Len(ns)]
           IN  /\ leaf \in DOMAIN ns /\ ns[leaf].kind = "leaf" /\ key \in R[leaf]
               /\ \A q \in DOMAIN ns : ns[q].kind = "leaf" /\ key \in R[q] => q = leaf
<1>. DEFINE at == Walk(f, rt, 0, Len(ns))
            leaf == at[Len(ns)]
<1>1. /\ ns \in Seq(Node) /\ Len(ns) \in Nat
      /\ h \in [DOMAIN ns -> Nat] /\ h[rt] < Len(ns) /\ rt \in DOMAIN ns /\ R[rt] = Keys
      /\ \A p \in DOMAIN ns : PageFits(ns, rt, h, R, None, None, p)
      /\ \A c \in DOMAIN ns : Cover(R, None, None, c) = R[c]
  BY WholeFacts
<1>2. key \in Int
  BY TreeConstants
<1>3. ASSUME NEW p \in DOMAIN ns, ns[p].kind = "internal"
      PROVE  \E i \in DOMAIN ns[p].children :
                /\ f[p] = ns[p].children[i] /\ Between(ns[p].keys, i, key)
                /\ ChildFits(ns, h, R, None, None, p, i)
                /\ ChildOf(ns, p, f[p])
  <2>1. InnerFits(ns, h, R, None, None, p)
    BY <1>1, <1>3 DEF PageFits
  <2>2. ns[p] \in Node /\ Len(ns[p].children) = Len(ns[p].keys) + 1 /\ Ascending(ns[p].keys)
    BY <1>1, <2>1 DEF InnerFits
  <2>3. PICK i \in DOMAIN ns[p].children :
           Child(ns[p], key) = ns[p].children[i] /\ Between(ns[p].keys, i, key)
    BY <1>2, <1>3, <2>2, Routes
  <2>4. f[p] = ns[p].children[i]
    BY <1>3, <2>3
  <2>. QED BY <2>1, <2>3, <2>4 DEF InnerFits, ChildOf
<1>4. /\ at \in [0 .. Len(ns) -> DOMAIN ns] /\ at[0] = rt
      /\ \A n \in 1 .. Len(ns) : at[n] = f[at[n - 1]]
      /\ ns[leaf].kind = "leaf"
  <2>1. Consistent(ns, DOMAIN ns, h, rt, None)
    BY WholeConsistent
  <2>2. \A p \in DOMAIN ns : ns[p].kind = "leaf" => f[p] = p
    OBVIOUS
  <2>3. \A p \in DOMAIN ns : ns[p].kind = "internal" => ChildOf(ns, p, f[p])
    BY <1>3
  <2>. QED BY <1>1, <2>1, <2>2, <2>3, DescentFacts
<1>. HIDE DEF at
<1>5. \A n \in 0 .. Len(ns) : key \in R[at[n]]
  <2>. DEFINE Bad == {n \in 0 .. Len(ns) : key \notin R[at[n]]}
  <2>1. SUFFICES ASSUME Bad # {} PROVE FALSE
    OBVIOUS
  <2>2. PICK n \in Bad : \A k \in Bad : n <= k
    <3>1. Bad \subseteq Nat
      OBVIOUS
    <3>. HIDE DEF Bad
    <3>. QED BY <2>1, <3>1, LeastNatural
  <2>3. n # 0
    BY <1>1, <1>4
  <2>4. n - 1 \in 0 .. Len(ns) /\ n - 1 \notin Bad /\ n \in 1 .. Len(ns)
    BY <2>2, <2>3, <1>1
  <2>5. at[n - 1] \in DOMAIN ns /\ at[n] = f[at[n - 1]] /\ key \in R[at[n - 1]]
    BY <2>4, <1>4
  <2>6. ns[at[n - 1]].kind # "internal" => at[n] = at[n - 1]
    BY <2>5
  <2>7. CASE ns[at[n - 1]].kind = "internal"
    <3>1. PICK i \in DOMAIN ns[at[n - 1]].children :
             /\ at[n] = ns[at[n - 1]].children[i] /\ Between(ns[at[n - 1]].keys, i, key)
             /\ ChildFits(ns, h, R, None, None, at[n - 1], i)
      BY <1>3, <2>5, <2>7
    <3>2. at[n] \in DOMAIN ns /\ key \in Cover(R, None, None, at[n])
      BY <2>5, <3>1 DEF ChildFits
    <3>3. key \in R[at[n]]
      BY <1>1, <3>2
    <3>. QED BY <3>3
  <2>. QED BY <2>5, <2>6, <2>7
<1>6. leaf \in DOMAIN ns /\ key \in R[leaf]
  BY <1>1, <1>4, <1>5
<1>7. ASSUME NEW n \in 0 .. h[rt], NEW q \in DOMAIN ns, h[q] = h[rt] - n, key \in R[q]
      PROVE  q = at[n]
  <2>. DEFINE Good(x) == \A y \in DOMAIN ns : h[y] = h[rt] - x /\ key \in R[y] => y = at[x]
              Bad == {x \in 0 .. h[rt] : ~ Good(x)}
  <2>1. SUFFICES ASSUME Bad # {} PROVE FALSE
    BY <1>7
  <2>2. PICK x \in Bad : \A k \in Bad : x <= k
    <3>1. Bad \subseteq Nat
      OBVIOUS
    <3>. HIDE DEF Bad
    <3>. QED BY <2>1, <3>1, LeastNatural
  <2>3. PICK y \in DOMAIN ns : h[y] = h[rt] - x /\ key \in R[y] /\ y # at[x]
    BY <2>2
  <2>4. h[rt] \in Nat /\ h[y] \in Nat /\ x \in Nat /\ x <= h[rt]
    BY <1>1
  <2>5. y # rt
    <3>1. x = 0 => y # rt
      BY <1>4, <2>3
    <3>2. y = rt => x = 0
      BY <2>3, <2>4
    <3>. QED BY <3>1, <3>2
  <2>. DEFINE w == ns[y].parent
  <2>6. h[y] < h[rt] /\ w \in DOMAIN ns /\ ns[w].kind = "internal" /\ ChildOf(ns, w, y)
    <3>1. y \notin {rt, None}
      BY <2>5, WholeFacts
    <3>. QED BY <1>1, <3>1 DEF PageFits, Hangs
  <2>7. x # 0 /\ x - 1 \in 0 .. h[rt] /\ x - 1 \notin Bad /\ x \in 1 .. Len(ns)
    <3>1. x # 0
      BY <2>3, <2>4, <2>6
    <3>2. x - 1 \in 0 .. h[rt] /\ x \in 1 .. Len(ns)
      BY <1>1, <2>4, <3>1
    <3>3. x - 1 \notin Bad
      <4>. HIDE DEF Bad
      <4>. QED BY <2>2, <2>4, <3>1
    <3>. QED BY <3>1, <3>2, <3>3
  <2>8. PICK i \in DOMAIN ns[w].children : ns[w].children[i] = y
    BY <2>6 DEF ChildOf
  <2>9. InnerFits(ns, h, R, None, None, w)
    BY <1>1, <2>6 DEF PageFits
  <2>10. h[y] = h[w] - 1 /\ key \in R[w] /\ Between(ns[w].keys, i, key)
    <3>1. ChildFits(ns, h, R, None, None, w, i)
      BY <2>8, <2>9 DEF InnerFits
    <3>2. R[y] = {k \in R[w] : Between(ns[w].keys, i, k)}
      BY <1>1, <2>8, <3>1 DEF ChildFits
    <3>. QED BY <2>3, <2>8, <3>1, <3>2 DEF ChildFits
  <2>11. w = at[x - 1]
    <3>1. Good(x - 1)
      BY <2>7
    <3>2. h[w] = h[rt] - (x - 1)
      <4>1. h[w] \in Nat
        BY <1>1, <2>6
      <4>. QED BY <2>3, <2>4, <2>10, <4>1
    <3>. QED BY <2>6, <2>10, <3>1, <3>2
  <2>12. PICK j \in DOMAIN ns[w].children :
            f[w] = ns[w].children[j] /\ Between(ns[w].keys, j, key)
    BY <1>3, <2>6
  <2>13. i = j
    <3>1. /\ ns[w].keys \in Seq(Keys) /\ Len(ns[w].children) = Len(ns[w].keys) + 1
          /\ DOMAIN ns[w].children = 1 .. Len(ns[w].children)
      <4>1. ns[w] \in Node
        BY <1>1, <2>6
      <4>2. ns[w].keys \in Seq(Keys) /\ ns[w].children \in Seq(PageIds)
        BY <2>6, <4>1, NodeFields
      <4>4. DOMAIN ns[w].children = 1 .. Len(ns[w].children)
        BY <4>2
      <4>5. Len(ns[w].children) = Len(ns[w].keys) + 1
        BY <2>9 DEF InnerFits
      <4>. QED BY <4>2, <4>4, <4>5
    <3>. QED BY <1>2, <2>8, <2>10, <2>12, <3>1, OneRoute
  <2>14. at[x] = y
    BY <1>4, <2>7, <2>8, <2>11, <2>12, <2>13
  <2>. QED BY <2>3, <2>14
<1>8. ASSUME NEW q \in DOMAIN ns, ns[q].kind = "leaf", key \in R[q] PROVE q = at[h[rt]]
  <2>1. h[q] = 0
    BY <1>1, <1>8 DEF PageFits
  <2>2. h[rt] \in Nat
    BY <1>1
  <2>3. h[rt] \in 0 .. h[rt] /\ h[q] = h[rt] - h[rt]
    BY <2>1, <2>2
  <2>. QED BY <1>7, <1>8, <2>3
<1>. QED BY <1>4, <1>6, <1>8 DEF at

-----------------------------------------------------------------------------
(***************************************************************************)
(* What a reader sees of such a tree.                                      *)
(***************************************************************************)
\* A search finds what the leaves hold.
LEMMA SearchIsShown ==
    ASSUME NEW h, NEW R, Whole(nodes, root, h, R)
    PROVE  {e \in Keys \X Rids : SearchFinds(e[1], e[2])} = Shown(nodes, DOMAIN nodes)
<1>1. /\ nodes \in Seq(Node) /\ R \in [DOMAIN nodes -> SUBSET Keys]
      /\ \A p \in DOMAIN nodes : PageFits(nodes, root, h, R, None, None, p)
  BY WholeFacts
<1>2. ASSUME NEW key \in Keys
      PROVE  /\ LeafFor(key) \in DOMAIN nodes /\ nodes[LeafFor(key)].kind = "leaf"
             /\ \A q \in DOMAIN nodes : nodes[q].kind = "leaf" /\ key \in R[q] => q = LeafFor(key)
  <2>. DEFINE f == DownTo(nodes, key)
  <2>1. LeafFor(key) = Walk(f, root, 0, Len(nodes))[Len(nodes)]
    BY DEF LeafFor, Descend, Walk, DownTo
  <2>2. \A p \in DOMAIN nodes :
           f[p] = IF nodes[p].kind = "internal" THEN Child(nodes[p], key) ELSE p
    BY DEF DownTo
  <2>. HIDE DEF f
  <2>. QED BY <2>1, <2>2, OneLeaf
<1>3. ASSUME NEW q \in DOMAIN nodes, nodes[q].kind = "leaf"
      PROVE  nodes[q].entries \in Entries /\ DOMAIN nodes[q].entries \subseteq R[q]
  <2>1. LeafFits(nodes, R, q)
    BY <1>1, <1>3 DEF PageFits
  <2>2. nodes[q] \in Node
    BY <1>1
  <2>. QED BY <1>3, <2>1, <2>2, NodeFields DEF LeafFits
<1>4. ASSUME NEW e \in Keys \X Rids, SearchFinds(e[1], e[2]) PROVE e \in Shown(nodes, DOMAIN nodes)
  <2>. DEFINE p == LeafFor(e[1])
  <2>1. e = <<e[1], e[2]>> /\ e[1] \in Keys
    OBVIOUS
  <2>2. p \in Leaves(nodes, DOMAIN nodes)
    BY <1>2, <2>1 DEF Leaves
  <2>3. e[1] \in DOMAIN nodes[p].entries /\ nodes[p].entries[e[1]] = e[2]
    BY <1>4 DEF SearchFinds
  <2>4. e \in Pairs(nodes[p].entries)
    BY <2>1, <2>3 DEF Pairs
  <2>. HIDE DEF p
  <2>. QED BY <2>2, <2>4 DEF Shown
<1>5. ASSUME NEW e \in Shown(nodes, DOMAIN nodes)
      PROVE  e \in Keys \X Rids /\ SearchFinds(e[1], e[2])
  <2>1. PICK q \in Leaves(nodes, DOMAIN nodes) : e \in Pairs(nodes[q].entries)
    BY DEF Shown
  <2>2. PICK k \in DOMAIN nodes[q].entries : e = <<k, nodes[q].entries[k]>>
    BY <2>1 DEF Pairs
  <2>3. q \in DOMAIN nodes /\ nodes[q].kind = "leaf"
    BY DEF Leaves
  <2>4. nodes[q].entries \in Entries /\ DOMAIN nodes[q].entries \subseteq R[q] /\ R[q] \subseteq Keys
    BY <1>1, <1>3, <2>3
  <2>5. k \in Keys /\ k \in R[q] /\ nodes[q].entries[k] \in Rids
    BY <2>4 DEF Entries
  <2>6. q = LeafFor(k)
    BY <1>2, <2>3, <2>5
  <2>7. e[1] = k /\ e[2] = nodes[q].entries[k] /\ e \in Keys \X Rids
    BY <2>2, <2>5
  <2>. QED BY <2>6, <2>7 DEF SearchFinds
<1>. QED BY <1>4, <1>5

\* The parents, the places and the sizes of the nodes are right.
LEMMA WholeIsWellFormed ==
    ASSUME task = Idle => \E h, R : Whole(nodes, root, h, R)
    PROVE  WellFormed
<1>. SUFFICES ASSUME NEW h, NEW R, Whole(nodes, root, h, R)
     PROVE  /\ nodes[root].parent = None
            /\ \A p \in DOMAIN nodes \ {root} :
                  /\ nodes[p].parent # None
                  /\ LET kids == nodes[nodes[p].parent].children
                     IN  Cardinality({i \in DOMAIN kids : kids[i] = p}) = 1
                  /\ IF nodes[p].kind = "leaf"
                     THEN 2 * Cardinality(DOMAIN nodes[p].entries) >= MaxLeaf
                     ELSE 2 * Len(nodes[p].keys) >= MaxInternal - 1
            /\ \A p \in DOMAIN nodes : nodes[p].kind = "internal" =>
                  /\ Valid(nodes[p])
                  /\ \A i \in DOMAIN nodes[p].children :
                        LET kid == nodes[nodes[p].children[i]]
                        IN  kid.parent = p /\ kid.kind = nodes[nodes[p].children[1]].kind
  BY DEF WellFormed
<1>1. /\ nodes \in Seq(Node) /\ DOMAIN nodes = 1 .. Len(nodes) /\ Len(nodes) \in Nat
      /\ None \notin DOMAIN nodes /\ nodes[root].parent = None
      /\ h \in [DOMAIN nodes -> Nat]
      /\ \A p \in DOMAIN nodes : PageFits(nodes, root, h, R, None, None, p)
  BY WholeFacts
<1>2. ASSUME NEW p \in DOMAIN nodes \ {root}
      PROVE  /\ nodes[p].parent # None
             /\ LET kids == nodes[nodes[p].parent].children
                IN  Cardinality({i \in DOMAIN kids : kids[i] = p}) = 1
             /\ IF nodes[p].kind = "leaf"
                THEN 2 * Cardinality(DOMAIN nodes[p].entries) >= MaxLeaf
                ELSE 2 * Len(nodes[p].keys) >= MaxInternal - 1
  <2>. DEFINE w == nodes[p].parent
              kids == nodes[w].children
  <2>1. HalfFull(nodes[p]) /\ Hangs(nodes, h, root, p)
    BY <1>1 DEF PageFits
  <2>2. w \in DOMAIN nodes /\ nodes[w].kind = "internal" /\ ChildOf(nodes, w, p)
    BY <2>1 DEF Hangs
  <2>3. Injective(kids)
    BY <1>1, <2>2 DEF PageFits, InnerFits
  <2>4. PICK i \in DOMAIN kids : kids[i] = p
    BY <2>2 DEF ChildOf
  <2>5. {j \in DOMAIN kids : kids[j] = p} = {i}
    BY <2>3, <2>4 DEF Injective
  <2>6. Cardinality({i}) = 1
    BY FS_Singleton
  <2>7. w # None
    BY <1>1, <2>2
  <2>. QED BY <2>1, <2>5, <2>6, <2>7 DEF HalfFull
<1>3. ASSUME NEW p \in DOMAIN nodes, nodes[p].kind = "internal"
      PROVE  /\ Valid(nodes[p])
             /\ \A i \in DOMAIN nodes[p].children :
                   LET kid == nodes[nodes[p].children[i]]
                   IN  kid.parent = p /\ kid.kind = nodes[nodes[p].children[1]].kind
  <2>1. InnerFits(nodes, h, R, None, None, p)
    BY <1>1, <1>3 DEF PageFits
  <2>2. /\ nodes[p].keys \in Seq(Keys) /\ nodes[p].children \in Seq(PageIds)
        /\ Len(nodes[p].children) = Len(nodes[p].keys) + 1
    <3>1. nodes[p] \in Node
      BY <1>1
    <3>. QED BY <1>3, <2>1, <3>1, NodeFields DEF InnerFits
  <2>3. Sorted(nodes[p].keys)
    <3>1. \A i \in 1 .. Len(nodes[p].keys) - 1 :
             i \in DOMAIN nodes[p].keys /\ i + 1 \in DOMAIN nodes[p].keys /\ i < i + 1
      BY <2>2
    <3>. QED BY <2>1, <3>1 DEF InnerFits, Ascending, Sorted
  <2>4. ASSUME NEW i \in DOMAIN nodes[p].children
        PROVE  /\ nodes[p].children[i] \in DOMAIN nodes
               /\ nodes[nodes[p].children[i]].parent = p
               /\ h[nodes[p].children[i]] = h[p] - 1
    BY <2>1 DEF InnerFits, ChildFits
  <2>5. Valid(nodes[p])
    BY <1>1, <1>3, <2>1, <2>2, <2>3, <2>4 DEF Valid, InnerFits
  <2>6. \A q \in DOMAIN nodes : nodes[q].kind = IF h[q] = 0 THEN "leaf" ELSE "internal"
    BY <1>1 DEF PageFits, InnerFits
  <2>7. 1 \in DOMAIN nodes[p].children
    BY <2>2
  <2>. QED BY <2>4, <2>5, <2>6, <2>7
<1>. QED BY <1>1, <1>2, <1>3

\* Each link leads from a leaf that holds something to one whose keys are
\* greater.
LinksAscend(ns, L) ==
    \A p \in L : ns[p].next # None =>
        /\ ns[p].next \in L
        /\ DOMAIN ns[p].entries # {}
        /\ Before(DOMAIN ns[p].entries, DOMAIN ns[ns[p].next].entries)

\* Then so does the chain of links as a whole.
LEMMA ChainAscends ==
    ASSUME NEW ns, NEW L, NEW d, NEW N \in Nat, Linked(L, ns, d, N),
           None \notin L, \A p, q \in L : d[p] = d[q] => p = q,
           LinksAscend(ns, L), \A p \in L : DOMAIN ns[p].entries \subseteq Int
    PROVE  \A p, q \in L :
              d[p] < d[q] => Before(DOMAIN ns[p].entries, DOMAIN ns[q].entries)
<1>. DEFINE Apart(p, q) == Before(DOMAIN ns[p].entries, DOMAIN ns[q].entries)
            Bad == {n \in Nat : \E p, q \in L : d[q] = n /\ d[p] < d[q] /\ ~ Apart(p, q)}
<1>1. d \in [L -> Nat]
  BY DEF Linked
<1>2. SUFFICES ASSUME Bad # {} PROVE FALSE
  BY <1>1
<1>3. PICK n \in Bad : \A k \in Bad : n <= k
  <2>1. Bad \subseteq Nat
    OBVIOUS
  <2>. HIDE DEF Bad
  <2>. QED BY <1>2, <2>1, LeastNatural
<1>4. PICK p \in L, q \in L : d[q] = n /\ d[p] < d[q] /\ ~ Apart(p, q)
  BY <1>3
<1>5. d[p] >= 1 /\ d[p] \in Nat /\ d[q] \in Nat /\ n \in Nat
  BY <1>1 DEF Linked
<1>6. q # 1
  BY <1>4, <1>5 DEF Linked
<1>7. PICK x \in L : ns[x].next = q
  BY <1>6 DEF Linked
<1>8. d[q] = d[x] + 1 /\ d[x] \in Nat /\ q # None
  <2>1. q # None
    OBVIOUS
  <2>. QED BY <1>1, <1>7, <2>1 DEF Linked
<1>9. Apart(x, q) /\ DOMAIN ns[x].entries # {}
  BY <1>7, <1>8 DEF LinksAscend
<1>10. p # x
  BY <1>4, <1>9
<1>11. d[p] < d[x]
  BY <1>4, <1>5, <1>8, <1>10
<1>12. Apart(p, x)
  <2>1. d[x] \notin Bad
    <3>. HIDE DEF Bad
    <3>. QED BY <1>3, <1>4, <1>5, <1>8
  <2>. QED BY <1>8, <1>11, <2>1
<1>13. Apart(p, q)
  <2>1. PICK y : y \in DOMAIN ns[x].entries
    BY <1>9
  <2>2. ASSUME NEW k \in DOMAIN ns[p].entries, NEW j \in DOMAIN ns[q].entries PROVE k < j
    <3>1. k < y /\ y < j
      BY <1>9, <1>12, <2>1 DEF Before
    <3>2. k \in Int /\ y \in Int /\ j \in Int
      BY <2>1
    <3>. QED BY <3>1, <3>2
  <2>. QED BY <2>2 DEF Before
<1>. QED BY <1>4, <1>13

\* A scan of a chain that ascends yields ascending keys, and no key twice.
LEMMA ScanInOrder ==
    ASSUME TypeOK, NEW C, NEW h, NEW S, NEW top, NEW bad, NEW d,
           Tree(nodes, root, C, h, S, top, bad, d), LinksAscend(nodes, Leaves(nodes, C))
    PROVE  /\ \A a, b \in Scan : a[1] < b[1] => a[2] < b[2]
           /\ \A e, f \in Scanned : e[1] = f[1] => e = f
<1>. DEFINE L == Leaves(nodes, C)
            K(p) == DOMAIN nodes[p].entries
<1>1. nodes \in Seq(Node) /\ Len(nodes) \in Nat /\ DOMAIN nodes = 1 .. Len(nodes)
  BY PageFacts
<1>2. Consistent(nodes, C, h, top, bad) /\ Spine(nodes, root, C, h, S, top) /\ Chain(nodes, C, d)
  BY DEF Tree
<1>3. L \subseteq DOMAIN nodes /\ None \notin L
  BY <1>1, <1>2 DEF Leaves, Consistent, None
<1>4. \A p \in L : K(p) \subseteq Int
  <2>. SUFFICES ASSUME NEW p \in L PROVE K(p) \subseteq Int
    OBVIOUS
  <2>1. nodes[p].kind = "leaf" /\ nodes[p] \in Node
    BY <1>1, <1>3 DEF Leaves
  <2>2. nodes[p].entries \in Entries
    BY <2>1, NodeFields
  <2>. QED BY <2>2, TreeConstants DEF Entries
<1>5. Linked(L, nodes, d, Len(nodes))
  BY <1>2 DEF Chain, Linked
<1>6. \A p, q \in L : d[p] = d[q] => p = q
  <2>1. \A p \in L : OrderOf(nodes, root)[d[p]] = p
    BY <1>1, <1>2, OrderFacts
  <2>. QED BY <2>1
<1>7. \A p, q \in L : d[p] < d[q] => Before(K(p), K(q))
  <2>. HIDE DEF L
  <2>1. LinksAscend(nodes, L)
    BY DEF L
  <2>. QED BY <1>1, <1>3, <1>4, <1>5, <1>6, <2>1, ChainAscends
<1>8. d \in [L -> Nat]
  BY <1>5 DEF Linked
<1>9. \A e \in Scan : \E p \in L : \E k \in K(p) : e = <<d[p], k, nodes[p].entries[k]>>
  <2>1. Scan = YieldOf(nodes, root)
    BY ScanIs
  <2>. QED BY <1>1, <1>2, <2>1, YieldFacts
<1>10. ASSUME NEW a \in Scan, NEW b \in Scan, a[1] < b[1] PROVE a[2] < b[2]
  <2>1. PICK p \in L : \E k \in K(p) : a = <<d[p], k, nodes[p].entries[k]>>
    BY <1>9
  <2>2. PICK q \in L : \E j \in K(q) : b = <<d[q], j, nodes[q].entries[j]>>
    BY <1>9
  <2>3. d[p] < d[q] /\ a[2] \in K(p) /\ b[2] \in K(q)
    BY <1>10, <2>1, <2>2
  <2>4. Before(K(p), K(q))
    BY <1>7, <2>3
  <2>. QED BY <2>3, <2>4 DEF Before
<1>11. ASSUME NEW e \in Scanned, NEW f \in Scanned, e[1] = f[1] PROVE e = f
  <2>1. PICK a \in Scan : e = <<a[2], a[3]>>
    BY DEF Scanned
  <2>2. PICK b \in Scan : f = <<b[2], b[3]>>
    BY DEF Scanned
  <2>3. PICK p \in L : \E k \in K(p) : a = <<d[p], k, nodes[p].entries[k]>>
    BY <1>9
  <2>4. PICK q \in L : \E j \in K(q) : b = <<d[q], j, nodes[q].entries[j]>>
    BY <1>9
  <2>. DEFINE k == e[1]
  <2>5. /\ k \in K(p) /\ k \in K(q)
        /\ e = <<k, nodes[p].entries[k]>> /\ f = <<k, nodes[q].entries[k]>>
    BY <1>11, <2>1, <2>2, <2>3, <2>4
  <2>. HIDE DEF k
  <2>6. k \in Int /\ d[p] \in Nat /\ d[q] \in Nat /\ ~ (k < k)
    BY <1>4, <1>8, <2>5
  <2>7. ~ (d[p] < d[q])
    BY <1>7, <2>5, <2>6 DEF Before
  <2>8. ~ (d[q] < d[p])
    BY <1>7, <2>5, <2>6 DEF Before
  <2>9. p = q
    BY <1>6, <2>6, <2>7, <2>8
  <2>. QED BY <2>5, <2>9
<1>. QED BY <1>10, <1>11

(***************************************************************************)
(* The file a call is on its way to.                                       *)
(***************************************************************************)
\* The fields of its pages.
LEMMA TargetFacts ==
    ASSUME NEW m, NEW ns \in Seq(Node), NEW t \in Task, Target(m, ns, t),
           \A p \in DOMAIN m : m[p].kind # "blank"
    PROVE  /\ m \in Seq(Node) /\ Len(m) = Len(ns) /\ DOMAIN m = DOMAIN ns
           /\ DOMAIN m = 1 .. Len(ns) /\ Len(ns) \in Nat
           /\ \A p \in DOMAIN m :
                 /\ Coming(ns, t, p) \in Node
                 /\ SameBody(m[p], Coming(ns, t, p))
                 /\ m[p].parent = IF Learns(t, p) THEN NewParent(t) ELSE Coming(ns, t, p).parent
                 /\ ~ Learns(t, p) => m[p] = Coming(ns, t, p)
<1>1. m \in Seq(Node) /\ Len(m) = Len(ns)
  BY DEF Target
<1>2. DOMAIN m = DOMAIN ns /\ DOMAIN m = 1 .. Len(ns) /\ Len(ns) \in Nat
  BY <1>1
<1>3. ASSUME NEW p \in DOMAIN m
      PROVE  /\ Coming(ns, t, p) \in Node
             /\ SameBody(m[p], Coming(ns, t, p))
             /\ m[p].parent = IF Learns(t, p) THEN NewParent(t) ELSE Coming(ns, t, p).parent
             /\ ~ Learns(t, p) => m[p] = Coming(ns, t, p)
  <2>. DEFINE n == Coming(ns, t, p)
              q == NewParent(t)
  <2>0. t.phase # "idle" => t # Idle
    BY DEF Idle
  <2>1. n \in Node
    <3>1. t.phase = "write" => t.node \in Node
      BY <2>0, TaskFields
    <3>2. ns[p] \in Node
      BY <1>2
    <3>. QED BY <3>1, <3>2 DEF Coming
  <2>2. m[p] = IF Learns(t, p) THEN [n EXCEPT !.parent = q] ELSE n
    BY DEF Target
  <2>3. CASE ~ Learns(t, p)
    BY <2>1, <2>2, <2>3 DEF SameBody
  <2>4. CASE Learns(t, p)
    <3>1. q \in PageIds
      BY <2>0, <2>4, TaskFields DEF Learns, NewParent
    <3>2. n.kind # "blank"
      <4>1. SUFFICES ASSUME n.kind = "blank" PROVE FALSE
        OBVIOUS
      <4>2. n = BlankNode
        <5>. HIDE DEF n
        <5>. QED BY <2>1, <4>1 DEF Node, BlankNode
      <4>3. [n EXCEPT !.parent = q].kind = "blank"
        <5>. HIDE DEF n, q
        <5>. QED BY <4>2 DEF BlankNode
      <4>. QED BY <2>2, <2>4, <4>3
    <3>. HIDE DEF n, q
    <3>. QED BY <2>1, <2>2, <2>4, <3>1, <3>2, Reparented DEF SameBody, n, q
  <2>. QED BY <2>1, <2>3, <2>4
<1>. QED BY <1>1, <1>2, <1>3

\* Its links lead upwards.
LEMMA FitLinks ==
    ASSUME NEW m, NEW rt, NEW h, NEW R, NEW page, NEW right, NEW sep,
           Fit(m, rt, h, R, page, right, sep),
           NEW p \in DOMAIN m, m[p].kind = "leaf"
    PROVE  /\ DOMAIN m[p].entries \subseteq R[p] /\ R[p] \subseteq Keys
           /\ HalfFull(m[p]) => DOMAIN m[p].entries # {}
           /\ m[p].next # None =>
                 /\ m[p].next \in DOMAIN m /\ m[m[p].next].kind = "leaf"
                 /\ Before(R[p], R[m[p].next]) /\ DOMAIN m[p].entries # {}
                 /\ DOMAIN m[m[p].next].entries \subseteq R[m[p].next]
                 /\ R[m[p].next] \subseteq Keys
<1>1. R \in [DOMAIN m -> SUBSET Keys] /\ \A q \in DOMAIN m : PageFits(m, rt, h, R, page, right, q)
  BY DEF Fit
<1>2. \A q \in DOMAIN m : m[q].kind = "leaf" => LeafFits(m, R, q)
  BY <1>1 DEF PageFits
<1>3. HalfFull(m[p]) => DOMAIN m[p].entries # {}
  <2>. SUFFICES ASSUME HalfFull(m[p]), DOMAIN m[p].entries = {} PROVE FALSE
    OBVIOUS
  <2>1. Cardinality(DOMAIN m[p].entries) = 0
    BY FS_EmptySet
  <2>2. 2 * Cardinality(DOMAIN m[p].entries) >= MaxLeaf
    BY DEF HalfFull
  <2>3. 2 * 0 = 0 /\ MaxLeaf \in Nat /\ MaxLeaf # 0
    BY TreeConstants
  <2>. QED BY <2>1, <2>2, <2>3
<1>. QED BY <1>1, <1>2, <1>3 DEF LeafFits

\* In each phase the links of the file as it is lead upwards, too.
LEMMA FittingAscends ==
    ASSUME NEW ns \in Seq(Node), NEW rt, NEW t \in Task, NEW m, NEW h, NEW R,
           Fitting(ns, rt, t, m, h, R),
           NEW C, C \subseteq DOMAIN ns, NEW d, Chain(ns, C, d),
           t.phase = "write" => t.right \notin C /\ t.node.kind = ns[t.page].kind
    PROVE  LinksAscend(ns, Leaves(ns, C))
<1>. DEFINE L == Leaves(ns, C)
            K(p) == DOMAIN ns[p].entries
            J(p) == DOMAIN m[p].entries
<1>1. PICK top, page, right, sep :
         /\ Fit(m, top, h, R, page, right, sep)
         /\ t.phase = "write" => page = t.page /\ right = t.right
  <2>1. t.phase \in {"idle", "write", "adopt", "grow"}
    BY TaskFields DEF Idle
  <2>. QED BY <2>1 DEF Fitting
<1>2. \A p \in DOMAIN m : m[p].kind \in {"leaf", "internal"} /\ m[p].kind # "blank"
  BY <1>1 DEF Fit, PageFits
<1>3. /\ DOMAIN m = DOMAIN ns
      /\ \A p \in DOMAIN m : SameBody(m[p], Coming(ns, t, p))
  BY <1>2, TargetFacts DEF Fitting
<1>4. \A p \in L : p \in DOMAIN m /\ ns[p].kind = "leaf"
  BY <1>3 DEF Leaves
<1>5. \A p \in L : ~ (LeafWrite(t) /\ p = t.page) =>
         m[p].kind = "leaf" /\ m[p].next = ns[p].next /\ J(p) = K(p)
  BY <1>3, <1>4 DEF SameBody, Coming, LeafWrite
<1>6. \A p \in DOMAIN m : m[p].kind = "leaf" =>
         /\ J(p) \subseteq R[p] /\ R[p] \subseteq Keys
         /\ HalfFull(m[p]) => J(p) # {}
         /\ m[p].next # None =>
               /\ m[p].next \in DOMAIN m /\ m[m[p].next].kind = "leaf"
               /\ Before(R[p], R[m[p].next]) /\ J(p) # {}
               /\ J(m[p].next) \subseteq R[m[p].next] /\ R[m[p].next] \subseteq Keys
  BY <1>1, FitLinks
<1>7. /\ d \in [L -> Nat]
      /\ \A p \in L : ns[p].next # None => ns[p].next \in L /\ d[ns[p].next] = d[p] + 1
  BY DEF Chain
<1>. SUFFICES ASSUME NEW p \in L, ns[p].next # None
     PROVE  /\ ns[p].next \in L /\ K(p) # {}
            /\ Before(K(p), K(ns[p].next))
  BY DEF LinksAscend
<1>. DEFINE q == ns[p].next
<1>8. q \in L /\ q # p
  BY <1>7
<1>. HIDE DEF L
<1>9. CASE ~ LeafWrite(t) \/ (p # t.page /\ q # t.page)
  <2>1. J(p) = K(p) /\ J(q) = K(q) /\ m[p].next = q /\ m[p].kind = "leaf" /\ p \in DOMAIN m
    BY <1>4, <1>5, <1>8, <1>9
  <2>2. J(p) \subseteq R[p] /\ J(q) \subseteq R[q] /\ Before(R[p], R[q]) /\ J(p) # {}
    BY <1>6, <2>1
  <2>. QED BY <1>8, <2>1, <2>2 DEF Before
<1>10. CASE LeafWrite(t) /\ (p = t.page \/ q = t.page)
  <2>1. t.phase = "write" /\ page = t.page /\ right = t.right /\ page \in DOMAIN m /\ page # None
    <3>1. t.phase = "write" /\ page = t.page /\ right = t.right
      BY <1>1, <1>10 DEF LeafWrite
    <3>2. page \in L
      BY <1>8, <1>10, <3>1
    <3>3. page \in 1 .. Len(ns)
      BY <1>3, <1>4, <3>2
    <3>. QED BY <1>4, <3>1, <3>2, <3>3 DEF None
  <2>2. Beside(m, top, h, R, page, right, sep) /\ sep \in Keys
    <3>1. Beside(m, top, h, R, page, right, sep)
      BY <1>1, <2>1 DEF Fit
    <3>2. R \in [DOMAIN m -> SUBSET Keys]
      BY <1>1 DEF Fit
    <3>. QED BY <3>1, <3>2 DEF Beside
  <2>3. /\ m[page].kind = "leaf" /\ m[right].kind = "leaf" /\ ns[page].next = m[right].next
        /\ Pairs(m[page].entries) \cup Pairs(m[right].entries)
              = Pairs(ns[page].entries) \cup {<<t.key, t.rid>>}
    BY <1>10, <2>1 DEF Fitting, Halves
  <2>4. /\ right \in DOMAIN m
        /\ J(page) \subseteq R[page] /\ J(right) \subseteq R[right]
        /\ R[page] \subseteq Keys /\ R[right] \subseteq Keys
    BY <1>6, <2>1, <2>2, <2>3 DEF Beside
  <2>5. J(page) # {} /\ J(right) # {}
    <3>1. HalfFull(m[page]) /\ HalfFull(m[right])
      BY <1>1, <2>2 DEF Fit, PageFits, Beside
    <3>. QED BY <1>6, <2>1, <2>3, <2>4, <3>1
  <2>6. \A a \in R[page], b \in R[right] : a < sep /\ sep <= b /\ a < b /\ a \in Int /\ b \in Int
    <3>. SUFFICES ASSUME NEW a \in R[page], NEW b \in R[right]
         PROVE  a < sep /\ sep <= b /\ a < b /\ a \in Int /\ b \in Int
      OBVIOUS
    <3>1. a < sep /\ sep <= b
      BY <2>2 DEF Beside
    <3>2. a \in Int /\ b \in Int /\ sep \in Int
      BY <2>2, <2>4, TreeConstants
    <3>. QED BY <3>1, <3>2
  <2>7. K(page) \subseteq J(page) \cup J(right)
    <3>1. ASSUME NEW k \in K(page) PROVE k \in J(page) \cup J(right)
      <4>1. <<k, ns[page].entries[k]>> \in Pairs(m[page].entries) \cup Pairs(m[right].entries)
        BY <2>3 DEF Pairs
      <4>. QED BY <4>1 DEF Pairs
    <3>. QED BY <3>1
  <2>8. K(page) # {}
    <3>1. PICK a \in J(page), b \in J(right) : TRUE
      BY <2>5
    <3>2. a # b
      BY <2>4, <2>6, <3>1
    <3>3. <<a, m[page].entries[a]>> \in Pairs(ns[page].entries) \cup {<<t.key, t.rid>>}
      BY <2>3, <3>1 DEF Pairs
    <3>4. <<b, m[right].entries[b]>> \in Pairs(ns[page].entries) \cup {<<t.key, t.rid>>}
      BY <2>3, <3>1 DEF Pairs
    <3>5. a \in K(page) \/ b \in K(page)
      BY <3>2, <3>3, <3>4 DEF Pairs
    <3>. QED BY <3>5
  <2>9. CASE p = page
    <3>1. q = m[right].next /\ q # page /\ J(q) = K(q)
      BY <1>5, <1>8, <2>1, <2>3, <2>9
    <3>2. Before(R[right], R[q]) /\ J(q) \subseteq R[q] /\ R[q] \subseteq Keys
      BY <1>6, <2>3, <2>4, <3>1
    <3>3. ASSUME NEW k \in K(p), NEW j \in K(q) PROVE k < j
      <4>1. PICK b \in J(right) : TRUE
        BY <2>5
      <4>2. b < j /\ b \in Int /\ j \in Int
        BY <2>4, <3>1, <3>2, <4>1, TreeConstants DEF Before
      <4>3. k \in J(right) => k < j
        BY <2>4, <3>1, <3>2 DEF Before
      <4>4. k \in J(page) => k < b /\ k \in Int
        BY <2>4, <2>6, <4>1
      <4>. QED BY <2>7, <2>9, <4>2, <4>3, <4>4
    <3>. QED BY <1>8, <2>8, <2>9, <3>3 DEF Before
  <2>10. CASE p # page
    <3>1. q = page
      BY <1>10, <2>1, <2>10
    <3>2. J(p) = K(p) /\ m[p].next = page /\ m[p].kind = "leaf" /\ p \in DOMAIN m
      BY <1>4, <1>5, <2>1, <2>10, <3>1
    <3>3. J(p) \subseteq R[p] /\ R[p] \subseteq Keys /\ Before(R[p], R[page]) /\ J(p) # {}
      BY <1>6, <2>1, <3>2
    <3>4. ASSUME NEW k \in K(p), NEW j \in K(q) PROVE k < j
      <4>1. PICK a \in J(page) : TRUE
        BY <2>5
      <4>2. k < a /\ k \in Int /\ a \in Int
        BY <2>4, <3>2, <3>3, <4>1, TreeConstants DEF Before
      <4>3. j \in J(page) => k < j
        BY <2>4, <3>2, <3>3 DEF Before
      <4>4. j \in J(right) => a < j /\ j \in Int
        BY <2>4, <2>6, <4>1
      <4>. QED BY <2>7, <3>1, <4>2, <4>3, <4>4
    <3>. QED BY <1>8, <3>2, <3>3, <3>4 DEF Before
  <2>. QED BY <2>9, <2>10
<1>. QED BY <1>9, <1>10

\* What the invariant for broken-off calls says of a call in progress.
LEMMA ShapeGives ==
    ASSUME ShapeInv
    PROVE  /\ TypeOK /\ FiniteLeaves(nodes)
           /\ nodes \in Seq(Node) /\ task \in Task /\ ScanEnds /\ acked \subseteq Scanned
           /\ \E C, h, S, top, bad, d :
                 /\ Tree(nodes, root, C, h, S, top, bad, d) /\ Chain(nodes, C, d)
                 /\ C \subseteq DOMAIN nodes /\ Scanned = Shown(nodes, C)
                 /\ task.phase = "write" => task.right \notin C
                 /\ task.phase \in {"adopt", "grow"} \/ (task.phase = "write" /\ ~ LeafWrite(task))
                       => <<task.key, task.rid>> \in Shown(nodes, C)
           /\ task.phase = "write" =>
                 /\ task.page \in DOMAIN nodes /\ task.right \in DOMAIN nodes
                 /\ task.node.kind = nodes[task.page].kind
           /\ task.phase = "grow" => Len(task.kids) \in {1, 2}
<1>1. TypeOK /\ FiniteLeaves(nodes) /\ nodes \in Seq(Node) /\ task \in Task
  BY DEF ShapeInv, TypeOK
<1>2. ScanEnds /\ acked \subseteq Scanned
  BY ShapeScans DEF ScanKeepsAcked
<1>3. PICK C, h, S, top, bad, d, P : Shape(nodes, root, task, C, h, S, top, bad, d, P)
  BY DEF ShapeInv
<1>4. Tree(nodes, root, C, h, S, top, bad, d) /\ Pending(nodes, task, C, h, S, top, bad, d, P)
  BY <1>3 DEF Shape
<1>5. Chain(nodes, C, d) /\ C \subseteq DOMAIN nodes /\ Scanned = Shown(nodes, C)
  BY <1>1, <1>4, ScannedIs DEF Tree, Consistent
<1>6. task.phase = "write" =>
         /\ task.right \notin C /\ task.right \in DOMAIN nodes /\ task.page \in DOMAIN nodes
         /\ task.node.kind = nodes[task.page].kind
         /\ ~ LeafWrite(task) => <<task.key, task.rid>> \in Shown(nodes, C)
  <2>. SUFFICES ASSUME task.phase = "write"
       PROVE  /\ task.right \notin C /\ task.right \in DOMAIN nodes /\ task.page \in DOMAIN nodes
              /\ task.node.kind = nodes[task.page].kind
              /\ ~ LeafWrite(task) => <<task.key, task.rid>> \in Shown(nodes, C)
    OBVIOUS
  <2>1. PendingWrite(nodes, task, C, h, S, d, P)
    BY <1>4 DEF Pending
  <2>2. task.right \in DOMAIN nodes /\ task.page \in C
    BY <2>1 DEF PendingWrite, Splitting, Path
  <2>3. WriteLeaf(nodes, task, C, d) => LeafWrite(task)
    BY DEF WriteLeaf, LeafWrite
  <2>. QED BY <1>5, <2>1, <2>2, <2>3 DEF PendingWrite
<1>7. task.phase \in {"adopt", "grow"} => <<task.key, task.rid>> \in Shown(nodes, C)
  <2>1. task.phase = "adopt" => <<task.key, task.rid>> \in Shown(nodes, C)
    BY <1>4 DEF Pending, PendingAdopt
  <2>2. task.phase = "grow" => <<task.key, task.rid>> \in Shown(nodes, C)
    BY <1>4 DEF Pending, PendingGrow
  <2>. QED BY <2>1, <2>2
<1>8. task.phase = "grow" => Len(task.kids) \in {1, 2}
  <2>. SUFFICES ASSUME task.phase = "grow" PROVE Len(task.kids) \in {1, 2}
    OBVIOUS
  <2>1. task.kids = << top, task.right >> \/ task.kids = << task.right >>
    BY <1>4 DEF Pending, PendingGrow, GrowFirst, GrowSecond
  <2>2. \A a, b : Len(<< a, b >>) = 2 /\ Len(<< b >>) = 1
    OBVIOUS
  <2>. QED BY <2>1, <2>2
<1>. QED BY <1>1, <1>2, <1>4, <1>5, <1>6, <1>7, <1>8

KeysUnique == \A e, f \in Scanned : e[1] = f[1] => e = f

\* The invariant, for the properties.
LEMMA FitShows ==
    ASSUME ShapeInv, FitInv
    PROVE  WellFormed /\ SearchMatchesScan /\ KeysUnique
<1>1. PICK m, h, R : Fitting(nodes, root, task, m, h, R)
  BY DEF FitInv
<1>2. /\ TypeOK /\ nodes \in Seq(Node) /\ task \in Task /\ ScanEnds
      /\ task.phase = "write" => task.node.kind = nodes[task.page].kind
  BY ShapeGives
<1>3. PICK C, hh, S, top, bad, d :
         /\ Tree(nodes, root, C, hh, S, top, bad, d) /\ Chain(nodes, C, d)
         /\ C \subseteq DOMAIN nodes
         /\ task.phase = "write" => task.right \notin C
  BY ShapeGives
<1>4. LinksAscend(nodes, Leaves(nodes, C))
  BY <1>1, <1>2, <1>3, FittingAscends
<1>5. (\A a, b \in Scan : a[1] < b[1] => a[2] < b[2]) /\ KeysUnique
  BY <1>2, <1>3, <1>4, ScanInOrder DEF KeysUnique
<1>6. task = Idle => Whole(nodes, root, h, R)
  <2>. SUFFICES ASSUME task = Idle PROVE Whole(nodes, root, h, R)
    OBVIOUS
  <2>1. task.phase = "idle"
    BY DEF Idle
  <2>2. Fit(m, root, h, R, None, None, None) /\ Target(m, nodes, task)
    BY <1>1, <2>1 DEF Fitting
  <2>3. m = nodes
    <3>1. \A p \in DOMAIN m : m[p] = nodes[p]
      BY <2>1, <2>2 DEF Target, Coming, Learns
    <3>2. m \in Seq(Node) /\ Len(m) = Len(nodes)
      BY <2>2 DEF Target
    <3>. QED BY <1>2, <3>1, <3>2
  <2>. QED BY <2>2, <2>3 DEF Whole
<1>7. WellFormed
  BY <1>6, WholeIsWellFormed
<1>8. task = Idle => Scanned = {e \in Keys \X Rids : SearchFinds(e[1], e[2])}
  <2>. SUFFICES ASSUME task = Idle PROVE Scanned = {e \in Keys \X Rids : SearchFinds(e[1], e[2])}
    OBVIOUS
  <2>1. Scanned = Shown(nodes, DOMAIN nodes)
    BY DEF FitInv, Yields, LeafWrite, Idle
  <2>2. Whole(nodes, root, h, R)
    BY <1>6
  <2>. QED BY <2>1, <2>2, SearchIsShown
<1>. QED BY <1>2, <1>5, <1>7, <1>8 DEF SearchMatchesScan, ScanAscends

-----------------------------------------------------------------------------
(***************************************************************************)
(* Steps, as lemmas about the file before (ns) and after (ms).  Most pages *)
(* keep their place.                                                       *)
(***************************************************************************)
\* A leaf that keeps entries and link, while ranges only shrink.
LEMMA LeafKeeps ==
    ASSUME NEW ns, NEW ms, NEW R, NEW R2, NEW p \in DOMAIN ns, LeafFits(ns, R, p),
           ns[p].kind = "leaf", SameBody(ms[p], ns[p]),
           DOMAIN ns \subseteq DOMAIN ms, \A q \in DOMAIN ns : ms[q].kind = ns[q].kind,
           \A q \in DOMAIN ns : R2[q] \subseteq R[q], R2[p] = R[p]
    PROVE  LeafFits(ms, R2, p)
<1>1. ms[p].kind = "leaf" /\ ms[p].next = ns[p].next /\ ms[p].entries = ns[p].entries
  BY DEF SameBody
<1>2. ASSUME ns[p].next # None
      PROVE  /\ ns[p].next \in DOMAIN ms /\ ms[ns[p].next].kind = "leaf"
             /\ Before(R2[p], R2[ns[p].next]) /\ HalfFull(ms[p])
  <2>1. /\ ns[p].next \in DOMAIN ns /\ ns[ns[p].next].kind = "leaf"
        /\ Before(R[p], R[ns[p].next]) /\ HalfFull(ns[p])
    BY <1>2 DEF LeafFits
  <2>2. HalfFull(ms[p])
    BY <1>1, <2>1 DEF HalfFull
  <2>. QED BY <2>1, <2>2 DEF Before
<1>. QED BY <1>1, <1>2 DEF LeafFits

\* An internal node that keeps its keys and children.
LEMMA InnerKeeps ==
    ASSUME NEW ns, NEW ms, NEW h, NEW h2, NEW R, NEW R2,
           NEW page, NEW right, NEW page2, NEW right2,
           NEW p, InnerFits(ns, h, R, page, right, p),
           ns[p].kind = "internal", SameBody(ms[p], ns[p]), h2[p] = h[p], R2[p] = R[p],
           \A i \in DOMAIN ns[p].children :
              LET c == ns[p].children[i]
              IN  /\ c \in DOMAIN ms /\ c # right2 /\ ms[c].parent = p /\ h2[c] = h[c]
                  /\ Cover(R2, page2, right2, c) = Cover(R, page, right, c)
    PROVE  InnerFits(ms, h2, R2, page2, right2, p)
<1>1. ms[p].keys = ns[p].keys /\ ms[p].children = ns[p].children
  BY DEF SameBody
<1>2. \A i \in DOMAIN ns[p].children : ChildFits(ms, h2, R2, page2, right2, p, i)
  BY <1>1 DEF InnerFits, ChildFits
<1>. QED BY <1>1, <1>2 DEF InnerFits

\* Half full is half full in any place.
LEMMA HalfKeeps ==
    ASSUME NEW m, NEW n, SameBody(m, n), n.kind \in {"leaf", "internal"}, HalfFull(n)
    PROVE  HalfFull(m)
  BY DEF SameBody, HalfFull

\* A page hangs where it hung while its parent keeps its children.
LEMMA HangsStill ==
    ASSUME NEW ns, NEW ms, NEW h, NEW h2, NEW rt, NEW p, Hangs(ns, h, rt, p),
           DOMAIN ns \subseteq DOMAIN ms, ms[p].parent = ns[p].parent,
           SameBody(ms[ns[p].parent], ns[ns[p].parent]), h2[p] = h[p], h2[rt] = h[rt]
    PROVE  Hangs(ms, h2, rt, p)
  BY DEF Hangs, SameBody, ChildOf

(***************************************************************************)
(* An entry comes into a leaf that has room.                               *)
(***************************************************************************)
\* The tree stays one whose pages fit, with the same heights and ranges.
LEMMA EntryFits ==
    ASSUME NEW ns, NEW rt, NEW h, NEW R, Whole(ns, rt, h, R),
           NEW p \in DOMAIN ns, ns[p].kind = "leaf", NEW key \in R[p], NEW entries \in Entries,
           IsFiniteSet(DOMAIN entries), Cardinality(DOMAIN entries) <= MaxLeaf,
           DOMAIN entries = DOMAIN ns[p].entries \cup {key},
           NEW ms, Writes(ms, ns, p, Leaf(ns[p].parent, ns[p].next, entries))
    PROVE  Whole(ms, rt, h, R)
<1>1. /\ ns \in Seq(Node) /\ Len(ns) \in Nat /\ DOMAIN ns = 1 .. Len(ns)
      /\ h \in [DOMAIN ns -> Nat] /\ R \in [DOMAIN ns -> SUBSET Keys]
      /\ rt \in DOMAIN ns /\ ns[rt].parent = None /\ h[rt] < Len(ns)
      /\ \A q \in DOMAIN ns : PageFits(ns, rt, h, R, None, None, q)
      /\ Cover(R, None, None, rt) = Keys
  BY WholeFacts
<1>. DEFINE n == Leaf(ns[p].parent, ns[p].next, entries)
<1>2. /\ n \in Node /\ n.kind = "leaf" /\ n.parent = ns[p].parent /\ n.next = ns[p].next
      /\ n.entries = entries
  <2>1. ns[p].parent \in PageIds /\ ns[p].next \in PageIds
    BY <1>1, NodeFields
  <2>. QED BY <2>1, LeafNode
<1>0. Writes(ms, ns, p, n)
  OBVIOUS
<1>. HIDE DEF n
<1>3. /\ ms \in Seq(Node) /\ Len(ms) = Len(ns) /\ DOMAIN ms = DOMAIN ns
      /\ ms[p] = n /\ \A q \in DOMAIN ns : q # p => ms[q] = ns[q]
  <2>1. ns \in Seq(Node) /\ n \in Node
    BY <1>1, <1>2
  <2>. QED BY <1>0, <2>1, Updated
<1>4. /\ \A q \in DOMAIN ns : ms[q].kind = ns[q].kind /\ ms[q].parent = ns[q].parent
      /\ \A q \in DOMAIN ns : ns[q].kind = "internal" => ms[q] = ns[q] /\ SameBody(ms[q], ns[q])
      /\ \A q \in DOMAIN ns : q # p => SameBody(ms[q], ns[q])
  BY <1>2, <1>3 DEF SameBody
<1>5. HalfFull(ns[p]) => HalfFull(ms[p])
  <2>1. Cardinality(DOMAIN ns[p].entries) <= Cardinality(DOMAIN entries)
    BY FS_Subset
  <2>2. Cardinality(DOMAIN ns[p].entries) \in Nat /\ Cardinality(DOMAIN entries) \in Nat
    BY FS_Subset, FS_CardinalityType
  <2>3. MaxLeaf \in Nat
    BY TreeConstants
  <2>4. HalfFull(ns[p]) => 2 * Cardinality(DOMAIN ns[p].entries) >= MaxLeaf
    BY DEF HalfFull
  <2>5. 2 * Cardinality(DOMAIN entries) >= MaxLeaf => HalfFull(ms[p])
    BY <1>2, <1>3 DEF HalfFull
  <2>. QED BY <2>1, <2>2, <2>3, <2>4, <2>5
<1>6. ASSUME NEW q \in DOMAIN ns, ns[q].kind = "leaf" PROVE LeafFits(ms, R, q)
  <2>1. LeafFits(ns, R, q)
    BY <1>1, <1>6 DEF PageFits
  <2>2. CASE q # p
    BY <1>3, <1>4, <1>6, <2>1, <2>2, LeafKeeps
  <2>3. CASE q = p
    BY <1>2, <1>3, <1>4, <1>5, <2>1, <2>3 DEF LeafFits
  <2>. QED BY <2>2, <2>3
<1>7. ASSUME NEW q \in DOMAIN ns, ns[q].kind = "internal"
      PROVE  InnerFits(ms, h, R, None, None, q)
  <2>1. InnerFits(ns, h, R, None, None, q)
    BY <1>1, <1>7 DEF PageFits
  <2>2. \A i \in DOMAIN ns[q].children :
           LET c == ns[q].children[i]
           IN  c \in DOMAIN ms /\ c # None /\ ms[c].parent = q
    BY <1>3, <1>4, <2>1 DEF InnerFits, ChildFits
  <2>. QED BY <1>4, <1>7, <2>1, <2>2, InnerKeeps
<1>8. ASSUME NEW q \in DOMAIN ns PROVE PageFits(ms, rt, h, R, None, None, q)
  <2>1. PageFits(ns, rt, h, R, None, None, q)
    BY <1>1
  <2>2. ms[q].kind \in {"leaf", "internal"} /\ ns[q].kind = ms[q].kind
    BY <1>4, <2>1 DEF PageFits
  <2>3. q # rt => HalfFull(ms[q])
    BY <1>4, <1>5, <2>1, HalfKeeps DEF PageFits
  <2>4. q \notin {rt, None} => Hangs(ms, h, rt, q)
    <3>. SUFFICES ASSUME q \notin {rt, None} PROVE Hangs(ms, h, rt, q)
      OBVIOUS
    <3>1. Hangs(ns, h, rt, q)
      BY <2>1 DEF PageFits
    <3>2. SameBody(ms[ns[q].parent], ns[ns[q].parent])
      BY <1>4, <3>1 DEF Hangs
    <3>. QED BY <1>3, <1>4, <3>1, <3>2, HangsStill
  <2>. QED BY <1>6, <1>7, <2>1, <2>2, <2>3, <2>4 DEF PageFits
<1>9. ms[rt].parent = None
  BY <1>1, <1>4
<1>. QED BY <1>1, <1>3, <1>8, <1>9 DEF Whole, Fit

(***************************************************************************)
(* A leaf splits: the file with both halves in it.                         *)
(***************************************************************************)
\* What the right page r takes over from the page p.
OfLeft(f, p, r, D) == [x \in D \cup {r} |-> IF x = r THEN f[p] ELSE f[x]]
Cut(R, p, r, sep, D) ==
    [x \in D \cup {r} |-> IF x = p THEN {k \in R[p] : k < sep}
                          ELSE IF x = r THEN {k \in R[p] : sep <= k} ELSE R[x]]

\* The file m has the halves of leaf p of ns at p and behind its end.
LeafCut(m, ns, p, low, high) ==
    /\ m \in Seq(Node) /\ Len(m) = Len(ns) + 1
    /\ m[p] = Leaf(ns[p].parent, Len(ns) + 1, low)
    /\ m[Len(ns) + 1] = Leaf(ns[p].parent, ns[p].next, high)
    /\ \A q \in DOMAIN ns : q # p => m[q] = ns[q]

\* The tree with the leaf cut in two fits, but for the gap its parent still has.
LEMMA SplitLeafFits ==
    ASSUME NEW ns, NEW rt, NEW h, NEW R, Whole(ns, rt, h, R),
           NEW p \in DOMAIN ns, ns[p].kind = "leaf",
           NEW low \in Entries, NEW high \in Entries, NEW sep \in R[p],
           IsFiniteSet(DOMAIN low), IsFiniteSet(DOMAIN high),
           Cardinality(DOMAIN low) <= MaxLeaf, Cardinality(DOMAIN high) <= MaxLeaf,
           2 * Cardinality(DOMAIN low) >= MaxLeaf, 2 * Cardinality(DOMAIN high) >= MaxLeaf,
           DOMAIN low # {}, DOMAIN low \subseteq R[p], DOMAIN high \subseteq R[p],
           \A k \in DOMAIN low : k < sep, \A k \in DOMAIN high : sep <= k,
           NEW m, LeafCut(m, ns, p, low, high)
    PROVE  \E h2, R2 : Fit(m, rt, h2, R2, p, Len(ns) + 1, sep)
<1>. DEFINE r == Len(ns) + 1
            h2 == OfLeft(h, p, r, DOMAIN ns)
            R2 == Cut(R, p, r, sep, DOMAIN ns)
<1>1. /\ ns \in Seq(Node) /\ Len(ns) \in Nat /\ DOMAIN ns = 1 .. Len(ns) /\ None \notin DOMAIN ns
      /\ h \in [DOMAIN ns -> Nat] /\ R \in [DOMAIN ns -> SUBSET Keys]
      /\ rt \in DOMAIN ns /\ ns[rt].parent = None /\ h[rt] < Len(ns) /\ R[rt] = Keys
      /\ \A q \in DOMAIN ns : PageFits(ns, rt, h, R, None, None, q)
      /\ \A c \in DOMAIN ns : Cover(R, None, None, c) = R[c]
  BY WholeFacts
<1>2. /\ r \notin DOMAIN ns /\ r # None /\ r # p /\ p # None
      /\ DOMAIN m = DOMAIN ns \cup {r}
  <2>1. m \in Seq(Node) /\ Len(m) = r
    BY DEF LeafCut
  <2>2. DOMAIN m = 1 .. r
    BY <1>1, <2>1
  <2>3. 1 .. r = 1 .. Len(ns) \cup {r}
    <3>0. Len(ns) \in Nat
      BY <1>1
    <3>1. ASSUME NEW x \in Int PROVE x \in 1 .. r <=> x \in 1 .. Len(ns) \/ x = r
      BY <3>0
    <3>2. r \in Int /\ 1 .. r \subseteq Int /\ 1 .. Len(ns) \subseteq Int
      BY <1>1
    <3>. QED BY <3>1, <3>2
  <2>. QED BY <1>1, <2>2, <2>3 DEF None
<1>3. h2 \in [DOMAIN m -> Nat] /\ h2[r] = h[p] /\ \A q \in DOMAIN ns : h2[q] = h[q]
  BY <1>1, <1>2 DEF OfLeft
<1>4. /\ R2 \in [DOMAIN m -> SUBSET Keys]
      /\ R2[p] = {k \in R[p] : k < sep} /\ R2[r] = {k \in R[p] : sep <= k}
      /\ \A q \in DOMAIN ns : q # p => R2[q] = R[q]
  <2>1. R[p] \in SUBSET Keys
    BY <1>1
  <2>. QED BY <1>1, <1>2, <2>1 DEF Cut
<1>. HIDE DEF r, h2, R2
<1>5. R[p] \subseteq Int /\ sep \in Int
  BY <1>1, TreeConstants
<1>6. /\ R2[p] \subseteq R[p] /\ R2[r] \subseteq R[p] /\ R2[p] \cup R2[r] = R[p]
      /\ \A a \in R2[p], b \in R2[r] : a < b
  <2>1. \A a \in R2[p], b \in R2[r] : a < b
    <3>. SUFFICES ASSUME NEW a \in R2[p], NEW b \in R2[r] PROVE a < b
      OBVIOUS
    <3>1. a < sep /\ sep <= b /\ a \in Int /\ b \in Int
      BY <1>4, <1>5
    <3>. QED BY <1>5, <3>1
  <2>2. \A k \in R[p] : k < sep \/ sep <= k
    BY <1>5
  <2>. QED BY <1>4, <2>1, <2>2
<1>7. /\ m[p].kind = "leaf" /\ m[p].parent = ns[p].parent /\ m[p].next = r /\ m[p].entries = low
      /\ m[r].kind = "leaf" /\ m[r].parent = ns[p].parent /\ m[r].next = ns[p].next
      /\ m[r].entries = high
      /\ \A q \in DOMAIN ns : q # p => m[q] = ns[q]
  BY DEF LeafCut, Leaf, r
<1>8. /\ \A q \in DOMAIN ns : m[q].kind = ns[q].kind /\ m[q].parent = ns[q].parent
      /\ \A q \in DOMAIN ns : q # p => SameBody(m[q], ns[q])
      /\ \A q \in DOMAIN ns : ns[q].kind = "internal" => q # p /\ SameBody(m[q], ns[q])
  BY <1>7 DEF SameBody
<1>9. \A c \in DOMAIN ns : Cover(R2, p, r, c) = R[c]
  BY <1>4, <1>6 DEF Cover
<1>10. \A q \in DOMAIN ns : R2[q] \subseteq R[q]
  BY <1>4, <1>6
<1>11. LeafFits(ns, R, p)
  BY <1>1 DEF PageFits
<1>12. HalfFull(m[p]) /\ HalfFull(m[r])
  BY <1>7 DEF HalfFull
<1>13. ASSUME NEW q \in DOMAIN m, m[q].kind = "leaf" PROVE h2[q] = 0 /\ LeafFits(m, R2, q)
  <2>1. CASE q \notin {p, r}
    <3>1. q \in DOMAIN ns /\ LeafFits(ns, R, q) /\ ns[q].kind = "leaf" /\ h[q] = 0
      BY <1>1, <1>2, <1>8, <1>13, <2>1 DEF PageFits
    <3>. QED BY <1>2, <1>3, <1>4, <1>8, <1>10, <2>1, <3>1, LeafKeeps
  <2>2. CASE q = p
    <3>1. DOMAIN low \subseteq R2[p]
      BY <1>4
    <3>2. Before(R2[p], R2[r])
      BY <1>6 DEF Before
    <3>3. h[p] = 0
      BY <1>1 DEF PageFits
    <3>. QED BY <1>2, <1>3, <1>7, <1>12, <2>2, <3>1, <3>2, <3>3 DEF LeafFits
  <2>3. CASE q = r
    <3>1. DOMAIN high \subseteq R2[r]
      BY <1>4
    <3>2. ASSUME ns[p].next # None
          PROVE  /\ ns[p].next \in DOMAIN m /\ m[ns[p].next].kind = "leaf"
                 /\ Before(R2[r], R2[ns[p].next])
      <4>1. /\ ns[p].next \in DOMAIN ns /\ ns[ns[p].next].kind = "leaf"
            /\ Before(R[p], R[ns[p].next])
        BY <1>11, <3>2 DEF LeafFits
      <4>2. R2[ns[p].next] \subseteq R[ns[p].next]
        BY <1>10, <4>1
      <4>. QED BY <1>2, <1>6, <1>8, <4>1, <4>2 DEF Before
    <3>3. h[p] = 0
      BY <1>1 DEF PageFits
    <3>. QED BY <1>3, <1>7, <1>12, <2>3, <3>1, <3>2, <3>3 DEF LeafFits
  <2>. QED BY <2>1, <2>2, <2>3
<1>14. ASSUME NEW q \in DOMAIN m, m[q].kind = "internal" PROVE InnerFits(m, h2, R2, p, r, q)
  <2>1. q \in DOMAIN ns /\ ns[q].kind = "internal" /\ q # p
    BY <1>2, <1>7, <1>8, <1>14
  <2>2. InnerFits(ns, h, R, None, None, q)
    BY <1>1, <2>1 DEF PageFits
  <2>3. \A i \in DOMAIN ns[q].children :
           LET c == ns[q].children[i]
           IN  /\ c \in DOMAIN m /\ c # r /\ m[c].parent = q /\ h2[c] = h[c]
               /\ Cover(R2, p, r, c) = Cover(R, None, None, c)
    <3>1. \A i \in DOMAIN ns[q].children :
             ns[q].children[i] \in DOMAIN ns /\ ns[ns[q].children[i]].parent = q
      BY <2>2 DEF InnerFits, ChildFits
    <3>2. \A c \in DOMAIN ns : c \in DOMAIN m /\ c # r /\ m[c].parent = ns[c].parent /\ h2[c] = h[c]
      BY <1>2, <1>3, <1>8
    <3>. QED BY <1>1, <1>9, <3>1, <3>2
  <2>4. SameBody(m[q], ns[q]) /\ h2[q] = h[q] /\ R2[q] = R[q]
    BY <1>3, <1>4, <1>8, <2>1
  <2>. QED BY <2>1, <2>2, <2>3, <2>4, InnerKeeps
<1>15. ASSUME NEW q \in DOMAIN m PROVE PageFits(m, rt, h2, R2, p, r, q)
  <2>1. m[q].kind \in {"leaf", "internal"}
    BY <1>1, <1>2, <1>7, <1>8 DEF PageFits
  <2>2. q # rt => HalfFull(m[q])
    <3>1. CASE q \in {p, r}
      BY <1>12, <3>1
    <3>2. CASE q \notin {p, r}
      <4>1. q \in DOMAIN ns /\ PageFits(ns, rt, h, R, None, None, q)
        BY <1>1, <1>2, <3>2
      <4>. QED BY <1>8, <3>2, <4>1, HalfKeeps DEF PageFits
    <3>. QED BY <3>1, <3>2
  <2>3. q \notin {rt, r} => Hangs(m, h2, rt, q)
    <3>. SUFFICES ASSUME q \notin {rt, r} PROVE Hangs(m, h2, rt, q)
      OBVIOUS
    <3>1. q \in DOMAIN ns /\ Hangs(ns, h, rt, q)
      <4>1. q \in DOMAIN ns
        BY <1>2
      <4>2. q \notin {rt, None}
        BY <1>1, <4>1
      <4>. QED BY <1>1, <4>1, <4>2 DEF PageFits
    <3>2. SameBody(m[ns[q].parent], ns[ns[q].parent])
      BY <1>8, <3>1 DEF Hangs
    <3>. QED BY <1>1, <1>2, <1>3, <1>8, <3>1, <3>2, HangsStill
  <2>. QED BY <1>13, <1>14, <2>1, <2>2, <2>3 DEF PageFits
<1>16. Beside(m, rt, h2, R2, p, r, sep)
  <2>1. R2[p] # {}
    <3>1. PICK k \in DOMAIN low : TRUE
      OBVIOUS
    <3>2. k \in R2[p]
      BY <1>4, <3>1
    <3>. QED BY <3>2
  <2>2. sep \in R2[r]
    <3>1. sep <= sep
      BY <1>5
    <3>. QED BY <1>4, <3>1
  <2>. QED BY <1>1, <1>2, <1>3, <1>4, <1>7, <1>12, <2>1, <2>2 DEF Beside
<1>17. Fit(m, rt, h2, R2, p, r, sep)
  <2>1. m[rt].parent = None /\ h2[rt] < Len(m) /\ rt \in DOMAIN m
    <3>1. Len(m) = Len(ns) + 1
      BY DEF LeafCut
    <3>2. h[rt] \in Nat
      BY <1>1
    <3>. QED BY <1>1, <1>2, <1>3, <1>8, <3>1, <3>2
  <2>2. Cover(R2, p, r, rt) = Keys
    BY <1>1, <1>9
  <2>3. m \in Seq(Node)
    BY DEF LeafCut
  <2>. QED BY <1>2, <1>3, <1>4, <1>15, <1>16, <2>1, <2>2, <2>3 DEF Fit
<1>. QED BY <1>17 DEF r

-----------------------------------------------------------------------------
(* The parent takes the right half in. *)

\* w is s with x put in at its i-th place.
Woven(w, s, i, x) ==
    /\ Len(w) = Len(s) + 1
    /\ \A j \in 1 .. Len(s) + 1 : w[j] = IF j < i THEN s[j] ELSE IF j = i THEN x ELSE s[j - 1]

\* A separator between its neighbours keeps the order.
LEMMA WovenAscends ==
    ASSUME NEW s \in Seq(Keys), NEW w \in Seq(Keys), NEW i \in 1 .. Len(s) + 1, NEW x \in Keys,
           Woven(w, s, i, x), Ascending(s),
           \A j \in 1 .. i - 1 : s[j] < x, \A j \in i .. Len(s) : x < s[j]
    PROVE  Ascending(w)
<1>. DEFINE l == Len(s)
<1>1. l \in Nat /\ DOMAIN s = 1 .. l /\ DOMAIN w = 1 .. l + 1 /\ i \in Int
  BY DEF Woven
<1>2. \A j \in 1 .. l : s[j] \in Int
  <2>1. \A j \in 1 .. l : s[j] \in Keys
    BY <1>1
  <2>. QED BY <2>1, TreeConstants
<1>3. \A j \in 1 .. l + 1 : w[j] = IF j < i THEN s[j] ELSE IF j = i THEN x ELSE s[j - 1]
  BY DEF Woven
<1>4. \A a, b \in 1 .. l : a < b => s[a] < s[b]
  BY <1>1 DEF Ascending
<1>5. x \in Int
  BY TreeConstants
<1>6. (\A j \in 1 .. i - 1 : s[j] < x) /\ (\A j \in i .. l : x < s[j])
  OBVIOUS
<1>. HIDE DEF l
<1>. SUFFICES ASSUME NEW a \in 1 .. l + 1, NEW b \in 1 .. l + 1, a < b PROVE w[a] < w[b]
  BY <1>1 DEF Ascending
<1>7. a \in Int /\ b \in Int /\ 1 <= a /\ b <= l + 1 /\ 1 <= i /\ i <= l + 1
  BY <1>1 DEF l
<1>8. CASE b < i
  <2>1. a \in 1 .. l /\ b \in 1 .. l /\ w[a] = s[a] /\ w[b] = s[b]
    BY <1>1, <1>3, <1>7, <1>8
  <2>. QED BY <1>4, <2>1
<1>9. CASE b = i
  <2>1. a \in 1 .. i - 1 /\ w[a] = s[a] /\ w[b] = x
    BY <1>1, <1>3, <1>7, <1>9
  <2>. QED BY <1>6, <2>1
<1>10. CASE b > i /\ a < i
  <2>1. /\ a \in 1 .. i - 1 /\ b - 1 \in i .. l /\ w[a] = s[a] /\ w[b] = s[b - 1]
        /\ a \in 1 .. l /\ b - 1 \in 1 .. l
    BY <1>1, <1>3, <1>7, <1>10
  <2>2. s[a] < x /\ x < s[b - 1] /\ s[a] \in Int /\ s[b - 1] \in Int
    BY <1>2, <1>6, <2>1
  <2>. QED BY <1>5, <2>1, <2>2
<1>11. CASE b > i /\ a = i
  <2>1. b - 1 \in i .. l /\ w[a] = x /\ w[b] = s[b - 1]
    BY <1>1, <1>3, <1>7, <1>11
  <2>. QED BY <1>6, <2>1
<1>12. CASE b > i /\ a > i
  <2>1. a - 1 \in 1 .. l /\ b - 1 \in 1 .. l /\ a - 1 < b - 1 /\ w[a] = s[a - 1] /\ w[b] = s[b - 1]
    BY <1>1, <1>3, <1>7, <1>12
  <2>. QED BY <1>4, <2>1
<1>. QED BY <1>1, <1>7, <1>8, <1>9, <1>10, <1>11, <1>12

\* Where a key goes once the separator is in.
LEMMA WovenRoutes ==
    ASSUME NEW s \in Seq(Keys), NEW w \in Seq(Keys), NEW i \in 1 .. Len(s) + 1, NEW x \in Keys,
           Woven(w, s, i, x), Ascending(s),
           \A j \in 1 .. i - 1 : s[j] < x, \A j \in i .. Len(s) : x < s[j], NEW k \in Keys
    PROVE  /\ \A j \in 1 .. i - 1 : Between(w, j, k) <=> Between(s, j, k)
           /\ Between(w, i, k) <=> Between(s, i, k) /\ k < x
           /\ Between(w, i + 1, k) <=> Between(s, i, k) /\ x <= k
           /\ \A j \in i + 1 .. Len(s) + 1 : Between(w, j + 1, k) <=> Between(s, j, k)
<1>. DEFINE l == Len(s)
<1>1. l \in Nat /\ DOMAIN s = 1 .. l /\ Len(w) = l + 1 /\ i \in Int /\ 1 <= i /\ i <= l + 1
  BY DEF Woven
<1>2. \A j \in 1 .. l : s[j] \in Int
  <2>1. \A j \in 1 .. l : s[j] \in Keys
    BY <1>1
  <2>. QED BY <2>1, TreeConstants
<1>3. \A j \in 1 .. l + 1 : w[j] = IF j < i THEN s[j] ELSE IF j = i THEN x ELSE s[j - 1]
  BY DEF Woven
<1>4. \A a, b \in 1 .. l : a < b => s[a] < s[b]
  BY <1>1 DEF Ascending
<1>5. x \in Int /\ k \in Int
  BY TreeConstants
<1>6. (\A j \in 1 .. i - 1 : s[j] < x) /\ (\A j \in i .. l : x < s[j])
  OBVIOUS
<1>. HIDE DEF l
<1>7. /\ \A j \in 1 .. i - 1 : w[j] = s[j] /\ j \in 1 .. l
      /\ w[i] = x
      /\ \A j \in i .. l : w[j + 1] = s[j] /\ j \in 1 .. l
      /\ \A j \in i + 1 .. l + 1 : w[j] = s[j - 1] /\ j - 1 \in 1 .. l
  BY <1>1, <1>3
<1>8. ASSUME NEW j \in 1 .. i - 1 PROVE Between(w, j, k) <=> Between(s, j, k)
  <2>1. j \in Int /\ 1 <= j /\ j < i
    BY <1>1
  <2>2. ASSUME Between(w, j, k) PROVE Between(s, j, k)
    <3>1. ASSUME NEW a \in 1 .. j - 1 PROVE s[a] <= k
      <4>1. a \in 1 .. i - 1
        BY <1>1, <2>1
      <4>. QED BY <1>7, <2>2, <4>1 DEF Between
    <3>2. ASSUME NEW a \in j .. l PROVE k < s[a]
      <4>1. CASE a < i
        <5>1. a \in 1 .. i - 1 /\ a \in j .. l + 1
          BY <1>1, <2>1, <4>1
        <5>2. w[a] = s[a]
          BY <1>7, <5>1
        <5>3. k < w[a]
          BY <1>1, <2>2, <5>1 DEF Between
        <5>. QED BY <5>2, <5>3
      <4>2. CASE a >= i
        <5>1. a \in i .. l /\ a + 1 \in j .. l + 1
          BY <1>1, <2>1, <4>2
        <5>. QED BY <1>1, <1>7, <2>2, <5>1 DEF Between
      <4>. QED BY <1>1, <2>1, <4>1, <4>2
    <3>. QED BY <3>1, <3>2 DEF Between, l
  <2>3. ASSUME Between(s, j, k) PROVE Between(w, j, k)
    <3>0. (\A a \in 1 .. j - 1 : s[a] <= k) /\ (\A a \in j .. l : k < s[a])
      BY <2>3 DEF Between, l
    <3>1. ASSUME NEW a \in 1 .. j - 1 PROVE w[a] <= k
      <4>1. a \in 1 .. i - 1
        BY <1>1, <2>1
      <4>. QED BY <1>7, <3>0, <4>1
    <3>2. ASSUME NEW a \in j .. l + 1 PROVE k < w[a]
      <4>1. CASE a < i
        <5>1. a \in 1 .. i - 1 /\ a \in j .. l
          BY <1>1, <2>1, <4>1
        <5>. QED BY <1>7, <3>0, <5>1
      <4>2. CASE a = i
        <5>1. j \in j .. l /\ j \in 1 .. l
          BY <1>1, <2>1
        <5>2. k < s[j] /\ s[j] < x /\ s[j] \in Int
          BY <1>2, <1>6, <3>0, <5>1
        <5>. QED BY <1>5, <1>7, <4>2, <5>2
      <4>3. CASE a > i
        <5>1. a \in i + 1 .. l + 1 /\ a - 1 \in j .. l
          BY <1>1, <2>1, <4>3
        <5>. QED BY <1>7, <3>0, <5>1
      <4>. QED BY <1>1, <2>1, <4>1, <4>2, <4>3
    <3>. QED BY <1>1, <3>1, <3>2 DEF Between
  <2>. QED BY <2>2, <2>3
<1>9. Between(w, i, k) <=> Between(s, i, k) /\ k < x
  <2>1. ASSUME Between(w, i, k) PROVE Between(s, i, k) /\ k < x
    <3>1. i \in i .. l + 1
      BY <1>1
    <3>2. k < x
      BY <1>1, <1>7, <2>1, <3>1 DEF Between
    <3>3. ASSUME NEW a \in 1 .. i - 1 PROVE s[a] <= k
      BY <1>7, <2>1 DEF Between
    <3>4. ASSUME NEW a \in i .. l PROVE k < s[a]
      <4>1. a + 1 \in i .. l + 1
        BY <1>1
      <4>2. k < w[a + 1]
        BY <1>1, <2>1, <4>1 DEF Between
      <4>. QED BY <1>7, <4>2
    <3>. QED BY <3>2, <3>3, <3>4 DEF Between, l
  <2>2. ASSUME Between(s, i, k), k < x PROVE Between(w, i, k)
    <3>0. (\A a \in 1 .. i - 1 : s[a] <= k) /\ (\A a \in i .. l : k < s[a])
      BY <2>2 DEF Between, l
    <3>1. ASSUME NEW a \in 1 .. i - 1 PROVE w[a] <= k
      BY <1>7, <3>0
    <3>2. ASSUME NEW a \in i .. l + 1 PROVE k < w[a]
      <4>1. CASE a = i
        BY <1>7, <2>2, <4>1
      <4>2. CASE a # i
        <5>1. a \in i + 1 .. l + 1 /\ a - 1 \in i .. l
          BY <1>1, <4>2
        <5>. QED BY <1>7, <3>0, <5>1
      <4>. QED BY <4>1, <4>2
    <3>. QED BY <1>1, <3>1, <3>2 DEF Between
  <2>. QED BY <2>1, <2>2
<1>10. Between(w, i + 1, k) <=> Between(s, i, k) /\ x <= k
  <2>0. (i + 1) - 1 = i
    BY <1>1
  <2>1. ASSUME Between(w, i + 1, k) PROVE Between(s, i, k) /\ x <= k
    <3>0. (\A a \in 1 .. i : w[a] <= k) /\ (\A a \in i + 1 .. l + 1 : k < w[a])
      BY <1>1, <2>0, <2>1 DEF Between
    <3>1. i \in 1 .. i /\ \A a \in 1 .. i - 1 : a \in 1 .. i
      BY <1>1
    <3>2. x <= k
      BY <1>7, <3>0, <3>1
    <3>3. ASSUME NEW a \in 1 .. i - 1 PROVE s[a] <= k
      BY <1>7, <3>0, <3>1
    <3>4. ASSUME NEW a \in i .. l PROVE k < s[a]
      <4>1. a + 1 \in i + 1 .. l + 1
        BY <1>1
      <4>. QED BY <1>7, <3>0, <4>1
    <3>. QED BY <3>2, <3>3, <3>4 DEF Between, l
  <2>2. ASSUME Between(s, i, k), x <= k PROVE Between(w, i + 1, k)
    <3>0. (\A a \in 1 .. i - 1 : s[a] <= k) /\ (\A a \in i .. l : k < s[a])
      BY <2>2 DEF Between, l
    <3>1. ASSUME NEW a \in 1 .. i PROVE w[a] <= k
      <4>1. CASE a = i
        BY <1>7, <2>2, <4>1
      <4>2. CASE a # i
        <5>1. a \in 1 .. i - 1
          BY <1>1, <4>2
        <5>. QED BY <1>7, <3>0, <5>1
      <4>. QED BY <4>1, <4>2
    <3>2. ASSUME NEW a \in i + 1 .. l + 1 PROVE k < w[a]
      <4>1. a - 1 \in i .. l
        BY <1>1
      <4>. QED BY <1>7, <3>0, <4>1
    <3>. QED BY <1>1, <2>0, <3>1, <3>2 DEF Between
  <2>. QED BY <2>1, <2>2
<1>11. ASSUME NEW j \in i + 1 .. l + 1 PROVE Between(w, j + 1, k) <=> Between(s, j, k)
  <2>0. j \in Int /\ i < j /\ j <= l + 1 /\ (j + 1) - 1 = j
    BY <1>1
  <2>1. ASSUME Between(w, j + 1, k) PROVE Between(s, j, k)
    <3>0. (\A a \in 1 .. j : w[a] <= k) /\ (\A a \in j + 1 .. l + 1 : k < w[a])
      BY <1>1, <2>0, <2>1 DEF Between
    <3>1. ASSUME NEW a \in 1 .. j - 1 PROVE s[a] <= k
      <4>1. CASE a < i
        <5>1. a \in 1 .. i - 1 /\ a \in 1 .. j
          BY <1>1, <2>0, <4>1
        <5>. QED BY <1>7, <3>0, <5>1
      <4>2. CASE a >= i
        <5>1. a \in i .. l /\ a + 1 \in 1 .. j
          BY <1>1, <2>0, <4>2
        <5>. QED BY <1>7, <3>0, <5>1
      <4>. QED BY <1>1, <2>0, <4>1, <4>2
    <3>2. ASSUME NEW a \in j .. l PROVE k < s[a]
      <4>1. a \in i .. l /\ a + 1 \in j + 1 .. l + 1
        BY <1>1, <2>0
      <4>. QED BY <1>7, <3>0, <4>1
    <3>. QED BY <3>1, <3>2 DEF Between, l
  <2>2. ASSUME Between(s, j, k) PROVE Between(w, j + 1, k)
    <3>0. (\A a \in 1 .. j - 1 : s[a] <= k) /\ (\A a \in j .. l : k < s[a])
      BY <2>2 DEF Between, l
    <3>1. ASSUME NEW a \in 1 .. j PROVE w[a] <= k
      <4>1. CASE a < i
        <5>1. a \in 1 .. i - 1 /\ a \in 1 .. j - 1
          BY <1>1, <2>0, <4>1
        <5>. QED BY <1>7, <3>0, <5>1
      <4>2. CASE a = i
        <5>1. i \in 1 .. j - 1 /\ i \in i .. l /\ i \in 1 .. l
          BY <1>1, <2>0
        <5>2. s[i] <= k /\ x < s[i] /\ s[i] \in Int
          BY <1>2, <1>6, <3>0, <5>1
        <5>. QED BY <1>5, <1>7, <4>2, <5>2
      <4>3. CASE a > i
        <5>1. a \in i + 1 .. l + 1 /\ a - 1 \in 1 .. j - 1
          BY <1>1, <2>0, <4>3
        <5>. QED BY <1>7, <3>0, <5>1
      <4>. QED BY <1>1, <2>0, <4>1, <4>2, <4>3
    <3>2. ASSUME NEW a \in j + 1 .. l + 1 PROVE k < w[a]
      <4>1. a \in i + 1 .. l + 1 /\ a - 1 \in j .. l
        BY <1>1, <2>0
      <4>. QED BY <1>7, <3>0, <4>1
    <3>. QED BY <1>1, <2>0, <3>1, <3>2 DEF Between
  <2>. QED BY <2>1, <2>2
<1>. QED BY <1>8, <1>9, <1>10, <1>11 DEF l

\* What a file with a gap is, by name.
LEMMA GapFacts ==
    ASSUME NEW ns, NEW rt, NEW h, NEW R, NEW page, NEW right, NEW sep,
           Fit(ns, rt, h, R, page, right, sep), page # None
    PROVE  /\ ns \in Seq(Node) /\ Len(ns) \in Nat /\ DOMAIN ns = 1 .. Len(ns) /\ None \notin DOMAIN ns
           /\ h \in [DOMAIN ns -> Nat] /\ R \in [DOMAIN ns -> SUBSET Keys]
           /\ rt \in DOMAIN ns /\ ns[rt].parent = None /\ h[rt] < Len(ns)
           /\ Cover(R, page, right, rt) = Keys
           /\ \A p \in DOMAIN ns : PageFits(ns, rt, h, R, page, right, p)
           /\ page \in DOMAIN ns /\ right \in DOMAIN ns /\ right # page /\ right # rt
           /\ ns[right].parent = ns[page].parent /\ h[right] = h[page]
           /\ HalfFull(ns[page]) /\ HalfFull(ns[right])
           /\ \A k \in R[page] : k < sep
           /\ \A k \in R[right] : sep <= k
           /\ sep \in R[right] /\ R[page] # {} /\ sep \in Keys
<1>1. ns \in Seq(Node) /\ Len(ns) \in Nat /\ DOMAIN ns = 1 .. Len(ns) /\ None \notin DOMAIN ns
  BY DEF Fit, None
<1>2. Beside(ns, rt, h, R, page, right, sep) /\ R \in [DOMAIN ns -> SUBSET Keys]
  BY DEF Fit
<1>3. HalfFull(ns[right])
  BY <1>2 DEF Beside, Fit, PageFits
<1>. QED BY <1>1, <1>2, <1>3 DEF Fit, Beside

\* The node w in the place of the page up, with a child more.
Roomy(ns, h, R, up, w) ==
    /\ w \in Node /\ w.kind = "internal" /\ w.parent = ns[up].parent
    /\ Len(w.keys) = Len(ns[up].keys) + 1 /\ Len(w.children) = Len(w.keys) + 1
    /\ Injective(w.children) /\ Ascending(w.keys)
    /\ \A j \in DOMAIN w.keys : w.keys[j] \in R[up]
    /\ \A j \in DOMAIN w.children :
          LET c == w.children[j]
          IN  /\ c \in DOMAIN ns /\ ns[c].parent = up /\ h[c] = h[up] - 1
              /\ R[c] = {k \in R[up] : Between(w.keys, j, k)}

Holds(w, c) == \E j \in DOMAIN w.children : w.children[j] = c

TakesIn(ns, h, R, page, right, up, w) ==
    /\ up \in DOMAIN ns /\ up # page /\ up # right /\ ns[up].kind = "internal" /\ h[up] > 0
    /\ Roomy(ns, h, R, up, w) /\ Len(ns[up].keys) \in Nat
    /\ Holds(w, right) /\ \A c : ChildOf(ns, up, c) => Holds(w, c)

\* The parent of a node that split has a place for the right half.
LEMMA ParentTakesIn ==
    ASSUME NEW ns, NEW rt, NEW h, NEW R, NEW page, NEW right, NEW sep,
           Fit(ns, rt, h, R, page, right, sep), page # None, page # rt,
           NEW up, up = ns[page].parent,
           NEW w, NEW i, Wider(w, ns[up], page, right, sep, i)
    PROVE  TakesIn(ns, h, R, page, right, up, w)
<1>1. /\ ns \in Seq(Node) /\ Len(ns) \in Nat /\ DOMAIN ns = 1 .. Len(ns) /\ None \notin DOMAIN ns
      /\ h \in [DOMAIN ns -> Nat] /\ R \in [DOMAIN ns -> SUBSET Keys]
      /\ \A p \in DOMAIN ns : PageFits(ns, rt, h, R, page, right, p)
      /\ page \in DOMAIN ns /\ right \in DOMAIN ns /\ right # page /\ right # rt
      /\ ns[right].parent = ns[page].parent /\ h[right] = h[page]
      /\ sep \in R[right] /\ R[page] # {} /\ sep \in Keys
  BY GapFacts
<1>2. (\A k \in R[page] : k < sep) /\ (\A k \in R[right] : sep <= k)
  BY GapFacts
<1>3. Hangs(ns, h, rt, page)
  <2>1. page \notin {rt, right} /\ PageFits(ns, rt, h, R, page, right, page)
    BY <1>1
  <2>. QED BY <2>1 DEF PageFits
<1>. DEFINE n == ns[up]
<1>4. up \in DOMAIN ns /\ n.kind = "internal" /\ n \in Node
  BY <1>1, <1>3 DEF Hangs
<1>5. InnerFits(ns, h, R, page, right, up)
  BY <1>1, <1>4 DEF PageFits
<1>6. n.keys \in Seq(Keys) /\ n.children \in Seq(PageIds)
  BY <1>4, NodeFields
<1>. DEFINE l == Len(n.keys)
<1>7. /\ l \in Nat /\ DOMAIN n.keys = 1 .. l /\ Len(n.children) = l + 1
      /\ DOMAIN n.children = 1 .. l + 1 /\ Injective(n.children) /\ Ascending(n.keys) /\ h[up] > 0
      /\ \A j \in 1 .. l : n.keys[j] \in R[up]
      /\ \A j \in 1 .. l + 1 : ChildFits(ns, h, R, page, right, up, j)
  BY <1>5, <1>6 DEF InnerFits
<1>8. /\ w \in Node /\ w.kind = "internal" /\ w.parent = n.parent
      /\ i \in 1 .. l + 1 /\ n.children[i] = page
      /\ Len(w.keys) = l + 1 /\ Len(w.children) = l + 2
      /\ \A j \in 1 .. l + 1 :
            w.keys[j] = IF j < i THEN n.keys[j] ELSE IF j = i THEN sep ELSE n.keys[j - 1]
      /\ \A j \in 1 .. l + 2 :
            w.children[j] = IF j <= i THEN n.children[j]
                            ELSE IF j = i + 1 THEN right ELSE n.children[j - 1]
  <2>1. l + 1 + 1 = l + 2
    BY <1>7
  <2>. QED BY <1>7, <2>1 DEF Wider
<1>9. w.keys \in Seq(Keys) /\ w.children \in Seq(PageIds)
  BY <1>8, NodeFields
<1>10. DOMAIN w.keys = 1 .. l + 1 /\ DOMAIN w.children = 1 .. l + 2
  BY <1>8, <1>9
<1>. HIDE DEF n, l
<1>11. /\ \A j \in 1 .. l + 1 :
             /\ n.children[j] \in DOMAIN ns /\ n.children[j] # right
             /\ ns[n.children[j]].parent = up /\ h[n.children[j]] = h[up] - 1
             /\ Cover(R, page, right, n.children[j]) = {k \in R[up] : Between(n.keys, j, k)}
  BY <1>7 DEF ChildFits, n
<1>12. R[page] \cup R[right] = {k \in R[up] : Between(n.keys, i, k)}
  BY <1>8, <1>11 DEF Cover
<1>13. sep \in R[up] /\ Between(n.keys, i, sep) /\ R[up] \subseteq Keys /\ R[right] \subseteq R[up]
  <2>1. up \in DOMAIN ns
    BY <1>4
  <2>. QED BY <1>1, <1>12, <2>1
<1>14. /\ \A j \in 1 .. i - 1 : n.keys[j] < sep
       /\ \A j \in i .. l : sep < n.keys[j]
  <2>1. PICK k \in R[page] : TRUE
    BY <1>1
  <2>2. Between(n.keys, i, k) /\ k < sep /\ k \in Keys
    BY <1>1, <1>2, <1>12, <2>1
  <2>3. k \in Int /\ sep \in Int
    BY <1>1, <2>2, TreeConstants
  <2>4. ASSUME NEW j \in 1 .. i - 1 PROVE n.keys[j] < sep
    <3>1. j \in 1 .. l
      BY <1>7, <1>8
    <3>2. n.keys[j] \in Keys
      BY <1>7, <1>13, <3>1
    <3>3. n.keys[j] \in Int
      BY <3>2, TreeConstants
    <3>4. n.keys[j] <= k
      BY <2>2 DEF Between
    <3>. QED BY <2>2, <2>3, <3>3, <3>4
  <2>. QED BY <1>13, <2>4 DEF Between, l
<1>. DEFINE s == n.keys
            v == w.keys
<1>15. /\ s \in Seq(Keys) /\ v \in Seq(Keys) /\ i \in 1 .. Len(s) + 1 /\ Woven(v, s, i, sep)
       /\ Ascending(s) /\ Len(s) = l
       /\ \A j \in 1 .. i - 1 : s[j] < sep
       /\ \A j \in i .. Len(s) : sep < s[j]
  <2>1. Len(s) = l
    BY DEF l
  <2>2. s \in Seq(Keys) /\ Ascending(s)
    BY <1>6, <1>7 DEF n
  <2>. QED BY <1>8, <1>9, <1>14, <2>1, <2>2 DEF Woven
<1>. HIDE DEF s, v
<1>16. Ascending(v)
  BY <1>1, <1>15, WovenAscends
<1>17. \A k \in Keys :
           /\ \A j \in 1 .. i - 1 : Between(v, j, k) <=> Between(s, j, k)
           /\ Between(v, i, k) <=> Between(s, i, k) /\ k < sep
           /\ Between(v, i + 1, k) <=> Between(s, i, k) /\ sep <= k
           /\ \A j \in i + 1 .. l + 1 : Between(v, j + 1, k) <=> Between(s, j, k)
  BY <1>1, <1>15, WovenRoutes
<1>18. \A j \in 1 .. l + 1 : w.keys[j] \in R[up]
  <2>. SUFFICES ASSUME NEW j \in 1 .. l + 1 PROVE w.keys[j] \in R[up]
    OBVIOUS
  <2>1. CASE j < i
    <3>1. j \in 1 .. l
      BY <1>7, <1>8, <2>1
    <3>. QED BY <1>7, <1>8, <2>1, <3>1
  <2>2. CASE j = i
    BY <1>8, <1>13, <2>2
  <2>3. CASE j > i
    <3>1. j - 1 \in 1 .. l
      BY <1>7, <1>8, <2>3
    <3>. QED BY <1>7, <1>8, <2>3, <3>1
  <2>. QED BY <1>7, <1>8, <2>1, <2>2, <2>3
<1>19. h[up] \in Nat /\ h[page] = h[up] - 1 /\ up # page /\ up # right
  <2>1. h[page] = h[up] - 1
    BY <1>8, <1>11
  <2>2. h[up] \in Nat /\ h[up] # h[up] - 1
    BY <1>1, <1>4
  <2>. QED BY <1>1, <2>1, <2>2
<1>20. ASSUME NEW j \in 1 .. l + 2
       PROVE  /\ w.children[j] \in DOMAIN ns /\ ns[w.children[j]].parent = up
              /\ h[w.children[j]] = h[up] - 1
              /\ R[w.children[j]] = {k \in R[up] : Between(v, j, k)}
  <2>0. i \in Int /\ j \in Int /\ l \in Nat /\ 1 <= i /\ i <= l + 1 /\ 1 <= j /\ j <= l + 2
    BY <1>7, <1>8
  <2>1. CASE j < i
    <3>1. j \in 1 .. i - 1 /\ j \in 1 .. l + 1 /\ i \in 1 .. l + 1 /\ j # i /\ j <= i
      BY <2>0, <2>1
    <3>2. w.children[j] = n.children[j]
      BY <1>8, <3>1
    <3>3. n.children[j] # page
      <4>. SUFFICES ASSUME n.children[j] = n.children[i] PROVE FALSE
        BY <1>8
      <4>. QED BY <1>7, <3>1 DEF Injective, n, l
    <3>4. R[n.children[j]] = {k \in R[up] : Between(s, j, k)}
      BY <1>11, <3>1, <3>3 DEF Cover, s
    <3>. QED BY <1>11, <1>13, <1>17, <3>1, <3>2, <3>4
  <2>2. CASE j = i
    <3>1. w.children[j] = page
      BY <1>8, <2>0, <2>2
    <3>2. R[page] = {k \in R[up] : Between(v, i, k)}
      <4>1. ASSUME NEW k \in R[page] PROVE k \in R[up] /\ Between(v, i, k)
        <5>1. k \in R[up] /\ Between(s, i, k) /\ k < sep
          BY <1>2, <1>12 DEF s
        <5>. QED BY <1>13, <1>17, <5>1
      <4>2. ASSUME NEW k \in R[up], Between(v, i, k) PROVE k \in R[page]
        <5>1. Between(s, i, k) /\ k < sep /\ k \in Int /\ sep \in Int
          BY <1>1, <1>13, <1>17, <4>2, TreeConstants
        <5>2. ~ (sep <= k)
          BY <5>1
        <5>. QED BY <1>2, <1>12, <5>1, <5>2 DEF s
      <4>. QED BY <4>1, <4>2
    <3>3. h[page] = h[up] - 1 /\ ns[page].parent = up
      BY <1>19
    <3>. QED BY <1>1, <2>2, <3>1, <3>2, <3>3
  <2>3. CASE j = i + 1
    <3>1. w.children[j] = right
      BY <1>8, <2>0, <2>3
    <3>2. R[right] = {k \in R[up] : Between(v, i + 1, k)}
      <4>1. ASSUME NEW k \in R[right] PROVE k \in R[up] /\ Between(v, i + 1, k)
        <5>1. k \in R[up] /\ Between(s, i, k) /\ sep <= k
          BY <1>2, <1>12 DEF s
        <5>. QED BY <1>13, <1>17, <5>1
      <4>2. ASSUME NEW k \in R[up], Between(v, i + 1, k) PROVE k \in R[right]
        <5>1. Between(s, i, k) /\ sep <= k /\ k \in Int /\ sep \in Int
          BY <1>1, <1>13, <1>17, <4>2, TreeConstants
        <5>2. ~ (k < sep)
          BY <5>1
        <5>. QED BY <1>2, <1>12, <5>1, <5>2 DEF s
      <4>. QED BY <4>1, <4>2
    <3>3. h[right] = h[up] - 1 /\ ns[right].parent = up
      BY <1>1, <1>19
    <3>. QED BY <1>1, <2>3, <3>1, <3>2, <3>3
  <2>4. CASE j > i + 1
    <3>. DEFINE a == j - 1
    <3>1. a \in i + 1 .. l + 1 /\ a \in 1 .. l + 1 /\ i \in 1 .. l + 1 /\ a # i /\ j = a + 1
      BY <2>0, <2>4
    <3>2. w.children[j] = n.children[a]
      BY <1>8, <2>0, <2>4
    <3>. HIDE DEF a
    <3>3. n.children[a] # page
      <4>. SUFFICES ASSUME n.children[a] = n.children[i] PROVE FALSE
        BY <1>8
      <4>. QED BY <1>7, <3>1 DEF Injective, n, l
    <3>4. R[n.children[a]] = {k \in R[up] : Between(s, a, k)}
      BY <1>11, <3>1, <3>3 DEF Cover, s
    <3>. QED BY <1>11, <1>13, <1>17, <3>1, <3>2, <3>4
  <2>. QED BY <2>0, <2>1, <2>2, <2>3, <2>4
<1>21. Injective(w.children)
  <2>1. \A k \in DOMAIN n.children : n.children[k] # right
    BY <1>7, <1>11 DEF n, l
  <2>2. Injective(n.children) /\ Len(n.children) = Len(n.keys) + 1
    BY <1>7 DEF n, l
  <2>3. Wider(w, n, page, right, sep, i) /\ n \in Node /\ n.kind = "internal"
    BY <1>4 DEF n
  <2>. QED BY <2>1, <2>2, <2>3, WiderFacts
<1>22. Holds(w, right)
  <2>1. i + 1 \in 1 .. l + 2 /\ ~ (i + 1 <= i)
    BY <1>7, <1>8
  <2>. QED BY <1>8, <1>10, <2>1 DEF Holds
<1>23. ASSUME NEW c, ChildOf(ns, up, c) PROVE Holds(w, c)
  <2>1. PICK j \in 1 .. l + 1 : n.children[j] = c
    BY <1>7, <1>23 DEF ChildOf, n, l
  <2>2. CASE j <= i
    <3>1. j \in 1 .. l + 2
      BY <1>7
    <3>. QED BY <1>8, <1>10, <2>1, <2>2, <3>1 DEF Holds
  <2>3. CASE j > i
    <3>1. j + 1 \in 1 .. l + 2 /\ ~ (j + 1 <= i) /\ j + 1 # i + 1 /\ (j + 1) - 1 = j
      BY <1>7, <1>8, <2>3
    <3>. QED BY <1>8, <1>10, <2>1, <3>1 DEF Holds
  <2>. QED BY <1>7, <1>8, <2>2, <2>3
<1>24. Roomy(ns, h, R, up, w)
  <2>1. Len(w.keys) = Len(ns[up].keys) + 1 /\ Len(w.children) = Len(w.keys) + 1
    BY <1>7, <1>8 DEF n, l
  <2>. QED BY <1>8, <1>10, <1>16, <1>18, <1>20, <1>21, <2>1 DEF Roomy, n, v
<1>25. h[up] > 0 /\ Len(ns[up].keys) \in Nat
  BY <1>7 DEF n, l
<1>. QED BY <1>4, <1>19, <1>22, <1>23, <1>24, <1>25 DEF n, TakesIn

\* A parent with room closes the gap.
LEMMA WidenFits ==
    ASSUME NEW ns, NEW rt, NEW h, NEW R, NEW page, NEW right, NEW sep,
           Fit(ns, rt, h, R, page, right, sep), page # None, page # rt,
           NEW up, up = ns[page].parent,
           NEW w, NEW i, Wider(w, ns[up], page, right, sep, i), Len(w.keys) <= MaxInternal,
           NEW ms, Writes(ms, ns, up, w)
    PROVE  Whole(ms, rt, h, R)
<1>1. /\ ns \in Seq(Node) /\ Len(ns) \in Nat /\ DOMAIN ns = 1 .. Len(ns) /\ None \notin DOMAIN ns
      /\ h \in [DOMAIN ns -> Nat] /\ R \in [DOMAIN ns -> SUBSET Keys]
      /\ rt \in DOMAIN ns /\ ns[rt].parent = None /\ h[rt] < Len(ns)
      /\ Cover(R, page, right, rt) = Keys
      /\ \A p \in DOMAIN ns : PageFits(ns, rt, h, R, page, right, p)
      /\ page \in DOMAIN ns /\ right \in DOMAIN ns /\ right # page /\ right # rt
      /\ ns[right].parent = ns[page].parent /\ h[right] = h[page]
  BY GapFacts
<1>2. /\ up \in DOMAIN ns /\ up # page /\ up # right /\ ns[up].kind = "internal" /\ h[up] > 0
      /\ Roomy(ns, h, R, up, w) /\ Len(ns[up].keys) \in Nat
      /\ Holds(w, right) /\ \A c : ChildOf(ns, up, c) => Holds(w, c)
  <2>1. TakesIn(ns, h, R, page, right, up, w)
    BY ParentTakesIn
  <2>. QED BY <2>1 DEF TakesIn
<1>3. /\ w \in Node /\ w.kind = "internal" /\ w.parent = ns[up].parent
      /\ Len(w.keys) = Len(ns[up].keys) + 1 /\ Len(w.children) = Len(w.keys) + 1
      /\ Injective(w.children) /\ Ascending(w.keys)
      /\ \A j \in DOMAIN w.keys : w.keys[j] \in R[up]
      /\ \A j \in DOMAIN w.children :
            LET c == w.children[j]
            IN  /\ c \in DOMAIN ns /\ ns[c].parent = up /\ h[c] = h[up] - 1
                /\ R[c] = {k \in R[up] : Between(w.keys, j, k)}
  BY <1>2 DEF Roomy
<1>4. /\ ms \in Seq(Node) /\ Len(ms) = Len(ns) /\ DOMAIN ms = DOMAIN ns
      /\ ms[up] = w /\ \A q \in DOMAIN ns : q # up => ms[q] = ns[q]
  <2>1. ns \in Seq(Node) /\ up \in DOMAIN ns /\ w \in Node
    BY <1>1, <1>2, <1>3
  <2>. QED BY <2>1, Updated
<1>5. \A q \in DOMAIN ns : ms[q].kind = ns[q].kind /\ ms[q].parent = ns[q].parent
  BY <1>2, <1>3, <1>4
<1>6. \A q \in DOMAIN ns : q # up => SameBody(ms[q], ns[q])
  BY <1>4 DEF SameBody
<1>7. \A c \in DOMAIN ns : c # page => Cover(R, page, right, c) = R[c]
  BY DEF Cover
<1>8. \A c \in DOMAIN ns : Cover(R, None, None, c) = R[c]
  BY <1>1 DEF Cover
<1>9. ASSUME NEW q \in DOMAIN ns, ns[q].kind = "leaf" PROVE h[q] = 0 /\ LeafFits(ms, R, q)
  <2>1. LeafFits(ns, R, q) /\ h[q] = 0 /\ q # up
    BY <1>1, <1>2, <1>9 DEF PageFits
  <2>2. SameBody(ms[q], ns[q])
    BY <1>6, <2>1
  <2>. QED BY <1>4, <1>5, <1>9, <2>1, <2>2, LeafKeeps
<1>10. ASSUME NEW q \in DOMAIN ns, ns[q].kind = "internal", q # up
       PROVE  InnerFits(ms, h, R, None, None, q)
  <2>1. InnerFits(ns, h, R, page, right, q)
    BY <1>1, <1>10 DEF PageFits
  <2>2. \A j \in DOMAIN ns[q].children :
           LET c == ns[q].children[j]
           IN  /\ c \in DOMAIN ms /\ c # None /\ ms[c].parent = q
               /\ Cover(R, None, None, c) = Cover(R, page, right, c)
    <3>. SUFFICES ASSUME NEW j \in DOMAIN ns[q].children
                  PROVE  LET c == ns[q].children[j]
                         IN  /\ c \in DOMAIN ms /\ c # None /\ ms[c].parent = q
                             /\ Cover(R, None, None, c) = Cover(R, page, right, c)
      OBVIOUS
    <3>. DEFINE c == ns[q].children[j]
    <3>1. c \in DOMAIN ns /\ ns[c].parent = q
      BY <2>1 DEF InnerFits, ChildFits
    <3>. HIDE DEF c
    <3>2. c # page /\ c # None /\ c \in DOMAIN ms /\ ms[c].parent = q
      BY <1>1, <1>4, <1>5, <1>10, <3>1
    <3>3. Cover(R, None, None, c) = Cover(R, page, right, c)
      BY <1>7, <1>8, <3>1, <3>2
    <3>. QED BY <3>2, <3>3 DEF c
  <2>3. SameBody(ms[q], ns[q])
    BY <1>6, <1>10
  <2>. QED BY <1>10, <2>1, <2>2, <2>3, InnerKeeps
<1>11. InnerFits(ms, h, R, None, None, up)
  <2>1. ASSUME NEW j \in DOMAIN w.children PROVE ChildFits(ms, h, R, None, None, up, j)
    <3>. DEFINE c == w.children[j]
    <3>1. /\ c \in DOMAIN ns /\ ns[c].parent = up /\ h[c] = h[up] - 1
          /\ R[c] = {k \in R[up] : Between(w.keys, j, k)}
      BY <1>3
    <3>2. ms[up].children[j] = c /\ ms[up].keys = w.keys
      BY <1>4
    <3>. HIDE DEF c
    <3>3. /\ c \in DOMAIN ms /\ c # None /\ ms[c].parent = up
          /\ Cover(R, None, None, c) = R[c]
      BY <1>1, <1>4, <1>5, <1>8, <3>1
    <3>. QED BY <3>1, <3>2, <3>3 DEF ChildFits
  <2>. QED BY <1>2, <1>3, <1>4, <2>1 DEF InnerFits
<1>12. ASSUME NEW q \in DOMAIN ns, q # rt PROVE HalfFull(ms[q]) /\ Hangs(ms, h, rt, q)
  <2>1. HalfFull(ns[q]) /\ ns[q].kind \in {"leaf", "internal"}
    BY <1>1, <1>12 DEF PageFits
  <2>2. HalfFull(ms[q])
    <3>1. CASE q # up
      BY <1>6, <2>1, <3>1, HalfKeeps
    <3>2. CASE q = up
      <4>1. 2 * Len(ns[up].keys) >= MaxInternal - 1
        BY <1>2, <2>1, <3>2 DEF HalfFull
      <4>2. MaxInternal \in Nat /\ Len(w.keys) = Len(ns[up].keys) + 1
        BY <1>3, TreeConstants
      <4>3. 2 * Len(w.keys) >= MaxInternal - 1
        BY <1>2, <4>1, <4>2
      <4>. QED BY <1>3, <1>4, <3>2, <4>3 DEF HalfFull
    <3>. QED BY <3>1, <3>2
  <2>3. h[q] < h[rt] /\ ns[q].parent \in DOMAIN ns /\ ns[ns[q].parent].kind = "internal"
    <3>1. \A p \in DOMAIN ns : p \notin {rt, right} => Hangs(ns, h, rt, p)
      BY <1>1 DEF PageFits
    <3>2. Hangs(ns, h, rt, page)
      BY <1>1, <3>1
    <3>. QED BY <1>1, <1>12, <3>1, <3>2 DEF Hangs
  <2>4. ChildOf(ms, ns[q].parent, q)
    <3>1. CASE q = right
      <4>1. ns[q].parent = up /\ Holds(ms[up], q)
        BY <1>1, <1>2, <1>4, <3>1
      <4>. QED BY <4>1 DEF Holds, ChildOf
    <3>2. CASE q # right
      <4>1. ChildOf(ns, ns[q].parent, q)
        BY <1>1, <1>12, <3>2 DEF PageFits, Hangs
      <4>2. CASE ns[q].parent = up
        <5>1. Holds(ms[up], q)
          BY <1>2, <1>4, <4>1, <4>2
        <5>. QED BY <4>2, <5>1 DEF Holds, ChildOf
      <4>3. CASE ns[q].parent # up
        <5>1. ms[ns[q].parent] = ns[ns[q].parent]
          BY <1>4, <2>3, <4>3
        <5>. QED BY <4>1, <5>1 DEF ChildOf
      <4>. QED BY <4>2, <4>3
    <3>. QED BY <3>1, <3>2
  <2>. QED BY <1>4, <1>5, <1>12, <2>2, <2>3, <2>4 DEF Hangs
<1>13. ASSUME NEW q \in DOMAIN ms PROVE PageFits(ms, rt, h, R, None, None, q)
  <2>1. q \in DOMAIN ns /\ ms[q].kind = ns[q].kind /\ ns[q].kind \in {"leaf", "internal"}
    BY <1>1, <1>4, <1>5 DEF PageFits
  <2>. QED BY <1>9, <1>10, <1>11, <1>12, <2>1 DEF PageFits
<1>14. Cover(R, None, None, rt) = Keys /\ ms[rt].parent = None /\ rt \in DOMAIN ms
  BY <1>1, <1>4, <1>5, <1>7, <1>8
<1>. QED BY <1>1, <1>4, <1>13, <1>14 DEF Whole, Fit

(***************************************************************************)
(* A parent without room splits in its turn.                               *)
(***************************************************************************)
\* The separators of the halves are those of the node but the middle one.
LEMMA HalfKeys ==
    ASSUME NEW w \in Node, w.kind = "internal", Len(w.children) = Len(w.keys) + 1,
           NEW mid \in 2 .. Len(w.keys)
    PROVE  /\ \A j \in 1 .. mid - 1 : LowHalf(w, mid).keys[j] = w.keys[j]
           /\ \A j \in 1 .. Len(w.keys) - mid : UpperHalf(w, mid).keys[j] = w.keys[mid + j]
           /\ DOMAIN LowHalf(w, mid).keys = 1 .. mid - 1
           /\ DOMAIN UpperHalf(w, mid).keys = 1 .. Len(w.keys) - mid
<1>. DEFINE s == w.keys
            l == Len(w.keys)
            lo == SubSeq(s, 1, mid - 1)
            hi == SubSeq(s, mid + 1, l)
<1>1. s \in Seq(Keys)
  BY NodeFields
<1>2. l \in Nat /\ mid \in Nat /\ 2 <= mid /\ mid <= l
  BY <1>1
<1>3. LowHalf(w, mid).keys = lo /\ UpperHalf(w, mid).keys = hi
  BY DEF LowHalf, UpperHalf, Internal
<1>4. Len(lo) = mid - 1 /\ lo \in Seq(Keys) /\ \A j \in 1 .. mid - 1 : lo[j] = s[j]
  <2>1. \A k \in 1 .. mid - 1 : s[k] \in Keys
    BY <1>1, <1>2
  <2>2. lo \in Seq(Keys) /\ Len(lo) = mid - 1 /\ \A j \in 1 .. mid - 1 : lo[j] = s[1 + j - 1]
    BY <1>1, <1>2, <2>1, SubSeqProperties
  <2>. QED BY <1>2, <2>2
<1>5. Len(hi) = l - mid /\ hi \in Seq(Keys) /\ \A j \in 1 .. l - mid : hi[j] = s[mid + j]
  <2>. DEFINE a == mid + 1
  <2>1. /\ a \in Int /\ l \in Int /\ a <= l + 1 /\ l - a + 1 = l - mid
        /\ \A k \in a .. l : s[k] \in Keys
        /\ \A j \in 1 .. l - mid : a + j - 1 = mid + j
    BY <1>1, <1>2
  <2>2. hi = SubSeq(s, a, l)
    OBVIOUS
  <2>. HIDE DEF a, s, l, hi
  <2>3. hi \in Seq(Keys) /\ Len(hi) = l - a + 1 /\ \A j \in 1 .. l - a + 1 : hi[j] = s[a + j - 1]
    BY <1>1, <2>1, <2>2, SubSeqProperties
  <2>. QED BY <2>1, <2>3
<1>. HIDE DEF lo, hi
<1>6. DOMAIN lo = 1 .. mid - 1 /\ DOMAIN hi = 1 .. l - mid
  BY <1>4, <1>5
<1>. QED BY <1>3, <1>4, <1>5, <1>6

\* The halves route the keys on their sides of the middle as the node did.
LEMMA HalvesRoute ==
    ASSUME NEW s \in Seq(Keys), Ascending(s), NEW mid \in 2 .. Len(s),
           NEW lo, NEW hi, Len(lo) = mid - 1, Len(hi) = Len(s) - mid,
           \A j \in 1 .. mid - 1 : lo[j] = s[j],
           \A j \in 1 .. Len(s) - mid : hi[j] = s[mid + j], NEW k \in Keys
    PROVE  /\ \A j \in 1 .. mid : Between(s, j, k) <=> Between(lo, j, k) /\ k < s[mid]
           /\ \A j \in 1 .. Len(s) - mid + 1 :
                 Between(s, mid + j, k) <=> Between(hi, j, k) /\ s[mid] <= k
<1>. DEFINE l == Len(s)
<1>1. /\ l \in Nat /\ DOMAIN s = 1 .. l /\ mid \in Int /\ 2 <= mid /\ mid <= l /\ k \in Int
  BY TreeConstants
<1>2. \A j \in 1 .. l : s[j] \in Int
  <2>1. \A j \in 1 .. l : s[j] \in Keys
    BY <1>1
  <2>. QED BY <2>1, TreeConstants
<1>3. \A a, b \in 1 .. l : a < b => s[a] < s[b]
  BY <1>1 DEF Ascending
<1>4. /\ Len(lo) = mid - 1 /\ Len(hi) = l - mid
      /\ \A j \in 1 .. mid - 1 : lo[j] = s[j]
      /\ \A j \in 1 .. l - mid : hi[j] = s[mid + j]
  OBVIOUS
<1>. HIDE DEF l
<1>5. ASSUME NEW j \in 1 .. mid PROVE Between(s, j, k) <=> Between(lo, j, k) /\ k < s[mid]
  <2>0. j \in Int /\ 1 <= j /\ j <= mid
    BY <1>1
  <2>1. ASSUME Between(s, j, k) PROVE Between(lo, j, k) /\ k < s[mid]
    <3>1. (\A a \in 1 .. j - 1 : s[a] <= k) /\ (\A a \in j .. l : k < s[a])
      BY <2>1 DEF Between, l
    <3>2. mid \in j .. l
      BY <1>1, <2>0
    <3>3. ASSUME NEW a \in 1 .. j - 1 PROVE lo[a] <= k
      <4>1. a \in 1 .. mid - 1
        BY <1>1, <2>0
      <4>. QED BY <1>4, <3>1, <4>1
    <3>4. ASSUME NEW a \in j .. mid - 1 PROVE k < lo[a]
      <4>1. a \in 1 .. mid - 1 /\ a \in j .. l
        BY <1>1, <2>0
      <4>. QED BY <1>4, <3>1, <4>1
    <3>. QED BY <1>4, <3>1, <3>2, <3>3, <3>4 DEF Between
  <2>2. ASSUME Between(lo, j, k), k < s[mid] PROVE Between(s, j, k)
    <3>1. (\A a \in 1 .. j - 1 : lo[a] <= k) /\ (\A a \in j .. mid - 1 : k < lo[a])
      BY <1>4, <2>2 DEF Between
    <3>2. ASSUME NEW a \in 1 .. j - 1 PROVE s[a] <= k
      <4>1. a \in 1 .. mid - 1
        BY <1>1, <2>0
      <4>. QED BY <1>4, <3>1, <4>1
    <3>3. ASSUME NEW a \in j .. l PROVE k < s[a]
      <4>1. CASE a < mid
        <5>1. a \in 1 .. mid - 1 /\ a \in j .. mid - 1
          BY <1>1, <2>0, <4>1
        <5>. QED BY <1>4, <3>1, <5>1
      <4>2. CASE a = mid
        BY <2>2, <4>2
      <4>3. CASE a > mid
        <5>1. a \in 1 .. l /\ mid \in 1 .. l /\ mid < a
          BY <1>1, <2>0, <4>3
        <5>2. s[mid] < s[a] /\ s[mid] \in Int /\ s[a] \in Int
          BY <1>2, <1>3, <5>1
        <5>. QED BY <1>1, <2>2, <5>2
      <4>. QED BY <1>1, <2>0, <4>1, <4>2, <4>3
    <3>. QED BY <3>2, <3>3 DEF Between, l
  <2>. QED BY <2>1, <2>2
<1>6. ASSUME NEW j \in 1 .. l - mid + 1
      PROVE  Between(s, mid + j, k) <=> Between(hi, j, k) /\ s[mid] <= k
  <2>0. j \in Int /\ 1 <= j /\ j <= l - mid + 1
    BY <1>1
  <2>1. ASSUME Between(s, mid + j, k) PROVE Between(hi, j, k) /\ s[mid] <= k
    <3>1. (\A a \in 1 .. mid + j - 1 : s[a] <= k) /\ (\A a \in mid + j .. l : k < s[a])
      BY <2>1 DEF Between, l
    <3>2. mid \in 1 .. mid + j - 1
      BY <1>1, <2>0
    <3>3. ASSUME NEW a \in 1 .. j - 1 PROVE hi[a] <= k
      <4>1. a \in 1 .. l - mid /\ mid + a \in 1 .. mid + j - 1
        BY <1>1, <2>0
      <4>. QED BY <1>4, <3>1, <4>1
    <3>4. ASSUME NEW a \in j .. l - mid PROVE k < hi[a]
      <4>1. a \in 1 .. l - mid /\ mid + a \in mid + j .. l
        BY <1>1, <2>0
      <4>. QED BY <1>4, <3>1, <4>1
    <3>. QED BY <1>4, <3>1, <3>2, <3>3, <3>4 DEF Between
  <2>2. ASSUME Between(hi, j, k), s[mid] <= k PROVE Between(s, mid + j, k)
    <3>1. (\A a \in 1 .. j - 1 : hi[a] <= k) /\ (\A a \in j .. l - mid : k < hi[a])
      BY <1>4, <2>2 DEF Between
    <3>2. ASSUME NEW a \in 1 .. mid + j - 1 PROVE s[a] <= k
      <4>1. CASE a < mid
        <5>1. a \in 1 .. l /\ mid \in 1 .. l
          BY <1>1, <2>0, <4>1
        <5>2. s[a] < s[mid] /\ s[mid] \in Int /\ s[a] \in Int
          BY <1>2, <1>3, <4>1, <5>1
        <5>. QED BY <1>1, <2>2, <5>2
      <4>2. CASE a = mid
        BY <2>2, <4>2
      <4>3. CASE a > mid
        <5>. DEFINE b == a - mid
        <5>1. b \in 1 .. l - mid /\ b \in 1 .. j - 1 /\ a = mid + b
          BY <1>1, <2>0, <4>3
        <5>. HIDE DEF b
        <5>. QED BY <1>4, <3>1, <5>1
      <4>. QED BY <1>1, <2>0, <4>1, <4>2, <4>3
    <3>3. ASSUME NEW a \in mid + j .. l PROVE k < s[a]
      <4>. DEFINE b == a - mid
      <4>1. b \in 1 .. l - mid /\ b \in j .. l - mid /\ a = mid + b
        BY <1>1, <2>0
      <4>. HIDE DEF b
      <4>. QED BY <1>4, <3>1, <4>1
    <3>. QED BY <3>2, <3>3 DEF Between, l
  <2>. QED BY <2>1, <2>2
<1>. QED BY <1>5, <1>6 DEF l

\* A half of a node in the place of the page up, with the keys K.
HalfOf(ns, h, R, up, x, K) ==
    /\ x \in Node /\ x.kind = "internal" /\ x.parent = ns[up].parent
    /\ Len(x.children) = Len(x.keys) + 1 /\ Injective(x.children) /\ Ascending(x.keys)
    /\ \A j \in DOMAIN x.keys : x.keys[j] \in K
    /\ \A j \in DOMAIN x.children :
          LET c == x.children[j]
          IN  /\ c \in DOMAIN ns /\ ns[c].parent = up /\ h[c] = h[up] - 1
              /\ R[c] = {k \in K : Between(x.keys, j, k)}

Below(K, x) == {k \in K : k < x}
From(K, x) == {k \in K : x <= k}

\* The children of a node are those of its halves.
Parts(w, lo, hi) ==
    /\ \A c : Holds(w, c) => Holds(lo, c) \/ Holds(hi, c)
    /\ \A c : ~ (Holds(lo, c) /\ Holds(hi, c))

\* The halves of a node one key too full hold what it held, on either side of its
\* middle key.
LEMMA HalvesOfRoomy ==
    ASSUME NEW ns, NEW h, NEW R, NEW up, R[up] \subseteq Keys,
           NEW w, Roomy(ns, h, R, up, w), NEW mid \in 2 .. Len(w.keys)
    PROVE  /\ HalfOf(ns, h, R, up, LowHalf(w, mid), Below(R[up], w.keys[mid]))
           /\ HalfOf(ns, h, R, up, UpperHalf(w, mid), From(R[up], w.keys[mid]))
           /\ w.keys[mid] \in R[up] /\ w.keys[1] \in Below(R[up], w.keys[mid])
           /\ Parts(w, LowHalf(w, mid), UpperHalf(w, mid))
<1>. DEFINE l == Len(w.keys)
            s == w.keys
            lo == LowHalf(w, mid)
            hi == UpperHalf(w, mid)
            x == s[mid]
            K == R[up]
<1>1. /\ w \in Node /\ w.kind = "internal" /\ w.parent = ns[up].parent
      /\ Len(w.children) = l + 1 /\ Injective(w.children) /\ Ascending(s)
      /\ \A j \in DOMAIN s : s[j] \in K
      /\ \A j \in DOMAIN w.children :
          LET c == w.children[j]
          IN  /\ c \in DOMAIN ns /\ ns[c].parent = up /\ h[c] = h[up] - 1
              /\ R[c] = {k \in R[up] : Between(w.keys, j, k)}
  BY DEF Roomy
<1>2. s \in Seq(Keys) /\ w.children \in Seq(PageIds)
  BY <1>1, NodeFields
<1>3. /\ l \in Nat /\ DOMAIN s = 1 .. l /\ DOMAIN w.children = 1 .. l + 1
      /\ mid \in Int /\ 2 <= mid /\ mid <= l
  BY <1>1, <1>2
<1>4. /\ lo \in Node /\ lo.kind = "internal" /\ lo.parent = w.parent
      /\ Len(lo.keys) = mid - 1 /\ Len(lo.children) = mid
      /\ \A j \in 1 .. mid : lo.children[j] = w.children[j]
      /\ DOMAIN lo.children = 1 .. mid
      /\ hi \in Node /\ hi.kind = "internal" /\ hi.parent = w.parent
      /\ Len(hi.keys) = l - mid /\ Len(hi.children) = l - mid + 1
      /\ \A j \in 1 .. l - mid + 1 : hi.children[j] = w.children[mid + j]
      /\ DOMAIN hi.children = 1 .. l - mid + 1
  BY <1>1, InnerHalves
<1>5. /\ \A j \in 1 .. mid - 1 : lo.keys[j] = s[j]
      /\ \A j \in 1 .. l - mid : hi.keys[j] = s[mid + j]
      /\ DOMAIN lo.keys = 1 .. mid - 1 /\ DOMAIN hi.keys = 1 .. l - mid
  BY <1>1, HalfKeys
<1>6. \A j \in 1 .. l + 1 :
         LET c == w.children[j]
         IN  /\ c \in DOMAIN ns /\ ns[c].parent = up /\ h[c] = h[up] - 1
             /\ R[c] = {k \in K : Between(s, j, k)}
  BY <1>1, <1>3
<1>. HIDE DEF l, s, lo, hi, K
<1>7. \A a, b \in 1 .. l : a < b => s[a] < s[b]
  BY <1>1, <1>3 DEF Ascending
<1>8. K \subseteq Keys /\ x \in K /\ \A j \in 1 .. l : s[j] \in K
  BY <1>1, <1>3 DEF K
<1>9. \A j \in 1 .. l : s[j] \in Int
  BY <1>8, TreeConstants
<1>10. \A k \in Keys :
           /\ \A j \in 1 .. mid : Between(s, j, k) <=> Between(lo.keys, j, k) /\ k < s[mid]
           /\ \A j \in 1 .. l - mid + 1 :
                 Between(s, mid + j, k) <=> Between(hi.keys, j, k) /\ s[mid] <= k
  <2>. DEFINE lk == lo.keys
              hk == hi.keys
  <2>1. /\ s \in Seq(Keys) /\ Ascending(s) /\ mid \in 2 .. Len(s) /\ Len(lk) = mid - 1
        /\ Len(hk) = Len(s) - mid /\ Len(s) = l
        /\ \A j \in 1 .. mid - 1 : lk[j] = s[j]
        /\ \A j \in 1 .. Len(s) - mid : hk[j] = s[mid + j]
    BY <1>1, <1>2, <1>4, <1>5 DEF l, s
  <2>. HIDE DEF lk, hk
  <2>2. \A k \in Keys :
           /\ \A j \in 1 .. mid : Between(s, j, k) <=> Between(lk, j, k) /\ k < s[mid]
           /\ \A j \in 1 .. Len(s) - mid + 1 :
                 Between(s, mid + j, k) <=> Between(hk, j, k) /\ s[mid] <= k
    BY <2>1, HalvesRoute
  <2>. QED BY <2>1, <2>2 DEF lk, hk
<1>11. Injective(lo.children) /\ Injective(hi.children)
  <2>1. \A a, b \in 1 .. l + 1 : w.children[a] = w.children[b] => a = b
    BY <1>1, <1>3 DEF Injective
  <2>2. ASSUME NEW a \in 1 .. mid, NEW b \in 1 .. mid, lo.children[a] = lo.children[b] PROVE a = b
    <3>1. a \in 1 .. l + 1 /\ b \in 1 .. l + 1
      BY <1>3
    <3>. QED BY <1>4, <2>1, <2>2, <3>1
  <2>3. ASSUME NEW a \in 1 .. l - mid + 1, NEW b \in 1 .. l - mid + 1, hi.children[a] = hi.children[b]
        PROVE  a = b
    <3>1. mid + a \in 1 .. l + 1 /\ mid + b \in 1 .. l + 1
      BY <1>3
    <3>2. mid + a = mid + b
      BY <1>4, <2>1, <2>3, <3>1
    <3>. QED BY <1>3, <3>2
  <2>. QED BY <1>4, <2>2, <2>3 DEF Injective
<1>12. Ascending(lo.keys) /\ Ascending(hi.keys)
  <2>1. ASSUME NEW a \in 1 .. mid - 1, NEW b \in 1 .. mid - 1, a < b PROVE lo.keys[a] < lo.keys[b]
    <3>1. a \in 1 .. l /\ b \in 1 .. l
      BY <1>3
    <3>. QED BY <1>5, <1>7, <2>1, <3>1
  <2>2. ASSUME NEW a \in 1 .. l - mid, NEW b \in 1 .. l - mid, a < b PROVE hi.keys[a] < hi.keys[b]
    <3>1. mid + a \in 1 .. l /\ mid + b \in 1 .. l /\ mid + a < mid + b
      BY <1>3, <2>2
    <3>. QED BY <1>5, <1>7, <3>1
  <2>. QED BY <1>5, <2>1, <2>2 DEF Ascending
<1>13. HalfOf(ns, h, R, up, lo, Below(K, x))
  <2>1. ASSUME NEW j \in 1 .. mid - 1 PROVE lo.keys[j] \in Below(K, x)
    <3>1. j \in 1 .. l /\ mid \in 1 .. l /\ j < mid
      BY <1>3
    <3>. QED BY <1>5, <1>7, <1>8, <3>1 DEF Below
  <2>2. ASSUME NEW j \in 1 .. mid
        PROVE  /\ lo.children[j] \in DOMAIN ns /\ ns[lo.children[j]].parent = up
               /\ h[lo.children[j]] = h[up] - 1
               /\ R[lo.children[j]] = {k \in Below(K, x) : Between(lo.keys, j, k)}
    <3>1. j \in 1 .. l + 1 /\ lo.children[j] = w.children[j]
      BY <1>3, <1>4
    <3>2. {k \in K : Between(s, j, k)} = {k \in Below(K, x) : Between(lo.keys, j, k)}
      BY <1>8, <1>10 DEF Below
    <3>. QED BY <1>6, <3>1, <3>2
  <2>3. Len(lo.children) = Len(lo.keys) + 1
    BY <1>3, <1>4
  <2>. QED BY <1>1, <1>4, <1>5, <1>11, <1>12, <2>1, <2>2, <2>3 DEF HalfOf
<1>14. HalfOf(ns, h, R, up, hi, From(K, x))
  <2>1. ASSUME NEW j \in 1 .. l - mid PROVE hi.keys[j] \in From(K, x)
    <3>1. mid + j \in 1 .. l /\ mid \in 1 .. l /\ mid < mid + j
      BY <1>3
    <3>2. s[mid] < s[mid + j] /\ s[mid] \in Int /\ s[mid + j] \in Int /\ s[mid + j] \in K
      BY <1>7, <1>8, <1>9, <3>1
    <3>3. s[mid] <= s[mid + j]
      BY <3>2
    <3>. QED BY <1>5, <3>2, <3>3 DEF From
  <2>2. ASSUME NEW j \in 1 .. l - mid + 1
        PROVE  /\ hi.children[j] \in DOMAIN ns /\ ns[hi.children[j]].parent = up
               /\ h[hi.children[j]] = h[up] - 1
               /\ R[hi.children[j]] = {k \in From(K, x) : Between(hi.keys, j, k)}
    <3>1. mid + j \in 1 .. l + 1 /\ hi.children[j] = w.children[mid + j]
      BY <1>3, <1>4
    <3>2. {k \in K : Between(s, mid + j, k)} = {k \in From(K, x) : Between(hi.keys, j, k)}
      BY <1>8, <1>10 DEF From
    <3>. QED BY <1>6, <3>1, <3>2
  <2>3. Len(hi.children) = Len(hi.keys) + 1
    BY <1>3, <1>4
  <2>. QED BY <1>1, <1>4, <1>5, <1>11, <1>12, <2>1, <2>2, <2>3 DEF HalfOf
<1>15. s[1] \in Below(K, x)
  <2>1. 1 \in 1 .. l /\ mid \in 1 .. l /\ 1 < mid
    BY <1>3
  <2>. QED BY <1>7, <1>8, <2>1 DEF Below
<1>16. Parts(w, lo, hi)
  <2>1. ASSUME NEW c, Holds(w, c) PROVE Holds(lo, c) \/ Holds(hi, c)
    <3>1. PICK j \in 1 .. l + 1 : w.children[j] = c
      BY <1>3, <2>1 DEF Holds
    <3>2. CASE j <= mid
      <4>1. j \in 1 .. mid
        BY <1>3, <3>2
      <4>. QED BY <1>4, <3>1, <4>1 DEF Holds
    <3>3. CASE j > mid
      <4>. DEFINE b == j - mid
      <4>1. b \in 1 .. l - mid + 1 /\ j = mid + b
        BY <1>3, <3>3
      <4>. HIDE DEF b
      <4>. QED BY <1>4, <3>1, <4>1 DEF Holds
    <3>. QED BY <1>3, <3>2, <3>3
  <2>2. ASSUME NEW c, Holds(lo, c), Holds(hi, c) PROVE FALSE
    <3>1. PICK a \in 1 .. mid : lo.children[a] = c
      BY <1>4, <2>2 DEF Holds
    <3>2. PICK b \in 1 .. l - mid + 1 : hi.children[b] = c
      BY <1>4, <2>2 DEF Holds
    <3>3. a \in 1 .. l + 1 /\ mid + b \in 1 .. l + 1 /\ a # mid + b
      BY <1>3
    <3>4. w.children[a] = w.children[mid + b]
      BY <1>4, <3>1, <3>2
    <3>5. \A i, j \in 1 .. l + 1 : w.children[i] = w.children[j] => i = j
      BY <1>1, <1>3 DEF Injective
    <3>. QED BY <3>3, <3>4, <3>5
  <2>. QED BY <2>1, <2>2 DEF Parts
<1>. QED BY <1>8, <1>13, <1>14, <1>15, <1>16 DEF s, K, lo, hi

\* The file m has the halves lo and hi at p and behind the end of ns, and the
\* children of hi name it.
InnerCut(m, ns, p, lo, hi) ==
    /\ m \in Seq(Node) /\ Len(m) = Len(ns) + 1
    /\ m[p] = lo /\ m[Len(ns) + 1] = hi
    /\ \A q \in DOMAIN ns : q # p =>
          /\ SameBody(m[q], ns[q])
          /\ m[q].parent = IF Holds(hi, q) THEN Len(ns) + 1 ELSE ns[q].parent

\* A half has its place in the file with the gap behind it.
LEMMA HalfFits ==
    ASSUME NEW ns, NEW h, NEW R, NEW up, NEW x, NEW K, HalfOf(ns, h, R, up, x, K),
           Len(x.keys) <= MaxInternal,
           NEW m, NEW h2, NEW R2, NEW p, NEW page, NEW right,
           m[p].keys = x.keys, m[p].children = x.children, R2[p] = K, h2[p] = h[up], h[up] > 0,
           \A c \in DOMAIN ns : Holds(x, c) =>
              /\ c \in DOMAIN m /\ c # right /\ m[c].parent = p /\ h2[c] = h[c]
              /\ Cover(R2, page, right, c) = R[c]
    PROVE  InnerFits(m, h2, R2, page, right, p)
<1>1. ASSUME NEW j \in DOMAIN x.children PROVE ChildFits(m, h2, R2, page, right, p, j)
  <2>. DEFINE c == x.children[j]
  <2>1. /\ c \in DOMAIN ns /\ h[c] = h[up] - 1
        /\ R[c] = {k \in K : Between(x.keys, j, k)}
    BY DEF HalfOf
  <2>2. Holds(x, c)
    BY DEF Holds
  <2>3. /\ c \in DOMAIN m /\ c # right /\ m[c].parent = p /\ h2[c] = h[c]
        /\ Cover(R2, page, right, c) = R[c]
    BY <2>1, <2>2
  <2>4. m[p].children[j] = c
    OBVIOUS
  <2>. HIDE DEF c
  <2>. QED BY <2>1, <2>3, <2>4 DEF ChildFits
<1>. QED BY <1>1 DEF HalfOf, InnerFits

\* The gap moves up a level.
LEMMA CutParentFits ==
    ASSUME NEW ns, NEW rt, NEW h, NEW R, NEW page, NEW right, NEW sep,
           Fit(ns, rt, h, R, page, right, sep), page # None, page # rt,
           NEW up, up = ns[page].parent,
           NEW w, NEW i, Wider(w, ns[up], page, right, sep, i),
           Len(w.keys) = MaxInternal + 1,
           NEW mid, mid = Len(w.keys) \div 2 + 1,
           NEW m, InnerCut(m, ns, up, LowHalf(w, mid), UpperHalf(w, mid))
    PROVE  \E h2, R2 : Fit(m, rt, h2, R2, up, Len(ns) + 1, w.keys[mid])
<1>. DEFINE r == Len(ns) + 1
            x == w.keys[mid]
            lo == LowHalf(w, mid)
            hi == UpperHalf(w, mid)
            h2 == OfLeft(h, up, r, DOMAIN ns)
            R2 == Cut(R, up, r, x, DOMAIN ns)
<1>1. /\ ns \in Seq(Node) /\ Len(ns) \in Nat /\ DOMAIN ns = 1 .. Len(ns) /\ None \notin DOMAIN ns
      /\ h \in [DOMAIN ns -> Nat] /\ R \in [DOMAIN ns -> SUBSET Keys]
      /\ rt \in DOMAIN ns /\ ns[rt].parent = None /\ h[rt] < Len(ns)
      /\ Cover(R, page, right, rt) = Keys
      /\ \A p \in DOMAIN ns : PageFits(ns, rt, h, R, page, right, p)
      /\ page \in DOMAIN ns /\ right \in DOMAIN ns /\ right # page /\ right # rt
      /\ ns[right].parent = ns[page].parent /\ h[right] = h[page]
  BY GapFacts
<1>2. /\ up \in DOMAIN ns /\ up # page /\ up # right /\ ns[up].kind = "internal" /\ h[up] > 0
      /\ Roomy(ns, h, R, up, w)
      /\ Holds(w, right) /\ \A c : ChildOf(ns, up, c) => Holds(w, c)
  <2>1. TakesIn(ns, h, R, page, right, up, w)
    BY ParentTakesIn
  <2>. QED BY <2>1 DEF TakesIn
<1>3. /\ mid \in 2 .. Len(w.keys) /\ mid - 1 <= MaxInternal /\ Len(w.keys) - mid <= MaxInternal
      /\ 2 * (mid - 1) >= MaxInternal - 1 /\ 2 * (Len(w.keys) - mid) >= MaxInternal - 1
  <2>1. MaxInternal \in Nat /\ MaxInternal >= 1
    BY TreeConstants
  <2>. DEFINE n == Len(w.keys)
  <2>2. n = MaxInternal + 1 /\ mid = n \div 2 + 1
    OBVIOUS
  <2>. HIDE DEF n
  <2>3. /\ mid \in 2 .. n /\ mid - 1 <= MaxInternal /\ n - mid <= MaxInternal
        /\ 2 * (mid - 1) >= MaxInternal - 1 /\ 2 * (n - mid) >= MaxInternal - 1
    BY <2>1, <2>2
  <2>. QED BY <2>3 DEF n
<1>4. R[up] \in SUBSET Keys /\ R[up] \subseteq Keys
  BY <1>1, <1>2
<1>5. /\ HalfOf(ns, h, R, up, lo, Below(R[up], x))
      /\ HalfOf(ns, h, R, up, hi, From(R[up], x))
      /\ x \in R[up] /\ w.keys[1] \in Below(R[up], x)
      /\ Parts(w, lo, hi)
  BY <1>2, <1>3, <1>4, HalvesOfRoomy
<1>6. /\ lo \in Node /\ lo.kind = "internal" /\ lo.parent = ns[up].parent /\ Len(lo.keys) = mid - 1
      /\ hi \in Node /\ hi.kind = "internal" /\ hi.parent = ns[up].parent
      /\ Len(hi.keys) = Len(w.keys) - mid
  <2>1. w \in Node /\ w.kind = "internal" /\ Len(w.children) = Len(w.keys) + 1
        /\ w.parent = ns[up].parent
    BY <1>2 DEF Roomy
  <2>. QED BY <1>3, <2>1, InnerHalves
<1>. HIDE DEF x, lo, hi
<1>7. /\ r \notin DOMAIN ns /\ r # None /\ r # up /\ up # None
      /\ DOMAIN m = DOMAIN ns \cup {r}
  <2>1. m \in Seq(Node) /\ Len(m) = r
    BY DEF InnerCut
  <2>2. Len(ns) \in Nat
    BY <1>1
  <2>3. DOMAIN m = 1 .. r
    BY <2>1, <2>2
  <2>4. 1 .. r = 1 .. Len(ns) \cup {r}
    <3>1. ASSUME NEW y \in Int PROVE y \in 1 .. r <=> y \in 1 .. Len(ns) \/ y = r
      BY <2>2
    <3>2. r \in Int /\ 1 .. r \subseteq Int /\ 1 .. Len(ns) \subseteq Int
      BY <2>2
    <3>. QED BY <3>1, <3>2
  <2>5. r \notin 1 .. Len(ns) /\ r # None
    BY <2>2 DEF None
  <2>. QED BY <1>1, <1>2, <2>3, <2>4, <2>5
<1>8. h2 \in [DOMAIN m -> Nat] /\ h2[r] = h[up] /\ \A q \in DOMAIN ns : h2[q] = h[q]
  BY <1>1, <1>2, <1>7 DEF OfLeft
<1>9. /\ R2 \in [DOMAIN m -> SUBSET Keys]
      /\ R2[up] = Below(R[up], x) /\ R2[r] = From(R[up], x)
      /\ \A q \in DOMAIN ns : q # up => R2[q] = R[q]
  BY <1>1, <1>2, <1>4, <1>7 DEF Cut, Below, From
<1>10. /\ m \in Seq(Node) /\ m[up] = lo /\ m[r] = hi
       /\ \A q \in DOMAIN ns : q # up =>
             /\ SameBody(m[q], ns[q])
             /\ m[q].parent = IF Holds(hi, q) THEN r ELSE ns[q].parent
  BY DEF InnerCut, lo, hi
<1>11. Len(m) = Len(ns) + 1
  BY DEF InnerCut
<1>. HIDE DEF r, h2, R2
<1>12. R2[up] \cup R2[r] = R[up]
  <2>1. ASSUME NEW k \in R[up] PROVE k < x \/ x <= k
    <3>1. k \in Int /\ x \in Int
      BY <1>4, <1>5, TreeConstants
    <3>. QED BY <3>1
  <2>. QED BY <1>9, <2>1 DEF Below, From
<1>13. \A c \in DOMAIN ns : Cover(R2, up, r, c) = R[c]
  BY <1>9, <1>12 DEF Cover
<1>14. \A q \in DOMAIN ns : R2[q] \subseteq R[q]
  BY <1>9, <1>12
<1>15. /\ \A q \in DOMAIN ns : m[q].kind = ns[q].kind
       /\ \A q \in DOMAIN ns : q # up => SameBody(m[q], ns[q])
  BY <1>2, <1>6, <1>10 DEF SameBody
<1>16. \A c \in DOMAIN ns : Holds(lo, c) \/ Holds(hi, c) => c # up /\ ns[c].parent = up /\ h[c] = h[up] - 1
  <2>. SUFFICES ASSUME NEW c \in DOMAIN ns, Holds(lo, c) \/ Holds(hi, c)
                PROVE  c # up /\ ns[c].parent = up /\ h[c] = h[up] - 1
    OBVIOUS
  <2>1. ns[c].parent = up /\ h[c] = h[up] - 1
    BY <1>5 DEF Holds, HalfOf
  <2>2. h[up] \in Nat /\ h[up] # h[up] - 1
    BY <1>1, <1>2
  <2>. QED BY <2>1, <2>2
<1>17. \A q \in DOMAIN ns : m[q].parent = IF Holds(hi, q) THEN r ELSE ns[q].parent
  BY <1>6, <1>10, <1>16
<1>18. ASSUME NEW q \in DOMAIN m, m[q].kind = "leaf" PROVE h2[q] = 0 /\ LeafFits(m, R2, q)
  <2>1. q \in DOMAIN ns /\ q # up /\ ns[q].kind = "leaf"
    BY <1>6, <1>7, <1>10, <1>15, <1>18
  <2>2. LeafFits(ns, R, q) /\ h[q] = 0
    BY <1>1, <2>1 DEF PageFits
  <2>3. SameBody(m[q], ns[q]) /\ DOMAIN ns \subseteq DOMAIN m /\ R2[q] = R[q] /\ h2[q] = h[q]
    BY <1>7, <1>8, <1>9, <1>10, <2>1
  <2>. QED BY <1>14, <1>15, <2>1, <2>2, <2>3, LeafKeeps
<1>19. ASSUME NEW q \in DOMAIN ns, q # up, ns[q].kind = "internal"
       PROVE  InnerFits(m, h2, R2, up, r, q)
  <2>1. InnerFits(ns, h, R, page, right, q)
    BY <1>1, <1>19 DEF PageFits
  <2>2. ASSUME NEW j \in DOMAIN ns[q].children
        PROVE  LET c == ns[q].children[j]
               IN  /\ c \in DOMAIN m /\ c # r /\ m[c].parent = q /\ h2[c] = h[c]
                   /\ Cover(R2, up, r, c) = Cover(R, page, right, c)
    <3>. DEFINE c == ns[q].children[j]
    <3>1. c \in DOMAIN ns /\ ns[c].parent = q
      BY <2>1 DEF InnerFits, ChildFits
    <3>. HIDE DEF c
    <3>2. c # page /\ ~ Holds(hi, c)
      BY <1>16, <1>19, <3>1
    <3>3. c \in DOMAIN m /\ c # r /\ m[c].parent = q /\ h2[c] = h[c]
      BY <1>7, <1>8, <1>17, <3>1, <3>2
    <3>4. Cover(R2, up, r, c) = Cover(R, page, right, c)
      BY <1>13, <3>1, <3>2 DEF Cover
    <3>. QED BY <3>3, <3>4 DEF c
  <2>3. SameBody(m[q], ns[q]) /\ h2[q] = h[q] /\ R2[q] = R[q]
    BY <1>8, <1>9, <1>10, <1>19
  <2>. QED BY <1>19, <2>1, <2>2, <2>3, InnerKeeps
<1>20. InnerFits(m, h2, R2, up, r, up)
  <2>1. ASSUME NEW c \in DOMAIN ns, Holds(lo, c)
        PROVE  /\ c \in DOMAIN m /\ c # r /\ m[c].parent = up /\ h2[c] = h[c]
               /\ Cover(R2, up, r, c) = R[c]
    <3>1. ~ Holds(hi, c)
      BY <1>5, <2>1 DEF Parts
    <3>. QED BY <1>7, <1>8, <1>13, <1>16, <1>17, <2>1, <3>1
  <2>2. Len(lo.keys) <= MaxInternal
    BY <1>3, <1>6
  <2>3. m[up].keys = lo.keys /\ m[up].children = lo.children /\ h2[up] = h[up]
    BY <1>2, <1>8, <1>10
  <2>. QED BY <1>2, <1>5, <1>9, <2>1, <2>2, <2>3, HalfFits
<1>21. InnerFits(m, h2, R2, up, r, r)
  <2>1. ASSUME NEW c \in DOMAIN ns, Holds(hi, c)
        PROVE  /\ c \in DOMAIN m /\ c # r /\ m[c].parent = r /\ h2[c] = h[c]
               /\ Cover(R2, up, r, c) = R[c]
    BY <1>7, <1>8, <1>13, <1>17, <2>1
  <2>2. Len(hi.keys) <= MaxInternal
    BY <1>3, <1>6
  <2>3. m[r].keys = hi.keys /\ m[r].children = hi.children
    BY <1>10
  <2>. QED BY <1>2, <1>5, <1>8, <1>9, <2>1, <2>2, <2>3, HalfFits
<1>22. HalfFull(m[up]) /\ HalfFull(m[r])
  BY <1>3, <1>6, <1>10 DEF HalfFull
<1>23. ASSUME NEW q \in DOMAIN m, q # rt PROVE HalfFull(m[q])
  <2>1. CASE q \in {up, r}
    BY <1>22, <2>1
  <2>2. CASE q \notin {up, r}
    <3>1. q \in DOMAIN ns /\ HalfFull(ns[q]) /\ ns[q].kind \in {"leaf", "internal"}
      BY <1>1, <1>7, <1>23, <2>2 DEF PageFits
    <3>2. SameBody(m[q], ns[q])
      BY <1>15, <2>2, <3>1
    <3>. QED BY <3>1, <3>2, HalfKeeps
  <2>. QED BY <2>1, <2>2
<1>24. ASSUME NEW q \in DOMAIN ns, q # rt PROVE Hangs(m, h2, rt, q)
  <2>1. \A p \in DOMAIN ns : p \notin {rt, right} => Hangs(ns, h, rt, p)
    BY <1>1 DEF PageFits
  <2>2. Hangs(ns, h, rt, page)
    BY <1>1, <2>1
  <2>3. h[q] < h[rt] /\ ns[q].parent \in DOMAIN ns /\ ns[ns[q].parent].kind = "internal"
    BY <1>1, <1>24, <2>1, <2>2 DEF Hangs
  <2>4. h2[q] < h2[rt]
    BY <1>1, <1>8, <2>3
  <2>5. CASE Holds(hi, q)
    <3>1. m[q].parent = r /\ r \in DOMAIN m /\ m[r].kind = "internal"
      BY <1>6, <1>7, <1>10, <1>17, <2>5
    <3>2. ChildOf(m, r, q)
      BY <1>10, <2>5 DEF Holds, ChildOf
    <3>. QED BY <2>4, <3>1, <3>2 DEF Hangs
  <2>6. CASE ~ Holds(hi, q)
    <3>. DEFINE u == ns[q].parent
    <3>1. m[q].parent = u /\ u \in DOMAIN m /\ m[u].kind = "internal"
      BY <1>7, <1>15, <1>17, <2>3, <2>6
    <3>2. q # right => ChildOf(ns, u, q)
      BY <1>24, <2>1 DEF Hangs
    <3>3. ChildOf(m, u, q)
      <4>1. CASE u = up
        <5>1. Holds(w, q)
          BY <1>2, <3>2, <4>1
        <5>2. Holds(m[up], q)
          BY <1>5, <1>10, <2>6, <5>1 DEF Parts
        <5>. QED BY <4>1, <5>2 DEF Holds, ChildOf
      <4>2. CASE u # up
        <5>1. q # right
          BY <1>1, <4>2
        <5>2. m[u].children = ns[u].children
          BY <1>15, <2>3, <4>2 DEF SameBody
        <5>. QED BY <3>2, <5>1, <5>2 DEF ChildOf
      <4>. QED BY <4>1, <4>2
    <3>. QED BY <2>4, <3>1, <3>3 DEF Hangs
  <2>. QED BY <2>5, <2>6
<1>25. ASSUME NEW q \in DOMAIN m PROVE PageFits(m, rt, h2, R2, up, r, q)
  <2>1. m[q].kind \in {"leaf", "internal"}
    BY <1>1, <1>6, <1>7, <1>10, <1>15 DEF PageFits
  <2>2. m[q].kind = "internal" => InnerFits(m, h2, R2, up, r, q)
    BY <1>7, <1>15, <1>19, <1>20, <1>21
  <2>3. q \notin {rt, r} => Hangs(m, h2, rt, q)
    BY <1>7, <1>24
  <2>. QED BY <1>18, <1>23, <2>1, <2>2, <2>3 DEF PageFits
<1>26. Beside(m, rt, h2, R2, up, r, x)
  <2>1. m[r].parent = m[up].parent /\ h2[r] = h2[up]
    BY <1>2, <1>6, <1>8, <1>10
  <2>2. (\A k \in R2[up] : k < x) /\ (\A k \in R2[r] : x <= k)
    BY <1>9 DEF Below, From
  <2>3. x \in R2[r]
    <3>1. x \in Int
      BY <1>4, <1>5, TreeConstants
    <3>. QED BY <1>5, <1>9, <3>1 DEF From
  <2>4. R2[up] # {}
    BY <1>5, <1>9
  <2>. QED BY <1>1, <1>2, <1>7, <1>22, <2>1, <2>2, <2>3, <2>4 DEF Beside
<1>27. Fit(m, rt, h2, R2, up, r, x)
  <2>1. ~ Holds(hi, rt)
    <3>. SUFFICES ASSUME Holds(hi, rt) PROVE FALSE
      OBVIOUS
    <3>1. ns[rt].parent = up
      BY <1>1, <1>16
    <3>. QED BY <1>1, <1>7, <3>1
  <2>2. m[rt].parent = None /\ rt \in DOMAIN m
    BY <1>1, <1>7, <1>17, <2>1
  <2>3. h2[rt] < Len(m)
    <3>1. h[rt] \in Nat
      BY <1>1
    <3>. QED BY <1>1, <1>8, <1>11, <3>1
  <2>4. Cover(R2, up, r, rt) = Keys
    <3>1. R[rt] = Keys
      BY <1>1 DEF Cover
    <3>. QED BY <1>1, <1>13, <3>1
  <2>. QED BY <1>7, <1>8, <1>9, <1>10, <1>25, <1>26, <2>2, <2>3, <2>4 DEF Fit
<1>. QED BY <1>27 DEF r, x

(***************************************************************************)
(* The root has split: the new root takes the gap.                         *)
(***************************************************************************)
\* The file m has the new root behind the end of ns, and both halves name it.
Grown(m, ns, page, right, sep) ==
    /\ m \in Seq(Node) /\ Len(m) = Len(ns) + 1
    /\ m[Len(ns) + 1] = Internal(None, << sep >>, << page, right >>)
    /\ \A q \in DOMAIN ns :
          /\ SameBody(m[q], ns[q])
          /\ m[q].parent = IF q \in {page, right} THEN Len(ns) + 1 ELSE ns[q].parent

\* The tree under its new root fits: the gap at the old one is closed.
LEMMA GrowFits ==
    ASSUME NEW ns, NEW rt, NEW h, NEW R, NEW page, NEW right, NEW sep,
           Fit(ns, rt, h, R, page, right, sep), page # None, page = rt,
           NEW m, Grown(m, ns, page, right, sep)
    PROVE  \E h2, R2 : Whole(m, Len(ns) + 1, h2, R2)
<1>. DEFINE r == Len(ns) + 1
            D == DOMAIN ns \cup {r}
            h2 == [y \in D |-> IF y = r THEN h[rt] + 1 ELSE h[y]]
            R2 == [y \in D |-> IF y = r THEN Keys ELSE R[y]]
<1>1. /\ ns \in Seq(Node) /\ Len(ns) \in Nat /\ DOMAIN ns = 1 .. Len(ns) /\ None \notin DOMAIN ns
      /\ h \in [DOMAIN ns -> Nat] /\ R \in [DOMAIN ns -> SUBSET Keys]
      /\ rt \in DOMAIN ns /\ ns[rt].parent = None /\ h[rt] < Len(ns)
      /\ Cover(R, page, right, rt) = Keys
      /\ \A p \in DOMAIN ns : PageFits(ns, rt, h, R, page, right, p)
      /\ page \in DOMAIN ns /\ right \in DOMAIN ns /\ right # page /\ right # rt
      /\ ns[right].parent = ns[page].parent /\ h[right] = h[page]
      /\ HalfFull(ns[page]) /\ sep \in Keys
  BY GapFacts
<1>2. (\A k \in R[page] : k < sep) /\ (\A k \in R[right] : sep <= k)
  BY GapFacts
<1>3. /\ r \notin DOMAIN ns /\ r # None /\ DOMAIN m = D
  <2>1. m \in Seq(Node) /\ Len(m) = r
    BY DEF Grown
  <2>2. Len(ns) \in Nat
    BY <1>1
  <2>3. DOMAIN m = 1 .. r
    BY <2>1, <2>2
  <2>4. 1 .. r = 1 .. Len(ns) \cup {r}
    <3>1. ASSUME NEW y \in Int PROVE y \in 1 .. r <=> y \in 1 .. Len(ns) \/ y = r
      BY <2>2
    <3>2. r \in Int /\ 1 .. r \subseteq Int /\ 1 .. Len(ns) \subseteq Int
      BY <2>2
    <3>. QED BY <3>1, <3>2
  <2>5. r \notin 1 .. Len(ns) /\ r # None
    BY <2>2 DEF None
  <2>. QED BY <1>1, <2>3, <2>4, <2>5
<1>4. h2 \in [D -> Nat] /\ h2[r] = h[rt] + 1 /\ \A q \in DOMAIN ns : h2[q] = h[q]
  BY <1>1, <1>3
<1>5. R2 \in [D -> SUBSET Keys] /\ R2[r] = Keys /\ \A q \in DOMAIN ns : R2[q] = R[q]
  BY <1>1, <1>3
<1>6. /\ m \in Seq(Node) /\ Len(m) = Len(ns) + 1
      /\ m[r].kind = "internal" /\ m[r].parent = None
      /\ m[r].keys = << sep >> /\ m[r].children = << page, right >>
      /\ \A q \in DOMAIN ns :
            /\ SameBody(m[q], ns[q]) /\ m[q].kind = ns[q].kind
            /\ m[q].parent = IF q \in {page, right} THEN r ELSE ns[q].parent
  BY DEF Grown, Internal, SameBody
<1>. HIDE DEF r, D, h2, R2
<1>7. \A c \in DOMAIN m : Cover(R2, None, None, c) = R2[c]
  BY <1>1, <1>3 DEF Cover, D
<1>8. ASSUME NEW q \in DOMAIN ns, ns[q].kind = "leaf" PROVE h2[q] = 0 /\ LeafFits(m, R2, q)
  <2>1. LeafFits(ns, R, q) /\ h[q] = 0
    BY <1>1, <1>8 DEF PageFits
  <2>2. DOMAIN ns \subseteq DOMAIN m /\ \A p \in DOMAIN ns : R2[p] \subseteq R[p]
    BY <1>3, <1>5 DEF D
  <2>. QED BY <1>4, <1>5, <1>6, <1>8, <2>1, <2>2, LeafKeeps
<1>9. ASSUME NEW q \in DOMAIN ns, ns[q].kind = "internal" PROVE InnerFits(m, h2, R2, None, None, q)
  <2>1. InnerFits(ns, h, R, page, right, q)
    BY <1>1, <1>9 DEF PageFits
  <2>2. ASSUME NEW j \in DOMAIN ns[q].children
        PROVE  LET c == ns[q].children[j]
               IN  /\ c \in DOMAIN m /\ c # None /\ m[c].parent = q /\ h2[c] = h[c]
                   /\ Cover(R2, None, None, c) = Cover(R, page, right, c)
    <3>. DEFINE c == ns[q].children[j]
    <3>1. c \in DOMAIN ns /\ ns[c].parent = q /\ c # right
      BY <2>1 DEF InnerFits, ChildFits
    <3>. HIDE DEF c
    <3>2. c # page
      BY <1>1, <3>1
    <3>3. c \in DOMAIN m /\ c # None /\ m[c].parent = q /\ h2[c] = h[c]
      BY <1>1, <1>3, <1>4, <1>6, <3>1, <3>2 DEF D
    <3>4. Cover(R2, None, None, c) = Cover(R, page, right, c)
      BY <1>5, <1>7, <3>1, <3>2, <3>3 DEF Cover
    <3>. QED BY <3>3, <3>4 DEF c
  <2>3. SameBody(m[q], ns[q]) /\ h2[q] = h[q] /\ R2[q] = R[q]
    BY <1>4, <1>5, <1>6
  <2>. QED BY <1>9, <2>1, <2>2, <2>3, InnerKeeps
<1>10. InnerFits(m, h2, R2, None, None, r)
  <2>1. R[page] \cup R[right] = Keys
    BY <1>1 DEF Cover
  <2>2. \A k \in Keys : k \in Int /\ sep \in Int /\ (k < sep <=> ~ (sep <= k))
    <3>1. Keys \subseteq Int /\ sep \in Int
      BY <1>1, TreeConstants
    <3>. QED BY <3>1
  <2>3. R[page] = {k \in Keys : k < sep} /\ R[right] = {k \in Keys : sep <= k}
    BY <1>2, <2>1, <2>2
  <2>4. Len(m[r].keys) = 1 /\ Len(m[r].children) = 2 /\ m[r].keys[1] = sep
        /\ m[r].children[1] = page /\ m[r].children[2] = right
        /\ DOMAIN m[r].keys = {1} /\ DOMAIN m[r].children = {1, 2}
    BY <1>6
  <2>5. \A k \in Keys : (Between(m[r].keys, 1, k) <=> k < sep) /\ (Between(m[r].keys, 2, k) <=> sep <= k)
    <3>1. /\ \A j : j \in 1 .. 1 - 1 <=> FALSE
          /\ \A j : j \in 1 .. 1 <=> j = 1
          /\ \A j : j \in 1 .. 2 - 1 <=> j = 1
          /\ \A j : j \in 2 .. 1 <=> FALSE
      OBVIOUS
    <3>. QED BY <2>4, <3>1 DEF Between
  <2>6. \A c \in {page, right} :
           /\ c \in DOMAIN m /\ c # None /\ m[c].parent = r /\ h2[c] = h2[r] - 1
           /\ Cover(R2, None, None, c) = R[c]
    <3>1. h[page] \in Nat /\ h2[page] = h[page] /\ h2[right] = h[page] /\ h2[r] = h[page] + 1
      BY <1>1, <1>4
    <3>2. page \in DOMAIN m /\ right \in DOMAIN m
      BY <1>1, <1>3 DEF D
    <3>3. /\ page # None /\ right # None /\ m[page].parent = r /\ m[right].parent = r
          /\ R2[page] = R[page] /\ R2[right] = R[right]
      BY <1>1, <1>5, <1>6
    <3>4. h2[page] = h2[r] - 1 /\ h2[right] = h2[r] - 1
      BY <3>1
    <3>5. Cover(R2, None, None, page) = R2[page] /\ Cover(R2, None, None, right) = R2[right]
      BY <1>7, <3>2
    <3>. QED BY <3>2, <3>3, <3>4, <3>5
  <2>7. \A j \in {1, 2} : ChildFits(m, h2, R2, None, None, r, j)
    <3>1. ChildFits(m, h2, R2, None, None, r, 1)
      BY <1>5, <2>3, <2>4, <2>5, <2>6 DEF ChildFits
    <3>2. ChildFits(m, h2, R2, None, None, r, 2)
      BY <1>5, <2>3, <2>4, <2>5, <2>6 DEF ChildFits
    <3>. QED BY <3>1, <3>2
  <2>8. Injective(m[r].children) /\ Ascending(m[r].keys)
    <3>1. Injective(m[r].children)
      BY <1>1, <2>4 DEF Injective
    <3>2. \A a, b \in {1} : ~ (a < b)
      OBVIOUS
    <3>. QED BY <2>4, <3>1, <3>2 DEF Ascending
  <2>9. h2[r] > 0 /\ 1 <= MaxInternal
    <3>1. h[rt] \in Nat /\ MaxInternal \in Nat /\ MaxInternal # 0
      BY <1>1, TreeConstants
    <3>. QED BY <1>4, <3>1
  <2>. QED BY <1>1, <1>5, <2>4, <2>7, <2>8, <2>9 DEF InnerFits
<1>11. ASSUME NEW q \in DOMAIN ns PROVE HalfFull(m[q]) /\ Hangs(m, h2, r, q)
  <2>1. HalfFull(ns[q]) /\ ns[q].kind \in {"leaf", "internal"}
    BY <1>1 DEF PageFits
  <2>2. HalfFull(m[q])
    BY <1>6, <2>1, HalfKeeps
  <2>3. CASE q \in {page, right}
    <3>1. m[q].parent = r /\ r \in DOMAIN m
      BY <1>3, <1>6, <2>3 DEF D
    <3>2. h2[q] < h2[r]
      <4>1. h[rt] \in Nat /\ h2[q] = h[rt] /\ h2[r] = h[rt] + 1
        BY <1>1, <1>4, <2>3
      <4>. QED BY <4>1
    <3>3. ChildOf(m, r, q)
      <4>1. DOMAIN m[r].children = {1, 2} /\ m[r].children[1] = page /\ m[r].children[2] = right
        BY <1>6
      <4>. QED BY <2>3, <4>1 DEF ChildOf
    <3>. QED BY <1>6, <2>2, <3>1, <3>2, <3>3 DEF Hangs
  <2>4. CASE q \notin {page, right}
    <3>1. Hangs(ns, h, rt, q)
      BY <1>1, <2>4 DEF PageFits
    <3>2. /\ m[q].parent = ns[q].parent /\ ns[q].parent \in DOMAIN ns
          /\ SameBody(m[ns[q].parent], ns[ns[q].parent])
      BY <1>6, <2>4, <3>1 DEF Hangs
    <3>3. h2[q] < h2[r]
      <4>1. h[rt] \in Nat /\ h2[q] = h[q] /\ h[q] \in Nat /\ h2[r] = h[rt] + 1 /\ h[q] < h[rt]
        BY <1>1, <1>4, <3>1 DEF Hangs
      <4>. QED BY <4>1
    <3>4. ChildOf(m, ns[q].parent, q)
      BY <3>1, <3>2 DEF Hangs, ChildOf, SameBody
    <3>5. ns[q].parent \in DOMAIN m /\ m[ns[q].parent].kind = "internal"
      BY <1>3, <1>6, <3>1, <3>2 DEF Hangs, D
    <3>. QED BY <2>2, <3>2, <3>3, <3>4, <3>5 DEF Hangs
  <2>. QED BY <2>3, <2>4
<1>12. ASSUME NEW q \in DOMAIN m PROVE PageFits(m, r, h2, R2, None, None, q)
  <2>1. CASE q = r
    BY <1>6, <1>10, <2>1 DEF PageFits
  <2>2. CASE q # r
    <3>1. q \in DOMAIN ns
      BY <1>3, <2>2 DEF D
    <3>2. m[q].kind = ns[q].kind /\ ns[q].kind \in {"leaf", "internal"}
      BY <1>1, <1>6, <3>1 DEF PageFits
    <3>. QED BY <1>8, <1>9, <1>11, <3>1, <3>2 DEF PageFits
  <2>. QED BY <2>1, <2>2
<1>13. r \in DOMAIN m /\ h2[r] < Len(m) /\ Cover(R2, None, None, r) = Keys
  <2>1. r \in DOMAIN m
    BY <1>3 DEF D
  <2>2. h[rt] \in Nat /\ Len(ns) \in Nat /\ h[rt] < Len(ns)
    BY <1>1
  <2>. QED BY <1>4, <1>5, <1>6, <1>7, <2>1, <2>2
<1>14. Whole(m, r, h2, R2)
  BY <1>3, <1>4, <1>5, <1>6, <1>12, <1>13 DEF Whole, Fit
<1>. QED BY <1>14 DEF r

-----------------------------------------------------------------------------
(***************************************************************************)
(* What the steps of a call do to the file its writes lead to.             *)
(***************************************************************************)
\* Between calls there is nothing to come.
LEMMA Settles ==
    ASSUME NEW ns, NEW rt, NEW h, NEW R, Whole(ns, rt, h, R)
    PROVE  Fitting(ns, rt, Idle, ns, h, R)
<1>1. Idle.phase = "idle"
  BY DEF Idle
<1>2. ns \in Seq(Node)
  BY WholeFacts
<1>3. Target(ns, ns, Idle)
  BY <1>1, <1>2 DEF Target, Coming, Learns
<1>. QED BY <1>1, <1>3 DEF Fitting, Whole, LeafWrite

\* A call with nothing to write and no child to tell leads to the file as it is.
LEMMA NothingComing ==
    ASSUME NEW m, NEW ns \in Seq(Node), NEW t, Target(m, ns, t), t.phase # "write",
           \A p : ~ Learns(t, p)
    PROVE  m = ns
<1>1. \A p \in DOMAIN m : m[p] = ns[p]
  BY DEF Target, Coming
<1>2. m \in Seq(Node) /\ Len(m) = Len(ns)
  BY DEF Target
<1>. QED BY <1>1, <1>2

\* So it is between calls.
LEMMA SettledIs ==
    ASSUME NEW ns \in Seq(Node), NEW rt, NEW m, NEW h, NEW R, Fitting(ns, rt, Idle, m, h, R)
    PROVE  Whole(ns, rt, h, R)
<1>1. Idle.phase = "idle"
  BY DEF Idle
<1>2. Target(m, ns, Idle) /\ Fit(m, rt, h, R, None, None, None)
  BY <1>1 DEF Fitting
<1>3. m = ns
  BY <1>1, <1>2, NothingComing DEF Learns
<1>. QED BY <1>2, <1>3 DEF Whole

\* Writing the left half brings the file nearer to where it goes.
LEMMA Written ==
    ASSUME NEW m, NEW ns \in Seq(Node), NEW t, Target(m, ns, t), t.phase = "write",
           t.node \in Node, t.page \in DOMAIN ns,
           NEW ms, Writes(ms, ns, t.page, t.node), NEW u, Rephased(u, t, "adopt")
    PROVE  Target(m, ms, u)
<1>1. /\ ms \in Seq(Node) /\ Len(ms) = Len(ns) /\ ms[t.page] = t.node
      /\ DOMAIN ns = 1 .. Len(ns)
      /\ \A p \in DOMAIN ns : p # t.page => ms[p] = ns[p]
  BY Updated
<1>2. u.phase = "adopt" /\ u.kids = t.kids /\ u.right = t.right
  BY DEF Rephased
<1>3. m \in Seq(Node) /\ Len(m) = Len(ns) /\ DOMAIN m = DOMAIN ns
  <2>1. m \in Seq(Node) /\ Len(m) = Len(ns)
    BY DEF Target
  <2>. QED BY <2>1
<1>4. ASSUME NEW p \in DOMAIN m PROVE Coming(ns, t, p) = Coming(ms, u, p)
  BY <1>1, <1>2, <1>3 DEF Coming
<1>5. ASSUME NEW p PROVE Learns(t, p) <=> Learns(u, p)
  BY <1>2 DEF Learns
<1>6. NewParent(t) = NewParent(u)
  BY <1>2 DEF NewParent
<1>. QED BY <1>1, <1>3, <1>4, <1>5, <1>6 DEF Target

\* So does telling the next child its parent.
LEMMA KidLearns ==
    ASSUME NEW m, NEW ns \in Seq(Node), NEW t, Target(m, ns, t),
           t.phase \in {"adopt", "grow"}, t.kids \in Seq(PageIds), t.kids # << >>,
           NEW ms \in Seq(Node), ParentWritten(ms, ns, Head(t.kids), NewParent(t)),
           NEW u, u.phase = t.phase, u.page = t.page, u.right = t.right, u.kids = Tail(t.kids)
    PROVE  Target(m, ms, u)
<1>. DEFINE k == Head(t.kids)
            q == NewParent(t)
<1>1. m \in Seq(Node) /\ Len(m) = Len(ns) /\ DOMAIN m = DOMAIN ns
  <2>1. m \in Seq(Node) /\ Len(m) = Len(ns)
    BY DEF Target
  <2>. QED BY <2>1
<1>2. DOMAIN ms = DOMAIN ns /\ Len(ms) = Len(ns)
  <2>1. DOMAIN ms = DOMAIN ns
    BY DEF ParentWritten
  <2>. QED BY <2>1
<1>3. ASSUME NEW p PROVE Learns(t, p) <=> p = k \/ Learns(u, p)
  <2>1. /\ k = t.kids[1] /\ Len(t.kids) >= 1 /\ Len(t.kids) \in Nat
        /\ Tail(t.kids) \in Seq(PageIds) /\ Len(Tail(t.kids)) = Len(t.kids) - 1
        /\ \A j \in 1 .. Len(t.kids) - 1 : Tail(t.kids)[j] = t.kids[j + 1]
    BY TailFacts
  <2>2. DOMAIN t.kids = 1 .. Len(t.kids) /\ DOMAIN u.kids = 1 .. Len(t.kids) - 1
    BY <2>1
  <2>3. ASSUME NEW j \in DOMAIN t.kids, t.kids[j] = p PROVE p = k \/ Learns(u, p)
    <3>1. j # 1 => j - 1 \in 1 .. Len(t.kids) - 1 /\ j - 1 + 1 = j
      BY <2>1, <2>2
    <3>2. j # 1 => u.kids[j - 1] = t.kids[j]
      BY <2>1, <3>1
    <3>. QED BY <2>1, <2>2, <2>3, <3>1, <3>2 DEF Learns
  <2>4. ASSUME NEW j \in DOMAIN u.kids, u.kids[j] = p PROVE Learns(t, p)
    <3>1. j + 1 \in DOMAIN t.kids /\ t.kids[j + 1] = p
      BY <2>1, <2>2, <2>4
    <3>. QED BY <3>1 DEF Learns
  <2>5. Learns(t, k)
    <3>1. 1 \in DOMAIN t.kids
      BY <2>1, <2>2
    <3>. QED BY <2>1, <3>1 DEF Learns
  <2>. HIDE DEF k
  <2>. QED BY <2>3, <2>4, <2>5 DEF Learns
<1>4. NewParent(u) = q
  BY DEF NewParent
<1>5. ASSUME NEW p \in DOMAIN m
      PROVE  m[p] = IF Learns(u, p) THEN [Coming(ms, u, p) EXCEPT !.parent = NewParent(u)]
                    ELSE Coming(ms, u, p)
  <2>1. Coming(ns, t, p) = ns[p] /\ Coming(ms, u, p) = ms[p]
    BY DEF Coming
  <2>2. m[p] = IF Learns(t, p) THEN [ns[p] EXCEPT !.parent = q] ELSE ns[p]
    BY <2>1 DEF Target
  <2>3. CASE p = k
    <3>1. ms[p] = [ns[p] EXCEPT !.parent = q]
      BY <1>1, <2>3 DEF ParentWritten
    <3>2. [ms[p] EXCEPT !.parent = q] = ms[p]
      BY <3>1
    <3>3. m[p] = ms[p]
      BY <1>3, <2>2, <2>3, <3>1
    <3>. HIDE DEF q
    <3>. QED BY <1>4, <2>1, <3>2, <3>3
  <2>4. CASE p # k
    <3>1. ms[p] = ns[p]
      BY <1>1, <2>4 DEF ParentWritten
    <3>. QED BY <1>3, <1>4, <2>1, <2>2, <2>4, <3>1
  <2>. QED BY <2>3, <2>4
<1>. QED BY <1>1, <1>2, <1>5 DEF Target

\* A step that leaves the entries of the leaves shows what was shown.
LEMMA ShownKept ==
    ASSUME NEW ns, NEW ms, NEW C, NEW D, C \subseteq D,
           \A p \in C : SameBody(ms[p], ns[p]) \/ (ms[p].kind # "leaf" /\ ns[p].kind # "leaf"),
           \A p \in D \ C : ms[p].kind # "leaf"
    PROVE  Shown(ms, D) = Shown(ns, C)
<1>1. Leaves(ms, D) = Leaves(ns, C)
  BY DEF Leaves, SameBody
<1>2. \A p \in Leaves(ns, C) : ms[p].entries = ns[p].entries
  BY DEF Leaves, SameBody
<1>. QED BY <1>1, <1>2 DEF Shown

-----------------------------------------------------------------------------
(* What a scan yields, step by step. *)

\* The entries of the leaves that are linked.
Seen(ns, t) == Shown(ns, IF LeafWrite(t) THEN DOMAIN ns \ {t.right} ELSE DOMAIN ns)

Bounded ==
    /\ acked \subseteq Scanned /\ Scanned \subseteq Seen(nodes, task)
    /\ task.phase # "idle" /\ ~ LeafWrite(task) => <<task.key, task.rid>> \in Scanned

\* A scan yields no entry of a leaf that is not linked, and every one whose
\* insert has come past its leaf.
LEMMA ShapeBounds == ShapeInv => Bounded
<1>. SUFFICES ASSUME ShapeInv PROVE Bounded
  OBVIOUS
<1>1. PICK C, h, S, top, bad, d :
         /\ Tree(nodes, root, C, h, S, top, bad, d) /\ Chain(nodes, C, d)
         /\ C \subseteq DOMAIN nodes /\ Scanned = Shown(nodes, C)
         /\ task.phase = "write" => task.right \notin C
         /\ task.phase \in {"adopt", "grow"} \/ (task.phase = "write" /\ ~ LeafWrite(task))
               => <<task.key, task.rid>> \in Shown(nodes, C)
  BY ShapeGives
<1>2. acked \subseteq Scanned /\ task \in Task
  BY ShapeGives
<1>3. task.phase = "idle" \/ task.phase \in {"write", "adopt", "grow"}
  BY <1>2, TaskFields
<1>4. ASSUME NEW D, C \subseteq D PROVE Shown(nodes, C) \subseteq Shown(nodes, D)
  BY <1>4 DEF Shown, Leaves
<1>5. Scanned \subseteq Seen(nodes, task)
  <2>1. CASE LeafWrite(task)
    <3>1. C \subseteq DOMAIN nodes \ {task.right}
      BY <1>1, <2>1 DEF LeafWrite
    <3>. QED BY <1>1, <1>4, <2>1, <3>1 DEF Seen
  <2>2. CASE ~ LeafWrite(task)
    BY <1>1, <1>4, <2>2 DEF Seen
  <2>. QED BY <2>1, <2>2
<1>. QED BY <1>1, <1>2, <1>3, <1>5 DEF Bounded

\* So it does after a step.
LEMMA BoundsNext == ShapeInv' => Bounded'
  BY ShapeBounds, PTL

Unseen(key, scanned) == \A r \in Rids : <<key, r>> \notin scanned

\* A step whose leaves show X more is one whose scan yields X more.
LEMMA YieldsNext ==
    ASSUME ShapeInv, Next, Yields(nodes, task, Scanned), NEW X,
           Seen(nodes', task') = Seen(nodes, task) \cup X, X \subseteq Scanned',
           LeafWrite(task') => Unseen(task'.key, Seen(nodes', task'))
    PROVE  Yields(nodes', task', Scanned') /\ Scanned' = Scanned \cup X
<1>1. ShapeInv' /\ Scanned \subseteq Scanned'
  BY NextShape DEF Kept
<1>2. /\ Scanned' \subseteq Seen(nodes', task')
      /\ task'.phase # "idle" /\ ~ LeafWrite(task') => <<task'.key, task'.rid>> \in Scanned'
  BY <1>1, BoundsNext DEF Bounded
<1>3. Scanned = Seen(nodes, task)
  BY DEF Yields, Seen
<1>4. Scanned' = Seen(nodes', task')
  BY <1>1, <1>2, <1>3
<1>5. Yields(nodes', task', Scanned')
  BY <1>2, <1>4 DEF Yields, Seen, Unseen
<1>. QED BY <1>3, <1>4, <1>5

\* A step after which the invariant holds and the scan yields X more.
Steps(X) == FitInv' /\ Scanned' = Scanned \cup X

\* The two parts of the invariant after a step.
LEMMA FitNext ==
    ASSUME ShapeInv, Next, Yields(nodes, task, Scanned), NEW X,
           Seen(nodes', task') = Seen(nodes, task) \cup X, X \subseteq Scanned',
           LeafWrite(task') => Unseen(task'.key, Seen(nodes', task')),
           NEW m, NEW h, NEW R, Fitting(nodes', root', task', m, h, R)
    PROVE  Steps(X)
<1>1. Yields(nodes', task', Scanned') /\ Scanned' = Scanned \cup X
  BY YieldsNext
<1>2. \E mm, hh, RR : Fitting(nodes', root', task', mm, hh, RR)
  OBVIOUS
<1>. QED BY <1>1, <1>2 DEF Steps, FitInv

\* What the invariants give at the start of a step.
LEMMA StepFrom ==
    ASSUME ShapeInv, FitInv, Next
    PROVE  /\ \E m, h, R : Fitting(nodes, root, task, m, h, R)
           /\ Yields(nodes, task, Scanned)
           /\ TypeOK /\ nodes \in Seq(Node) /\ task \in Task /\ FiniteLeaves(nodes)
           /\ ShapeInv' /\ nodes' \in Seq(Node) /\ task' \in Task
           /\ acked' \subseteq Scanned'
<1>1. TypeOK /\ nodes \in Seq(Node) /\ task \in Task /\ FiniteLeaves(nodes)
  BY ShapeGives
<1>2. ShapeInv'
  BY NextShape DEF Kept
<1>3. nodes' \in Seq(Node) /\ task' \in Task
  BY <1>2 DEF ShapeInv, TypeOK
<1>4. acked' \subseteq Scanned'
  BY <1>2, BoundsNext DEF Bounded
<1>. QED BY <1>1, <1>2, <1>3, <1>4 DEF FitInv

\* The leaf an insert looks at, and no other, is where its key belongs.
LEMMA LeafOfKey ==
    ASSUME NEW h, NEW R, Whole(nodes, root, h, R), NEW key \in Keys
    PROVE  /\ LeafFor(key) \in DOMAIN nodes /\ nodes[LeafFor(key)].kind = "leaf"
           /\ key \in R[LeafFor(key)] /\ R[LeafFor(key)] \subseteq Keys
           /\ LeafFits(nodes, R, LeafFor(key))
           /\ key \notin DOMAIN nodes[LeafFor(key)].entries
                 => Unseen(key, Shown(nodes, DOMAIN nodes))
<1>. DEFINE f == DownTo(nodes, key)
            p == LeafFor(key)
<1>1. p = Walk(f, root, 0, Len(nodes))[Len(nodes)]
  BY DEF LeafFor, Descend, Walk, DownTo
<1>2. \A q \in DOMAIN nodes :
         f[q] = IF nodes[q].kind = "internal" THEN Child(nodes[q], key) ELSE q
  BY DEF DownTo
<1>. HIDE DEF f, p
<1>3. /\ p \in DOMAIN nodes /\ nodes[p].kind = "leaf" /\ key \in R[p]
      /\ \A q \in DOMAIN nodes : nodes[q].kind = "leaf" /\ key \in R[q] => q = p
  BY <1>1, <1>2, OneLeaf
<1>4. /\ R \in [DOMAIN nodes -> SUBSET Keys]
      /\ \A q \in DOMAIN nodes : PageFits(nodes, root, h, R, None, None, q)
  BY WholeFacts
<1>5. \A q \in DOMAIN nodes : nodes[q].kind = "leaf" => LeafFits(nodes, R, q)
  BY <1>4 DEF PageFits
<1>6. ASSUME key \notin DOMAIN nodes[p].entries, NEW r \in Rids,
             <<key, r>> \in Shown(nodes, DOMAIN nodes)
      PROVE  FALSE
  <2>1. PICK q \in Leaves(nodes, DOMAIN nodes) : <<key, r>> \in Pairs(nodes[q].entries)
    BY <1>6 DEF Shown
  <2>2. key \in DOMAIN nodes[q].entries
    BY <2>1 DEF Pairs
  <2>3. q \in DOMAIN nodes /\ nodes[q].kind = "leaf"
    BY DEF Leaves
  <2>4. key \in R[q]
    BY <1>5, <2>2, <2>3 DEF LeafFits
  <2>. QED BY <1>3, <1>6, <2>2, <2>3, <2>4
<1>. QED BY <1>3, <1>4, <1>5, <1>6 DEF p, Unseen

\* An insert that is refused changes nothing.
LEMMA InsertRefusedFits ==
    ASSUME ShapeInv, FitInv, Next, NEW key \in Keys, NEW rid \in Rids, InsertRefused(key, rid)
    PROVE  Steps({})
<1>1. nodes' = nodes /\ root' = root /\ task = Idle /\ task' = Idle
  BY DEF InsertRefused, Ends
<1>2. PICK m, h, R : Fitting(nodes, root, task, m, h, R)
  BY StepFrom
<1>3. Fitting(nodes', root', task', m, h, R)
  BY <1>1, <1>2
<1>4. Seen(nodes', task') = Seen(nodes, task) \cup {}
  BY <1>1
<1>5. ~ LeafWrite(task')
  BY <1>1 DEF LeafWrite, Idle
<1>. QED BY <1>3, <1>4, <1>5, StepFrom, FitNext

\* The entry goes into the leaf its key belongs in.
LEMMA InsertIntoLeafFits ==
    ASSUME ShapeInv, FitInv, Next, NEW key \in Keys, NEW rid \in Rids, InsertIntoLeaf(key, rid)
    PROVE  /\ Steps({<<key, rid>>})
           /\ Unseen(key, Scanned)
<1>1. PICK m, h, R : Fitting(nodes, root, Idle, m, h, R)
  BY StepFrom DEF InsertIntoLeaf
<1>2. nodes \in Seq(Node) /\ FiniteLeaves(nodes) /\ acked' \subseteq Scanned'
      /\ Yields(nodes, task, Scanned)
  BY StepFrom
<1>3. Whole(nodes, root, h, R)
  BY <1>1, <1>2, SettledIs
<1>. DEFINE p == LeafFor(key)
            old == nodes[p].entries
            new == WithEntry(old, key, rid)
<1>4. /\ p \in DOMAIN nodes /\ nodes[p].kind = "leaf" /\ key \in R[p]
      /\ key \notin DOMAIN old => Unseen(key, Shown(nodes, DOMAIN nodes))
  BY <1>3, LeafOfKey
<1>5. /\ key \notin DOMAIN old /\ Cardinality(DOMAIN new) <= MaxLeaf
      /\ Writes(nodes', nodes, p, Leaf(nodes[p].parent, nodes[p].next, new))
      /\ task = Idle /\ task' = Idle /\ root' = root /\ acked' = acked \cup {<<key, rid>>}
  BY DEF InsertIntoLeaf, Writes, Ends
<1>6. nodes[p] \in Node /\ IsFiniteSet(DOMAIN old)
  BY <1>2, <1>4 DEF FiniteLeaves
<1>7. old \in Entries /\ nodes[p].parent \in PageIds /\ nodes[p].next \in PageIds
  BY <1>4, <1>6, NodeFields
<1>. HIDE DEF p
<1>8. /\ new \in Entries /\ DOMAIN new = DOMAIN old \cup {key} /\ IsFiniteSet(DOMAIN new)
  <2>. HIDE DEF old
  <2>. QED BY <1>6, <1>7, WithEntryFacts
<1>9. Pairs(new) = Pairs(old) \cup {<<key, rid>>}
  <2>. HIDE DEF old
  <2>. QED BY <1>5, <1>6, <1>7, PairsWithEntry
<1>. HIDE DEF new
<1>. DEFINE n == Leaf(nodes[p].parent, nodes[p].next, new)
<1>10. Whole(nodes', root, h, R)
  BY <1>3, <1>4, <1>5, <1>8, EntryFits
<1>11. n \in Node /\ n.kind = "leaf" /\ n.entries = new
  BY <1>7, <1>8, LeafNode
<1>12. /\ DOMAIN nodes' = DOMAIN nodes /\ nodes'[p].kind = "leaf" /\ nodes'[p].entries = new
       /\ \A q \in DOMAIN nodes : q # p => nodes'[q] = nodes[q]
  <2>1. Writes(nodes', nodes, p, n)
    BY <1>5
  <2>. HIDE DEF n
  <2>2. DOMAIN nodes' = DOMAIN nodes /\ nodes'[p] = n /\ \A q \in DOMAIN nodes : q # p => nodes'[q] = nodes[q]
    BY <1>2, <1>4, <1>11, <2>1, Updated
  <2>. QED BY <1>11, <2>2
<1>13. Leaves(nodes', DOMAIN nodes') = Leaves(nodes, DOMAIN nodes) /\ p \in Leaves(nodes, DOMAIN nodes)
  BY <1>4, <1>12 DEF Leaves
<1>14. Shown(nodes', DOMAIN nodes') = Shown(nodes, DOMAIN nodes) \cup {<<key, rid>>}
  <2>1. \A q \in Leaves(nodes, DOMAIN nodes) : q # p => Pairs(nodes'[q].entries) = Pairs(nodes[q].entries)
    BY <1>12 DEF Leaves
  <2>2. Pairs(nodes'[p].entries) = Pairs(nodes[p].entries) \cup {<<key, rid>>}
    BY <1>9, <1>12
  <2>. QED BY <1>13, <2>1, <2>2 DEF Shown
<1>15. ~ LeafWrite(Idle)
  BY DEF LeafWrite, Idle
<1>16. Seen(nodes, task) = Shown(nodes, DOMAIN nodes) /\ Seen(nodes', task') = Shown(nodes', DOMAIN nodes')
  BY <1>5, <1>15 DEF Seen
<1>17. Fitting(nodes', root', task', nodes', h, R)
  BY <1>5, <1>10, Settles
<1>18. Scanned = Seen(nodes, task)
  BY <1>2 DEF Yields, Seen
<1>. DEFINE X == {<<key, rid>>}
<1>19. X \subseteq Scanned' /\ Seen(nodes', task') = Seen(nodes, task) \cup X /\ ~ LeafWrite(task')
  BY <1>2, <1>5, <1>14, <1>15, <1>16
<1>20. Steps(X)
  <2>. HIDE DEF X
  <2>. QED BY <1>2, <1>17, <1>19, FitNext
<1>. QED BY <1>4, <1>5, <1>16, <1>18, <1>20

\* The left half is written: of a leaf, that shows the call's entry.
LEMMA WriteLeftFits ==
    ASSUME ShapeInv, FitInv, Next, WriteLeft
    PROVE  IF LeafWrite(task) THEN Steps({<<task.key, task.rid>>}) ELSE Steps({})
<1>1. PICK m, h, R : Fitting(nodes, root, task, m, h, R)
  BY StepFrom
<1>2. /\ nodes \in Seq(Node) /\ task \in Task /\ Yields(nodes, task, Scanned) /\ ShapeInv'
  BY StepFrom
<1>3. task.phase = "write" /\ task # Idle
  BY DEF WriteLeft, Idle
<1>4. task.node \in Node /\ task.page \in DOMAIN nodes /\ task.right \in DOMAIN nodes
      /\ task.node.kind = nodes[task.page].kind
  BY <1>2, <1>3, ShapeGives, TaskFields
<1>5. Writes(nodes', nodes, task.page, task.node) /\ UNCHANGED <<root, faults, acked, last>>
  BY DEF WriteLeft, Writes
<1>6. task' \in Task /\ Rephased(task', task, "adopt")
  <2>1. task' = [task EXCEPT !.phase = "adopt"]
    BY DEF WriteLeft
  <2>. QED BY <1>2, <1>3, <2>1, TaskPhase DEF Rephased
<1>7. Target(m, nodes, task) /\ Fit(m, root, h, R, task.page, task.right, task.sep)
      /\ task.up = m[task.page].parent /\ (LeafWrite(task) => Halves(m, nodes, task))
  BY <1>1, <1>3 DEF Fitting
<1>8. Target(m, nodes', task')
  BY <1>2, <1>3, <1>4, <1>5, <1>6, <1>7, Written
<1>9. Fitting(nodes', root', task', m, h, R)
  BY <1>5, <1>6, <1>7, <1>8 DEF Fitting, Rephased, LeafWrite
<1>10. /\ DOMAIN nodes' = DOMAIN nodes /\ nodes'[task.page] = task.node
       /\ \A q \in DOMAIN nodes : q # task.page => nodes'[q] = nodes[q]
  BY <1>2, <1>4, <1>5, Updated
<1>11. ~ LeafWrite(task') /\ Seen(nodes', task') = Shown(nodes', DOMAIN nodes)
  BY <1>6, <1>10 DEF LeafWrite, Rephased, Seen
<1>12. CASE LeafWrite(task)
  <2>. DEFINE X == {<<task.key, task.rid>>}
  <2>1. Halves(m, nodes, task) /\ task.node.kind = "leaf"
    BY <1>7, <1>12 DEF LeafWrite
  <2>2. task.right # task.page /\ \A p \in DOMAIN m : m[p].kind # "blank"
    <3>1. /\ task.page \in DOMAIN m /\ task.right # task.page
          /\ \A p \in DOMAIN m : PageFits(m, root, h, R, task.page, task.right, p)
      <4>1. task.page # None
        BY <1>2, <1>4 DEF None
      <4>. QED BY <1>7, <4>1, GapFacts
    <3>. QED BY <3>1 DEF PageFits
  <2>3. /\ DOMAIN m = DOMAIN nodes
        /\ SameBody(m[task.page], task.node) /\ SameBody(m[task.right], nodes[task.right])
    <3>1. /\ DOMAIN m = DOMAIN nodes
          /\ \A p \in DOMAIN m : SameBody(m[p], Coming(nodes, task, p))
      BY <1>2, <1>7, <2>2, TargetFacts
    <3>. QED BY <1>3, <1>4, <2>2, <3>1 DEF Coming
  <2>4. m[task.page].kind = "leaf" /\ m[task.right].kind = "leaf"
    BY <2>1 DEF Halves
  <2>5. /\ m[task.page].entries = task.node.entries
        /\ m[task.right].entries = nodes[task.right].entries /\ nodes[task.right].kind = "leaf"
    BY <2>1, <2>3, <2>4 DEF SameBody
  <2>6. Pairs(nodes'[task.page].entries) \cup Pairs(nodes'[task.right].entries)
           = Pairs(nodes[task.page].entries) \cup X
    BY <1>4, <1>10, <2>1, <2>2, <2>5 DEF Halves
  <2>7. Leaves(nodes', DOMAIN nodes) = Leaves(nodes, DOMAIN nodes \ {task.right}) \cup {task.right}
        /\ task.page \in Leaves(nodes, DOMAIN nodes \ {task.right})
    BY <1>4, <1>10, <2>1, <2>2, <2>5 DEF Leaves
  <2>. DEFINE L == Leaves(nodes, DOMAIN nodes \ {task.right})
  <2>8. Shown(nodes', DOMAIN nodes) = Shown(nodes, DOMAIN nodes \ {task.right}) \cup X
    <3>. HIDE DEF X
    <3>1. \A q \in L : q # task.page => Pairs(nodes'[q].entries) = Pairs(nodes[q].entries)
      BY <1>10 DEF Leaves
    <3>2. Shown(nodes', DOMAIN nodes)
             = UNION {Pairs(nodes'[q].entries) : q \in L \cup {task.right}}
      BY <2>7 DEF Shown
    <3>3. Shown(nodes, DOMAIN nodes \ {task.right}) = UNION {Pairs(nodes[q].entries) : q \in L}
      BY DEF Shown
    <3>4. task.page \in L
      BY <2>7
    <3>. HIDE DEF L
    <3>5. ASSUME NEW e, e \in Shown(nodes', DOMAIN nodes)
          PROVE  e \in Shown(nodes, DOMAIN nodes \ {task.right}) \cup X
      <4>1. PICK q \in L \cup {task.right} : e \in Pairs(nodes'[q].entries)
        BY <3>2, <3>5
      <4>2. CASE q \in L /\ q # task.page
        BY <3>1, <3>3, <4>1, <4>2
      <4>3. CASE q = task.page \/ q = task.right
        <5>1. e \in Pairs(nodes[task.page].entries) \cup X
          BY <2>6, <4>1, <4>3
        <5>. QED BY <3>3, <3>4, <5>1
      <4>. QED BY <4>1, <4>2, <4>3
    <3>6. ASSUME NEW e, e \in Shown(nodes, DOMAIN nodes \ {task.right}) \cup X
          PROVE  e \in Shown(nodes', DOMAIN nodes)
      <4>1. e \in X \/ \E q \in L : e \in Pairs(nodes[q].entries)
        BY <3>3, <3>6
      <4>2. CASE \E q \in L : q # task.page /\ e \in Pairs(nodes[q].entries)
        BY <3>1, <3>2, <4>2
      <4>3. CASE e \in Pairs(nodes[task.page].entries) \cup X
        <5>1. e \in Pairs(nodes'[task.page].entries) \cup Pairs(nodes'[task.right].entries)
          BY <2>6, <4>3
        <5>. QED BY <3>2, <3>4, <5>1
      <4>. QED BY <4>1, <4>2, <4>3
    <3>. QED BY <3>5, <3>6
  <2>9. Seen(nodes, task) = Shown(nodes, DOMAIN nodes \ {task.right})
    BY <1>12 DEF Seen
  <2>10. X \subseteq Scanned'
    <3>1. task'.phase # "idle" /\ task'.key = task.key /\ task'.rid = task.rid
      BY <1>6 DEF Rephased
    <3>. QED BY <1>2, <1>11, <3>1, BoundsNext DEF Bounded
  <2>11. Steps(X)
    <3>. HIDE DEF X
    <3>. QED BY <1>2, <1>9, <1>11, <2>8, <2>9, <2>10, FitNext
  <2>. QED BY <1>12, <2>11
<1>13. CASE ~ LeafWrite(task)
  <2>1. task.node.kind # "leaf"
    BY <1>3, <1>13 DEF LeafWrite
  <2>2. \A q \in DOMAIN nodes :
           SameBody(nodes'[q], nodes[q]) \/ (nodes'[q].kind # "leaf" /\ nodes[q].kind # "leaf")
    BY <1>4, <1>10, <2>1 DEF SameBody
  <2>3. Shown(nodes', DOMAIN nodes) = Shown(nodes, DOMAIN nodes)
    BY <2>2, ShownKept
  <2>4. Seen(nodes', task') = Seen(nodes, task) \cup {}
    BY <1>11, <1>13, <2>3 DEF Seen
  <2>5. Steps({})
    BY <1>2, <1>9, <1>11, <2>4, FitNext
  <2>. QED BY <1>13, <2>5
<1>. QED BY <1>12, <1>13

\* While no page is being rewritten, the pages have the kinds they will have.
LEMMA KindsStay ==
    ASSUME NEW ns \in Seq(Node), NEW rt, NEW t \in Task, NEW m, NEW h, NEW R,
           Fitting(ns, rt, t, m, h, R), t.phase \in {"adopt", "grow"}
    PROVE  \A p \in DOMAIN ns : ns[p] \in Node /\ ns[p].kind \in {"leaf", "internal"}
<1>1. Target(m, ns, t) /\ \A p \in DOMAIN m : m[p].kind \in {"leaf", "internal"}
  BY DEF Fitting, Fit, PageFits
<1>2. DOMAIN m = DOMAIN ns /\ \A p \in DOMAIN m : SameBody(m[p], Coming(ns, t, p))
  BY <1>1, TargetFacts
<1>3. \A p \in DOMAIN ns : Coming(ns, t, p) = ns[p]
  BY DEF Coming
<1>. QED BY <1>1, <1>2, <1>3 DEF SameBody

\* Telling a page its parent shows the same.
LEMMA ParentShowsSame ==
    ASSUME NEW ns, NEW ms, NEW k, NEW q \in PageIds, ParentWritten(ms, ns, k, q),
           \A p \in DOMAIN ns : ns[p] \in Node /\ ns[p].kind \in {"leaf", "internal"}
    PROVE  DOMAIN ms = DOMAIN ns /\ Shown(ms, DOMAIN ns) = Shown(ns, DOMAIN ns)
<1>1. DOMAIN ms = DOMAIN ns
  BY DEF ParentWritten
<1>2. ASSUME NEW p \in DOMAIN ns PROVE SameBody(ms[p], ns[p])
  <2>1. ms[p] = ns[p] \/ ms[p] = [ns[p] EXCEPT !.parent = q]
    BY DEF ParentWritten
  <2>2. SameBody([ns[p] EXCEPT !.parent = q], ns[p])
    <3>1. ns[p] \in Node /\ ns[p].kind # "blank"
      OBVIOUS
    <3>. QED BY <3>1, Reparented DEF SameBody
  <2>3. SameBody(ns[p], ns[p])
    BY DEF SameBody
  <2>. QED BY <2>1, <2>2, <2>3
<1>. QED BY <1>1, <1>2, ShownKept

\* The next child learns its parent.
LEMMA AdoptFits ==
    ASSUME ShapeInv, FitInv, Next, Adopt
    PROVE  Steps({})
<1>1. PICK m, h, R : Fitting(nodes, root, task, m, h, R)
  BY StepFrom
<1>2. nodes \in Seq(Node) /\ task \in Task /\ Yields(nodes, task, Scanned) /\ nodes' \in Seq(Node)
  BY StepFrom
<1>3. task.phase = "adopt" /\ task.kids # << >> /\ task # Idle
  BY DEF Adopt, Idle
<1>4. task.kids \in Seq(PageIds) /\ task.right \in PageIds
  BY <1>2, <1>3, TaskFields
<1>5. ParentWritten(nodes', nodes, Head(task.kids), task.right) /\ root' = root
  BY DEF Adopt, ParentWritten
<1>6. /\ task'.phase = "adopt" /\ task'.page = task.page /\ task'.right = task.right
      /\ task'.sep = task.sep /\ task'.up = task.up /\ task'.kids = Tail(task.kids)
  <2>1. task' = [task EXCEPT !.kids = Tail(task.kids)] /\ Tail(task.kids) \in Seq(PageIds)
    BY <1>3, <1>4 DEF Adopt
  <2>. QED BY <1>2, <1>3, <2>1, TaskKids
<1>7. Target(m, nodes, task) /\ Fit(m, root, h, R, task.page, task.right, task.sep)
      /\ task.up = m[task.page].parent
  BY <1>1, <1>3 DEF Fitting
<1>8. Target(m, nodes', task')
  <2>1. NewParent(task) = task.right
    BY <1>3 DEF NewParent
  <2>2. task.phase \in {"adopt", "grow"} /\ task'.phase = task.phase
    BY <1>3, <1>6
  <2>. QED BY <1>2, <1>3, <1>4, <1>5, <1>6, <1>7, <2>1, <2>2, KidLearns
<1>9. Fitting(nodes', root', task', m, h, R)
  BY <1>5, <1>6, <1>7, <1>8 DEF Fitting, LeafWrite
<1>10. DOMAIN nodes' = DOMAIN nodes /\ Shown(nodes', DOMAIN nodes) = Shown(nodes, DOMAIN nodes)
  <2>1. \A p \in DOMAIN nodes : nodes[p] \in Node /\ nodes[p].kind \in {"leaf", "internal"}
    BY <1>1, <1>2, <1>3, KindsStay
  <2>. QED BY <1>4, <1>5, <2>1, ParentShowsSame
<1>11. Seen(nodes', task') = Seen(nodes, task) \cup {} /\ ~ LeafWrite(task')
  BY <1>3, <1>6, <1>10 DEF Seen, LeafWrite
<1>. QED BY <1>2, <1>9, <1>11, FitNext

\* The halves of the old root learn the new one; after both, it is the root.
LEMMA LearnRootFits ==
    ASSUME ShapeInv, FitInv, Next, LearnRoot
    PROVE  Steps({})
<1>1. PICK m, h, R : Fitting(nodes, root, task, m, h, R)
  BY StepFrom
<1>2. nodes \in Seq(Node) /\ task \in Task /\ Yields(nodes, task, Scanned) /\ nodes' \in Seq(Node)
  BY StepFrom
<1>3. task.phase = "grow" /\ task # Idle /\ Len(task.kids) \in {1, 2}
  BY ShapeGives DEF LearnRoot, Idle
<1>4. task.kids \in Seq(PageIds) /\ task.right \in PageIds /\ task.page \in PageIds
      /\ task.kids # << >>
  <2>1. task.kids \in Seq(PageIds) /\ task.right \in PageIds /\ task.page \in PageIds
    BY <1>2, <1>3, TaskFields
  <2>2. \A s \in Seq(PageIds) : s = << >> => Len(s) = 0
    OBVIOUS
  <2>3. 0 \notin {1, 2}
    OBVIOUS
  <2>4. task.kids # << >>
    BY <1>3, <2>1, <2>2, <2>3
  <2>. QED BY <2>1, <2>4
<1>5. ParentWritten(nodes', nodes, Head(task.kids), task.page)
  BY DEF LearnRoot, ParentWritten
<1>. DEFINE u == [task EXCEPT !.kids = Tail(task.kids)]
<1>6. /\ u.phase = "grow" /\ u.page = task.page /\ u.right = task.right
      /\ u.kids = Tail(task.kids)
  <2>1. Tail(task.kids) \in Seq(PageIds)
    BY <1>4
  <2>. QED BY <1>2, <1>3, <2>1, TaskKids
<1>. HIDE DEF u
<1>7. Target(m, nodes, task) /\ Fit(m, task.page, h, R, None, None, None)
  BY <1>1, <1>3 DEF Fitting
<1>8. Target(m, nodes', u)
  <2>1. NewParent(task) = task.page
    BY <1>3 DEF NewParent
  <2>2. task.phase \in {"adopt", "grow"} /\ u.phase = task.phase
    BY <1>3, <1>6
  <2>. QED BY <1>2, <1>4, <1>5, <1>6, <1>7, <2>1, <2>2, KidLearns
<1>9. DOMAIN nodes' = DOMAIN nodes /\ Shown(nodes', DOMAIN nodes) = Shown(nodes, DOMAIN nodes)
  <2>1. \A p \in DOMAIN nodes : nodes[p] \in Node /\ nodes[p].kind \in {"leaf", "internal"}
    BY <1>1, <1>2, <1>3, KindsStay
  <2>. QED BY <1>4, <1>5, <2>1, ParentShowsSame
<1>10. CASE Len(task.kids) = 2
  <2>1. task' = u /\ root' = root
    BY <1>10 DEF LearnRoot, u
  <2>2. Fitting(nodes', root', task', m, h, R)
    BY <1>6, <1>7, <1>8, <2>1 DEF Fitting, LeafWrite
  <2>3. Seen(nodes', task') = Seen(nodes, task) \cup {} /\ ~ LeafWrite(task')
    BY <1>3, <1>6, <1>9, <2>1 DEF Seen, LeafWrite
  <2>. QED BY <1>2, <2>2, <2>3, FitNext
<1>11. CASE Len(task.kids) = 1
  <2>1. task' = Idle /\ root' = task.page
    BY <1>11 DEF LearnRoot, Ends
  <2>2. \A p : ~ Learns(u, p)
    <3>1. Tail(task.kids) \in Seq(PageIds) /\ Len(Tail(task.kids)) = 0
      BY <1>4, <1>11
    <3>2. \A s \in Seq(PageIds) : Len(s) = 0 => DOMAIN s = {}
      OBVIOUS
    <3>3. DOMAIN Tail(task.kids) = {}
      BY <3>1, <3>2
    <3>4. DOMAIN u.kids = {}
      BY <1>6, <3>3
    <3>. QED BY <3>4 DEF Learns
  <2>3. m = nodes'
    BY <1>2, <1>6, <1>8, <2>2, NothingComing
  <2>4. Whole(nodes', root', h, R)
    BY <1>7, <2>1, <2>3 DEF Whole
  <2>5. Fitting(nodes', root', task', nodes', h, R)
    BY <2>1, <2>4, Settles
  <2>6. Seen(nodes', task') = Seen(nodes, task) \cup {} /\ ~ LeafWrite(task')
    BY <1>3, <1>9, <2>1 DEF Seen, LeafWrite, Idle
  <2>. QED BY <1>2, <2>5, <2>6, FitNext
<1>. QED BY <1>3, <1>10, <1>11

-----------------------------------------------------------------------------
(* The call comes to the parent. *)

\* What it finds there: the file, whole but for the gap.
LEMMA RaisingFits ==
    ASSUME ShapeInv, FitInv, Next, Raising
    PROVE  \E h, R :
              /\ Fit(nodes, root, h, R, task.page, task.right, task.sep)
              /\ task.up = nodes[task.page].parent
              /\ task \in Task /\ task # Idle /\ task.page \in DOMAIN nodes /\ task.page # None
              /\ (task.up = None <=> task.page = root)
              /\ \A p \in DOMAIN nodes : nodes[p] \in Node /\ nodes[p].kind \in {"leaf", "internal"}
<1>1. PICK m, h, R : Fitting(nodes, root, task, m, h, R)
  BY StepFrom
<1>2. nodes \in Seq(Node) /\ task \in Task /\ TypeOK
  BY StepFrom
<1>3. task.phase = "adopt" /\ task.kids = << >> /\ task # Idle
  BY DEF Raising, Idle
<1>4. Target(m, nodes, task) /\ Fit(m, root, h, R, task.page, task.right, task.sep)
      /\ task.up = m[task.page].parent
  BY <1>1, <1>3 DEF Fitting
<1>5. m = nodes
  <2>1. \A p : ~ Learns(task, p)
    BY <1>3 DEF Learns
  <2>. QED BY <1>2, <1>3, <1>4, <2>1, NothingComing
<1>6. \A p \in DOMAIN nodes : nodes[p] \in Node /\ nodes[p].kind \in {"leaf", "internal"}
  BY <1>1, <1>2, <1>3, KindsStay
<1>7. task.page # None
  <2>1. CASE task.page = None
    <3>1. task.right = None /\ nodes[None].parent = nodes[task.page].parent
      BY <1>4, <2>1 DEF Fit
    <3>2. \E C, hh, S, top, bad, d, P :
             PendingAdopt(nodes, task, C, hh, S, top, bad, P) /\ Consistent(nodes, C, hh, top, bad)
      BY <1>3 DEF ShapeInv, Shape, Pending, Tree
    <3>3. task.page \in DOMAIN nodes
      BY <3>2 DEF PendingAdopt, Splitting, Path, Consistent
    <3>. QED BY <1>2, <2>1, <3>3 DEF None
  <2>. QED BY <2>1
<1>8. /\ task.page \in DOMAIN nodes /\ nodes[root].parent = None /\ None \notin DOMAIN nodes
      /\ task.right # task.page
      /\ \A p \in DOMAIN nodes : PageFits(nodes, root, h, R, task.page, task.right, p)
  <2>. HIDE DEF None
  <2>. QED BY <1>4, <1>5, <1>7, GapFacts
<1>9. task.page # root => task.up # None
  BY <1>4, <1>5, <1>8 DEF PageFits, Hangs
<1>. QED BY <1>2, <1>3, <1>4, <1>5, <1>6, <1>7, <1>8, <1>9

\* A step that adds an internal node shows the same.
LEMMA InnerAdded ==
    ASSUME NEW ns \in Seq(Node), NEW n \in Node, n.kind = "internal", NEW ms, Adds(ms, ns, n)
    PROVE  Shown(ms, DOMAIN ms) = Shown(ns, DOMAIN ns)
<1>1. /\ DOMAIN ns = 1 .. Len(ns) /\ DOMAIN ms = 1 .. Len(ns) + 1 /\ Len(ns) \in Nat
      /\ ms[Len(ns) + 1] = n
      /\ \A p \in DOMAIN ns : p \in DOMAIN ms /\ ms[p] = ns[p]
  BY Appended
<1>2. \A p \in DOMAIN ns : SameBody(ms[p], ns[p])
  BY <1>1 DEF SameBody
<1>3. \A p \in DOMAIN ms \ DOMAIN ns : ms[p].kind # "leaf"
  BY <1>1
<1>4. DOMAIN ns \subseteq DOMAIN ms
  BY <1>1
<1>. QED BY <1>2, <1>3, <1>4, ShownKept

\* The file under a new root.
GrownFile(ns, page, right, sep) ==
    [q \in 1 .. Len(ns) + 1 |->
        IF q = Len(ns) + 1 THEN Internal(None, << sep >>, << page, right >>)
        ELSE IF q \in {page, right} THEN [ns[q] EXCEPT !.parent = Len(ns) + 1] ELSE ns[q]]

\* It is that file.
LEMMA GrownFileFacts ==
    ASSUME NEW ns \in Seq(Node), NEW page \in PageIds, NEW right \in PageIds, NEW sep \in Keys,
           Len(ns) + 1 \in PageIds, None \in PageIds,
           \A q \in DOMAIN ns : ns[q] \in Node /\ ns[q].kind \in {"leaf", "internal"}
    PROVE  Grown(GrownFile(ns, page, right, sep), ns, page, right, sep)
<1>. DEFINE m == GrownFile(ns, page, right, sep)
            n == Len(ns) + 1
            new == Internal(None, << sep >>, << page, right >>)
<1>1. Len(ns) \in Nat /\ DOMAIN ns = 1 .. Len(ns) /\ n \notin DOMAIN ns
  OBVIOUS
<1>2. new \in Node
  <2>1. << sep >> \in Seq(Keys) /\ << page, right >> \in Seq(PageIds)
    OBVIOUS
  <2>. QED BY <2>1, InternalNode
<1>. HIDE DEF new
<1>3. m = [q \in 1 .. n |-> IF q = n THEN new
              ELSE IF q \in {page, right} THEN [ns[q] EXCEPT !.parent = n] ELSE ns[q]]
  BY DEF GrownFile, new
<1>. HIDE DEF m
<1>4. m[n] = new
  BY <1>1, <1>3
<1>5. ASSUME NEW q \in DOMAIN ns
      PROVE  /\ SameBody(m[q], ns[q]) /\ m[q] \in Node
             /\ m[q].parent = IF q \in {page, right} THEN n ELSE ns[q].parent
  <2>1. q \in 1 .. n /\ q # n
    BY <1>1
  <2>2. m[q] = IF q \in {page, right} THEN [ns[q] EXCEPT !.parent = n] ELSE ns[q]
    BY <1>3, <2>1
  <2>3. ns[q] \in Node /\ ns[q].kind # "blank" /\ n \in PageIds
    OBVIOUS
  <2>4. LET x == [ns[q] EXCEPT !.parent = n]
        IN  x \in Node /\ x.parent = n /\ SameBody(x, ns[q])
    <3>. HIDE DEF n
    <3>. QED BY <2>3, Reparented DEF SameBody
  <2>5. SameBody(ns[q], ns[q])
    BY DEF SameBody
  <2>. QED BY <2>2, <2>3, <2>4, <2>5
<1>6. m \in Seq(Node) /\ Len(m) = n
  <2>1. DOMAIN m = 1 .. n /\ n \in Nat
    BY <1>1, <1>3
  <2>2. \A q \in 1 .. n : m[q] \in Node
    <3>1. \A q \in 1 .. n : q = n \/ q \in DOMAIN ns
      BY <1>1
    <3>. QED BY <1>2, <1>4, <1>5, <3>1
  <2>3. m = [q \in 1 .. n |-> m[q]]
    BY <1>3
  <2>4. m \in [1 .. n -> Node]
    BY <2>2, <2>3
  <2>. QED BY <2>1, <2>4, <1>1
<1>. QED BY <1>4, <1>5, <1>6 DEF Grown, m, new

\* A new root over the two halves: the call leads to the tree under it.
LEMMA GrowRootFits ==
    ASSUME ShapeInv, FitInv, Next, GrowRoot
    PROVE  Steps({})
<1>1. Raising /\ task.up = None /\ NewPageFits
  BY DEF GrowRoot
<1>2. PICK h, R :
         /\ Fit(nodes, root, h, R, task.page, task.right, task.sep)
         /\ task \in Task /\ task # Idle /\ task.page # None /\ task.page = root
         /\ \A p \in DOMAIN nodes : nodes[p] \in Node /\ nodes[p].kind \in {"leaf", "internal"}
  <2>. HIDE DEF None
  <2>. QED BY <1>1, RaisingFits
<1>3. TypeOK /\ nodes \in Seq(Node) /\ Yields(nodes, task, Scanned) /\ nodes' \in Seq(Node)
  BY StepFrom
<1>4. task.page \in PageIds /\ task.right \in PageIds /\ task.sep \in Keys
      /\ Len(nodes) + 1 \in PageIds /\ None \in PageIds
  BY <1>1, <1>2, <1>3, TaskFields, PageFacts
<1>. DEFINE n == Len(nodes) + 1
            kids == << task.page, task.right >>
            seps == << task.sep >>
            new == Internal(None, seps, kids)
            m == GrownFile(nodes, task.page, task.right, task.sep)
<1>5. Grown(m, nodes, task.page, task.right, task.sep)
  BY <1>2, <1>3, <1>4, GrownFileFacts
<1>6. PICK h2, R2 : Whole(m, n, h2, R2)
  BY <1>2, <1>5, GrowFits
<1>7. new \in Node /\ new.kind = "internal" /\ kids \in Seq(PageIds)
  <2>1. seps \in Seq(Keys) /\ kids \in Seq(PageIds)
    BY <1>4
  <2>. HIDE DEF kids, seps
  <2>. QED BY <1>4, <2>1, InternalNode
<1>8. Adds(nodes', nodes, new) /\ root' = root
  BY DEF GrowRoot, Adds
<1>9. /\ task'.phase = "grow" /\ task'.page = n /\ task'.right = task.right /\ task'.kids = kids
  <2>1. Growing(task', task, n, kids)
    BY DEF GrowRoot, Growing
  <2>. HIDE DEF n, kids
  <2>. QED BY <1>2, <1>4, <1>7, <2>1, TaskGrow DEF n
<1>. HIDE DEF m, new
<1>10. Target(m, nodes', task')
  <2>1. /\ DOMAIN nodes = 1 .. Len(nodes) /\ Len(nodes) \in Nat /\ Len(nodes') = n
        /\ nodes'[n] = new /\ \A q \in DOMAIN nodes : nodes'[q] = nodes[q]
    BY <1>3, <1>7, <1>8, Appended
  <2>2. m \in Seq(Node) /\ Len(m) = n
    BY <1>5 DEF Grown
  <2>3. \A q \in DOMAIN nodes :
           m[q] = IF q \in {task.page, task.right} THEN [nodes[q] EXCEPT !.parent = n] ELSE nodes[q]
    BY <2>1 DEF m, GrownFile
  <2>4. m[n] = new
    BY <1>5 DEF Grown, new
  <2>5. \A q : Learns(task', q) <=> q \in {task.page, task.right}
    <3>1. DOMAIN kids = {1, 2} /\ kids[1] = task.page /\ kids[2] = task.right
      OBVIOUS
    <3>. HIDE DEF kids
    <3>. QED BY <1>9, <3>1 DEF Learns
  <2>6. ~ Learns(task', n)
    <3>1. task.page \in DOMAIN nodes /\ task.right \in DOMAIN nodes
      BY <1>2 DEF Fit, Beside
    <3>2. n \notin DOMAIN nodes
      BY <2>1
    <3>. QED BY <2>5, <3>1, <3>2
  <2>7. NewParent(task') = n /\ \A q : Coming(nodes', task', q) = nodes'[q]
    BY <1>9 DEF NewParent, Coming
  <2>8. ASSUME NEW q \in DOMAIN m
        PROVE  m[q] = IF Learns(task', q)
                      THEN [Coming(nodes', task', q) EXCEPT !.parent = NewParent(task')]
                      ELSE Coming(nodes', task', q)
    <3>1. q = n \/ q \in DOMAIN nodes
      BY <2>1, <2>2
    <3>2. CASE q = n
      BY <2>1, <2>4, <2>6, <2>7, <3>2
    <3>3. CASE q \in DOMAIN nodes
      <4>. HIDE DEF n
      <4>. QED BY <2>1, <2>3, <2>5, <2>7, <3>3
    <3>. QED BY <3>1, <3>2, <3>3
  <2>. QED BY <2>1, <2>2, <2>8 DEF Target
<1>11. Fitting(nodes', root', task', m, h2, R2)
  BY <1>6, <1>9, <1>10 DEF Fitting, Whole, LeafWrite
<1>12. Shown(nodes', DOMAIN nodes') = Shown(nodes, DOMAIN nodes)
  BY <1>3, <1>7, <1>8, InnerAdded
<1>13. Seen(nodes', task') = Seen(nodes, task) \cup {} /\ ~ LeafWrite(task')
  BY <1>1, <1>9, <1>12 DEF Seen, LeafWrite, Raising
<1>. QED BY <1>3, <1>11, <1>13, FitNext

\* The parent, widened, is as ParentTakesIn has it.
LEMMA WidenedFits ==
    ASSUME ShapeInv, FitInv, Next, Raising, task.up # None
    PROVE  LET w == Widened(nodes[task.up])
           IN  /\ task.up \in DOMAIN nodes /\ CanRaise
               /\ \E h, R, i :
                     /\ Fit(nodes, root, h, R, task.page, task.right, task.sep)
                     /\ task.page # None /\ task.page # root /\ task.up = nodes[task.page].parent
                     /\ Wider(w, nodes[task.up], task.page, task.right, task.sep, i)
                     /\ TakesIn(nodes, h, R, task.page, task.right, task.up, w)
                     /\ Len(nodes[task.up].keys) <= MaxInternal
<1>. DEFINE w == Widened(nodes[task.up])
<1>1. PICK h, R :
         /\ Fit(nodes, root, h, R, task.page, task.right, task.sep)
         /\ task.up = nodes[task.page].parent
         /\ task \in Task /\ task # Idle /\ task.page \in DOMAIN nodes /\ task.page # None
         /\ task.page # root
         /\ \A p \in DOMAIN nodes : nodes[p] \in Node /\ nodes[p].kind \in {"leaf", "internal"}
  <2>. HIDE DEF None
  <2>. QED BY RaisingFits
<1>2. /\ task.right # task.page
      /\ \A p \in DOMAIN nodes : PageFits(nodes, root, h, R, task.page, task.right, p)
  <2>. HIDE DEF None
  <2>. QED BY <1>1, GapFacts
<1>3. task.up \in DOMAIN nodes /\ nodes[task.up].kind = "internal" /\ ChildOf(nodes, task.up, task.page)
  BY <1>1, <1>2 DEF PageFits, Hangs
<1>4. References(nodes[task.up])
  BY <1>3 DEF ChildOf, References
<1>5. CanRaise
  BY <1>3, <1>4 DEF CanRaise
<1>6. Len(nodes[task.up].children) = Len(nodes[task.up].keys) + 1
      /\ Len(nodes[task.up].keys) <= MaxInternal
  BY <1>2, <1>3 DEF PageFits, InnerFits
<1>7. Wider(w, nodes[task.up], task.page, task.right, task.sep, PlaceOf(nodes[task.up]))
  <2>1. nodes[task.up] \in Node
    BY <1>1, <1>3
  <2>. QED BY <1>1, <1>3, <1>4, <1>6, <2>1, WidenedFacts
<1>. HIDE DEF w
<1>8. TakesIn(nodes, h, R, task.page, task.right, task.up, w)
  <2>. HIDE DEF None
  <2>. QED BY <1>1, <1>7, ParentTakesIn
<1>. QED BY <1>1, <1>3, <1>5, <1>6, <1>7, <1>8 DEF w

\* The parent takes the right half in: the gap is closed.
LEMMA RaiseFits ==
    ASSUME ShapeInv, FitInv, Next, RaiseIntoParent
    PROVE  Steps({})
<1>. DEFINE w == Widened(nodes[task.up])
<1>1. /\ Raising /\ task.up # None /\ Len(w.keys) <= MaxInternal
      /\ Writes(nodes', nodes, task.up, w) /\ task' = Idle /\ root' = root
  BY DEF RaiseIntoParent, CanRaise, Writes, Ends
<1>2. PICK h, R, i :
         /\ Fit(nodes, root, h, R, task.page, task.right, task.sep)
         /\ task.page # None /\ task.page # root /\ task.up = nodes[task.page].parent
         /\ Wider(w, nodes[task.up], task.page, task.right, task.sep, i)
         /\ TakesIn(nodes, h, R, task.page, task.right, task.up, w)
         /\ task.up \in DOMAIN nodes
  <2>. HIDE DEF None
  <2>. QED BY <1>1, WidenedFits
<1>3. nodes \in Seq(Node) /\ Yields(nodes, task, Scanned)
  BY StepFrom
<1>. HIDE DEF w
<1>4. Whole(nodes', root, h, R)
  <2>. HIDE DEF None
  <2>. QED BY <1>1, <1>2, WidenFits
<1>5. Fitting(nodes', root', task', nodes', h, R)
  BY <1>1, <1>4, Settles
<1>6. Shown(nodes', DOMAIN nodes') = Shown(nodes, DOMAIN nodes)
  <2>1. w \in Node /\ w.kind = "internal" /\ nodes[task.up].kind = "internal"
    BY <1>2 DEF TakesIn, Roomy
  <2>2. /\ DOMAIN nodes' = DOMAIN nodes /\ nodes'[task.up] = w
        /\ \A q \in DOMAIN nodes : q # task.up => nodes'[q] = nodes[q]
    BY <1>1, <1>2, <1>3, <2>1, Updated
  <2>3. \A q \in DOMAIN nodes :
           SameBody(nodes'[q], nodes[q]) \/ (nodes'[q].kind # "leaf" /\ nodes[q].kind # "leaf")
    BY <2>1, <2>2 DEF SameBody
  <2>. QED BY <2>2, <2>3, ShownKept
<1>7. Seen(nodes', task') = Seen(nodes, task) \cup {} /\ ~ LeafWrite(task')
  BY <1>1, <1>6 DEF Seen, LeafWrite, Raising, Idle
<1>. QED BY <1>3, <1>5, <1>7, FitNext

\* A page of the tree is one that ValidateNode accepts.
LEMMA NodeIsValid ==
    ASSUME NEW m, NEW rt, NEW h, NEW R, NEW page, NEW right, NEW p, NEW n \in Node,
           PageFits(m, rt, h, R, page, right, p), SameBody(m[p], n), None \notin DOMAIN m
    PROVE  Valid(n)
<1>1. m[p].kind = n.kind /\ n.kind \in {"leaf", "internal"}
  BY DEF PageFits, SameBody
<1>2. CASE n.kind = "leaf"
  <2>1. m[p].entries = n.entries /\ Cardinality(DOMAIN m[p].entries) <= MaxLeaf
    BY <1>1, <1>2 DEF PageFits, LeafFits, SameBody
  <2>. QED BY <1>2, <2>1 DEF Valid
<1>3. CASE n.kind = "internal"
  <2>1. m[p].keys = n.keys /\ m[p].children = n.children /\ InnerFits(m, h, R, page, right, p)
    BY <1>1, <1>3 DEF PageFits, SameBody
  <2>2. /\ Len(n.keys) <= MaxInternal /\ Len(n.children) = Len(n.keys) + 1 /\ Ascending(n.keys)
        /\ \A i \in DOMAIN n.children : n.children[i] \in DOMAIN m
    BY <2>1 DEF InnerFits, ChildFits
  <2>3. n.keys \in Seq(Keys)
    BY <1>3, NodeFields
  <2>4. Sorted(n.keys)
    BY <2>2, <2>3 DEF Sorted, Ascending
  <2>. QED BY <1>3, <2>2, <2>4 DEF Valid
<1>. QED BY <1>1, <1>2, <1>3

\* So are the parent that took the right half in, and a half of it.
LEMMA InnerIsValid ==
    ASSUME NEW D, None \notin D, NEW n \in Node, n.kind = "internal", Len(n.keys) <= MaxInternal,
           Len(n.children) = Len(n.keys) + 1, Ascending(n.keys),
           \A j \in DOMAIN n.children : n.children[j] \in D
    PROVE  Valid(n)
<1>1. n.keys \in Seq(Keys)
  BY NodeFields
<1>2. Sorted(n.keys)
  BY <1>1 DEF Sorted, Ascending
<1>. QED BY <1>2 DEF Valid

\* The file that a split of page p leads to, with the halves lo and hi.
CutFile(ns, p, lo, hi) ==
    [q \in 1 .. Len(ns) + 1 |->
        IF q = Len(ns) + 1 THEN hi
        ELSE IF q = p THEN lo
        ELSE IF Holds(hi, q) THEN [ns[q] EXCEPT !.parent = Len(ns) + 1] ELSE ns[q]]

\* It is that file.
LEMMA CutFileFacts ==
    ASSUME NEW ns \in Seq(Node), NEW p \in DOMAIN ns, NEW lo \in Node, NEW hi \in Node,
           Len(ns) + 1 \in PageIds,
           \A q \in DOMAIN ns : ns[q] \in Node /\ ns[q].kind \in {"leaf", "internal"}
    PROVE  InnerCut(CutFile(ns, p, lo, hi), ns, p, lo, hi)
<1>. DEFINE m == CutFile(ns, p, lo, hi)
            n == Len(ns) + 1
<1>1. Len(ns) \in Nat /\ DOMAIN ns = 1 .. Len(ns) /\ n \notin DOMAIN ns
  OBVIOUS
<1>2. m = [q \in 1 .. n |-> IF q = n THEN hi ELSE IF q = p THEN lo
              ELSE IF Holds(hi, q) THEN [ns[q] EXCEPT !.parent = n] ELSE ns[q]]
  BY DEF CutFile
<1>. HIDE DEF m
<1>3. m[n] = hi /\ m[p] = lo
  BY <1>1, <1>2
<1>4. ASSUME NEW q \in DOMAIN ns, q # p
      PROVE  /\ SameBody(m[q], ns[q]) /\ m[q] \in Node
             /\ m[q].parent = IF Holds(hi, q) THEN n ELSE ns[q].parent
  <2>1. q \in 1 .. n /\ q # n
    BY <1>1
  <2>2. m[q] = IF Holds(hi, q) THEN [ns[q] EXCEPT !.parent = n] ELSE ns[q]
    BY <1>2, <1>4, <2>1
  <2>3. ns[q] \in Node /\ ns[q].kind # "blank" /\ n \in PageIds
    OBVIOUS
  <2>4. LET x == [ns[q] EXCEPT !.parent = n]
        IN  x \in Node /\ x.parent = n /\ SameBody(x, ns[q])
    <3>. HIDE DEF n
    <3>. QED BY <2>3, Reparented DEF SameBody
  <2>5. SameBody(ns[q], ns[q])
    BY DEF SameBody
  <2>. QED BY <2>2, <2>3, <2>4, <2>5
<1>5. m \in Seq(Node) /\ Len(m) = n
  <2>1. DOMAIN m = 1 .. n /\ n \in Nat
    BY <1>1, <1>2
  <2>2. \A q \in 1 .. n : m[q] \in Node
    <3>1. \A q \in 1 .. n : q = n \/ q \in DOMAIN ns
      BY <1>1
    <3>. QED BY <1>3, <1>4, <3>1
  <2>3. m = [q \in 1 .. n |-> m[q]]
    BY <1>2
  <2>4. m \in [1 .. n -> Node]
    BY <2>2, <2>3
  <2>. QED BY <2>1, <2>4, <1>1
<1>. QED BY <1>3, <1>4, <1>5 DEF InnerCut, m

\* It is where the call that goes on with the parent leads.
LEMMA CutIsTarget ==
    ASSUME NEW ns \in Seq(Node), NEW p \in DOMAIN ns, NEW lo \in Node, NEW hi \in Node,
           Len(ns) + 1 \in PageIds,
           \A q \in DOMAIN ns : ns[q] \in Node /\ ns[q].kind \in {"leaf", "internal"},
           ~ Holds(hi, p), ~ Holds(hi, Len(ns) + 1),
           NEW ms, Adds(ms, ns, hi),
           NEW u, u.phase = "write", u.page = p, u.node = lo, u.right = Len(ns) + 1,
           u.kids = hi.children
    PROVE  Target(CutFile(ns, p, lo, hi), ms, u)
<1>. DEFINE m == CutFile(ns, p, lo, hi)
            n == Len(ns) + 1
<1>1. /\ DOMAIN ns = 1 .. Len(ns) /\ Len(ns) \in Nat /\ Len(ms) = n
      /\ ms[n] = hi /\ \A q \in DOMAIN ns : ms[q] = ns[q]
  BY Appended
<1>2. m \in Seq(Node) /\ Len(m) = n
  BY CutFileFacts DEF InnerCut
<1>3. \A q \in 1 .. n :
         m[q] = IF q = n THEN hi ELSE IF q = p THEN lo
                ELSE IF Holds(hi, q) THEN [ns[q] EXCEPT !.parent = n] ELSE ns[q]
  BY DEF CutFile
<1>. HIDE DEF m
<1>4. \A q : Learns(u, q) <=> Holds(hi, q)
  BY DEF Learns, Holds
<1>5. NewParent(u) = n
  BY DEF NewParent
<1>6. \A q : Coming(ms, u, q) = IF q = p THEN lo ELSE ms[q]
  BY DEF Coming
<1>7. p # n
  BY <1>1
<1>8. ASSUME NEW q \in DOMAIN m
      PROVE  m[q] = IF Learns(u, q) THEN [Coming(ms, u, q) EXCEPT !.parent = NewParent(u)]
                    ELSE Coming(ms, u, q)
  <2>1. q \in 1 .. n /\ (q = n \/ q \in DOMAIN ns)
    BY <1>1, <1>2
  <2>2. CASE q = n
    BY <1>1, <1>3, <1>4, <1>6, <1>7, <2>1, <2>2
  <2>3. CASE q = p
    BY <1>3, <1>4, <1>6, <1>7, <2>1, <2>3
  <2>4. CASE q # n /\ q # p
    <3>1. ms[q] = ns[q]
      BY <1>1, <2>1, <2>4
    <3>2. m[q] = IF Holds(hi, q) THEN [ns[q] EXCEPT !.parent = n] ELSE ns[q]
      BY <1>3, <2>1, <2>4
    <3>. HIDE DEF n
    <3>. QED BY <1>4, <1>5, <1>6, <2>4, <3>1, <3>2
  <2>. QED BY <2>2, <2>3, <2>4
<1>. QED BY <1>1, <1>2, <1>8 DEF Target, m

\* The parent overflows: the call goes on with its halves.
LEMMA SplitParentFits ==
    ASSUME ShapeInv, FitInv, Next, SplitParent
    PROVE  Steps({}) /\ task' # Idle
<1>. DEFINE w == Widened(nodes[task.up])
            l == Len(w.keys)
            mid == l \div 2 + 1
            lo == LowHalf(w, mid)
            hi == UpperHalf(w, mid)
            n == Len(nodes) + 1
<1>1. /\ Raising /\ task.up # None /\ l > MaxInternal /\ NewPageFits /\ root' = root
      /\ Valid(hi) => /\ Adds(nodes', nodes, hi)
                      /\ Resplit(task', task, task.up, lo, n, w.keys[mid], w.parent, hi.children)
  BY DEF SplitParent, CanRaise, Adds, Resplit, LowHalf, UpperHalf, Internal
<1>2. PICK h, R, i :
         /\ Fit(nodes, root, h, R, task.page, task.right, task.sep)
         /\ task.page # None /\ task.page # root /\ task.up = nodes[task.page].parent
         /\ Wider(w, nodes[task.up], task.page, task.right, task.sep, i)
         /\ TakesIn(nodes, h, R, task.page, task.right, task.up, w)
         /\ task.up \in DOMAIN nodes /\ Len(nodes[task.up].keys) <= MaxInternal
  <2>. HIDE DEF None
  <2>. QED BY <1>1, WidenedFits
<1>3. /\ TypeOK /\ nodes \in Seq(Node) /\ Yields(nodes, task, Scanned) /\ task \in Task
      /\ task # Idle
      /\ \A p \in DOMAIN nodes : nodes[p] \in Node /\ nodes[p].kind \in {"leaf", "internal"}
  <2>1. TypeOK /\ nodes \in Seq(Node) /\ Yields(nodes, task, Scanned)
    BY StepFrom
  <2>2. task \in Task /\ task # Idle
        /\ \A p \in DOMAIN nodes : nodes[p] \in Node /\ nodes[p].kind \in {"leaf", "internal"}
    BY <1>1, RaisingFits
  <2>. QED BY <2>1, <2>2
<1>4. /\ n \in PageIds /\ Len(nodes) \in Nat /\ DOMAIN nodes = 1 .. Len(nodes)
      /\ task.up \in PageIds
  BY <1>1, <1>2, <1>3, PageFacts
<1>. HIDE DEF w
<1>5. /\ w \in Node /\ w.kind = "internal" /\ w.parent = nodes[task.up].parent
      /\ Len(w.children) = Len(w.keys) + 1 /\ Len(nodes[task.up].keys) \in Nat
      /\ l = Len(nodes[task.up].keys) + 1 /\ Roomy(nodes, h, R, task.up, w)
  BY <1>2 DEF TakesIn, Roomy
<1>6. l = MaxInternal + 1 /\ mid \in 2 .. l /\ MaxInternal \in Nat /\ mid \in Nat
  <2>1. l = MaxInternal + 1 /\ MaxInternal \in Nat /\ MaxInternal >= 1
    BY <1>1, <1>2, <1>5, TreeConstants
  <2>. HIDE DEF l
  <2>. QED BY <2>1
<1>7. w.parent \in PageIds
  BY <1>5, NodeFields
<1>. HIDE DEF mid
<1>8. /\ lo \in Node /\ hi \in Node /\ lo.kind = "internal" /\ hi.kind = "internal"
      /\ lo.parent = w.parent /\ Len(hi.keys) = l - mid /\ w.keys[mid] \in Keys
      /\ DOMAIN hi.children = 1 .. l - mid + 1
  BY <1>5, <1>6, InnerHalves
<1>9. HalfOf(nodes, h, R, task.up, hi, From(R[task.up], w.keys[mid]))
  <2>1. R[task.up] \subseteq Keys
    <3>1. R \in [DOMAIN nodes -> SUBSET Keys]
      BY <1>2 DEF Fit
    <3>. QED BY <1>2, <3>1
  <2>. QED BY <1>5, <1>6, <2>1, HalvesOfRoomy
<1>. HIDE DEF lo, hi
<1>10. hi.children \in Seq(PageIds)
  BY <1>8, NodeFields
<1>11. None \notin DOMAIN nodes /\ h \in [DOMAIN nodes -> Nat]
  BY <1>2, <1>4 DEF Fit, None
<1>12. Valid(hi)
  <2>1. Len(hi.keys) <= MaxInternal
    BY <1>6, <1>8
  <2>2. /\ Len(hi.children) = Len(hi.keys) + 1 /\ Ascending(hi.keys)
        /\ \A j \in DOMAIN hi.children : hi.children[j] \in DOMAIN nodes
    BY <1>9 DEF HalfOf
  <2>. HIDE DEF None
  <2>. QED BY <1>8, <1>11, <2>1, <2>2, InnerIsValid
<1>13. Adds(nodes', nodes, hi)
       /\ Resplit(task', task, task.up, lo, n, w.keys[mid], w.parent, hi.children)
  BY <1>1, <1>12
<1>14. /\ task'.phase = "write" /\ task'.page = task.up /\ task'.node = lo
       /\ task'.right = n /\ task'.sep = w.keys[mid] /\ task'.up = w.parent
       /\ task'.kids = hi.children
  <2>. HIDE DEF n, l
  <2>. QED BY <1>3, <1>4, <1>7, <1>8, <1>10, <1>13, TaskResplit
<1>. DEFINE m == CutFile(nodes, task.up, lo, hi)
<1>15. InnerCut(m, nodes, task.up, lo, hi)
  <2>1. n = Len(nodes) + 1
    OBVIOUS
  <2>. QED BY <1>2, <1>3, <1>4, <1>8, CutFileFacts
<1>16. ~ Holds(hi, task.up) /\ ~ Holds(hi, n)
  <2>1. \A c : Holds(hi, c) => c \in DOMAIN nodes /\ h[c] = h[task.up] - 1
    BY <1>9 DEF HalfOf, Holds
  <2>2. h[task.up] \in Nat
    BY <1>2, <1>11
  <2>3. n \notin DOMAIN nodes
    BY <1>4
  <2>4. h[task.up] # h[task.up] - 1
    BY <2>2
  <2>. QED BY <2>1, <2>3, <2>4
<1>17. Target(m, nodes', task')
  BY <1>2, <1>3, <1>4, <1>8, <1>13, <1>14, <1>16, CutIsTarget
<1>. HIDE DEF m
<1>18. PICK h2, R2 : Fit(m, root, h2, R2, task.up, n, w.keys[mid])
  <2>1. InnerCut(m, nodes, task.up, LowHalf(w, mid), UpperHalf(w, mid))
    BY <1>15 DEF lo, hi
  <2>2. mid = Len(w.keys) \div 2 + 1 /\ Len(w.keys) = MaxInternal + 1
    BY <1>6 DEF mid
  <2>. HIDE DEF None
  <2>. QED BY <1>2, <2>1, <2>2, CutParentFits
<1>19. m[task.up].parent = w.parent
  BY <1>8, <1>15 DEF InnerCut
<1>20. ~ LeafWrite(task')
  BY <1>8, <1>14 DEF LeafWrite
<1>21. Fitting(nodes', root', task', m, h2, R2)
  <2>. HIDE DEF n
  <2>. QED BY <1>1, <1>14, <1>17, <1>18, <1>19, <1>20 DEF Fitting
<1>22. Shown(nodes', DOMAIN nodes') = Shown(nodes, DOMAIN nodes)
  BY <1>3, <1>8, <1>13, InnerAdded
<1>23. Seen(nodes', task') = Seen(nodes, task) \cup {}
  BY <1>1, <1>20, <1>22 DEF Seen, LeafWrite, Raising
<1>24. Steps({})
  BY <1>3, <1>20, <1>21, <1>23, FitNext
<1>25. task' # Idle
  BY <1>14 DEF Idle
<1>. QED BY <1>24, <1>25

\* A full leaf takes the entry in and splits: what a scan yields waits for the
\* left half.
LEMMA SplitLeafStep ==
    ASSUME ShapeInv, FitInv, Next, NEW key \in Keys, NEW rid \in Rids, SplitLeaf(key, rid)
    PROVE  Steps({}) /\ task' # Idle
<1>1. PICK m0, h, R : Fitting(nodes, root, Idle, m0, h, R)
  BY StepFrom DEF SplitLeaf
<1>2. nodes \in Seq(Node) /\ FiniteLeaves(nodes) /\ Yields(nodes, task, Scanned) /\ TypeOK
  BY StepFrom
<1>3. Whole(nodes, root, h, R)
  BY <1>1, <1>2, SettledIs
<1>. DEFINE p == LeafFor(key)
            old == nodes[p].entries
            new == WithEntry(old, key, rid)
            low == LeftHalf(new)
            high == DOMAIN new \ low
            n == Len(nodes) + 1
            node == Leaf(nodes[p].parent, n, OnKeys(new, low))
            rightNode == RightLeaf(nodes[p], OnKeys(new, high))
            sep == Separator(low, high)
<1>4. /\ p \in DOMAIN nodes /\ nodes[p].kind = "leaf" /\ key \in R[p] /\ R[p] \subseteq Keys
      /\ LeafFits(nodes, R, p)
      /\ key \notin DOMAIN old => Unseen(key, Shown(nodes, DOMAIN nodes))
  BY <1>3, LeafOfKey
<1>5. /\ key \notin DOMAIN old /\ Cardinality(DOMAIN new) > MaxLeaf /\ NewPageFits
      /\ Adds(nodes', nodes, rightNode)
      /\ task' = [phase |-> "write", key |-> key, rid |-> rid, page |-> p, node |-> node,
                  right |-> n, sep |-> sep, up |-> nodes[p].parent, kids |-> << >>]
      /\ task = Idle /\ root' = root
  BY DEF SplitLeaf, Adds
<1>. HIDE DEF p
<1>6. nodes[p] \in Node /\ IsFiniteSet(DOMAIN old)
  BY <1>2, <1>4 DEF FiniteLeaves
<1>7. old \in Entries /\ nodes[p].parent \in PageIds /\ nodes[p].next \in PageIds
  BY <1>4, <1>6, NodeFields
<1>8. DOMAIN old \subseteq R[p] /\ Cardinality(DOMAIN old) <= MaxLeaf
  BY <1>4 DEF LeafFits
<1>. HIDE DEF old
<1>9. /\ new \in Entries /\ DOMAIN new = DOMAIN old \cup {key} /\ IsFiniteSet(DOMAIN new)
      /\ Pairs(new) = Pairs(old) \cup {<<key, rid>>}
  <2>1. new \in Entries /\ DOMAIN new = DOMAIN old \cup {key} /\ IsFiniteSet(DOMAIN new)
    BY <1>6, <1>7, WithEntryFacts DEF old
  <2>2. Pairs(new) = Pairs(old) \cup {<<key, rid>>}
    BY <1>5, <1>6, <1>7, PairsWithEntry DEF old
  <2>. QED BY <2>1, <2>2
<1>10. Cardinality(DOMAIN new) = MaxLeaf + 1
  <2>1. Cardinality(DOMAIN old \cup {key}) = Cardinality(DOMAIN old) + 1
    BY <1>5, <1>6, FS_AddElement
  <2>2. Cardinality(DOMAIN old) \in Nat /\ MaxLeaf \in Nat
    BY <1>6, FS_CardinalityType, TreeConstants
  <2>3. Cardinality(DOMAIN new) = Cardinality(DOMAIN old) + 1
    BY <1>9, <2>1
  <2>. HIDE DEF new
  <2>. QED BY <1>5, <1>8, <2>2, <2>3
<1>. HIDE DEF new
<1>11. DOMAIN new \subseteq R[p] /\ DOMAIN new \subseteq Keys
  BY <1>4, <1>8, <1>9
<1>12. /\ low \subseteq DOMAIN new /\ IsFiniteSet(low) /\ IsFiniteSet(high)
       /\ Cardinality(low) <= MaxLeaf /\ Cardinality(high) <= MaxLeaf
       /\ 2 * Cardinality(low) >= MaxLeaf /\ 2 * Cardinality(high) >= MaxLeaf
       /\ low # {} /\ sep \in high
       /\ \A k \in low : k < sep
       /\ \A k \in high : sep <= k
  BY <1>9, <1>10, <1>11, LeafHalves DEF LeftHalf
<1>13. /\ OnKeys(new, low) \in Entries /\ DOMAIN OnKeys(new, low) = low
       /\ OnKeys(new, high) \in Entries /\ DOMAIN OnKeys(new, high) = high
       /\ Pairs(OnKeys(new, low)) \cup Pairs(OnKeys(new, high)) = Pairs(new)
  <2>1. low \in SUBSET DOMAIN new /\ high \in SUBSET DOMAIN new
    BY <1>12
  <2>2. Pairs(OnKeys(new, low)) \cup Pairs(OnKeys(new, high)) = Pairs(new)
    <3>. HIDE DEF low
    <3>. QED BY <1>9, <2>1, PairsOfHalves
  <2>. HIDE DEF low, high
  <2>. QED BY <1>9, <2>1, <2>2, OnKeysFacts
<1>14. high \subseteq DOMAIN new
  OBVIOUS
<1>. HIDE DEF low, high, sep
<1>15. n \in PageIds /\ Len(nodes) \in Nat /\ DOMAIN nodes = 1 .. Len(nodes)
  BY <1>2, <1>5, PageFacts
<1>16. /\ node \in Node /\ node.kind = "leaf" /\ node.entries = OnKeys(new, low)
       /\ rightNode \in Node /\ rightNode.kind = "leaf" /\ rightNode.next = nodes[p].next
       /\ node.parent = nodes[p].parent
       /\ rightNode.entries = OnKeys(new, high)
       /\ rightNode = Leaf(nodes[p].parent, nodes[p].next, OnKeys(new, high))
  BY <1>7, <1>13, <1>15, LeafNode DEF RightLeaf
<1>17. /\ task'.phase = "write" /\ task'.key = key /\ task'.rid = rid
       /\ task'.page = p /\ task'.node = node /\ task'.right = n /\ task'.sep = sep
       /\ task'.up = nodes[p].parent /\ task'.kids = << >>
  BY <1>5
<1>. DEFINE m == [nodes' EXCEPT ![p] = node]
<1>18. /\ nodes' \in Seq(Node) /\ Len(nodes') = n /\ DOMAIN nodes' = 1 .. n
       /\ nodes'[n] = rightNode
       /\ \A q \in DOMAIN nodes : q \in DOMAIN nodes' /\ nodes'[q] = nodes[q]
  <2>. HIDE DEF rightNode
  <2>. QED BY <1>2, <1>5, <1>16, Appended
<1>19. Writes(m, nodes', p, node) /\ p \in DOMAIN nodes'
  BY <1>4, <1>18 DEF Writes
<1>20. p # n /\ n \notin DOMAIN nodes
  BY <1>4, <1>15
<1>. HIDE DEF m
<1>21. /\ m \in Seq(Node) /\ Len(m) = n /\ m[p] = node /\ DOMAIN m = DOMAIN nodes'
       /\ \A q \in DOMAIN nodes' : q # p => m[q] = nodes'[q]
  <2>1. node \in Node /\ nodes' \in Seq(Node) /\ p \in DOMAIN nodes' /\ Writes(m, nodes', p, node)
    BY <1>16, <1>18, <1>19
  <2>. DEFINE ns == nodes'
  <2>2. /\ m \in Seq(Node) /\ Len(m) = Len(ns) /\ DOMAIN m = DOMAIN ns /\ m[p] = node
        /\ \A q \in DOMAIN ns : q # p => m[q] = ns[q]
    <3>. HIDE DEF node, ns
    <3>. QED BY <2>1, Updated DEF ns
  <2>. QED BY <1>18, <2>2
<1>22. LeafCut(m, nodes, p, OnKeys(new, low), OnKeys(new, high))
  <2>1. m[n] = rightNode
    BY <1>15, <1>18, <1>20, <1>21
  <2>2. \A q \in DOMAIN nodes : q # p => m[q] = nodes[q]
    BY <1>18, <1>21
  <2>. QED BY <1>16, <1>21, <2>1, <2>2 DEF LeafCut
<1>23. PICK h2, R2 : Fit(m, root, h2, R2, p, n, sep)
  <2>1. sep \in R[p] /\ low \subseteq R[p] /\ high \subseteq R[p]
    BY <1>11, <1>12, <1>14
  <2>. DEFINE lo == OnKeys(new, low)
              hi == OnKeys(new, high)
  <2>2. /\ lo \in Entries /\ DOMAIN lo = low /\ hi \in Entries /\ DOMAIN hi = high
        /\ LeafCut(m, nodes, p, lo, hi)
    BY <1>13, <1>22
  <2>. HIDE DEF lo, hi
  <2>. QED BY <1>3, <1>4, <1>12, <2>1, <2>2, SplitLeafFits
<1>24. Target(m, nodes', task')
  <2>1. \A q : ~ Learns(task', q)
    <3>1. DOMAIN << >> = {}
      OBVIOUS
    <3>. QED BY <1>17, <3>1 DEF Learns
  <2>2. \A q \in DOMAIN m : m[q] = Coming(nodes', task', q)
    BY <1>17, <1>21 DEF Coming
  <2>. QED BY <1>18, <1>21, <2>1, <2>2 DEF Target
<1>25. Halves(m, nodes', task')
  <2>1. nodes'[p] = nodes[p] /\ m[p] = node /\ m[n] = rightNode
    BY <1>4, <1>15, <1>18, <1>20, <1>21
  <2>2. Pairs(m[p].entries) \cup Pairs(m[n].entries) = Pairs(nodes'[p].entries) \cup {<<key, rid>>}
    BY <1>9, <1>13, <1>16, <2>1 DEF old
  <2>3. key \notin DOMAIN nodes'[p].entries
    BY <1>5, <2>1 DEF old
  <2>4. nodes'[p].next = m[n].next /\ nodes'[p].kind = "leaf" /\ m[p].kind = "leaf" /\ m[n].kind = "leaf"
    BY <1>4, <1>16, <2>1
  <2>. QED BY <1>17, <2>2, <2>3, <2>4 DEF Halves
<1>26. Fitting(nodes', root', task', m, h2, R2)
  <2>1. m[p].parent = nodes[p].parent
    BY <1>16, <1>21
  <2>2. Fit(m, root', h2, R2, task'.page, task'.right, task'.sep)
    BY <1>5, <1>17, <1>23
  <2>. QED BY <1>17, <1>24, <1>25, <2>1, <2>2 DEF Fitting
<1>27. LeafWrite(task')
  BY <1>16, <1>17 DEF LeafWrite
<1>28. Seen(nodes', task') = Shown(nodes, DOMAIN nodes)
  <2>1. DOMAIN nodes' \ {n} = DOMAIN nodes
    BY <1>15, <1>18
  <2>2. Shown(nodes', DOMAIN nodes) = Shown(nodes, DOMAIN nodes)
    <3>1. \A q \in DOMAIN nodes : nodes'[q] = nodes[q]
      BY <1>18
    <3>. QED BY <3>1, ShownFrame
  <2>. QED BY <1>17, <1>27, <2>1, <2>2 DEF Seen
<1>29. Seen(nodes, task) = Shown(nodes, DOMAIN nodes)
  BY <1>5 DEF Seen, LeafWrite, Idle
<1>30. Seen(nodes', task') = Seen(nodes, task) \cup {}
  BY <1>28, <1>29
<1>31. Unseen(task'.key, Seen(nodes', task'))
  BY <1>4, <1>5, <1>17, <1>28 DEF old
<1>32. Steps({})
  BY <1>2, <1>26, <1>30, <1>31, FitNext
<1>. QED BY <1>17, <1>32 DEF Idle

-----------------------------------------------------------------------------
(* The theorems. *)

\* The file has a page left whenever a split above the leaves, which are split
\* already, comes to need one.
RoomForSplits ==
    Raising /\ (task.up = None \/ (CanRaise /\ Len(Widened(nodes[task.up]).keys) > MaxInternal))
        => NewPageFits

\* While no page access fails and there is room, a call that is in progress has
\* no reason to give up.
LEMMA NoGiveUp ==
    ASSUME MaxFaults = 0, ShapeInv, FitInv, Next, RoomForSplits, GiveUp
    PROVE  FALSE
<1>1. PICK m, h, R : Fitting(nodes, root, task, m, h, R)
  BY StepFrom
<1>2. TypeOK /\ nodes \in Seq(Node) /\ task \in Task
  BY StepFrom
<1>3. CanFail = {}
  <2>1. faults \in 0 .. 0
    BY <1>2 DEF TypeOK
  <2>2. ~ (faults < MaxFaults)
    BY <2>1
  <2>. QED BY <2>2 DEF CanFail
<1>4. ASSUME task.phase = "write" PROVE Valid(task.node)
  <2>1. task # Idle
    BY <1>4 DEF Idle
  <2>2. task.node \in Node /\ task.page \in DOMAIN nodes
    BY <1>2, <1>4, <2>1, TaskFields, ShapeGives
  <2>3. Target(m, nodes, task) /\ Fit(m, root, h, R, task.page, task.right, task.sep)
    BY <1>1, <1>4 DEF Fitting
  <2>4. \A p \in DOMAIN m : PageFits(m, root, h, R, task.page, task.right, p)
    BY <2>3 DEF Fit
  <2>5. DOMAIN m = DOMAIN nodes /\ \A p \in DOMAIN m : SameBody(m[p], Coming(nodes, task, p))
    <3>1. \A p \in DOMAIN m : m[p].kind # "blank"
      BY <2>4 DEF PageFits
    <3>. QED BY <1>2, <2>3, <3>1, TargetFacts
  <2>6. SameBody(m[task.page], task.node) /\ task.page \in DOMAIN m
    BY <1>4, <2>2, <2>5 DEF Coming
  <2>7. None \notin DOMAIN m
    BY <1>2, <2>5 DEF None
  <2>. HIDE DEF None
  <2>. QED BY <2>2, <2>4, <2>6, <2>7, NodeIsValid
<1>5. ASSUME Raising, task.up # None
      PROVE  CanRaise /\ (Len(Widened(nodes[task.up]).keys) <= MaxInternal => Valid(Widened(nodes[task.up])))
  <2>. DEFINE w == Widened(nodes[task.up])
  <2>1. PICK hh, RR : TakesIn(nodes, hh, RR, task.page, task.right, task.up, w) /\ CanRaise
    BY <1>5, WidenedFits
  <2>2. None \notin DOMAIN nodes
    BY <1>2 DEF None
  <2>. HIDE DEF w, None
  <2>3. /\ w \in Node /\ w.kind = "internal" /\ Len(w.children) = Len(w.keys) + 1 /\ Ascending(w.keys)
        /\ \A j \in DOMAIN w.children : w.children[j] \in DOMAIN nodes
    BY <2>1 DEF TakesIn, Roomy
  <2>4. Len(w.keys) <= MaxInternal => Valid(w)
    BY <2>2, <2>3, InnerIsValid
  <2>. QED BY <2>1, <2>4 DEF w
<1>6. ~ (/\ Raising /\ ~ NewPageFits
         /\ task.up = None \/ (CanRaise /\ Len(Widened(nodes[task.up]).keys) > MaxInternal))
  BY Zenon DEF RoomForSplits
<1>7. Refusals = {}
  BY <1>3, <1>4, <1>5, <1>6, Zenon DEF Refusals, CanRaise
<1>. QED BY <1>7 DEF GiveUp

\* The tree Create writes: one leaf, whose range is all keys.
LEMMA InitFit == Init => FitInv
<1>. SUFFICES ASSUME Init PROVE FitInv
  OBVIOUS
<1>. DEFINE leaf == Leaf(None, None, << >>)
            h == [p \in {1} |-> 0]
            R == [p \in {1} |-> Keys]
<1>1. None \in PageIds /\ None # 1
  BY TreeConstants DEF PageIds, None
<1>2. /\ leaf \in Node /\ leaf.kind = "leaf" /\ leaf.parent = None /\ leaf.next = None
      /\ leaf.entries = << >>
  BY <1>1, NoEntries, LeafNode
<1>. HIDE DEF leaf
<1>3. nodes = << leaf >> /\ root = 1 /\ task = Idle
  BY DEF Init, leaf
<1>4. nodes \in Seq(Node) /\ Len(nodes) = 1 /\ DOMAIN nodes = {1} /\ nodes[1] = leaf
  BY <1>2, <1>3
<1>5. LeafFits(nodes, R, 1)
  <2>1. DOMAIN nodes[1].entries = {} /\ Cardinality({}) = 0 /\ IsFiniteSet({}) /\ MaxLeaf \in Nat
    BY <1>2, <1>4, NoEntries, FS_EmptySet, TreeConstants
  <2>2. Cardinality(DOMAIN nodes[1].entries) <= MaxLeaf
    BY <2>1
  <2>. QED BY <1>2, <1>4, <2>1, <2>2 DEF LeafFits
<1>6. \A p \in DOMAIN nodes : PageFits(nodes, root, h, R, None, None, p)
  BY <1>2, <1>3, <1>4, <1>5 DEF PageFits
<1>7. Whole(nodes, root, h, R)
  <2>1. h \in [DOMAIN nodes -> Nat] /\ R \in [DOMAIN nodes -> SUBSET Keys] /\ h[1] = 0 /\ R[1] = Keys
    BY <1>4
  <2>2. Cover(R, None, None, root) = Keys
    BY <1>1, <1>3, <2>1 DEF Cover
  <2>. QED BY <1>2, <1>3, <1>4, <1>6, <2>1, <2>2 DEF Whole, Fit
<1>8. Fitting(nodes, root, task, nodes, h, R)
  BY <1>3, <1>7, Settles
<1>9. Yields(nodes, task, Scanned)
  <2>1. Scanned \subseteq Seen(nodes, task)
    BY InitShape, ShapeBounds DEF Bounded
  <2>2. ~ LeafWrite(task) /\ task.phase = "idle"
    BY <1>3 DEF LeafWrite, Idle
  <2>3. Shown(nodes, DOMAIN nodes) = {}
    <3>1. \A q \in Leaves(nodes, DOMAIN nodes) : Pairs(nodes[q].entries) = {}
      BY <1>2, <1>4, NoEntries DEF Leaves, Pairs
    <3>. QED BY <3>1 DEF Shown
  <2>. QED BY <2>1, <2>2, <2>3 DEF Yields, Seen
<1>. QED BY <1>8, <1>9 DEF FitInv

\* Every step keeps the invariant.
LEMMA StepFits ==
    ASSUME MaxFaults = 0, ShapeInv, FitInv, RoomForSplits, [Next]_vars
    PROVE  FitInv'
<1>1. CASE UNCHANGED vars
  <2>1. nodes' = nodes /\ root' = root /\ task' = task
    BY <1>1 DEF vars
  <2>2. Scanned' = Scanned
    BY <2>1 DEF Scanned, Scan, ScanOrder, Descend
  <2>. QED BY <2>1, <2>2 DEF FitInv
<1>2. CASE Next
  <2>1. ASSUME NEW key \in Keys, NEW rid \in Rids, InsertRefused(key, rid) PROVE FitInv'
    BY <1>2, <2>1, InsertRefusedFits DEF Steps
  <2>2. ASSUME NEW key \in Keys, NEW rid \in Rids, InsertIntoLeaf(key, rid) PROVE FitInv'
    BY <1>2, <2>2, InsertIntoLeafFits DEF Steps
  <2>3. ASSUME NEW key \in Keys, NEW rid \in Rids, SplitLeaf(key, rid) PROVE FitInv'
    BY <1>2, <2>3, SplitLeafStep DEF Steps
  <2>4. CASE WriteLeft
    BY <1>2, <2>4, WriteLeftFits DEF Steps
  <2>5. CASE Adopt
    BY <1>2, <2>5, AdoptFits DEF Steps
  <2>6. CASE GrowRoot
    BY <1>2, <2>6, GrowRootFits DEF Steps
  <2>7. CASE LearnRoot
    BY <1>2, <2>7, LearnRootFits DEF Steps
  <2>8. CASE RaiseIntoParent
    BY <1>2, <2>8, RaiseFits DEF Steps
  <2>9. CASE SplitParent
    BY <1>2, <2>9, SplitParentFits DEF Steps
  <2>10. ~ GiveUp
    BY <1>2, NoGiveUp
  <2>. QED BY <1>2, <2>1, <2>2, <2>3, <2>4, <2>5, <2>6, <2>7, <2>8, <2>9, <2>10 DEF Next, Continue
<1>. QED BY <1>1, <1>2

\* While no page access fails and the file has room, the pages of the index are
\* those of one tree, each with its range of keys, but for the gap that the call
\* in progress is about to close.
THEOREM FitInvariant == ASSUME MaxFaults = 0 PROVE Spec /\ []RoomForSplits => []FitInv
<1>1. ShapeInv /\ FitInv /\ RoomForSplits /\ [Next]_vars => FitInv'
  BY StepFits
<1>. QED BY InitFit, <1>1, ShapeInvariant, PTL DEF Spec

\* Between calls the tree has one depth, its nodes are half full, and parents and
\* children name each other, for any number of keys and nodes of any size.
THEOREM StaysWellFormed == ASSUME MaxFaults = 0 PROVE Spec /\ []RoomForSplits => []WellFormed
<1>1. ShapeInv /\ FitInv => WellFormed
  BY FitShows
<1>. QED BY <1>1, FitInvariant, ShapeInvariant, PTL

\* ScanAll yields the keys in ascending order in the middle of every split, and
\* between calls the entries that Search finds.
THEOREM SearchAgreesWithScan ==
    ASSUME MaxFaults = 0 PROVE Spec /\ []RoomForSplits => []SearchMatchesScan
<1>1. ShapeInv /\ FitInv => SearchMatchesScan
  BY FitShows
<1>. QED BY <1>1, FitInvariant, ShapeInvariant, PTL

-----------------------------------------------------------------------------
(* The unique index. *)

\* The map and the pending entry that Index makes of what a scan yields.
MapOf(s) == [key \in {e[1] : e \in s} |-> (CHOOSE e \in s : e[1] = key)[2]]
PendingOf(t, s) == IF t = Idle THEN {} ELSE {e \in s : e[1] = t.key}
Plus(f, k, r) == [j \in DOMAIN f \cup {k} |-> IF j = k THEN r ELSE f[j]]
Single(s) == \A e, f \in s : e[1] = f[1] => e = f

\* A scan yields keys with record ids.
LEMMA ScannedTypes == ShapeInv => Scanned \subseteq Keys \X Rids
<1>. SUFFICES ASSUME ShapeInv, NEW e \in Scanned PROVE e \in Keys \X Rids
  OBVIOUS
<1>1. PICK C : C \subseteq DOMAIN nodes /\ Scanned = Shown(nodes, C)
  BY ShapeGives
<1>2. PICK p \in Leaves(nodes, C) : e \in Pairs(nodes[p].entries)
  BY <1>1 DEF Shown
<1>3. PICK k \in DOMAIN nodes[p].entries : e = <<k, nodes[p].entries[k]>>
  BY <1>2 DEF Pairs
<1>4. nodes[p] \in Node /\ nodes[p].kind = "leaf"
  BY <1>1, ShapeGives DEF Leaves
<1>5. nodes[p].entries \in Entries
  BY <1>4, NodeFields
<1>. QED BY <1>3, <1>5 DEF Entries

\* A new key adds one entry to the map.
LEMMA MapGrows ==
    ASSUME NEW s, NEW k \in Keys, NEW r \in Rids, s \subseteq Keys \X Rids,
           Single(s \cup {<<k, r>>}), Unseen(k, s)
    PROVE  MapOf(s \cup {<<k, r>>}) = Plus(MapOf(s), k, r) /\ k \notin DOMAIN MapOf(s)
<1>. DEFINE s2 == s \cup {<<k, r>>}
            f == MapOf(s2)
            g == MapOf(s)
<1>1. /\ DOMAIN f = {e[1] : e \in s2} /\ DOMAIN g = {e[1] : e \in s}
      /\ \A j \in DOMAIN f : f[j] = (CHOOSE e \in s2 : e[1] = j)[2]
      /\ \A j \in DOMAIN g : g[j] = (CHOOSE e \in s : e[1] = j)[2]
      /\ f = [j \in DOMAIN f |-> f[j]]
  BY DEF MapOf
<1>2. ASSUME NEW e \in s2 PROVE (CHOOSE x \in s2 : x[1] = e[1]) = e
  <2>1. \A x \in s2 : x[1] = e[1] => x = e
    BY DEF Single
  <2>. HIDE DEF s2
  <2>. QED BY <2>1
<1>3. ASSUME NEW e \in s PROVE (CHOOSE x \in s : x[1] = e[1]) = e
  <2>1. \A x \in s : x[1] = e[1] => x = e
    BY DEF Single
  <2>. QED BY <2>1
<1>4. k \notin DOMAIN g
  <2>1. \A e \in s : e[1] # k
    <3>. SUFFICES ASSUME NEW e \in s, e[1] = k PROVE FALSE
      OBVIOUS
    <3>1. e = <<k, e[2]>> /\ e[2] \in Rids
      OBVIOUS
    <3>. QED BY <3>1 DEF Unseen
  <2>. QED BY <1>1, <2>1
<1>5. DOMAIN f = DOMAIN g \cup {k}
  <2>1. {e[1] : e \in s2} = {e[1] : e \in s} \cup {<<k, r>>[1]}
    OBVIOUS
  <2>2. <<k, r>>[1] = k
    OBVIOUS
  <2>. HIDE DEF f, g, s2
  <2>. QED BY <1>1, <2>1, <2>2
<1>. HIDE DEF f, g
<1>6. ASSUME NEW j \in DOMAIN f PROVE f[j] = IF j = k THEN r ELSE g[j]
  <2>1. CASE j = k
    <3>1. <<k, r>> \in s2 /\ <<k, r>>[1] = k /\ <<k, r>>[2] = r
      OBVIOUS
    <3>2. (CHOOSE x \in s2 : x[1] = k) = <<k, r>>
      BY <1>2, <3>1
    <3>. HIDE DEF s2
    <3>. QED BY <1>1, <2>1, <3>1, <3>2
  <2>2. CASE j # k
    <3>1. PICK e \in s : e[1] = j
      BY <1>1, <1>5, <2>2
    <3>2. e \in s2
      OBVIOUS
    <3>3. j \in DOMAIN g
      BY <1>5, <2>2
    <3>4. f[j] = e[2]
      <4>. HIDE DEF s2
      <4>. QED BY <1>1, <1>2, <3>1, <3>2
    <3>5. g[j] = e[2]
      BY <1>1, <1>3, <3>1, <3>3
    <3>. QED BY <2>2, <3>4, <3>5
  <2>. QED BY <2>1, <2>2
<1>7. f = Plus(g, k, r)
  BY <1>1, <1>5, <1>6 DEF Plus
<1>. QED BY <1>4, <1>7 DEF f, g

\* The steps of a unique index, of what a scan yields before and after.
LEMMA IsStutter ==
    ASSUME Scanned' = Scanned, PendingOf(task', Scanned') = PendingOf(task, Scanned), last' = last
    PROVE  UNCHANGED Index!indexVars
  BY DEF Index!indexVars, PendingOf

\* The index adds the key, pending or with its reply.
LEMMA IsAdd ==
    ASSUME NEW k \in Keys, NEW r \in Rids, k \notin DOMAIN MapOf(Scanned),
           PendingOf(task, Scanned) = {}, MapOf(Scanned') = Plus(MapOf(Scanned), k, r),
           \/ PendingOf(task', Scanned') = {<<k, r>>} /\ last' = last
           \/ PendingOf(task', Scanned') = {} /\ last' = [key |-> k, rid |-> r, code |-> "ok"]
    PROVE  Index!Next
<1>1. Index!Add(k, r)
  BY DEF Index!Add, Index!Added, PendingOf, MapOf, Plus
<1>. QED BY <1>1 DEF Index!Next

\* The index replies to the call whose key is pending.
LEMMA IsReply ==
    ASSUME NEW k \in Keys, NEW r \in Rids, Scanned' = Scanned,
           PendingOf(task, Scanned) = {<<k, r>>}, PendingOf(task', Scanned') = {},
           last' = [key |-> k, rid |-> r, code |-> "ok"]
    PROVE  Index!Next
<1>1. Index!ReplyOk(k, r)
  BY DEF Index!ReplyOk, PendingOf
<1>. QED BY <1>1 DEF Index!Next

\* The index refuses a call, as a duplicate just when it is one.
LEMMA IsRefusal ==
    ASSUME NEW k \in Keys, NEW r \in Rids, NEW code \in {"already_exists", "resource_exhausted"},
           Scanned' = Scanned, PendingOf(task, Scanned) = {}, PendingOf(task', Scanned') = {},
           code = "already_exists" <=> k \in DOMAIN MapOf(Scanned),
           last' = [key |-> k, rid |-> r, code |-> code]
    PROVE  Index!Next
<1>1. Index!Refuse(k, r, code)
  BY DEF Index!Refuse, PendingOf, MapOf
<1>. QED BY <1>1 DEF Index!Next

\* Every step of the tree is a step of the index, or none.
Refines == Index!Next \/ UNCHANGED Index!indexVars

\* A scan yields every key once.
LEMMA SingleNow == ShapeInv /\ FitInv => Single(Scanned)
<1>. SUFFICES ASSUME ShapeInv, FitInv PROVE Single(Scanned)
  OBVIOUS
<1>1. KeysUnique
  BY FitShows
<1>. QED BY <1>1 DEF KeysUnique, Single

\* So it does after a step.
LEMMA SingleNext == (ShapeInv /\ FitInv)' => (Single(Scanned))'
<1>. QED BY SingleNow, PTL

\* What the invariants say of the scan before and after a step.
Sights ==
    /\ Single(Scanned) /\ Single(Scanned') /\ Scanned \subseteq Keys \X Rids
    /\ TypeOK /\ task \in Task /\ task' \in Task
    /\ Yields(nodes, task, Scanned) /\ Yields(nodes', task', Scanned')

\* They hold of every step from the invariant to itself.
LEMMA RefineFrom ==
    ASSUME ShapeInv, FitInv, Next, FitInv'
    PROVE  Sights
<1>1. Single(Scanned) /\ Scanned \subseteq Keys \X Rids
  BY SingleNow, ScannedTypes
<1>2. ShapeInv'
  BY StepFrom
<1>3. (Single(Scanned))'
  BY <1>2, SingleNext
<1>4. Single(Scanned')
  BY <1>3
<1>5. Yields(nodes', task', Scanned')
  BY DEF FitInv
<1>6. TypeOK /\ task \in Task /\ task' \in Task /\ Yields(nodes, task, Scanned)
  BY StepFrom
<1>. QED BY <1>1, <1>4, <1>5, <1>6 DEF Sights

\* Nothing is pending of a key no scan has shown, and the entry it has shown
\* otherwise.
LEMMA PendingFacts ==
    ASSUME NEW t, t # Idle, NEW s, s \subseteq Keys \X Rids
    PROVE  /\ Unseen(t.key, s) => PendingOf(t, s) = {}
           /\ Single(s) /\ <<t.key, t.rid>> \in s => PendingOf(t, s) = {<<t.key, t.rid>>}
<1>1. PendingOf(t, s) = {e \in s : e[1] = t.key}
  BY DEF PendingOf
<1>2. ASSUME Unseen(t.key, s), NEW e \in s PROVE e[1] # t.key
  <2>1. e = <<e[1], e[2]>> /\ e[2] \in Rids
    OBVIOUS
  <2>. QED BY <1>2, <2>1 DEF Unseen
<1>3. ASSUME Single(s), <<t.key, t.rid>> \in s, NEW e \in s, e[1] = t.key PROVE e = <<t.key, t.rid>>
  <2>1. <<t.key, t.rid>>[1] = t.key
    OBVIOUS
  <2>. QED BY <1>3, <2>1 DEF Single
<1>4. <<t.key, t.rid>>[1] = t.key
  OBVIOUS
<1>. QED BY <1>1, <1>2, <1>3, <1>4

\* A step that adds nothing to the scan and keeps the call it is a step of.
LEMMA QuietStep ==
    ASSUME Scanned' = Scanned \cup {}, task # Idle, task' # Idle, task'.key = task.key, last' = last
    PROVE  Refines
<1>1. Scanned' = Scanned
  OBVIOUS
<1>2. PendingOf(task', Scanned') = PendingOf(task, Scanned)
  BY <1>1 DEF PendingOf
<1>. QED BY <1>1, <1>2, IsStutter DEF Refines

\* A call that has shown its entry returns.
LEMMA OkReturns ==
    ASSUME Sights, Scanned' = Scanned \cup {}, task # Idle, ~ LeafWrite(task), task' = Idle,
           last' = [key |-> task.key, rid |-> task.rid, code |-> "ok"]
    PROVE  Refines
<1>1. task.phase # "idle" /\ task.key \in Keys /\ task.rid \in Rids
  BY TaskFields DEF Sights
<1>2. <<task.key, task.rid>> \in Scanned
  BY <1>1 DEF Sights, Yields
<1>3. PendingOf(task, Scanned) = {<<task.key, task.rid>>}
  BY <1>2, PendingFacts DEF Sights
<1>4. PendingOf(task', Scanned') = {} /\ Scanned' = Scanned
  BY DEF PendingOf
<1>. QED BY <1>1, <1>3, <1>4, IsReply DEF Refines

\* A refused insert is a refusal of the index: as a duplicate just when the scan
\* shows the key.
LEMMA RefusedRefines ==
    ASSUME MaxFaults = 0, ShapeInv, FitInv, Next, Sights,
           NEW key \in Keys, NEW rid \in Rids, InsertRefused(key, rid)
    PROVE  Refines
<1>. DEFINE p == LeafFor(key)
            old == nodes[p].entries
<1>1. PICK code \in InsertRefusals(key) : Ends(key, rid, code)
  BY DEF InsertRefused
<1>2. /\ task = Idle /\ task' = Idle /\ nodes' = nodes
      /\ last' = [key |-> key, rid |-> rid, code |-> code]
  BY <1>1 DEF InsertRefused, Ends
<1>3. CanFail = {}
  <2>1. faults \in 0 .. 0
    BY DEF Sights, TypeOK
  <2>2. ~ (faults < MaxFaults)
    BY <2>1
  <2>. QED BY <2>2 DEF CanFail
<1>4. code \in {"already_exists", "resource_exhausted"} /\ (code = "already_exists" <=> key \in DOMAIN old)
  <2>1. code \in (IF key \in DOMAIN old THEN {"already_exists"}
                  ELSE IF Cardinality(DOMAIN old) = MaxLeaf /\ ~NewPageFits
                  THEN {"resource_exhausted"} ELSE {})
    BY <1>1, <1>3 DEF InsertRefusals
  <2>2. CASE key \in DOMAIN old
    <3>. HIDE DEF old
    <3>. QED BY <2>1, <2>2
  <2>3. CASE key \notin DOMAIN old
    <3>. HIDE DEF old
    <3>. QED BY <2>1, <2>3
  <2>. QED BY <2>2, <2>3
<1>5. Scanned' = Scanned
  BY InsertRefusedFits DEF Steps
<1>6. PICK m, h, R : Fitting(nodes, root, Idle, m, h, R)
  BY <1>2, StepFrom
<1>7. Whole(nodes, root, h, R)
  BY <1>6, StepFrom, SettledIs
<1>8. /\ p \in DOMAIN nodes /\ nodes[p].kind = "leaf"
      /\ key \notin DOMAIN old => Unseen(key, Shown(nodes, DOMAIN nodes))
  BY <1>7, LeafOfKey
<1>9. Scanned = Shown(nodes, DOMAIN nodes)
  <2>1. ~ LeafWrite(task)
    BY <1>2 DEF LeafWrite, Idle
  <2>. QED BY <2>1 DEF Sights, Yields
<1>10. ASSUME key \in DOMAIN old PROVE \E e \in Scanned : e[1] = key
  <2>1. p \in Leaves(nodes, DOMAIN nodes)
    BY <1>8 DEF Leaves
  <2>2. <<key, old[key]>> \in Pairs(old)
    BY <1>10 DEF Pairs
  <2>3. <<key, old[key]>> \in Scanned
    BY <1>9, <2>1, <2>2 DEF Shown
  <2>4. <<key, old[key]>>[1] = key
    OBVIOUS
  <2>. QED BY <2>3, <2>4
<1>11. ASSUME NEW e \in Scanned, e[1] = key PROVE key \in DOMAIN old
  <2>1. e = <<key, e[2]>> /\ e[2] \in Rids
    BY <1>11 DEF Sights
  <2>2. ~ Unseen(key, Scanned)
    BY <2>1 DEF Unseen
  <2>. QED BY <1>8, <1>9, <2>2
<1>12. key \in DOMAIN MapOf(Scanned) <=> key \in DOMAIN old
  <2>1. DOMAIN MapOf(Scanned) = {e[1] : e \in Scanned}
    BY DEF MapOf
  <2>2. key \in {e[1] : e \in Scanned} <=> \E e \in Scanned : e[1] = key
    OBVIOUS
  <2>. QED BY <1>10, <1>11, <2>1, <2>2
<1>13. PendingOf(task, Scanned) = {} /\ PendingOf(task', Scanned') = {}
  BY <1>2 DEF PendingOf
<1>14. code = "already_exists" <=> key \in DOMAIN MapOf(Scanned)
  BY <1>4, <1>12
<1>. QED BY <1>2, <1>4, <1>5, <1>13, <1>14, IsRefusal DEF Refines

\* A leaf with room takes the key in: it is added as its call returns.
LEMMA InsertRefines ==
    ASSUME ShapeInv, FitInv, Next, Sights,
           NEW key \in Keys, NEW rid \in Rids, InsertIntoLeaf(key, rid)
    PROVE  Refines
<1>1. Scanned' = Scanned \cup {<<key, rid>>} /\ Unseen(key, Scanned)
  BY InsertIntoLeafFits DEF Steps
<1>2. MapOf(Scanned') = Plus(MapOf(Scanned), key, rid) /\ key \notin DOMAIN MapOf(Scanned)
  <2>1. Scanned \subseteq Keys \X Rids /\ Single(Scanned \cup {<<key, rid>>})
    BY <1>1 DEF Sights
  <2>. QED BY <1>1, <2>1, MapGrows
<1>3. /\ PendingOf(task, Scanned) = {} /\ PendingOf(task', Scanned') = {}
      /\ last' = [key |-> key, rid |-> rid, code |-> "ok"]
  BY DEF InsertIntoLeaf, Ends, PendingOf
<1>. QED BY <1>2, <1>3, IsAdd DEF Refines

\* The key of a leaf that splits is one no scan has shown.
LEMMA YetUnseen ==
    ASSUME NEW ns, NEW t, NEW s, Yields(ns, t, s), LeafWrite(t)
    PROVE  Unseen(t.key, s)
<1>. QED BY DEF Yields, Unseen

\* A leaf that splits adds nothing yet.
LEMMA SplitRefines ==
    ASSUME ShapeInv, FitInv, Next, Sights,
           NEW key \in Keys, NEW rid \in Rids, SplitLeaf(key, rid)
    PROVE  Refines
<1>1. Scanned' = Scanned /\ task' # Idle
  BY SplitLeafStep DEF Steps
<1>2. task = Idle /\ last' = last /\ task'.phase = "write"
  BY DEF SplitLeaf
<1>3. LeafWrite(task')
  BY <1>2 DEF SplitLeaf, LeafWrite, Leaf
<1>4. Unseen(task'.key, Scanned')
  BY <1>3, YetUnseen DEF Sights
<1>5. PendingOf(task', Scanned') = {}
  BY <1>1, <1>4, PendingFacts DEF Sights
<1>6. PendingOf(task, Scanned) = {}
  BY <1>2 DEF PendingOf
<1>. QED BY <1>1, <1>2, <1>5, <1>6, IsStutter DEF Refines

\* The left half of a leaf adds the key; that of an inner node adds nothing.
LEMMA WriteRefines ==
    ASSUME ShapeInv, FitInv, Next, Sights, WriteLeft
    PROVE  Refines
<1>1. task.phase = "write" /\ task # Idle /\ last' = last
  BY DEF WriteLeft, Idle
<1>2. task' = [task EXCEPT !.phase = "adopt"]
  BY DEF WriteLeft
<1>3. task' # Idle /\ task'.key = task.key /\ task'.rid = task.rid /\ task'.phase = "adopt"
  <2>1. task'.key = task.key /\ task'.rid = task.rid /\ task'.phase = "adopt"
    BY <1>1, <1>2, TaskPhase DEF Sights
  <2>. QED BY <2>1 DEF Idle
<1>4. task.key \in Keys /\ task.rid \in Rids
  BY <1>1, TaskFields DEF Sights
<1>5. CASE ~ LeafWrite(task)
  <2>1. Scanned' = Scanned \cup {}
    BY <1>5, WriteLeftFits DEF Steps
  <2>. QED BY <1>1, <1>3, <2>1, QuietStep
<1>6. CASE LeafWrite(task)
  <2>. DEFINE k == task.key
              r == task.rid
  <2>1. Scanned' = Scanned \cup {<<k, r>>}
    BY <1>6, WriteLeftFits DEF Steps
  <2>2. Unseen(k, Scanned)
    BY <1>6 DEF Sights, Yields, Unseen
  <2>3. Single(Scanned \cup {<<k, r>>}) /\ Scanned \subseteq Keys \X Rids
    BY <2>1 DEF Sights
  <2>4. MapOf(Scanned') = Plus(MapOf(Scanned), k, r) /\ k \notin DOMAIN MapOf(Scanned)
    BY <1>4, <2>1, <2>2, <2>3, MapGrows
  <2>5. PendingOf(task, Scanned) = {}
    BY <1>1, <2>2, <2>3, PendingFacts
  <2>6. PendingOf(task', Scanned') = {<<k, r>>}
    <3>1. Scanned' \subseteq Keys \X Rids /\ Single(Scanned')
      BY <1>4, <2>1, <2>3
    <3>2. <<task'.key, task'.rid>> \in Scanned'
      BY <1>3, <2>1
    <3>3. PendingOf(task', Scanned') = {<<task'.key, task'.rid>>}
      BY <1>3, <3>1, <3>2, PendingFacts
    <3>. QED BY <1>3, <3>3
  <2>. QED BY <1>1, <1>4, <2>4, <2>5, <2>6, IsAdd DEF Refines
<1>. QED BY <1>5, <1>6

\* A child learning its parent adds nothing, and its call goes on.
LEMMA AdoptRefines == ASSUME ShapeInv, FitInv, Next, Sights, Adopt PROVE Refines
<1>1. task.phase = "adopt" /\ task # Idle /\ last' = last /\ task.kids # << >>
  BY DEF Adopt, Idle
<1>2. Tail(task.kids) \in Seq(PageIds)
  BY <1>1, TaskFields DEF Sights
<1>3. task' = [task EXCEPT !.kids = Tail(task.kids)]
  BY DEF Adopt
<1>4. task'.key = task.key /\ task'.phase = "adopt"
  BY <1>1, <1>2, <1>3, TaskKids DEF Sights
<1>5. task' # Idle
  BY <1>4 DEF Idle
<1>6. Scanned' = Scanned \cup {}
  BY AdoptFits DEF Steps
<1>. QED BY <1>1, <1>4, <1>5, <1>6, QuietStep

\* A new root adds nothing, and its call goes on.
LEMMA GrowRefines == ASSUME ShapeInv, FitInv, Next, Sights, GrowRoot PROVE Refines
<1>1. task.phase = "adopt" /\ task # Idle /\ last' = last
  BY DEF GrowRoot, Raising, Idle
<1>2. task \in [phase : Phases \ {"idle"}, key : Keys, rid : Rids, page : PageIds, node : Node,
                right : PageIds, sep : Keys, up : PageIds, kids : Seq(PageIds)]
  BY <1>1 DEF Sights, Task
<1>3. task' = [task EXCEPT !.phase = "grow", !.page = Len(nodes) + 1,
                           !.kids = << task.page, task.right >>]
  BY DEF GrowRoot
<1>4. task'.key = task.key /\ task'.phase = "grow"
  BY <1>2, <1>3
<1>5. task' # Idle
  BY <1>4 DEF Idle
<1>6. Scanned' = Scanned \cup {}
  BY GrowRootFits DEF Steps
<1>. QED BY <1>1, <1>4, <1>5, <1>6, QuietStep

\* The halves of the old root learning their parent add nothing; after the second the
\* call returns.
LEMMA LearnRefines == ASSUME ShapeInv, FitInv, Next, Sights, LearnRoot PROVE Refines
<1>1. task.phase = "grow" /\ task # Idle
  BY DEF LearnRoot, Idle
<1>2. Scanned' = Scanned \cup {}
  BY LearnRootFits DEF Steps
<1>3. ~ LeafWrite(task)
  BY <1>1 DEF LeafWrite
<1>4. CASE Len(task.kids) = 1
  <2>1. task' = Idle /\ last' = [key |-> task.key, rid |-> task.rid, code |-> "ok"]
    BY <1>4 DEF LearnRoot, Ends
  <2>. QED BY <1>1, <1>2, <1>3, <2>1, OkReturns
<1>5. CASE Len(task.kids) # 1
  <2>1. task' = [task EXCEPT !.kids = Tail(task.kids)] /\ last' = last
    BY <1>5 DEF LearnRoot
  <2>2. Len(task.kids) = 2 /\ task.kids \in Seq(PageIds)
    <3>1. Len(task.kids) \in {1, 2}
      BY <1>1, ShapeGives
    <3>2. task.kids \in Seq(PageIds)
      BY <1>1, TaskFields DEF Sights
    <3>. QED BY <1>5, <3>1, <3>2
  <2>3. task.kids # << >>
    BY <2>2
  <2>4. Tail(task.kids) \in Seq(PageIds)
    BY <2>2, <2>3
  <2>5. task'.key = task.key /\ task'.phase = "grow"
    BY <1>1, <2>1, <2>4, TaskKids DEF Sights
  <2>6. task' # Idle
    BY <2>5 DEF Idle
  <2>. QED BY <1>1, <1>2, <2>1, <2>5, <2>6, QuietStep
<1>. QED BY <1>4, <1>5

\* The parent with room adds nothing, and the call returns.
LEMMA RaiseRefines == ASSUME ShapeInv, FitInv, Next, Sights, RaiseIntoParent PROVE Refines
<1>1. task.phase = "adopt" /\ task # Idle
  BY DEF RaiseIntoParent, CanRaise, Raising, Idle
<1>2. task' = Idle /\ last' = [key |-> task.key, rid |-> task.rid, code |-> "ok"]
  BY DEF RaiseIntoParent, Ends
<1>3. ~ LeafWrite(task)
  BY <1>1 DEF LeafWrite
<1>4. Scanned' = Scanned \cup {}
  BY RaiseFits DEF Steps
<1>. QED BY <1>1, <1>2, <1>3, <1>4, OkReturns

\* The parent that splits adds nothing, and its call goes on.
LEMMA SplitUpRefines == ASSUME ShapeInv, FitInv, Next, Sights, SplitParent PROVE Refines
<1>1. task.phase = "adopt" /\ task # Idle
  BY DEF SplitParent, CanRaise, Raising, Idle
<1>2. Scanned' = Scanned \cup {} /\ task' # Idle
  BY SplitParentFits DEF Steps
<1>3. task \in [phase : Phases \ {"idle"}, key : Keys, rid : Rids, page : PageIds, node : Node,
                right : PageIds, sep : Keys, up : PageIds, kids : Seq(PageIds)]
  BY <1>1 DEF Sights, Task
<1>4. task'.key = task.key /\ last' = last
  BY <1>2, <1>3 DEF SplitParent, Ends
<1>. QED BY <1>1, <1>2, <1>4, QuietStep

\* Every step is a step of the index or none.
LEMMA StepRefines ==
    ASSUME MaxFaults = 0, ShapeInv, FitInv, FitInv', RoomForSplits, [Next]_vars
    PROVE  Refines
<1>1. CASE UNCHANGED vars
  <2>1. nodes' = nodes /\ root' = root /\ task' = task /\ last' = last
    BY <1>1 DEF vars
  <2>2. Scanned' = Scanned
    BY <2>1 DEF Scanned, Scan, ScanOrder, Descend
  <2>3. PendingOf(task', Scanned') = PendingOf(task, Scanned)
    BY <2>1, <2>2
  <2>. QED BY <2>1, <2>2, <2>3, IsStutter DEF Refines
<1>2. CASE Next
  <2>. Sights
    BY <1>2, RefineFrom
  <2>1. ASSUME NEW key \in Keys, NEW rid \in Rids, InsertRefused(key, rid) PROVE Refines
    BY <1>2, <2>1, RefusedRefines
  <2>2. ASSUME NEW key \in Keys, NEW rid \in Rids, InsertIntoLeaf(key, rid) PROVE Refines
    BY <1>2, <2>2, InsertRefines
  <2>3. ASSUME NEW key \in Keys, NEW rid \in Rids, SplitLeaf(key, rid) PROVE Refines
    BY <1>2, <2>3, SplitRefines
  <2>4. CASE WriteLeft
    BY <1>2, <2>4, WriteRefines
  <2>5. CASE Adopt
    BY <1>2, <2>5, AdoptRefines
  <2>6. CASE GrowRoot
    BY <1>2, <2>6, GrowRefines
  <2>7. CASE LearnRoot
    BY <1>2, <2>7, LearnRefines
  <2>8. CASE RaiseIntoParent
    BY <1>2, <2>8, RaiseRefines
  <2>9. CASE SplitParent
    BY <1>2, <2>9, SplitUpRefines
  <2>10. ~ GiveUp
    BY <1>2, NoGiveUp
  <2>. QED BY <1>2, <2>1, <2>2, <2>3, <2>4, <2>5, <2>6, <2>7, <2>8, <2>9, <2>10 DEF Next, Continue
<1>. QED BY <1>1, <1>2

\* An empty tree is an empty index.
LEMMA InitRefines == Init => Index!Init
<1>. SUFFICES ASSUME Init PROVE Index!Init
  OBVIOUS
<1>1. task = Idle /\ last = [code |-> "none"] /\ nodes = << Leaf(None, None, << >>) >>
  BY DEF Init
<1>2. Scanned = {}
  <2>1. Yields(nodes, task, Scanned)
    BY InitFit DEF FitInv
  <2>2. Scanned = Shown(nodes, DOMAIN nodes)
    BY <1>1, <2>1 DEF Yields, LeafWrite, Idle
  <2>3. \A q \in Leaves(nodes, DOMAIN nodes) : Pairs(nodes[q].entries) = {}
    BY <1>1, NoEntries DEF Leaves, Pairs, Leaf
  <2>. QED BY <2>2, <2>3 DEF Shown
<1>3. {e[1] : e \in Scanned} = {}
  BY <1>2
<1>4. MapOf(Scanned) = [k \in {} |-> 0]
  BY <1>3 DEF MapOf
<1>. QED BY <1>1, <1>4 DEF Index!Init, MapOf

\* Every insert into the tree, however many pages it splits, is one step of a
\* unique index, and its reply is that of the index.
THEOREM IsUniqueIndex ==
    ASSUME MaxFaults = 0 PROVE Spec /\ []RoomForSplits => ImplementsUniqueIndex
<1>1. ShapeInv /\ FitInv /\ FitInv' /\ RoomForSplits /\ [Next]_vars => [Index!Next]_Index!indexVars
  BY StepRefines DEF Refines
<1>. QED BY <1>1, InitRefines, ShapeInvariant, FitInvariant, PTL DEF Spec, ImplementsUniqueIndex, Index!Spec
=============================================================================
