---------------------------- MODULE SessionProofs ----------------------------
(***************************************************************************)
(* Proofs about RecordCodec and Session: every record is read back as it   *)
(* was written and no other number of bytes passes for it, so that a       *)
(* database on files answers as one in memory does.                        *)
(***************************************************************************)
EXTENDS Session, FiniteSetTheorems, SequenceTheorems, WellFoundedInduction, TLAPS

(***************************************************************************)
(* Naturals, and functions defined from one natural to the next.           *)
(***************************************************************************)
\* A set of naturals that is not empty has a least member.
LEMMA LeastNatural ==
    ASSUME NEW S, S \subseteq Nat, S # {}
    PROVE  \E n \in S : \A m \in S : n <= m
<1>. DEFINE Less == {ss \in Nat \X Nat : ss[1] < ss[2]}
<1>1. IsWellFoundedOn(Less, Nat)
  BY NatLessThanWellFounded DEF OpToRel
<1>. HIDE DEF Less
<1>2. PICK n \in S : \A m \in S : ~ (<<m, n>> \in Less)
  BY <1>1, WFMin
<1>3. ASSUME NEW m \in S PROVE n <= m
  <2>1. m < n => <<m, n>> \in Less
    BY DEF Less
  <2>. QED BY <2>1, <1>2
<1>. QED BY <1>2, <1>3

\* What holds of 0, and of n + 1 when it holds of n, holds of every natural.
LEMMA AllNaturals ==
    ASSUME NEW S, 0 \in S, \A n \in Nat : n \in S => n + 1 \in S
    PROVE  \A n \in Nat : n \in S
<1>. DEFINE Bad == {n \in Nat : n \notin S}
<1>1. SUFFICES ASSUME Bad # {} PROVE FALSE
  OBVIOUS
<1>2. PICK m \in Bad : \A k \in Bad : m <= k
  <2>1. Bad \subseteq Nat
    OBVIOUS
  <2>. HIDE DEF Bad
  <2>. QED BY <1>1, <2>1, LeastNatural
<1>3. m \in Nat /\ m \notin S /\ m # 0
  OBVIOUS
<1>4. m - 1 \in Nat /\ m - 1 \notin Bad
  <2>1. m - 1 \in Nat /\ ~ (m <= m - 1)
    BY <1>3
  <2>. HIDE DEF Bad
  <2>. QED BY <1>2, <2>1
<1>5. (m - 1) + 1 \in S
  BY <1>4
<1>6. (m - 1) + 1 = m
  BY <1>3
<1>. QED BY <1>3, <1>5, <1>6

\* So up to a bound.
LEMMA UpTo ==
    ASSUME NEW N \in Nat, NEW S, 0 \in S, \A n \in 0 .. N - 1 : n \in S => n + 1 \in S
    PROVE  \A n \in 0 .. N : n \in S
<1>. DEFINE T == {n \in Nat : n <= N => n \in S}
<1>1. 0 \in T
  OBVIOUS
<1>2. \A n \in Nat : n \in T => n + 1 \in T
  <2>. SUFFICES ASSUME NEW n \in Nat, n \in T, n + 1 <= N PROVE n + 1 \in S
    OBVIOUS
  <2>1. n \in 0 .. N - 1 /\ n <= N
    OBVIOUS
  <2>. QED BY <2>1
<1>3. \A n \in Nat : n \in T
  <2>. HIDE DEF T
  <2>. QED BY <1>1, <1>2, AllNaturals
<1>. QED BY <1>3

\* From a, by step s[n] from n - 1 to n.
Steps(g, s, a, N) == g[0] = a /\ \A n \in 1 .. N : g[n] = s[<<n, g[n - 1]>>]

\* There is such a function.
LEMMA StepsExist ==
    ASSUME NEW N \in Nat, NEW D, NEW a \in D, NEW s \in [(1 .. N) \X D -> D]
    PROVE  \E g \in [0 .. N -> D] : Steps(g, s, a, N)
<1>. DEFINE Good(m) == \E g \in [0 .. m -> D] : Steps(g, s, a, m)
            S == {m \in 0 .. N : Good(m)}
<1>1. 0 \in S
  <2>. DEFINE z == [n \in 0 .. 0 |-> a]
  <2>1. z \in [0 .. 0 -> D] /\ z[0] = a /\ \A n \in 1 .. 0 : FALSE
    OBVIOUS
  <2>. HIDE DEF z
  <2>2. Steps(z, s, a, 0)
    BY <2>1 DEF Steps
  <2>3. Good(0)
    BY <2>1, <2>2
  <2>. QED BY <2>3
<1>2. ASSUME NEW m \in 0 .. N - 1, m \in S PROVE m + 1 \in S
  <2>1. PICK g \in [0 .. m -> D] : Steps(g, s, a, m)
    BY <1>2
  <2>2. g[0] = a /\ \A n \in 1 .. m : g[n] = s[<<n, g[n - 1]>>]
    BY <2>1 DEF Steps
  <2>. DEFINE k == m + 1
              e == [n \in 0 .. k |-> IF n = k THEN s[<<k, g[m]>>] ELSE g[n]]
  <2>3. k \in 1 .. N /\ m \in 0 .. m /\ m = k - 1
    OBVIOUS
  <2>4. e \in [0 .. k -> D]
    <3>1. s[<<k, g[m]>>] \in D
      BY <2>3
    <3>2. \A n \in 0 .. k : n # k => n \in 0 .. m
      OBVIOUS
    <3>. QED BY <3>1, <3>2
  <2>5. e[0] = a
    BY <2>2, <2>3
  <2>6. ASSUME NEW n \in 1 .. k PROVE e[n] = s[<<n, e[n - 1]>>]
    <3>1. CASE n = k
      <4>1. k \in 0 .. k /\ m \in 0 .. k /\ m # k /\ k - 1 = m
        BY <2>3
      <4>2. e[k] = s[<<k, g[m]>>] /\ e[m] = g[m]
        BY <4>1
      <4>. HIDE DEF e, k
      <4>. QED BY <3>1, <4>1, <4>2
    <3>2. CASE n # k
      <4>1. n \in 1 .. m /\ n \in 0 .. k /\ n - 1 \in 0 .. k /\ n - 1 # k
        BY <3>2
      <4>2. e[n] = g[n] /\ e[n - 1] = g[n - 1]
        BY <3>2, <4>1
      <4>. HIDE DEF e
      <4>. QED BY <2>2, <4>1, <4>2
    <3>. QED BY <3>1, <3>2
  <2>7. Good(k)
    <3>. HIDE DEF e
    <3>. QED BY <2>4, <2>5, <2>6 DEF Steps
  <2>. QED BY <2>3, <2>7
<1>3. \A m \in 0 .. N : m \in S
  <2>. HIDE DEF S
  <2>. QED BY <1>1, <1>2, UpTo
<1>4. N \in 0 .. N
  OBVIOUS
<1>5. Good(N)
  BY <1>3, <1>4
<1>. QED BY <1>5

\* The numbers of n bytes.
LEMMA PowerFacts ==
    /\ Power[0] = 1
    /\ \A n \in Nat : Power[n + 1] = ByteBase * Power[n] /\ Power[n] \in Nat /\ Power[n] > 0
<1>. DEFINE Up(N) == [x \in (1 .. N) \X Nat |-> ByteBase * x[2]]
            Is(f, N) == f \in [0 .. N -> Nat] /\ f[0] = 1 /\ \A n \in 1 .. N : f[n] = ByteBase * f[n - 1]
            p(N) == CHOOSE f : Is(f, N)
            g == [n \in Nat |-> p(n)[n]]
<1>1. ByteBase \in Nat /\ ByteBase > 1
  BY CodecConstants
<1>2. ASSUME NEW N \in Nat PROVE Is(p(N), N)
  <2>1. Up(N) \in [(1 .. N) \X Nat -> Nat] /\ 1 \in Nat
    BY <1>1
  <2>2. PICK f \in [0 .. N -> Nat] : Steps(f, Up(N), 1, N)
    <3>. HIDE DEF Up
    <3>. QED BY <2>1, StepsExist
  <2>3. ASSUME NEW n \in 1 .. N PROVE f[n] = ByteBase * f[n - 1]
    <3>1. n - 1 \in 0 .. N /\ f[n - 1] \in Nat
      OBVIOUS
    <3>2. Up(N)[<<n, f[n - 1]>>] = ByteBase * f[n - 1]
      BY <3>1
    <3>. HIDE DEF Up
    <3>. QED BY <2>2, <3>2 DEF Steps
  <2>4. Is(f, N)
    BY <2>2, <2>3 DEF Steps
  <2>. QED BY <2>4
<1>3. ASSUME NEW N \in Nat PROVE \A n \in 0 .. N : p(N)[n] = p(N + 1)[n]
  <2>. DEFINE S == {n \in 0 .. N : p(N)[n] = p(N + 1)[n]}
  <2>. HIDE DEF p
  <2>0. N + 1 \in Nat
    OBVIOUS
  <2>1. Is(p(N), N) /\ Is(p(N + 1), N + 1)
    <3>. HIDE DEF Is
    <3>. QED BY <1>2, <2>0
  <2>2. 0 \in S
    BY <2>1
  <2>3. ASSUME NEW m \in 0 .. N - 1, m \in S PROVE m + 1 \in S
    <3>1. m + 1 \in 1 .. N /\ m + 1 \in 1 .. N + 1 /\ (m + 1) - 1 = m
      OBVIOUS
    <3>2. p(N)[m + 1] = ByteBase * p(N)[m] /\ p(N + 1)[m + 1] = ByteBase * p(N + 1)[m]
      BY <2>1, <3>1
    <3>. QED BY <2>3, <3>1, <3>2
  <2>4. \A n \in 0 .. N : n \in S
    <3>. HIDE DEF S
    <3>. QED BY <2>2, <2>3, UpTo
  <2>. QED BY <2>4
<1>. HIDE DEF p
<1>4. ASSUME NEW n \in Nat PROVE g[n] = IF n = 0 THEN 1 ELSE ByteBase * g[n - 1]
  <2>1. CASE n = 0
    BY <1>2, <2>1
  <2>2. CASE n # 0
    <3>1. n - 1 \in Nat /\ (n - 1) + 1 = n /\ n \in 1 .. n /\ n - 1 \in 0 .. n - 1
      BY <2>2
    <3>2. p(n)[n] = ByteBase * p(n)[n - 1]
      BY <1>2, <3>1
    <3>3. p(n - 1)[n - 1] = p(n)[n - 1]
      <4>1. p(n - 1)[n - 1] = p((n - 1) + 1)[n - 1]
        BY <1>3, <3>1
      <4>. QED BY <3>1, <4>1
    <3>. QED BY <2>2, <3>1, <3>2, <3>3
  <2>. QED BY <2>1, <2>2
<1>5. g = [n \in Nat |-> IF n = 0 THEN 1 ELSE ByteBase * g[n - 1]]
  BY <1>4
<1>. HIDE DEF g
<1>6. Power = [n \in Nat |-> IF n = 0 THEN 1 ELSE ByteBase * Power[n - 1]]
  BY <1>5 DEF Power
<1>. HIDE DEF Is
<1>7. Power[0] = 1
  BY <1>6
<1>8. ASSUME NEW n \in Nat PROVE Power[n + 1] = ByteBase * Power[n]
  <2>1. n + 1 \in Nat /\ n + 1 # 0 /\ (n + 1) - 1 = n
    OBVIOUS
  <2>. QED BY <1>6, <2>1
<1>. DEFINE S == {n \in Nat : Power[n] \in Nat /\ Power[n] > 0}
<1>9. 0 \in S
  BY <1>7
<1>10. ASSUME NEW n \in Nat, n \in S PROVE n + 1 \in S
  BY <1>1, <1>8, <1>10
<1>11. \A n \in Nat : n \in S
  <2>. HIDE DEF S
  <2>. QED BY <1>9, <1>10, AllNaturals
<1>. QED BY <1>7, <1>8, <1>11

-----------------------------------------------------------------------------
(***************************************************************************)
(* Words.                                                                  *)
(***************************************************************************)
\* A number is its quotient and remainder.
LEMMA DivMod ==
    ASSUME NEW v \in Nat, NEW p \in Nat, p > 0
    PROVE  /\ v \div p \in Nat /\ v % p \in Nat /\ v % p < p
           /\ v = p * (v \div p) + (v % p)
<1>1. v % p = v - p * (v \div p)
  BY SMTT(30)
<1>2. v \div p \in Nat /\ v % p \in 0 .. p - 1
  OBVIOUS
<1>3. p * (v \div p) \in Nat
  BY <1>2
<1>. DEFINE q == v \div p
            r == v % p
            m == p * q
<1>4. q \in Nat /\ r \in Nat /\ r < p /\ m \in Nat /\ r = v - m
  BY <1>1, <1>2, <1>3
<1>5. v = m + r
  <2>. HIDE DEF q, r, m
  <2>. QED BY <1>4
<1>. QED BY <1>4, <1>5, Zenon

\* And they are the only ones.
LEMMA DivModOf ==
    ASSUME NEW v \in Nat, NEW p \in Nat, p > 0, NEW q \in Nat, NEW r \in Nat, r < p, v = p * q + r
    PROVE  v % p = r /\ v \div p = q
OBVIOUS

\* The numbers of more bytes.
LEMMA PowerGrows == ASSUME NEW m \in Nat, NEW n \in Nat, m <= n PROVE Power[m] <= Power[n]
<1>. DEFINE S == {k \in Nat : Power[m] <= Power[m + k]}
<1>1. 0 \in S
  BY PowerFacts
<1>2. ASSUME NEW k \in Nat, k \in S PROVE k + 1 \in S
  <2>1. Power[m + (k + 1)] = ByteBase * Power[m + k] /\ Power[m + k] \in Nat /\ Power[m] \in Nat
        /\ Power[m + (k + 1)] \in Nat
    <3>1. m + k \in Nat /\ (m + k) + 1 = m + (k + 1) /\ m + (k + 1) \in Nat
      OBVIOUS
    <3>. QED BY <3>1, PowerFacts
  <2>2. ASSUME NEW x \in Nat, NEW b \in Nat, b > 1 PROVE x <= b * x
    BY <2>2
  <2>3. Power[m + k] <= Power[m + (k + 1)]
    BY <2>1, <2>2, CodecConstants
  <2>. QED BY <1>2, <2>1, <2>3
<1>3. \A k \in Nat : k \in S
  <2>. HIDE DEF S
  <2>. QED BY <1>1, <1>2, AllNaturals
<1>4. n - m \in Nat /\ m + (n - m) = n
  OBVIOUS
<1>. QED BY <1>3, <1>4

\* What a writer writes are bytes.
LEMMA WritesBytes ==
    ASSUME NEW width \in Nat, NEW v \in Nat
    PROVE  /\ WriteLittleEndian(width, v) \in Seq(Bytes)
           /\ Len(WriteLittleEndian(width, v)) = width
<1>. DEFINE w == WriteLittleEndian(width, v)
<1>1. \A i \in 1 .. width : (v \div Power[i - 1]) % ByteBase \in Bytes
  <2>. SUFFICES ASSUME NEW i \in 1 .. width PROVE (v \div Power[i - 1]) % ByteBase \in Bytes
    OBVIOUS
  <2>1. Power[i - 1] \in Nat /\ Power[i - 1] > 0
    BY PowerFacts
  <2>2. v \div Power[i - 1] \in Nat
    BY <2>1, DivMod
  <2>3. ByteBase \in Nat /\ ByteBase > 0
    BY CodecConstants
  <2>. DEFINE x == v \div Power[i - 1]
  <2>4. x % ByteBase \in Nat /\ x % ByteBase < ByteBase
    <3>. HIDE DEF x
    <3>1. x \in Nat
      BY <2>2 DEF x
    <3>. QED BY <2>3, <3>1, DivMod
  <2>. QED BY <2>3, <2>4 DEF Bytes
<1>2. w = [i \in 1 .. width |-> (v \div Power[i - 1]) % ByteBase]
  BY DEF WriteLittleEndian
<1>3. w \in [1 .. width -> Bytes]
  BY <1>1, <1>2
<1>. HIDE DEF w
<1>4. w \in Seq(Bytes) /\ Len(w) = width
  BY <1>3
<1>. QED BY <1>4 DEF w

\* A product and a sum of naturals is a natural.
LEMMA PlusTimes ==
    ASSUME NEW k \in Nat, NEW x \in Nat, NEW y \in Nat
    PROVE  k + x * y \in Nat
<1>. DEFINE z == x * y
<1>1. z \in Nat
  OBVIOUS
<1>. HIDE DEF z
<1>2. k + z \in Nat
  BY <1>1
<1>. QED BY <1>2 DEF z

\* The word read of bytes, byte by byte.
LEMMA ReadsBytes ==
    ASSUME NEW b \in Seq(Bytes)
    PROVE  \E word \in [0 .. Len(b) -> Nat] :
              /\ word[0] = 0 /\ ReadLittleEndian(b) = word[Len(b)]
              /\ \A n \in 1 .. Len(b) : word[n] = word[n - 1] + Power[n - 1] * b[n]
<1>. DEFINE N == Len(b)
            s == [x \in (1 .. N) \X Nat |-> x[2] + Power[x[1] - 1] * b[x[1]]]
            W(f) == [n \in 0 .. N |-> IF n = 0 THEN 0 ELSE f[n - 1] + Power[n - 1] * b[n]]
            word == CHOOSE f : f = W(f)
<1>1. N \in Nat /\ \A n \in 1 .. N : b[n] \in Nat
  <2>1. \A n \in 1 .. N : b[n] \in Bytes
    OBVIOUS
  <2>. QED BY <2>1, CodecConstants DEF Bytes
<1>2. s \in [(1 .. N) \X Nat -> Nat]
  <2>1. ASSUME NEW n \in 1 .. N, NEW k \in Nat PROVE k + Power[n - 1] * b[n] \in Nat
    <3>1. n - 1 \in Nat
      BY <1>1
    <3>2. Power[n - 1] \in Nat /\ b[n] \in Nat
      BY <1>1, <3>1, PowerFacts
    <3>. QED BY <3>2, PlusTimes, Zenon
  <2>2. ASSUME NEW x \in (1 .. N) \X Nat PROVE x[2] + Power[x[1] - 1] * b[x[1]] \in Nat
    <3>1. x[1] \in 1 .. N /\ x[2] \in Nat
      OBVIOUS
    <3>. HIDE DEF N
    <3>. QED BY <2>1, <3>1
  <2>. QED BY <2>2
<1>3. PICK g \in [0 .. N -> Nat] : Steps(g, s, 0, N)
  <2>. HIDE DEF s, N
  <2>. QED BY <1>1, <1>2, StepsExist
<1>4. ASSUME NEW n \in 1 .. N PROVE g[n] = g[n - 1] + Power[n - 1] * b[n]
  <2>1. n - 1 \in 0 .. N /\ g[n - 1] \in Nat
    BY <1>1
  <2>2. s[<<n, g[n - 1]>>] = g[n - 1] + Power[n - 1] * b[n]
    BY <2>1
  <2>. HIDE DEF s
  <2>. QED BY <1>3, <2>2 DEF Steps
<1>5. g = W(g)
  <2>1. g[0] = 0
    BY <1>3 DEF Steps
  <2>. QED BY <1>1, <1>4, <2>1
<1>6. word = W(word)
  <2>. HIDE DEF W
  <2>. QED BY <1>5
<1>7. ReadLittleEndian(b) = word[N]
  BY DEF ReadLittleEndian
<1>. HIDE DEF word, s
<1>8. word[0] = 0 /\ \A n \in 1 .. N : word[n] = word[n - 1] + Power[n - 1] * b[n]
  BY <1>1, <1>6
<1>. DEFINE S == {n \in 0 .. N : word[n] \in Nat}
<1>9. 0 \in S
  BY <1>1, <1>8
<1>10. ASSUME NEW n \in 0 .. N - 1, n \in S PROVE n + 1 \in S
  <2>0. n + 1 \in 1 .. N /\ (n + 1) - 1 = n /\ n \in Nat
    BY <1>1
  <2>1. n + 1 \in 1 .. N /\ (n + 1) - 1 = n /\ Power[n] \in Nat
    BY <2>0, PowerFacts
  <2>2. word[n + 1] = word[n] + Power[n] * b[n + 1] /\ b[n + 1] \in Nat
    BY <1>1, <1>8, <2>1
  <2>3. word[n] \in Nat
    BY <1>10
  <2>. HIDE DEF word
  <2>4. word[n] + Power[n] * b[n + 1] \in Nat
    BY <2>1, <2>2, <2>3, PlusTimes, Zenon
  <2>. QED BY <2>1, <2>2, <2>4
<1>11. \A n \in 0 .. N : n \in S
  <2>. HIDE DEF S
  <2>. QED BY <1>1, <1>9, <1>10, UpTo
<1>12. word \in [0 .. N -> Nat]
  <2>1. word = [n \in 0 .. N |-> word[n]]
    BY <1>6
  <2>. QED BY <1>11, <2>1
<1>. QED BY <1>7, <1>8, <1>12

\* A word below the numbers of its width is read as it was written.
LEMMA WordReadsBack ==
    ASSUME NEW width \in Nat, NEW v \in Nat, v < Power[width]
    PROVE  ReadLittleEndian(WriteLittleEndian(width, v)) = v
<1>. DEFINE b == WriteLittleEndian(width, v)
<1>1. b \in Seq(Bytes) /\ Len(b) = width
  BY WritesBytes
<1>2. \A n \in 1 .. width : b[n] = (v \div Power[n - 1]) % ByteBase
  BY DEF WriteLittleEndian
<1>. HIDE DEF b
<1>3. PICK word \in [0 .. width -> Nat] :
         /\ word[0] = 0 /\ ReadLittleEndian(b) = word[width]
         /\ \A n \in 1 .. width : word[n] = word[n - 1] + Power[n - 1] * b[n]
  BY <1>1, ReadsBytes
<1>4. ByteBase \in Nat /\ ByteBase > 0
  BY CodecConstants
<1>. DEFINE S == {n \in 0 .. width : word[n] = v % Power[n]}
<1>5. 0 \in S
  <2>1. v % 1 = 0
    BY DivModOf
  <2>2. 0 \in 0 .. width
    OBVIOUS
  <2>3. word[0] = v % Power[0]
    BY <1>3, <2>1, PowerFacts
  <2>. QED BY <2>2, <2>3
<1>6. ASSUME NEW n \in 0 .. width - 1, n \in S PROVE n + 1 \in S
  <2>. DEFINE P == Power[n]
              q == v \div P
              r == v % P
              c == q \div ByteBase
              d == q % ByteBase
  <2>0. n \in Nat
    OBVIOUS
  <2>1. P \in Nat /\ P > 0 /\ Power[n + 1] = ByteBase * P
    BY <2>0, PowerFacts
  <2>2. n + 1 \in 1 .. width /\ (n + 1) - 1 = n
    OBVIOUS
  <2>3. word[n + 1] = r + P * d
    <3>1. word[n + 1] = word[n] + Power[n] * b[n + 1]
      BY <1>3, <2>2
    <3>2. b[n + 1] = (v \div Power[n]) % ByteBase
      BY <1>2, <2>2
    <3>. QED BY <1>6, <3>1, <3>2
  <2>4. q \in Nat /\ r \in Nat /\ r < P /\ v = P * q + r
    <3>1. P \in Nat /\ P > 0
      BY <2>1
    <3>. HIDE DEF P
    <3>2. v \div P \in Nat /\ v % P \in Nat /\ v % P < P /\ v = P * (v \div P) + (v % P)
      BY <3>1, DivMod, Zenon
    <3>. QED BY <3>2
  <2>. HIDE DEF P, q, r
  <2>5. c \in Nat /\ d \in Nat /\ d < ByteBase /\ q = ByteBase * c + d
    BY <1>4, <2>4, DivMod
  <2>. HIDE DEF c, d
  <2>6. v = (ByteBase * P) * c + (r + P * d)
    <3>1. P * q = P * (ByteBase * c) + P * d
      BY <1>4, <2>1, <2>5
    <3>2. P * (ByteBase * c) = (ByteBase * P) * c
      BY <1>4, <2>1, <2>5
    <3>. DEFINE x == P * q
                y == P * (ByteBase * c)
                z == P * d
                u == (ByteBase * P) * c
    <3>3. x \in Nat /\ y \in Nat /\ z \in Nat /\ u \in Nat
      BY <1>4, <2>1, <2>4, <2>5
    <3>4. v = x + r /\ x = y + z /\ y = u
      BY <2>4, <3>1, <3>2
    <3>. HIDE DEF x, y, z, u
    <3>5. v = u + (r + z)
      BY <2>4, <3>3, <3>4
    <3>. QED BY <3>5 DEF u, z
  <2>7. r + P * d < ByteBase * P
    <3>1. P * d + P <= ByteBase * P
      <4>1. d + 1 <= ByteBase
        BY <1>4, <2>5
      <4>2. P * (d + 1) <= P * ByteBase
        BY <1>4, <2>1, <2>5, <4>1
      <4>. QED BY <1>4, <2>1, <2>5, <4>2
    <3>. DEFINE z == P * d
                u == ByteBase * P
    <3>2. z \in Nat /\ u \in Nat
      BY <1>4, <2>1, <2>5
    <3>. HIDE DEF z, u
    <3>3. z + P <= u
      BY <3>1 DEF z, u
    <3>4. r + z < u
      BY <2>1, <2>4, <3>2, <3>3
    <3>. QED BY <3>4 DEF z, u
  <2>8. v % (ByteBase * P) = r + P * d
    <3>. DEFINE u == ByteBase * P
                z == r + P * d
    <3>1. u \in Nat /\ z \in Nat /\ u > 0
      BY <1>4, <2>1, <2>4, <2>5
    <3>2. z < u /\ v = u * c + z
      BY <2>6, <2>7
    <3>. HIDE DEF u, z
    <3>3. v % u = z
      BY <2>5, <3>1, <3>2, DivModOf
    <3>. QED BY <3>3 DEF u, z
  <2>. QED BY <2>1, <2>2, <2>3, <2>8
<1>7. \A n \in 0 .. width : n \in S
  <2>. HIDE DEF S
  <2>. QED BY <1>5, <1>6, UpTo
<1>8. word[width] = v % Power[width]
  BY <1>7
<1>9. v % Power[width] = v
  <2>1. Power[width] \in Nat
    BY PowerFacts
  <2>. QED BY <2>1
<1>. QED BY <1>3, <1>8, <1>9 DEF b

\* The cast to an unsigned word and back keeps every INT.
LEMMA CastsBack ==
    ASSUME NEW v \in -(WordLimit \div 2) .. WordLimit \div 2 - 1
    PROVE  AsUnsigned(v) \in Nat /\ AsUnsigned(v) < WordLimit /\ AsSigned(AsUnsigned(v)) = v
<1>1. WordLimit \in Nat /\ WordLimit > 0
  BY PowerFacts, CodecConstants DEF WordLimit
<1>2. WordLimit = 2 * (WordLimit \div 2)
  <2>1. PICK k \in Nat : WordBytes = k + 1
    <3>1. WordBytes - 1 \in Nat /\ WordBytes = (WordBytes - 1) + 1
      BY CodecConstants
    <3>. QED BY <3>1
  <2>2. WordLimit = ByteBase * Power[k] /\ Power[k] \in Nat
    BY <2>1, PowerFacts DEF WordLimit
  <2>3. ByteBase = 2 * (ByteBase \div 2) /\ ByteBase \div 2 \in Nat
    BY CodecConstants
  <2>4. WordLimit = 2 * ((ByteBase \div 2) * Power[k])
    BY <2>2, <2>3
  <2>5. (ByteBase \div 2) * Power[k] \in Nat
    BY <2>2, <2>3
  <2>. DEFINE j == (ByteBase \div 2) * Power[k]
  <2>. HIDE DEF j
  <2>. QED BY <2>4, <2>5 DEF j
<1>. DEFINE h == WordLimit \div 2
<1>3. h \in Nat /\ WordLimit = h + h
  BY <1>1, <1>2
<1>4. v \in Int /\ -h <= v /\ v < h
  BY <1>3
<1>. HIDE DEF h
<1>5. AsUnsigned(v) = IF v < 0 THEN v + WordLimit ELSE v
  <2>1. v < WordLimit /\ 0 - WordLimit <= v
    BY <1>3, <1>4
  <2>. QED BY <1>1, <1>4, <2>1 DEF AsUnsigned
<1>. QED BY <1>1, <1>3, <1>4, <1>5 DEF AsSigned, h

-----------------------------------------------------------------------------
(***************************************************************************)
(* The reader.                                                             *)
(***************************************************************************)
Fields == [text : BOOLEAN, width : Nat]
Raw == Nat \cup Seq(Bytes)
Readers == [ok : BOOLEAN, at : Nat, values : Seq(Raw)]

\* A reader at a position that has read these values.
Reader(position, values) == [ok |-> TRUE, at |-> position, values |-> values]

\* The bytes between two positions.
LEMMA PartOfBytes ==
    ASSUME NEW S, NEW b \in Seq(S), NEW m \in Nat, NEW n \in Nat, m <= n, n <= Len(b)
    PROVE  /\ SubSeq(b, m + 1, n) \in Seq(S) /\ Len(SubSeq(b, m + 1, n)) = n - m
           /\ \A i \in 1 .. n - m : SubSeq(b, m + 1, n)[i] = b[m + i]
<1>. DEFINE part == [i \in 1 .. n - m |-> b[m + i]]
<1>1. n - m \in Nat /\ \A i \in 1 .. n - m : m + i \in 1 .. Len(b)
  OBVIOUS
<1>2. SubSeq(b, m + 1, n) = part
  <2>1. \A i \in 1 .. n - m : (m + 1) + i - 1 = m + i
    OBVIOUS
  <2>2. 1 + n - (m + 1) = n - m
    OBVIOUS
  <2>. QED BY <2>1, <2>2
<1>3. part \in [1 .. n - m -> S]
  BY <1>1
<1>4. part \in Seq(S) /\ Len(part) = n - m
  BY <1>1, <1>3
<1>5. \A i \in 1 .. n - m : part[i] = b[m + i]
  OBVIOUS
<1>. HIDE DEF part
<1>. QED BY <1>2, <1>4, <1>5

\* Of bytes before others.
LEMMA PartOfFirst ==
    ASSUME NEW S, NEW p \in Seq(S), NEW q \in Seq(S), NEW m \in Nat, NEW n \in Nat, m <= n, n <= Len(p)
    PROVE  SubSeq(p \o q, m + 1, n) = SubSeq(p, m + 1, n)
<1>. DEFINE x == SubSeq(p \o q, m + 1, n)
            y == SubSeq(p, m + 1, n)
<1>1. p \o q \in Seq(S) /\ Len(p \o q) = Len(p) + Len(q) /\ Len(p) \in Nat /\ Len(q) \in Nat
  OBVIOUS
<1>2. n <= Len(p \o q)
  BY <1>1
<1>3. x \in Seq(S) /\ Len(x) = n - m /\ \A i \in 1 .. n - m : x[i] = (p \o q)[m + i]
  BY <1>1, <1>2, PartOfBytes, Zenon
<1>4. y \in Seq(S) /\ Len(y) = n - m /\ \A i \in 1 .. n - m : y[i] = p[m + i]
  BY PartOfBytes, Zenon
<1>5. \A i \in 1 .. n - m : (p \o q)[m + i] = p[m + i]
  BY <1>1
<1>. HIDE DEF x, y
<1>6. x = y
  BY <1>3, <1>4, <1>5, SeqEqual, Zenon
<1>. QED BY <1>6 DEF x, y

\* Of bytes behind others.
LEMMA PartOfLast ==
    ASSUME NEW S, NEW p \in Seq(S), NEW q \in Seq(S), NEW n \in Nat, n <= Len(q)
    PROVE  SubSeq(p \o q, Len(p) + 1, Len(p) + n) = SubSeq(q, 1, n)
<1>. DEFINE x == SubSeq(p \o q, Len(p) + 1, Len(p) + n)
            y == SubSeq(q, 0 + 1, n)
<1>1. p \o q \in Seq(S) /\ Len(p \o q) = Len(p) + Len(q) /\ Len(p) \in Nat /\ Len(q) \in Nat
  OBVIOUS
<1>2. Len(p) + n <= Len(p \o q) /\ Len(p) <= Len(p) + n /\ Len(p) + n \in Nat /\ (Len(p) + n) - Len(p) = n
      /\ 0 \in Nat /\ 0 <= n /\ n - 0 = n
  BY <1>1
<1>3. x \in Seq(S) /\ Len(x) = n /\ \A i \in 1 .. n : x[i] = (p \o q)[Len(p) + i]
  <2>1. /\ x \in Seq(S) /\ Len(x) = (Len(p) + n) - Len(p)
        /\ \A i \in 1 .. (Len(p) + n) - Len(p) : x[i] = (p \o q)[Len(p) + i]
    <3>. DEFINE b == p \o q
                a == Len(p)
                z == a + n
    <3>1. b \in Seq(S) /\ a \in Nat /\ z \in Nat /\ a <= z /\ z <= Len(b)
      BY <1>1, <1>2
    <3>. HIDE DEF b, a, z
    <3>2. /\ SubSeq(b, a + 1, z) \in Seq(S) /\ Len(SubSeq(b, a + 1, z)) = z - a
          /\ \A i \in 1 .. z - a : SubSeq(b, a + 1, z)[i] = b[a + i]
      BY <3>1, PartOfBytes
    <3>. QED BY <3>2 DEF b, a, z
  <2>. HIDE DEF x
  <2>. QED BY <1>2, <2>1
<1>4. y \in Seq(S) /\ Len(y) = n /\ \A i \in 1 .. n : y[i] = q[0 + i]
  <2>1. y \in Seq(S) /\ Len(y) = n - 0 /\ \A i \in 1 .. n - 0 : y[i] = q[0 + i]
    BY <1>2, PartOfBytes, Zenon
  <2>. HIDE DEF y
  <2>. QED BY <1>2, <2>1
<1>5. \A i \in 1 .. n : (p \o q)[Len(p) + i] = q[0 + i]
  BY <1>1
<1>. HIDE DEF x, y
<1>6. x = y
  BY <1>3, <1>4, <1>5, SeqEqual, Zenon
<1>7. 0 + 1 = 1
  OBVIOUS
<1>. QED BY <1>6, <1>7 DEF x, y

\* All of it.
LEMMA WholeOf ==
    ASSUME NEW S, NEW q \in Seq(S)
    PROVE  SubSeq(q, 1, Len(q)) = q
<1>. DEFINE y == SubSeq(q, 0 + 1, Len(q))
<1>1. Len(q) \in Nat /\ 0 \in Nat /\ 0 <= Len(q) /\ Len(q) <= Len(q) /\ Len(q) - 0 = Len(q)
  OBVIOUS
<1>2. y \in Seq(S) /\ Len(y) = Len(q) /\ \A i \in 1 .. Len(q) : y[i] = q[0 + i]
  <2>1. y \in Seq(S) /\ Len(y) = Len(q) - 0 /\ \A i \in 1 .. Len(q) - 0 : y[i] = q[0 + i]
    BY <1>1, PartOfBytes, Zenon
  <2>. HIDE DEF y
  <2>. QED BY <1>1, <2>1
<1>3. \A i \in 1 .. Len(q) : q[0 + i] = q[i]
  OBVIOUS
<1>. HIDE DEF y
<1>4. y = q
  BY <1>2, <1>3, SeqEqual, Zenon
<1>5. 0 + 1 = 1
  OBVIOUS
<1>. QED BY <1>4, <1>5 DEF y

\* A word that is read is a natural.
LEMMA WordIsNat == ASSUME NEW b \in Seq(Bytes) PROVE ReadLittleEndian(b) \in Nat
<1>1. Len(b) \in Nat /\ Len(b) \in 0 .. Len(b)
  OBVIOUS
<1>. QED BY <1>1, ReadsBytes

\* A field that can be read, and what is read of it.
LEMMA FieldRead ==
    ASSUME NEW b \in Seq(Bytes), NEW r \in Readers, NEW f \in Fields
    PROVE  /\ ReadField(b, r, f) \in Readers
           /\ ReadField(b, r, f).ok => r.ok /\ r.at + f.width <= Len(b)
<1>. DEFINE after == r.at + f.width
            part == SubSeq(b, r.at + 1, after)
            word == ReadLittleEndian(part)
<1>1. r.ok \in BOOLEAN /\ r.at \in Nat /\ r.values \in Seq(Raw) /\ f.width \in Nat /\ Len(b) \in Nat
  BY DEF Readers, Fields
<1>2. FailRead(r) \in Readers /\ FailRead(r).ok = FALSE
  BY DEF FailRead, Readers
<1>3. CASE ~r.ok \/ f.width > Remaining(b, r.at)
  <2>1. ReadField(b, r, f) = FailRead(r)
    BY <1>3, Zenon DEF ReadField
  <2>. QED BY <1>2, <2>1
<1>4. CASE r.ok /\ ~(f.width > Remaining(b, r.at))
  <2>1. after \in Nat /\ after <= Len(b) /\ r.at <= after
    BY <1>1, <1>4 DEF Remaining
  <2>2. word \in Nat
    <3>1. part \in Seq(Bytes)
      BY <1>1, <2>1, PartOfBytes, Zenon
    <3>. HIDE DEF part
    <3>. QED BY <3>1, WordIsNat
  <2>3. CASE f.text
    <3>. DEFINE text == SubSeq(b, after + 1, after + word)
    <3>1. ReadField(b, r, f) = ReadText(b, r, after, word)
      BY <1>4, <2>3, Zenon DEF ReadField
    <3>2. CASE word > Remaining(b, after)
      <4>1. ReadField(b, r, f) = FailRead(r)
        BY <3>1, <3>2, Zenon DEF ReadText
      <4>. QED BY <1>2, <4>1
    <3>3. CASE ~(word > Remaining(b, after))
      <4>1. ReadField(b, r, f) = [r EXCEPT !.at = after + word, !.values = Append(@, text)]
        BY <3>1, <3>3, Zenon DEF ReadText
      <4>. HIDE DEF after, word
      <4>2. after + word \in Nat /\ after + word <= Len(b) /\ after <= after + word
        BY <1>1, <2>1, <2>2, <3>3 DEF Remaining
      <4>3. text \in Seq(Bytes)
        BY <2>1, <4>2, PartOfBytes, Zenon
      <4>. HIDE DEF text
      <4>4. Append(r.values, text) \in Seq(Raw)
        BY <1>1, <4>3 DEF Raw
      <4>. QED BY <1>1, <1>4, <2>1, <4>1, <4>2, <4>4 DEF Readers, after
    <3>. QED BY <3>2, <3>3
  <2>4. CASE ~f.text
    <3>1. ReadField(b, r, f) = [r EXCEPT !.at = after, !.values = Append(@, word)]
      BY <1>4, <2>4, Zenon DEF ReadField
    <3>. HIDE DEF after, word
    <3>2. Append(r.values, word) \in Seq(Raw)
      BY <1>1, <2>2 DEF Raw
    <3>. QED BY <1>1, <1>4, <2>1, <3>1, <3>2 DEF Readers, after
  <2>. QED BY <2>3, <2>4
<1>. QED BY <1>3, <1>4

\* What was read is read again when other bytes follow.
LEMMA FieldReadOn ==
    ASSUME NEW p \in Seq(Bytes), NEW q \in Seq(Bytes), NEW r \in Readers, NEW f \in Fields, ReadField(p, r, f).ok
    PROVE  ReadField(p \o q, r, f) = ReadField(p, r, f)
<1>. DEFINE after == r.at + f.width
            b == p \o q
            word(x) == ReadLittleEndian(SubSeq(x, r.at + 1, after))
<1>1. r.at \in Nat /\ f.width \in Nat /\ Len(p) \in Nat /\ Len(q) \in Nat
  BY DEF Readers, Fields
<1>2. r.ok /\ after <= Len(p)
  BY FieldRead
<1>3. Len(b) = Len(p) + Len(q)
  OBVIOUS
<1>4. ~(f.width > Remaining(p, r.at)) /\ ~(f.width > Remaining(b, r.at)) /\ after \in Nat /\ r.at <= after
  <2>. DEFINE n == f.width
              a == r.at
  <2>1. n \in Nat /\ a \in Nat /\ a + n <= Len(p) /\ Len(b) \in Nat /\ Len(b) = Len(p) + Len(q)
    BY <1>1, <1>2, <1>3
  <2>. HIDE DEF b, n, a
  <2>2. ~(n > Len(p) - a) /\ ~(n > Len(b) - a) /\ a + n \in Nat /\ a <= a + n
    BY <1>1, <2>1
  <2>. QED BY <2>2 DEF n, a, Remaining
<1>5. word(b) = word(p)
  <2>1. SubSeq(b, r.at + 1, after) = SubSeq(p, r.at + 1, after)
    <3>1. after \in Nat /\ after <= Len(p) /\ r.at <= after
      BY <1>2, <1>4
    <3>. HIDE DEF after
    <3>2. r.at \in Nat
      BY <1>1
    <3>. HIDE DEF b
    <3>3. b = p \o q
      BY DEF b
    <3>. QED BY <3>1, <3>2, <3>3, PartOfFirst
  <2>. QED BY <2>1
<1>6. word(p) \in Nat
  <2>1. SubSeq(p, r.at + 1, after) \in Seq(Bytes)
    BY <1>1, <1>2, <1>4, PartOfBytes, Zenon
  <2>. QED BY <2>1, WordIsNat
<1>7. CASE ~f.text
  <2>1. ReadField(p, r, f) = [r EXCEPT !.at = after, !.values = Append(@, word(p))]
    BY <1>2, <1>4, <1>7, Zenon DEF ReadField
  <2>2. ReadField(b, r, f) = [r EXCEPT !.at = after, !.values = Append(@, word(b))]
    BY <1>2, <1>4, <1>7, Zenon DEF ReadField
  <2>. QED BY <1>5, <2>1, <2>2, Zenon
<1>8. CASE f.text
  <2>1. ReadField(p, r, f) = ReadText(p, r, after, word(p))
    BY <1>2, <1>4, <1>8, Zenon DEF ReadField
  <2>2. ReadField(b, r, f) = ReadText(b, r, after, word(p))
    <3>1. ReadField(b, r, f) = ReadText(b, r, after, word(b))
      BY <1>2, <1>4, <1>8, Zenon DEF ReadField
    <3>. QED BY <1>5, <3>1, Zenon
  <2>3. ~(word(p) > Remaining(p, after))
    <3>. SUFFICES ASSUME word(p) > Remaining(p, after) PROVE FALSE
      OBVIOUS
    <3>1. ReadField(p, r, f) = FailRead(r)
      BY <2>1, Zenon DEF ReadText
    <3>2. FailRead(r).ok = FALSE
      BY DEF FailRead, Readers
    <3>. QED BY <3>1, <3>2, Zenon
  <2>. DEFINE w == word(p)
  <2>4. w \in Nat
    BY <1>6
  <2>5. w <= Len(p) - after /\ ~(w > Remaining(b, after))
    <3>1. ~(w > Remaining(p, after))
      BY <2>3
    <3>. HIDE DEF w, after, b
    <3>. QED BY <1>1, <1>3, <1>4, <2>4, <3>1 DEF Remaining
  <2>6. after + w \in Nat /\ after <= after + w /\ after + w <= Len(p)
    <3>. HIDE DEF w, after
    <3>. QED BY <1>1, <1>4, <2>4, <2>5
  <2>7. SubSeq(b, after + 1, after + w) = SubSeq(p, after + 1, after + w)
    <3>. HIDE DEF w, after
    <3>. QED BY <1>4, <2>6, PartOfFirst, Zenon
  <2>8. ReadText(p, r, after, w) = [r EXCEPT !.at = after + w, !.values = Append(@, SubSeq(p, after + 1, after + w))]
    BY <2>3, Zenon DEF ReadText
  <2>9. ReadText(b, r, after, w) = [r EXCEPT !.at = after + w, !.values = Append(@, SubSeq(b, after + 1, after + w))]
    BY <2>5, Zenon DEF ReadText
  <2>. QED BY <2>1, <2>2, <2>7, <2>8, <2>9, Zenon
<1>. QED BY <1>7, <1>8

\* The reader after every number of fields.
LEMMA ReadsStepwise ==
    ASSUME NEW b \in Seq(Bytes), NEW at \in Nat, NEW fs \in Seq(Fields)
    PROVE  \E read \in [0 .. Len(fs) -> Readers] :
              /\ read[0] = Reader(at, <<>>)
              /\ \A n \in 1 .. Len(fs) : read[n] = ReadField(b, read[n - 1], fs[n])
              /\ ReadFields(b, at, fs) = read[Len(fs)]
<1>. DEFINE N == Len(fs)
            s == [x \in (1 .. N) \X Readers |-> ReadField(b, x[2], fs[x[1]])]
            W(f) == [n \in 0 .. N |-> IF n = 0 THEN [ok |-> TRUE, at |-> at, values |-> <<>>]
                                      ELSE ReadField(b, f[n - 1], fs[n])]
            read == CHOOSE f : f = W(f)
            start == Reader(at, <<>>)
<1>1. N \in Nat /\ \A n \in 1 .. N : fs[n] \in Fields
  OBVIOUS
<1>2. start \in Readers /\ start = [ok |-> TRUE, at |-> at, values |-> <<>>]
  BY DEF Reader, Readers
<1>3. s \in [(1 .. N) \X Readers -> Readers]
  <2>1. ASSUME NEW x \in (1 .. N) \X Readers PROVE ReadField(b, x[2], fs[x[1]]) \in Readers
    <3>1. x[2] \in Readers /\ fs[x[1]] \in Fields
      BY <1>1
    <3>. QED BY <3>1, FieldRead
  <2>. QED BY <2>1
<1>4. PICK g \in [0 .. N -> Readers] : Steps(g, s, start, N)
  <2>. HIDE DEF s, N, start
  <2>. QED BY <1>1, <1>2, <1>3, StepsExist
<1>5. ASSUME NEW n \in 1 .. N PROVE g[n] = ReadField(b, g[n - 1], fs[n])
  <2>1. n - 1 \in 0 .. N /\ g[n - 1] \in Readers
    BY <1>1
  <2>2. s[<<n, g[n - 1]>>] = ReadField(b, g[n - 1], fs[n])
    BY <2>1
  <2>. HIDE DEF s
  <2>. QED BY <1>4, <2>2 DEF Steps
<1>6. g = W(g)
  <2>1. g[0] = [ok |-> TRUE, at |-> at, values |-> <<>>]
    BY <1>2, <1>4 DEF Steps
  <2>. HIDE DEF N
  <2>. QED BY <1>1, <1>5, <2>1
<1>7. read = W(read)
  <2>. HIDE DEF W
  <2>. QED BY <1>6
<1>8. ReadFields(b, at, fs) = read[N]
  BY DEF ReadFields
<1>. HIDE DEF read, s
<1>9. read[0] = start /\ \A n \in 1 .. N : read[n] = ReadField(b, read[n - 1], fs[n])
  <2>1. 0 \in 0 .. N /\ \A n \in 1 .. N : n \in 0 .. N /\ n # 0
    BY <1>1
  <2>. HIDE DEF N, start
  <2>2. read[0] = [ok |-> TRUE, at |-> at, values |-> <<>>]
    BY <1>7, <2>1
  <2>3. ASSUME NEW n \in 1 .. N PROVE read[n] = ReadField(b, read[n - 1], fs[n])
    BY <1>7, <2>1
  <2>. QED BY <1>2, <2>2, <2>3
<1>. DEFINE S == {n \in 0 .. N : read[n] \in Readers}
<1>10. 0 \in S
  BY <1>1, <1>2, <1>9
<1>11. ASSUME NEW n \in 0 .. N - 1, n \in S PROVE n + 1 \in S
  <2>1. n + 1 \in 1 .. N /\ (n + 1) - 1 = n
    BY <1>1
  <2>2. read[n + 1] = ReadField(b, read[n], fs[n + 1]) /\ fs[n + 1] \in Fields
    BY <1>1, <1>9, <2>1
  <2>3. read[n + 1] \in Readers
    BY <1>11, <2>2, FieldRead
  <2>. QED BY <2>1, <2>3
<1>12. \A n \in 0 .. N : n \in S
  <2>. HIDE DEF S
  <2>. QED BY <1>1, <1>10, <1>11, UpTo
<1>13. read \in [0 .. N -> Readers]
  <2>1. read = [n \in 0 .. N |-> read[n]]
    <3>. HIDE DEF N
    <3>. QED BY <1>7
  <2>. QED BY <1>12, <2>1
<1>. QED BY <1>8, <1>9, <1>13

\* No field at all, and one field more.
LEMMA ReadNext ==
    ASSUME NEW b \in Seq(Bytes), NEW at \in Nat
    PROVE  /\ ReadFields(b, at, <<>>) = Reader(at, <<>>)
           /\ \A fs \in Seq(Fields) :
                /\ ReadFields(b, at, fs) \in Readers
                /\ \A f \in Fields :
                     ReadFields(b, at, Append(fs, f)) = ReadField(b, ReadFields(b, at, fs), f)
<1>1. ReadFields(b, at, <<>>) = Reader(at, <<>>)
  <2>1. <<>> \in Seq(Fields) /\ Len(<<>>) = 0
    OBVIOUS
  <2>2. PICK read \in [0 .. Len(<<>>) -> Readers] :
              /\ read[0] = Reader(at, <<>>)
              /\ ReadFields(b, at, <<>>) = read[Len(<<>>)]
    BY <2>1, ReadsStepwise
  <2>. QED BY <2>1, <2>2
<1>2. ASSUME NEW fs \in Seq(Fields)
      PROVE  /\ ReadFields(b, at, fs) \in Readers
             /\ \A f \in Fields :
                     ReadFields(b, at, Append(fs, f)) = ReadField(b, ReadFields(b, at, fs), f)
  <2>1. PICK read \in [0 .. Len(fs) -> Readers] :
              /\ read[0] = Reader(at, <<>>)
              /\ \A n \in 1 .. Len(fs) : read[n] = ReadField(b, read[n - 1], fs[n])
              /\ ReadFields(b, at, fs) = read[Len(fs)]
    BY ReadsStepwise
  <2>2. Len(fs) \in Nat /\ Len(fs) \in 0 .. Len(fs)
    OBVIOUS
  <2>3. ASSUME NEW f \in Fields PROVE ReadFields(b, at, Append(fs, f)) = ReadField(b, ReadFields(b, at, fs), f)
    <3>. DEFINE gs == Append(fs, f)
                N == Len(fs)
    <3>1. gs \in Seq(Fields) /\ Len(gs) = N + 1 /\ gs[N + 1] = f /\ \A n \in 1 .. N : gs[n] = fs[n]
      OBVIOUS
    <3>. HIDE DEF gs
    <3>2. PICK next \in [0 .. N + 1 -> Readers] :
              /\ next[0] = Reader(at, <<>>)
              /\ \A n \in 1 .. N + 1 : next[n] = ReadField(b, next[n - 1], gs[n])
              /\ ReadFields(b, at, gs) = next[N + 1]
      <4>1. \E next \in [0 .. Len(gs) -> Readers] :
              /\ next[0] = Reader(at, <<>>)
              /\ \A n \in 1 .. Len(gs) : next[n] = ReadField(b, next[n - 1], gs[n])
              /\ ReadFields(b, at, gs) = next[Len(gs)]
        BY <3>1, ReadsStepwise
      <4>. QED BY <3>1, <4>1
    <3>. DEFINE S == {n \in 0 .. N : next[n] = read[n]}
    <3>3. 0 \in S
      BY <2>1, <2>2, <3>2
    <3>4. ASSUME NEW n \in 0 .. N - 1, n \in S PROVE n + 1 \in S
      <4>1. n + 1 \in 1 .. N /\ n + 1 \in 1 .. N + 1 /\ (n + 1) - 1 = n /\ n + 1 \in 0 .. N
        BY <2>2
      <4>2. next[n + 1] = ReadField(b, next[n], gs[n + 1])
        BY <3>2, <4>1
      <4>3. read[n + 1] = ReadField(b, read[n], fs[n + 1])
        BY <2>1, <4>1
      <4>. QED BY <3>1, <3>4, <4>1, <4>2, <4>3
    <3>5. \A n \in 0 .. N : n \in S
      <4>. HIDE DEF S
      <4>. QED BY <2>2, <3>3, <3>4, UpTo
    <3>6. next[N] = read[N]
      BY <2>2, <3>5
    <3>7. N + 1 \in 1 .. N + 1 /\ (N + 1) - 1 = N
      BY <2>2
    <3>8. next[N + 1] = ReadField(b, next[N], f)
      BY <3>1, <3>2, <3>7
    <3>. QED BY <2>1, <3>2, <3>6, <3>8 DEF gs
  <2>. QED BY <2>1, <2>2, <2>3
<1>. QED BY <1>1, <1>2

\* What was read is read again when other bytes follow.
LEMMA ReadsOn ==
    ASSUME NEW p \in Seq(Bytes), NEW q \in Seq(Bytes), NEW at \in Nat, NEW fs \in Seq(Fields),
           ReadFields(p, at, fs).ok
    PROVE  ReadFields(p \o q, at, fs) = ReadFields(p, at, fs)
<1>. DEFINE b == p \o q
            N == Len(fs)
<1>1. b \in Seq(Bytes) /\ N \in Nat /\ N \in 0 .. N
  OBVIOUS
<1>2. PICK read \in [0 .. N -> Readers] :
              /\ read[0] = Reader(at, <<>>)
              /\ \A n \in 1 .. N : read[n] = ReadField(p, read[n - 1], fs[n])
              /\ ReadFields(p, at, fs) = read[N]
  BY ReadsStepwise
<1>3. PICK more \in [0 .. N -> Readers] :
              /\ more[0] = Reader(at, <<>>)
              /\ \A n \in 1 .. N : more[n] = ReadField(b, more[n - 1], fs[n])
              /\ ReadFields(b, at, fs) = more[N]
  <2>. HIDE DEF b
  <2>. QED BY <1>1, ReadsStepwise
<1>. DEFINE S == {n \in 0 .. N : read[n].ok => more[n] = read[n]}
<1>4. 0 \in S
  BY <1>1, <1>2, <1>3
<1>5. ASSUME NEW n \in 0 .. N - 1, n \in S PROVE n + 1 \in S
  <2>1. n + 1 \in 1 .. N /\ (n + 1) - 1 = n /\ n + 1 \in 0 .. N /\ fs[n + 1] \in Fields /\ n \in 0 .. N
    BY <1>1
  <2>2. read[n + 1] = ReadField(p, read[n], fs[n + 1]) /\ more[n + 1] = ReadField(b, more[n], fs[n + 1])
    <3>. HIDE DEF b, N
    <3>. QED BY <1>2, <1>3, <2>1
  <2>3. ASSUME read[n + 1].ok PROVE more[n + 1] = read[n + 1]
    <3>1. read[n] \in Readers
      BY <1>2, <2>1
    <3>2. read[n].ok
      <4>1. ReadField(p, read[n], fs[n + 1]).ok
        BY <2>2, <2>3, Zenon
      <4>2. fs[n + 1] \in Fields
        BY <2>1
      <4>. QED BY <3>1, <4>1, <4>2, FieldRead, Zenon
    <3>3. more[n] = read[n]
      BY <1>5, <3>2
    <3>4. ReadField(b, read[n], fs[n + 1]) = ReadField(p, read[n], fs[n + 1])
      BY <2>1, <2>2, <2>3, <3>1, FieldReadOn
    <3>. QED BY <2>2, <3>3, <3>4
  <2>. QED BY <2>1, <2>3
<1>6. \A n \in 0 .. N : n \in S
  <2>. HIDE DEF S
  <2>. QED BY <1>1, <1>4, <1>5, UpTo
<1>7. read[N].ok => more[N] = read[N]
  BY <1>1, <1>6
<1>. QED BY <1>2, <1>3, <1>7

-----------------------------------------------------------------------------
(***************************************************************************)
(* What is written for a field.                                            *)
(***************************************************************************)
Written(f, v) == IF f.text THEN WriteText(f.width, v) ELSE WriteLittleEndian(f.width, v)

\* The values a field holds.
Held(f, v) ==
    IF f.text THEN v \in Seq(Bytes) /\ Len(v) < Power[f.width] ELSE v \in Nat /\ v < Power[f.width]

\* A field that its value fits is written as bytes.
LEMMA WrittenBytes ==
    ASSUME NEW f \in Fields, NEW v, Held(f, v)
    PROVE  Written(f, v) \in Seq(Bytes) /\ v \in Raw
<1>1. f.width \in Nat /\ f.text \in BOOLEAN
  BY DEF Fields
<1>2. CASE f.text
  <2>1. v \in Seq(Bytes) /\ Len(v) \in Nat
    BY <1>2 DEF Held
  <2>2. WriteLittleEndian(f.width, Len(v)) \in Seq(Bytes)
    BY <1>1, <2>1, WritesBytes
  <2>3. WriteText(f.width, v) \in Seq(Bytes)
    BY <2>1, <2>2 DEF WriteText
  <2>. QED BY <1>2, <2>1, <2>3 DEF Written, Raw
<1>3. CASE ~f.text
  <2>1. v \in Nat
    BY <1>3 DEF Held
  <2>2. WriteLittleEndian(f.width, v) \in Seq(Bytes)
    BY <1>1, <2>1, WritesBytes
  <2>. QED BY <1>3, <2>1, <2>2 DEF Written, Raw
<1>. QED BY <1>2, <1>3

\* It is read back behind whatever was read before.
LEMMA FieldReadsBack ==
    ASSUME NEW u \in Seq(Bytes), NEW vs \in Seq(Raw), NEW f \in Fields, NEW v, Held(f, v)
    PROVE  ReadField(u \o Written(f, v), Reader(Len(u), vs), f) = Reader(Len(u \o Written(f, v)), Append(vs, v))
<1>. DEFINE w == Written(f, v)
            b == u \o w
            a == Len(u)
            k == f.width
            r == Reader(a, vs)
<1>1. w \in Seq(Bytes) /\ b \in Seq(Bytes) /\ a \in Nat /\ k \in Nat /\ f.text \in BOOLEAN
  BY WrittenBytes DEF Fields
<1>2. r.ok /\ r.at = a /\ r.values = vs
  BY DEF Reader
<1>3. Len(b) = a + Len(w) /\ Len(w) \in Nat
  BY <1>1
<1>4. CASE ~f.text
  <2>1. v \in Nat /\ v < Power[k] /\ w = WriteLittleEndian(k, v)
    BY <1>4 DEF Held, Written
  <2>2. Len(w) = k
    BY <1>1, <2>1, WritesBytes
  <2>3. SubSeq(b, a + 1, a + k) = w
    <3>. HIDE DEF w, k
    <3>1. Len(w) <= Len(w)
      BY <1>3
    <3>2. SubSeq(u \o w, Len(u) + 1, Len(u) + Len(w)) = SubSeq(w, 1, Len(w))
      BY <1>1, <1>3, <3>1, PartOfLast
    <3>3. SubSeq(w, 1, Len(w)) = w
      BY <1>1, WholeOf
    <3>. QED BY <2>2, <3>2, <3>3
  <2>4. ReadLittleEndian(SubSeq(b, a + 1, a + k)) = v
    <3>1. ReadLittleEndian(w) = v
      <4>. HIDE DEF w, k
      <4>. QED BY <1>1, <2>1, WordReadsBack
    <3>. QED BY <2>3, <3>1
  <2>5. ~(k > Remaining(b, a))
    <3>. HIDE DEF w, k, b, a
    <3>. QED BY <1>1, <1>3, <2>2 DEF Remaining
  <2>6. ReadField(b, r, f) = [r EXCEPT !.at = a + k, !.values = Append(@, v)]
    <3>. HIDE DEF r, w, b, a
    <3>. QED BY <1>2, <1>4, <2>4, <2>5, Zenon DEF ReadField
  <2>7. ReadField(b, r, f) = Reader(a + k, Append(vs, v))
    <3>. HIDE DEF b, a, k
    <3>. QED BY <2>6 DEF Reader
  <2>. QED BY <1>3, <2>2, <2>7
<1>5. CASE f.text
  <2>. DEFINE l == WriteLittleEndian(k, Len(v))
  <2>1. v \in Seq(Bytes) /\ Len(v) \in Nat /\ Len(v) < Power[k] /\ w = l \o v
    BY <1>5 DEF Held, Written, WriteText
  <2>2. l \in Seq(Bytes) /\ Len(l) = k
    <3>. HIDE DEF k
    <3>. QED BY <1>1, <2>1, WritesBytes
  <2>3. ReadLittleEndian(l) = Len(v)
    <3>. HIDE DEF k
    <3>. QED BY <1>1, <2>1, WordReadsBack
  <2>. HIDE DEF l
  <2>4. Len(w) = k + Len(v) /\ Len(b) = a + (k + Len(v))
    <3>0. v \in Seq(Bytes) /\ l \in Seq(Bytes)
      BY <2>1, <2>2, Zenon
    <3>1. Len(l \o v) = Len(l) + Len(v)
      BY <3>0
    <3>. HIDE DEF b, w, k
    <3>. QED BY <1>3, <2>1, <2>2, <3>1
  <2>5. b = (u \o l) \o v /\ u \o l \in Seq(Bytes) /\ Len(u \o l) = a + k
    <3>0. v \in Seq(Bytes) /\ l \in Seq(Bytes)
      BY <2>1, <2>2, Zenon
    <3>1. u \o (l \o v) = (u \o l) \o v
      BY <3>0, ConcatAssociative
    <3>2. u \o l \in Seq(Bytes) /\ Len(u \o l) = a + k
      <4>1. u \o l \in Seq(Bytes) /\ Len(u \o l) = Len(u) + Len(l)
        BY <3>0
      <4>. QED BY <2>2, <4>1, Zenon
    <3>. HIDE DEF w, k
    <3>3. b = u \o (l \o v)
      BY <2>1, Zenon
    <3>. QED BY <3>1, <3>2, <3>3
  <2>6. SubSeq(b, a + 1, a + k) = l
    <3>. DEFINE ul == u \o l
    <3>1. a + k \in Nat /\ a <= a + k /\ a + k <= Len(ul)
      <4>1. Len(ul) = a + k
        BY <2>5
      <4>. HIDE DEF ul, a, k
      <4>. QED BY <1>1, <4>1
    <3>2. SubSeq(ul \o v, a + 1, a + k) = SubSeq(ul, a + 1, a + k)
      <4>. HIDE DEF ul, a, k
      <4>1. ul \in Seq(Bytes)
        BY <2>5 DEF ul
      <4>. QED BY <1>1, <2>1, <3>1, <4>1, PartOfFirst
    <3>3. SubSeq(u \o l, Len(u) + 1, Len(u) + Len(l)) = SubSeq(l, 1, Len(l))
      <4>1. Len(l) \in Nat /\ Len(l) <= Len(l)
        BY <2>2
      <4>. QED BY <2>2, <4>1, PartOfLast
    <3>4. SubSeq(l, 1, Len(l)) = l
      BY <2>2, WholeOf
    <3>. QED BY <2>2, <2>5, <3>2, <3>3, <3>4
  <2>7. SubSeq(b, (a + k) + 1, (a + k) + Len(v)) = v
    <3>. DEFINE ul == u \o l
    <3>. HIDE DEF ul, b
    <3>1. ul \in Seq(Bytes) /\ Len(ul) = a + k /\ b = ul \o v
      BY <2>5 DEF ul
    <3>2. SubSeq(ul \o v, Len(ul) + 1, Len(ul) + Len(v)) = SubSeq(v, 1, Len(v))
      <4>1. Len(v) <= Len(v)
        BY <2>1
      <4>. QED BY <2>1, <3>1, <4>1, PartOfLast
    <3>3. SubSeq(v, 1, Len(v)) = v
      BY <2>1, WholeOf
    <3>. QED BY <3>1, <3>2, <3>3
  <2>8. ReadLittleEndian(SubSeq(b, a + 1, a + k)) = Len(v)
    BY <2>3, <2>6
  <2>9. ~(k > Remaining(b, a)) /\ ~(Len(v) > Remaining(b, a + k))
    <3>. DEFINE n == Len(v)
    <3>. HIDE DEF w, k, b, a, n
    <3>1. n \in Nat /\ Len(b) = a + (k + n)
      BY <2>1, <2>4 DEF n
    <3>2. ~(k > Len(b) - a) /\ ~(n > Len(b) - (a + k))
      BY <1>1, <3>1
    <3>. QED BY <3>2 DEF Remaining, n
  <2>10. ReadField(b, r, f) = ReadText(b, r, a + k, Len(v))
    <3>. HIDE DEF r, w, b, a
    <3>. QED BY <1>2, <1>5, <2>8, <2>9, Zenon DEF ReadField
  <2>11. ReadText(b, r, a + k, Len(v)) = [r EXCEPT !.at = (a + k) + Len(v), !.values = Append(@, v)]
    <3>. HIDE DEF r, b, a, k
    <3>. QED BY <2>7, <2>9, Zenon DEF ReadText
  <2>12. ReadField(b, r, f) = Reader((a + k) + Len(v), Append(vs, v))
    <3>. HIDE DEF b, a, k
    <3>. QED BY <2>10, <2>11 DEF Reader
  <2>13. (a + k) + Len(v) = Len(b)
    <3>. HIDE DEF b, a, k
    <3>. QED BY <1>1, <2>1, <2>4
  <2>. QED BY <2>12, <2>13
<1>. QED BY <1>1, <1>4, <1>5

\* Bytes are all read as these fields, from a position, with these values.
Reads(b, at, fs, vs) ==
    b \in Seq(Bytes) /\ fs \in Seq(Fields) /\ vs \in Seq(Raw) /\ ReadFields(b, at, fs) = Reader(Len(b), vs)

\* One field more is written and read.
LEMMA ReadsNext ==
    ASSUME NEW at \in Nat, NEW u, NEW fs, NEW vs, Reads(u, at, fs, vs), NEW f \in Fields, NEW v, Held(f, v)
    PROVE  Reads(u \o Written(f, v), at, Append(fs, f), Append(vs, v))
<1>. DEFINE w == Written(f, v)
            b == u \o w
<1>1. u \in Seq(Bytes) /\ fs \in Seq(Fields) /\ vs \in Seq(Raw) /\ ReadFields(u, at, fs) = Reader(Len(u), vs)
  BY DEF Reads
<1>2. w \in Seq(Bytes) /\ v \in Raw
  BY WrittenBytes
<1>3. b \in Seq(Bytes) /\ Append(fs, f) \in Seq(Fields) /\ Append(vs, v) \in Seq(Raw)
  BY <1>1, <1>2
<1>4. ReadFields(b, at, fs) = ReadFields(u, at, fs)
  <2>1. ReadFields(u, at, fs).ok
    BY <1>1 DEF Reader
  <2>. HIDE DEF w
  <2>. QED BY <1>1, <1>2, <2>1, ReadsOn
<1>5. ReadFields(b, at, Append(fs, f)) = ReadField(b, ReadFields(b, at, fs), f)
  <2>. HIDE DEF b
  <2>. QED BY <1>1, <1>3, ReadNext
<1>6. ReadField(b, Reader(Len(u), vs), f) = Reader(Len(b), Append(vs, v))
  BY <1>1, FieldReadsBack
<1>. QED BY <1>1, <1>3, <1>4, <1>5, <1>6 DEF Reads

\* Nothing is read of nothing.
LEMMA ReadsNothing ==
    ASSUME NEW b \in Seq(Bytes)
    PROVE  Reads(b, Len(b), <<>>, <<>>)
<1>1. Len(b) \in Nat /\ <<>> \in Seq(Fields) /\ <<>> \in Seq(Raw)
  OBVIOUS
<1>. QED BY <1>1, ReadNext DEF Reads

\* Bytes joined in their order.
LEMMA Flattened ==
    ASSUME NEW N \in Nat, NEW s \in [1 .. N -> Seq(Bytes)]
    PROVE  \E joined \in [0 .. N -> Seq(Bytes)] :
              /\ joined[0] = <<>> /\ \A n \in 1 .. N : joined[n] = joined[n - 1] \o s[n]
              /\ FlattenSeq(s) = joined[N]
<1>. DEFINE D == Seq(Bytes)
            step == [x \in (1 .. N) \X D |-> x[2] \o s[x[1]]]
<1>0. <<>> \in D
  OBVIOUS
<1>1. step \in [(1 .. N) \X D -> D]
  <2>1. ASSUME NEW x \in (1 .. N) \X D PROVE x[2] \o s[x[1]] \in D
    <3>1. x[2] \in Seq(Bytes) /\ s[x[1]] \in Seq(Bytes)
      OBVIOUS
    <3>. QED BY <3>1
  <2>. HIDE DEF D
  <2>. QED BY <2>1
<1>2. PICK g \in [0 .. N -> D] : Steps(g, step, <<>>, N)
  <2>. HIDE DEF D, step
  <2>. QED BY <1>0, <1>1, StepsExist
<1>3. g[0] = <<>> /\ \A n \in 1 .. N : g[n] = g[n - 1] \o s[n]
  <2>1. ASSUME NEW n \in 1 .. N PROVE g[n] = g[n - 1] \o s[n]
    <3>1. n - 1 \in 0 .. N /\ g[n - 1] \in D
      OBVIOUS
    <3>2. step[<<n, g[n - 1]>>] = g[n - 1] \o s[n]
      <4>. HIDE DEF D
      <4>. QED BY <3>1
    <3>. HIDE DEF step
    <3>. QED BY <1>2, <3>2 DEF Steps
  <2>. QED BY <1>2, <2>1 DEF Steps
<1>4. Len(s) = N /\ s \in Seq(D)
  OBVIOUS
<1>5. FlattenSeq(s) = g[N]
  <2>1. CASE N = 0
    <3>1. s = <<>>
      BY <1>4, <2>1
    <3>2. FlattenSeq(s) = s
      BY <1>4, <2>1 DEF FlattenSeq
    <3>. QED BY <1>3, <2>1, <3>1, <3>2
  <2>2. CASE N # 0
    <3>. DEFINE W(f) == [i \in 1 .. N |-> IF i = 1 THEN s[i] ELSE f[i - 1] \o s[i]]
                flat == CHOOSE f : f = W(f)
                h == [i \in 1 .. N |-> g[i]]
    <3>1. FlattenSeq(s) = flat[N]
      BY <1>4, <2>2 DEF FlattenSeq
    <3>2. h = W(h)
      <4>1. ASSUME NEW i \in 1 .. N PROVE h[i] = IF i = 1 THEN s[i] ELSE h[i - 1] \o s[i]
        <5>1. CASE i = 1
          <6>1. s[1] \in Seq(Bytes) /\ i - 1 = 0
            BY <5>1
          <6>2. g[1] = <<>> \o s[1]
            BY <1>3, <5>1, <6>1
          <6>3. <<>> \o s[1] = s[1]
            BY <6>1
          <6>. QED BY <5>1, <6>2, <6>3
        <5>2. CASE i # 1
          <6>1. i - 1 \in 1 .. N
            BY <5>2
          <6>. QED BY <1>3, <5>2, <6>1
        <5>. QED BY <5>1, <5>2
      <4>. QED BY <4>1
    <3>3. flat = W(flat)
      <4>. HIDE DEF W
      <4>. QED BY <3>2
    <3>. HIDE DEF flat, h
    <3>. DEFINE S == {n \in 0 .. N : n = 0 \/ flat[n] = g[n]}
    <3>4. 0 \in S
      OBVIOUS
    <3>5. ASSUME NEW n \in 0 .. N - 1, n \in S PROVE n + 1 \in S
      <4>1. n + 1 \in 1 .. N /\ (n + 1) - 1 = n /\ n + 1 \in 0 .. N /\ n \in Nat
        OBVIOUS
      <4>2. flat[n + 1] = IF n + 1 = 1 THEN s[n + 1] ELSE flat[n] \o s[n + 1]
        BY <3>3, <4>1
      <4>3. g[n + 1] = g[n] \o s[n + 1]
        BY <1>3, <4>1
      <4>4. CASE n = 0
        <5>1. n + 1 = 1 /\ s[1] \in Seq(Bytes)
          BY <4>1, <4>4
        <5>2. g[1] = <<>> \o s[1] /\ flat[1] = s[1]
          BY <1>3, <4>2, <4>3, <4>4, <5>1, Zenon
        <5>3. <<>> \o s[1] = s[1]
          BY <5>1
        <5>4. n + 1 \in 0 .. N /\ flat[n + 1] = g[n + 1]
          BY <4>1, <5>1, <5>2, <5>3, Zenon
        <5>. QED BY <5>4
      <4>5. CASE n # 0
        <5>1. flat[n] = g[n] /\ n + 1 # 1
          BY <3>5, <4>1, <4>5
        <5>2. n + 1 \in 0 .. N /\ flat[n + 1] = g[n + 1]
          BY <4>1, <4>2, <4>3, <5>1, Zenon
        <5>. QED BY <5>2
      <4>. QED BY <4>4, <4>5
    <3>6. \A n \in 0 .. N : n \in S
      <4>. HIDE DEF S
      <4>. QED BY <3>4, <3>5, UpTo
    <3>. QED BY <2>2, <3>1, <3>6
  <2>. QED BY <2>1, <2>2
<1>. QED BY <1>3, <1>5

\* Joining is associative.
LEMMA Associates ==
    ASSUME NEW x \in Seq(Bytes), NEW y \in Seq(Bytes), NEW z \in Seq(Bytes)
    PROVE  x \o (y \o z) = (x \o y) \o z
BY ConcatAssociative

\* Every part that follows is read with the fields and the values that follow.
ReadsEach(N, ws, at, F, V) ==
    \A n \in 1 .. N : \A b : Reads(b, at, F[n - 1], V[n - 1]) => Reads(b \o ws[n], at, F[n], V[n])

\* One written part after another is read.
LEMMA ReadsMany ==
    ASSUME NEW N \in Nat, NEW ws \in [1 .. N -> Seq(Bytes)], NEW at \in Nat, NEW u \in Seq(Bytes),
           NEW F, NEW V, Reads(u, at, F[0], V[0]), ReadsEach(N, ws, at, F, V)
    PROVE  FlattenSeq(ws) \in Seq(Bytes) /\ Reads(u \o FlattenSeq(ws), at, F[N], V[N])
<1>1. PICK joined \in [0 .. N -> Seq(Bytes)] :
              /\ joined[0] = <<>> /\ \A n \in 1 .. N : joined[n] = joined[n - 1] \o ws[n]
              /\ FlattenSeq(ws) = joined[N]
  BY Flattened
<1>. DEFINE S == {n \in 0 .. N : Reads(u \o joined[n], at, F[n], V[n])}
<1>2. 0 \in S
  <2>1. u \o joined[0] = u
    BY <1>1, ConcatEmptySeq
  <2>2. 0 \in 0 .. N
    OBVIOUS
  <2>. QED BY <2>1, <2>2, Zenon
<1>3. ASSUME NEW n \in 0 .. N - 1, n \in S PROVE n + 1 \in S
  <2>1. n + 1 \in 1 .. N /\ (n + 1) - 1 = n /\ n + 1 \in 0 .. N /\ n \in 0 .. N
    OBVIOUS
  <2>2. joined[n + 1] = joined[n] \o ws[n + 1] /\ joined[n] \in Seq(Bytes) /\ ws[n + 1] \in Seq(Bytes)
    BY <1>1, <2>1
  <2>3. u \o joined[n + 1] = (u \o joined[n]) \o ws[n + 1]
    <3>1. u \o (joined[n] \o ws[n + 1]) = (u \o joined[n]) \o ws[n + 1]
      <4>1. u \in Seq(Bytes) /\ joined[n] \in Seq(Bytes) /\ ws[n + 1] \in Seq(Bytes)
        BY <2>2
      <4>. QED BY <4>1, Associates
    <3>. QED BY <2>2, <3>1, Zenon
  <2>4. Reads(u \o joined[n], at, F[n], V[n])
    BY <1>3
  <2>5. Reads((u \o joined[n]) \o ws[n + 1], at, F[n + 1], V[n + 1])
    BY <2>1, <2>4 DEF ReadsEach
  <2>6. Reads(u \o joined[n + 1], at, F[n + 1], V[n + 1])
    BY <2>3, <2>5, Zenon
  <2>. QED BY <2>1, <2>6
<1>4. \A n \in 0 .. N : n \in S
  <2>. HIDE DEF S
  <2>. QED BY <1>2, <1>3, UpTo
<1>5. N \in 0 .. N
  OBVIOUS
<1>6. Reads(u \o joined[N], at, F[N], V[N])
  BY <1>4, <1>5
<1>. QED BY <1>1, <1>5, <1>6

\* A cut record begins the record.
LEMMA ShorterThan ==
    ASSUME NEW b \in Seq(Bytes), NEW p \in Shorter(b)
    PROVE  /\ p \in Seq(Bytes) /\ Len(p) \in Nat /\ Len(p) < Len(b)
           /\ \E q \in Seq(Bytes) : b = p \o q
<1>0. Len(b) \in Nat
  OBVIOUS
<1>1. PICK n \in 0 .. Len(b) - 1 : p = SubSeq(b, 1, n)
  BY DEF Shorter
<1>. DEFINE q == SubSeq(b, n + 1, Len(b))
<1>2. n \in Nat /\ n <= Len(b) /\ 0 \in Nat /\ 0 <= n /\ n < Len(b)
  BY <1>0
<1>3. p \in Seq(Bytes) /\ Len(p) = n /\ \A i \in 1 .. n : p[i] = b[i]
  <2>. DEFINE y == SubSeq(b, 0 + 1, n)
  <2>1. y \in Seq(Bytes) /\ Len(y) = n - 0 /\ \A i \in 1 .. n - 0 : y[i] = b[0 + i]
    BY <1>0, <1>2, PartOfBytes, Zenon
  <2>2. n - 0 = n /\ 0 + 1 = 1 /\ \A i \in 1 .. n : 0 + i = i
    BY <1>2
  <2>. QED BY <1>1, <2>1, <2>2
<1>4. q \in Seq(Bytes) /\ Len(q) = Len(b) - n /\ \A i \in 1 .. Len(b) - n : q[i] = b[n + i]
  <2>1. Len(b) <= Len(b)
    BY <1>0
  <2>. QED BY <1>0, <1>2, <2>1, PartOfBytes, Zenon
<1>. HIDE DEF q
<1>5. b = p \o q
  <2>. DEFINE c == p \o q
  <2>0. /\ c \in Seq(Bytes) /\ Len(c) = Len(p) + Len(q)
        /\ \A i \in 1 .. Len(p) + Len(q) : c[i] = IF i <= Len(p) THEN p[i] ELSE q[i - Len(p)]
    BY <1>3, <1>4, ConcatProperties, Zenon
  <2>1. c \in Seq(Bytes) /\ Len(c) = Len(b) /\ Len(p) + Len(q) = Len(b)
    <3>1. n + (Len(b) - n) = Len(b)
      BY <1>0, <1>2
    <3>. QED BY <1>3, <1>4, <2>0, <3>1, Zenon
  <2>. HIDE DEF c
  <2>2. ASSUME NEW i \in 1 .. Len(b) PROVE c[i] = b[i]
    <3>0. c[i] = IF i <= n THEN p[i] ELSE q[i - n]
      BY <1>3, <2>0, <2>1
    <3>1. CASE i <= n
      <4>1. i \in 1 .. n
        BY <1>0, <1>2, <3>1
      <4>. QED BY <1>3, <3>0, <3>1, <4>1
    <3>2. CASE ~(i <= n)
      <4>1. i - n \in 1 .. Len(b) - n /\ n + (i - n) = i
        BY <1>0, <1>2, <3>2
      <4>2. q[i - n] = b[i]
        BY <1>4, <4>1
      <4>. QED BY <3>0, <3>2, <4>2
    <3>. QED BY <3>1, <3>2
  <2>. HIDE DEF c
  <2>3. c = b
    BY <1>0, <2>1, <2>2, SeqEqual
  <2>. QED BY <2>3 DEF c
<1>. QED BY <1>2, <1>3, <1>4, <1>5

\* A cut record is not consumed, nor is one with a byte more.
LEMMA Delimited ==
    ASSUME NEW at \in Nat, NEW b, NEW fs, NEW vs, Reads(b, at, fs, vs), NEW p \in Shorter(b) \cup Longer(b)
    PROVE  p \in Seq(Bytes) /\ ~Consumed(p, ReadFields(p, at, fs))
<1>1. b \in Seq(Bytes) /\ fs \in Seq(Fields) /\ ReadFields(b, at, fs) = Reader(Len(b), vs) /\ Len(b) \in Nat
  BY DEF Reads
<1>. DEFINE R == ReadFields(p, at, fs)
<1>2. CASE p \in Shorter(b)
  <2>1. p \in Seq(Bytes) /\ Len(p) \in Nat /\ Len(p) < Len(b)
    BY <1>1, <1>2, ShorterThan
  <2>2. PICK q \in Seq(Bytes) : b = p \o q
    BY <1>1, <1>2, ShorterThan
  <2>3. ASSUME Consumed(p, R) PROVE FALSE
    <3>1. R.ok /\ Len(p) - R.at = 0
      BY <2>3 DEF Consumed, Remaining
    <3>2. ReadFields(p \o q, at, fs) = R
      BY <1>1, <2>1, <3>1, ReadsOn
    <3>3. R = Reader(Len(b), vs)
      BY <1>1, <2>2, <3>2
    <3>4. R.at = Len(b)
      BY <3>3 DEF Reader
    <3>. HIDE DEF R
    <3>. QED BY <1>1, <2>1, <3>1, <3>4
  <2>. QED BY <2>1, <2>3
<1>3. CASE p \in Longer(b)
  <2>1. PICK byte \in Bytes : p = Append(b, byte)
    BY <1>3 DEF Longer
  <2>. DEFINE q == <<byte>>
  <2>2. p \in Seq(Bytes) /\ Len(p) = Len(b) + 1
    BY <1>1, <2>1
  <2>3. q \in Seq(Bytes) /\ p = b \o q
    <3>1. Append(b, byte) = b \o <<byte>>
      BY <1>1, AppendIsConcat
    <3>. QED BY <2>1, <3>1
  <2>. HIDE DEF q
  <2>4. ReadFields(b, at, fs).ok
    BY <1>1 DEF Reader
  <2>5. R = Reader(Len(b), vs)
    BY <1>1, <2>3, <2>4, ReadsOn
  <2>6. R.at = Len(b)
    BY <2>5 DEF Reader
  <2>. HIDE DEF R
  <2>7. Remaining(p, R.at) # 0
    BY <1>1, <2>2, <2>6 DEF Remaining
  <2>. QED BY <2>2, <2>7 DEF Consumed, R
<1>. QED BY <1>2, <1>3

\* What follows is not read again.
LEMMA ReadsPrefix ==
    ASSUME NEW at \in Nat, NEW u, NEW fs, NEW vs, Reads(u, at, fs, vs), NEW q \in Seq(Bytes)
    PROVE  ReadFields(u \o q, at, fs) = Reader(Len(u), vs)
<1>1. u \in Seq(Bytes) /\ fs \in Seq(Fields) /\ ReadFields(u, at, fs) = Reader(Len(u), vs)
  BY DEF Reads
<1>2. ReadFields(u, at, fs).ok
  BY <1>1 DEF Reader
<1>. QED BY <1>1, <1>2, ReadsOn

-----------------------------------------------------------------------------
(***************************************************************************)
(* Indexes of the index catalog file.                                      *)
(***************************************************************************)
\* Names that fit the length that is stored with them.
StoredNames == {name \in Seq(Bytes) : name # <<>> /\ Len(name) < Power[CountBytes]}

StoredIndexes ==
    [id : 1 .. InvalidId - 1, table : 0 .. InvalidId - 1, column : 0 .. WordLimit - 1,
     root : 0 .. InvalidId - 1, name : StoredNames]

IndexFields ==
    <<Word(CountBytes), Word(WordBytes), Word(WordBytes), Word(WordBytes), Word(WordBytes), Prefixed(CountBytes)>>

\* The widths hold the version and the numbers.
LEMMA Widths ==
    /\ CountBytes \in Nat /\ WordBytes \in Nat /\ LengthBytes \in Nat
    /\ Power[CountBytes] \in Nat /\ Power[CountBytes] > 1
    /\ WordLimit \in Nat /\ WordLimit = Power[WordBytes] /\ WordLimit >= Power[CountBytes] /\ InvalidId = WordLimit - 1
    /\ Word(CountBytes) \in Fields /\ Word(WordBytes) \in Fields /\ Word(1) \in Fields
    /\ Prefixed(CountBytes) \in Fields /\ Prefixed(LengthBytes) \in Fields
    /\ Power[1] = ByteBase /\ ByteBase > 1 /\ ByteBase \in Nat
<1>1. CountBytes \in Nat /\ CountBytes > 0 /\ WordBytes \in Nat /\ LengthBytes \in Nat /\ CountBytes <= WordBytes
      /\ ByteBase \in Nat /\ ByteBase > 1
  BY CodecConstants
<1>2. Power[1] = ByteBase
  <2>1. 0 \in Nat /\ 0 + 1 = 1
    OBVIOUS
  <2>2. Power[0 + 1] = ByteBase * Power[0] /\ Power[0] = 1
    BY <2>1, PowerFacts
  <2>. QED BY <1>1, <2>1, <2>2
<1>3. Power[1] <= Power[CountBytes] /\ Power[CountBytes] <= Power[WordBytes]
  <2>1. 1 \in Nat /\ 1 <= CountBytes
    BY <1>1
  <2>. QED BY <1>1, <2>1, PowerGrows
<1>4. Power[CountBytes] \in Nat /\ Power[WordBytes] \in Nat
  BY <1>1, PowerFacts
<1>5. /\ Word(CountBytes) \in Fields /\ Word(WordBytes) \in Fields /\ Word(1) \in Fields
      /\ Prefixed(CountBytes) \in Fields /\ Prefixed(LengthBytes) \in Fields
  BY <1>1 DEF Word, Prefixed, Fields
<1>. QED BY <1>1, <1>2, <1>3, <1>4, <1>5 DEF WordLimit, InvalidId

\* A word is written and read.
LEMMA ReadsWord ==
    ASSUME NEW u, NEW at \in Nat, NEW fs, NEW vs, Reads(u, at, fs, vs), NEW width \in Nat, NEW v \in Nat, v < Power[width]
    PROVE  Reads(u \o WriteLittleEndian(width, v), at, Append(fs, Word(width)), Append(vs, v))
<1>1. Word(width) \in Fields /\ Held(Word(width), v) /\ Written(Word(width), v) = WriteLittleEndian(width, v)
  BY DEF Word, Fields, Held, Written
<1>. QED BY <1>1, ReadsNext

\* And a text.
LEMMA ReadsText ==
    ASSUME NEW u, NEW at \in Nat, NEW fs, NEW vs, Reads(u, at, fs, vs), NEW width \in Nat,
           NEW v \in Seq(Bytes), Len(v) < Power[width]
    PROVE  Reads(u \o WriteText(width, v), at, Append(fs, Prefixed(width)), Append(vs, v))
<1>1. Prefixed(width) \in Fields /\ Held(Prefixed(width), v) /\ Written(Prefixed(width), v) = WriteText(width, v)
  BY DEF Prefixed, Fields, Held, Written
<1>. QED BY <1>1, ReadsNext

\* The first word of a record.
LEMMA ReadsFirst ==
    ASSUME NEW width \in Nat, NEW v \in Nat, v < Power[width]
    PROVE  Reads(WriteLittleEndian(width, v), 0, <<Word(width)>>, <<v>>)
<1>. DEFINE w == WriteLittleEndian(width, v)
<1>1. <<>> \in Seq(Bytes) /\ Len(<<>>) = 0 /\ 0 \in Nat
  OBVIOUS
<1>2. Reads(<<>>, 0, <<>>, <<>>)
  BY <1>1, ReadsNothing
<1>3. Reads(<<>> \o w, 0, Append(<<>>, Word(width)), Append(<<>>, v))
  BY <1>1, <1>2, ReadsWord
<1>4. <<>> \o w = w
  <2>1. w \in Seq(Bytes)
    BY WritesBytes
  <2>. HIDE DEF w
  <2>. QED BY <2>1, ConcatEmptySeq
<1>5. \A x : Append(<<>>, x) = <<x>>
  OBVIOUS
<1>. QED BY <1>3, <1>4, <1>5

\* One element more.
LEMMA OneMore ==
    ASSUME NEW S, NEW s \in Seq(S), NEW e \in S, NEW t \in Seq(S),
           Len(t) = Len(s) + 1, t[Len(s) + 1] = e, \A i \in 1 .. Len(s) : t[i] = s[i]
    PROVE  Append(s, e) = t
<1>. DEFINE a == Append(s, e)
<1>1. a \in Seq(S) /\ Len(a) = Len(s) + 1 /\ a[Len(s) + 1] = e /\ \A i \in 1 .. Len(s) : a[i] = s[i]
  OBVIOUS
<1>. HIDE DEF a
<1>2. Len(s) \in Nat
  OBVIOUS
<1>3. \A i \in 1 .. Len(a) : a[i] = t[i]
  <2>1. \A i \in 1 .. Len(a) : i \in 1 .. Len(s) \/ i = Len(s) + 1
    BY <1>1, <1>2
  <2>. QED BY <1>1, <2>1
<1>4. a = t
  BY <1>1, <1>3, SeqEqual
<1>. QED BY <1>4 DEF a

\* One element behind one.
LEMMA TwoOf ==
    ASSUME NEW a1, NEW a2
    PROVE  Append(<<a1>>, a2) = <<a1, a2>>
<1>. DEFINE S == {a1, a2}
<1>. DEFINE s == <<a1>>
            t == <<a1, a2>>
<1>1. s \in Seq(S) /\ Len(s) = 1 /\ s[1] = a1 /\ a2 \in S
  OBVIOUS
<1>2. t \in Seq(S) /\ Len(t) = 2 /\ t[1] = a1 /\ t[2] = a2
  OBVIOUS
<1>. HIDE DEF s, t, S
<1>3. Len(t) = Len(s) + 1 /\ t[Len(s) + 1] = a2 /\ \A i \in 1 .. Len(s) : t[i] = s[i]
  BY <1>1, <1>2
<1>4. Append(s, a2) = t
  BY <1>1, <1>2, <1>3, OneMore
<1>. QED BY <1>4 DEF s, t

\* One element behind two.
LEMMA ThreeOf ==
    ASSUME NEW a1, NEW a2, NEW a3
    PROVE  Append(<<a1, a2>>, a3) = <<a1, a2, a3>>
<1>. DEFINE S == {a1, a2, a3}
<1>. DEFINE s == <<a1, a2>>
            t == <<a1, a2, a3>>
<1>1. s \in Seq(S) /\ Len(s) = 2 /\ s[1] = a1 /\ s[2] = a2 /\ a3 \in S
  OBVIOUS
<1>2. t \in Seq(S) /\ Len(t) = 3 /\ t[1] = a1 /\ t[2] = a2 /\ t[3] = a3
  OBVIOUS
<1>. HIDE DEF s, t, S
<1>3. Len(t) = Len(s) + 1 /\ t[Len(s) + 1] = a3 /\ \A i \in 1 .. Len(s) : t[i] = s[i]
  BY <1>1, <1>2
<1>4. Append(s, a3) = t
  BY <1>1, <1>2, <1>3, OneMore
<1>. QED BY <1>4 DEF s, t

\* One element behind three.
LEMMA FourOf ==
    ASSUME NEW a1, NEW a2, NEW a3, NEW a4
    PROVE  Append(<<a1, a2, a3>>, a4) = <<a1, a2, a3, a4>>
<1>. DEFINE S == {a1, a2, a3, a4}
<1>. DEFINE s == <<a1, a2, a3>>
            t == <<a1, a2, a3, a4>>
<1>1. s \in Seq(S) /\ Len(s) = 3 /\ s[1] = a1 /\ s[2] = a2 /\ s[3] = a3 /\ a4 \in S
  OBVIOUS
<1>2. t \in Seq(S) /\ Len(t) = 4 /\ t[1] = a1 /\ t[2] = a2 /\ t[3] = a3 /\ t[4] = a4
  OBVIOUS
<1>. HIDE DEF s, t, S
<1>3. Len(t) = Len(s) + 1 /\ t[Len(s) + 1] = a4 /\ \A i \in 1 .. Len(s) : t[i] = s[i]
  BY <1>1, <1>2
<1>4. Append(s, a4) = t
  BY <1>1, <1>2, <1>3, OneMore
<1>. QED BY <1>4 DEF s, t

\* One element behind four.
LEMMA FiveOf ==
    ASSUME NEW a1, NEW a2, NEW a3, NEW a4, NEW a5
    PROVE  Append(<<a1, a2, a3, a4>>, a5) = <<a1, a2, a3, a4, a5>>
<1>. DEFINE S == {a1, a2, a3, a4, a5}
<1>. DEFINE s == <<a1, a2, a3, a4>>
            t == <<a1, a2, a3, a4, a5>>
<1>1. s \in Seq(S) /\ Len(s) = 4 /\ s[1] = a1 /\ s[2] = a2 /\ s[3] = a3 /\ s[4] = a4 /\ a5 \in S
  OBVIOUS
<1>2. t \in Seq(S) /\ Len(t) = 5 /\ t[1] = a1 /\ t[2] = a2 /\ t[3] = a3 /\ t[4] = a4 /\ t[5] = a5
  OBVIOUS
<1>. HIDE DEF s, t, S
<1>3. Len(t) = Len(s) + 1 /\ t[Len(s) + 1] = a5 /\ \A i \in 1 .. Len(s) : t[i] = s[i]
  BY <1>1, <1>2
<1>4. Append(s, a5) = t
  BY <1>1, <1>2, <1>3, OneMore
<1>. QED BY <1>4 DEF s, t

\* One element behind five.
LEMMA SixOf ==
    ASSUME NEW a1, NEW a2, NEW a3, NEW a4, NEW a5, NEW a6
    PROVE  Append(<<a1, a2, a3, a4, a5>>, a6) = <<a1, a2, a3, a4, a5, a6>>
<1>. DEFINE S == {a1, a2, a3, a4, a5, a6}
<1>. DEFINE s == <<a1, a2, a3, a4, a5>>
            t == <<a1, a2, a3, a4, a5, a6>>
<1>1. s \in Seq(S) /\ Len(s) = 5 /\ s[1] = a1 /\ s[2] = a2 /\ s[3] = a3 /\ s[4] = a4 /\ s[5] = a5 /\ a6 \in S
  OBVIOUS
<1>2. t \in Seq(S) /\ Len(t) = 6 /\ t[1] = a1 /\ t[2] = a2 /\ t[3] = a3 /\ t[4] = a4 /\ t[5] = a5 /\ t[6] = a6
  OBVIOUS
<1>. HIDE DEF s, t, S
<1>3. Len(t) = Len(s) + 1 /\ t[Len(s) + 1] = a6 /\ \A i \in 1 .. Len(s) : t[i] = s[i]
  BY <1>1, <1>2
<1>4. Append(s, a6) = t
  BY <1>1, <1>2, <1>3, OneMore
<1>. QED BY <1>4 DEF s, t

\* A record of an index is read with the fields that were written.
LEMMA IndexRecordReads ==
    ASSUME NEW x \in StoredIndexes
    PROVE  Reads(EncodeIndexRecord(x), 0, IndexFields, <<FormatVersion, x.id, x.table, x.column, x.root, x.name>>)
<1>1. /\ x.id \in Nat /\ x.id < WordLimit /\ x.table \in Nat /\ x.table < WordLimit
      /\ x.column \in Nat /\ x.column < WordLimit /\ x.root \in Nat /\ x.root < WordLimit
      /\ x.name \in Seq(Bytes) /\ Len(x.name) < Power[CountBytes]
  <2>1. /\ x.id \in 1 .. InvalidId - 1 /\ x.table \in 0 .. InvalidId - 1 /\ x.column \in 0 .. WordLimit - 1
        /\ x.root \in 0 .. InvalidId - 1 /\ x.name \in StoredNames
    BY DEF StoredIndexes
  <2>2. x.name \in Seq(Bytes) /\ Len(x.name) < Power[CountBytes]
    BY <2>1 DEF StoredNames
  <2>3. WordLimit \in Nat /\ InvalidId = WordLimit - 1
    BY Widths
  <2>. DEFINE L == WordLimit
  <2>4. L \in Nat /\ x.id \in 1 .. (L - 1) - 1 /\ x.table \in 0 .. (L - 1) - 1
        /\ x.column \in 0 .. L - 1 /\ x.root \in 0 .. (L - 1) - 1
    BY <2>1, <2>3
  <2>. HIDE DEF L
  <2>5. /\ x.id \in Nat /\ x.id < L /\ x.table \in Nat /\ x.table < L
        /\ x.column \in Nat /\ x.column < L /\ x.root \in Nat /\ x.root < L
    BY <2>4
  <2>. QED BY <2>2, <2>5 DEF L
<1>. DEFINE c == Word(CountBytes)
            w == Word(WordBytes)
            p1 == WriteLittleEndian(CountBytes, FormatVersion)
            p2 == p1 \o WriteLittleEndian(WordBytes, x.id)
            p3 == p2 \o WriteLittleEndian(WordBytes, x.table)
            p4 == p3 \o WriteLittleEndian(WordBytes, x.column)
            p5 == p4 \o WriteLittleEndian(WordBytes, x.root)
<1>2. FormatVersion \in Nat /\ FormatVersion < Power[CountBytes] /\ 0 \in Nat
  BY Widths DEF FormatVersion
<1>3. CountBytes \in Nat /\ WordBytes \in Nat /\ WordLimit = Power[WordBytes]
  BY Widths
<1>. HIDE DEF c, w
<1>4. Reads(p1, 0, <<c>>, <<FormatVersion>>)
  BY <1>2, Widths, ReadsFirst DEF c
<1>. HIDE DEF p1
<1>5. Reads(p2, 0, <<c, w>>, <<FormatVersion, x.id>>)
  <2>1. Reads(p2, 0, Append(<<c>>, w), Append(<<FormatVersion>>, x.id))
    <3>1. x.id \in Nat /\ x.id < Power[WordBytes] /\ WordBytes \in Nat /\ 0 \in Nat
      BY <1>1, <1>2, <1>3
    <3>. QED BY <3>1, <1>4, ReadsWord, Zenon DEF w
  <2>. QED BY TwoOf, <2>1, Zenon
<1>. HIDE DEF p2
<1>6. Reads(p3, 0, <<c, w, w>>, <<FormatVersion, x.id, x.table>>)
  <2>1. Reads(p3, 0, Append(<<c, w>>, w), Append(<<FormatVersion, x.id>>, x.table))
    <3>1. x.table \in Nat /\ x.table < Power[WordBytes] /\ WordBytes \in Nat /\ 0 \in Nat
      BY <1>1, <1>2, <1>3
    <3>. QED BY <3>1, <1>5, ReadsWord, Zenon DEF w
  <2>. QED BY ThreeOf, <2>1, Zenon
<1>. HIDE DEF p3
<1>7. Reads(p4, 0, <<c, w, w, w>>, <<FormatVersion, x.id, x.table, x.column>>)
  <2>1. Reads(p4, 0, Append(<<c, w, w>>, w), Append(<<FormatVersion, x.id, x.table>>, x.column))
    <3>1. x.column \in Nat /\ x.column < Power[WordBytes] /\ WordBytes \in Nat /\ 0 \in Nat
      BY <1>1, <1>2, <1>3
    <3>. QED BY <3>1, <1>6, ReadsWord, Zenon DEF w
  <2>. QED BY FourOf, <2>1, Zenon
<1>. HIDE DEF p4
<1>8. Reads(p5, 0, <<c, w, w, w, w>>, <<FormatVersion, x.id, x.table, x.column, x.root>>)
  <2>1. Reads(p5, 0, Append(<<c, w, w, w>>, w), Append(<<FormatVersion, x.id, x.table, x.column>>, x.root))
    <3>1. x.root \in Nat /\ x.root < Power[WordBytes] /\ WordBytes \in Nat /\ 0 \in Nat
      BY <1>1, <1>2, <1>3
    <3>. QED BY <3>1, <1>7, ReadsWord, Zenon DEF w
  <2>2. Append(<<c, w, w, w>>, w) = <<c, w, w, w, w>>
    BY FiveOf, Zenon
  <2>3. Append(<<FormatVersion, x.id, x.table, x.column>>, x.root) = <<FormatVersion, x.id, x.table, x.column, x.root>>
    BY FiveOf, Zenon
  <2>. QED BY <2>1, <2>2, <2>3, Zenon
<1>9. EncodeIndexRecord(x) = p5 \o WriteText(CountBytes, x.name)
  BY Zenon DEF EncodeIndexRecord, p1, p2, p3, p4
<1>. HIDE DEF p5
<1>10. Reads(p5 \o WriteText(CountBytes, x.name), 0, Append(<<c, w, w, w, w>>, Prefixed(CountBytes)),
             Append(<<FormatVersion, x.id, x.table, x.column, x.root>>, x.name))
  BY <1>1, <1>2, <1>3, <1>8, ReadsText, Zenon
<1>11. Reads(EncodeIndexRecord(x), 0, <<c, w, w, w, w, Prefixed(CountBytes)>>,
             <<FormatVersion, x.id, x.table, x.column, x.root, x.name>>)
  <2>. DEFINE f == Prefixed(CountBytes)
  <2>1. Append(<<c, w, w, w, w>>, f) = <<c, w, w, w, w, f>>
    BY SixOf, Zenon
  <2>2. Append(<<FormatVersion, x.id, x.table, x.column, x.root>>, x.name)
        = <<FormatVersion, x.id, x.table, x.column, x.root, x.name>>
    BY SixOf, Zenon
  <2>. QED BY <1>9, <1>10, <2>1, <2>2, Zenon
<1>. QED BY <1>11 DEF IndexFields, c, w

\* The record of an index is read back, and neither a shorter nor a longer one is.
THEOREM IndexRecordsDelimited ==
    ASSUME NEW x \in StoredIndexes
    PROVE  LET record == EncodeIndexRecord(x)
           IN /\ DecodeIndexRecord(record) = [ok |-> TRUE, index |-> x]
              /\ \A bytes \in Shorter(record) \cup Longer(record) : ~DecodeIndexRecord(bytes).ok
<1>. DEFINE record == EncodeIndexRecord(x)
            values == <<FormatVersion, x.id, x.table, x.column, x.root, x.name>>
<1>0. 0 \in Nat
  OBVIOUS
<1>1. Reads(record, 0, IndexFields, values)
  BY IndexRecordReads
<1>2. \A b : DecodeIndexRecord(b) = ReadIndex(b, ReadFields(b, 0, IndexFields))
  BY Zenon DEF DecodeIndexRecord, IndexFields
<1>. HIDE DEF record
<1>3. ReadFields(record, 0, IndexFields) = Reader(Len(record), values) /\ Len(record) \in Nat
  BY <1>1 DEF Reads
<1>4. DecodeIndexRecord(record) = [ok |-> TRUE, index |-> x]
  <2>. DEFINE r == Reader(Len(record), values)
  <2>1. Consumed(record, r)
    BY <1>3 DEF Consumed, Remaining, Reader
  <2>2. r.values = values
    BY DEF Reader
  <2>3. /\ x.id \in 1 .. InvalidId - 1 /\ x.table \in 0 .. InvalidId - 1
        /\ x.root \in 0 .. InvalidId - 1 /\ x.name # <<>>
        /\ x = [id |-> x.id, table |-> x.table, column |-> x.column, root |-> x.root, name |-> x.name]
    BY DEF StoredIndexes, StoredNames
  <2>4. x.id \notin {0, InvalidId} /\ InvalidId \notin {x.table, x.root}
    <3>1. InvalidId \in Int
      BY Widths
    <3>. QED BY <2>3, <3>1
  <2>5. values[1] = FormatVersion /\ values[2] = x.id /\ values[3] = x.table /\ values[4] = x.column
        /\ values[5] = x.root /\ values[6] = x.name
    OBVIOUS
  <2>. HIDE DEF r, values
  <2>6. ReadIndex(record, r) = [ok |-> TRUE, index |-> x]
    BY <2>1, <2>2, <2>3, <2>4, <2>5 DEF ReadIndex
  <2>. QED BY <1>2, <1>3, <2>6 DEF r
<1>5. ASSUME NEW p \in Shorter(record) \cup Longer(record) PROVE ~DecodeIndexRecord(p).ok
  <2>1. ~Consumed(p, ReadFields(p, 0, IndexFields))
    BY <1>0, <1>1, Delimited
  <2>2. DecodeIndexRecord(p) = Refused
    BY <1>2, <2>1 DEF ReadIndex
  <2>. QED BY <2>2 DEF Refused
<1>. QED BY <1>4, <1>5 DEF record

-----------------------------------------------------------------------------
(***************************************************************************)
(* Rows.                                                                   *)
(***************************************************************************)
Types == {"INT", "TEXT"}
StoredColumns == [name : StoredNames, type : Types]
StoredSchemas == {s \in Seq(StoredColumns) : s # <<>> /\ Len(s) < Power[CountBytes]}

Ints == [type : {"INT"}, value : -(WordLimit \div 2) .. WordLimit \div 2 - 1]
Texts == [type : {"TEXT"}, value : Seq(Bytes)]
Datums == Ints \cup Texts

\* A function of the first naturals is a sequence.
LEMMA AsSequence ==
    ASSUME NEW S, NEW N \in Nat, NEW f \in [1 .. N -> S]
    PROVE  f \in Seq(S) /\ Len(f) = N /\ DOMAIN f = 1 .. N
OBVIOUS

\* The first elements of a sequence.
Firsts(g, m) == [i \in 1 .. m |-> g[i]]

\* One element more.
LEMMA FirstsNext ==
    ASSUME NEW S, NEW g \in Seq(S), NEW m \in Nat, m + 1 <= Len(g)
    PROVE  Firsts(g, m + 1) = Append(Firsts(g, m), g[m + 1])
<1>. DEFINE s == Firsts(g, m)
            t == Firsts(g, m + 1)
            e == g[m + 1]
<1>1. \A i \in 1 .. m + 1 : g[i] \in S
  OBVIOUS
<1>2. m + 1 \in Nat /\ m + 1 \in 1 .. m + 1 /\ \A i \in 1 .. m : i \in 1 .. m + 1
  OBVIOUS
<1>3. s \in [1 .. m -> S] /\ t \in [1 .. m + 1 -> S]
  BY <1>1, <1>2 DEF Firsts
<1>4. s \in Seq(S) /\ Len(s) = m /\ t \in Seq(S) /\ Len(t) = m + 1
  <2>. HIDE DEF s, t
  <2>. QED BY <1>2, <1>3
<1>5. t[m + 1] = e /\ \A i \in 1 .. m : t[i] = s[i]
  BY <1>2 DEF Firsts
<1>6. e \in S
  BY <1>1, <1>2
<1>. HIDE DEF s, t, e
<1>7. Append(s, e) = t
  BY <1>4, <1>5, <1>6, OneMore
<1>. QED BY <1>7 DEF s, t, e

\* The first of a concatenation's parts, and the whole of a sequence.
LEMMA FirstsOf ==
    ASSUME NEW S, NEW p \in Seq(S), NEW q \in Seq(S)
    PROVE  Firsts(p \o q, Len(p)) = p /\ Firsts(q, Len(q)) = q
<1>1. ASSUME NEW g \in Seq(S), NEW r \in Seq(S), \A i \in 1 .. Len(r) : g[i] = r[i], Len(r) <= Len(g)
      PROVE  Firsts(g, Len(r)) = r
  <2>. DEFINE s == Firsts(g, Len(r))
  <2>1. Len(r) \in Nat /\ \A i \in 1 .. Len(r) : g[i] \in S
    BY <1>1
  <2>2. s \in [1 .. Len(r) -> S] /\ \A i \in 1 .. Len(r) : s[i] = r[i]
    BY <1>1, <2>1 DEF Firsts
  <2>. HIDE DEF s
  <2>3. s \in Seq(S) /\ Len(s) = Len(r)
    BY <2>1, <2>2
  <2>4. s = r
    BY <1>1, <2>2, <2>3, SeqEqual
  <2>. QED BY <2>4 DEF s
<1>2. p \o q \in Seq(S) /\ Len(p) <= Len(p \o q) /\ \A i \in 1 .. Len(p) : (p \o q)[i] = p[i]
  OBVIOUS
<1>3. Len(q) <= Len(q)
  OBVIOUS
<1>4. Firsts(p \o q, Len(p)) = p
  BY <1>1, <1>2
<1>5. Firsts(q, Len(q)) = q
  BY <1>1, <1>3
<1>. QED BY <1>4, <1>5

RowFields(schema) ==
    <<Word(CountBytes), Word(CountBytes)>> \o [i \in DOMAIN schema |-> ValueField(schema[i].type)]

RawValue(datum) == IF datum.type = "INT" THEN AsUnsigned(datum.value) ELSE datum.value

\* One value is written and read.
LEMMA ValueReads ==
    ASSUME NEW d \in Datums, d.type = "TEXT" => Len(d.value) <= MaxInlineText
    PROVE  /\ ValueField(d.type) \in Fields /\ Held(ValueField(d.type), RawValue(d))
           /\ EncodeValue(d) = Written(ValueField(d.type), RawValue(d))
           /\ EncodeValue(d) \in Seq(Bytes) /\ RawValue(d) \in Raw
           /\ d.type \in Types
           /\ d = [type |-> d.type, value |-> IF d.type = "INT" THEN AsSigned(RawValue(d)) ELSE RawValue(d)]
<1>1. ValueField(d.type) \in Fields
  BY Widths DEF ValueField
<1>2. CASE d \in Ints
  <2>1. d.type = "INT" /\ d.value \in -(WordLimit \div 2) .. WordLimit \div 2 - 1
        /\ d = [type |-> d.type, value |-> d.value]
    BY <1>2 DEF Ints
  <2>2. AsUnsigned(d.value) \in Nat /\ AsUnsigned(d.value) < WordLimit /\ AsSigned(AsUnsigned(d.value)) = d.value
    BY <2>1, CastsBack, Zenon
  <2>3. RawValue(d) = AsUnsigned(d.value) /\ ValueField(d.type) = Word(WordBytes)
    BY <2>1 DEF RawValue, ValueField
  <2>4. Held(ValueField(d.type), RawValue(d))
    BY <2>2, <2>3, Widths DEF Held, Word
  <2>5. EncodeValue(d) = Written(ValueField(d.type), RawValue(d))
    BY <2>1, <2>3 DEF EncodeValue, Written, Word
  <2>6. EncodeValue(d) \in Seq(Bytes) /\ RawValue(d) \in Raw
    BY <1>1, <2>4, <2>5, WrittenBytes
  <2>. QED BY <1>1, <2>1, <2>2, <2>3, <2>4, <2>5, <2>6 DEF Types
<1>3. CASE d \in Texts
  <2>1. d.type = "TEXT" /\ d.value \in Seq(Bytes) /\ d = [type |-> d.type, value |-> d.value]
    BY <1>3 DEF Texts
  <2>2. RawValue(d) = d.value /\ ValueField(d.type) = Prefixed(LengthBytes)
    BY <2>1 DEF RawValue, ValueField
  <2>3. Len(d.value) < Power[LengthBytes]
    <3>1. Len(d.value) \in Nat /\ Len(d.value) <= MaxInlineText
      BY <2>1
    <3>2. Power[LengthBytes] \in Nat
      BY Widths, PowerFacts
    <3>. QED BY <3>1, <3>2, CodecConstants
  <2>4. Held(ValueField(d.type), RawValue(d))
    BY <2>1, <2>2, <2>3 DEF Held, Prefixed
  <2>5. EncodeValue(d) = Written(ValueField(d.type), RawValue(d))
    BY <2>1, <2>2 DEF EncodeValue, Written, Prefixed
  <2>6. EncodeValue(d) \in Seq(Bytes) /\ RawValue(d) \in Raw
    BY <1>1, <2>4, <2>5, WrittenBytes
  <2>. QED BY <1>1, <2>1, <2>2, <2>4, <2>5, <2>6 DEF Types
<1>. QED BY <1>2, <1>3 DEF Datums

\* The record of a row is read with the fields that were written.
LEMMA RowReads ==
    ASSUME NEW schema \in StoredSchemas, NEW tuple \in Seq(Datums), Encodable(schema, tuple)
    PROVE  LET raw == [i \in 1 .. Len(schema) |-> RawValue(tuple[i])]
           IN raw \in Seq(Raw) /\ Len(raw) = Len(schema)
              /\ Reads(EncodeRecord(schema, tuple), 0, RowFields(schema), <<FormatVersion, Len(schema)>> \o raw)
<1>. DEFINE N == Len(schema)
            raw == [i \in 1 .. N |-> RawValue(tuple[i])]
            fs == [i \in 1 .. N |-> ValueField(schema[i].type)]
            ws == [i \in 1 .. N |-> EncodeValue(tuple[i])]
            two == <<Word(CountBytes), Word(CountBytes)>>
            counts == <<FormatVersion, N>>
            gf == two \o fs
            gv == counts \o raw
            F == [n \in 0 .. N |-> Firsts(gf, n + 2)]
            V == [n \in 0 .. N |-> Firsts(gv, n + 2)]
            u == WriteLittleEndian(CountBytes, FormatVersion) \o WriteLittleEndian(CountBytes, N)
<1>1. N \in Nat /\ N < Power[CountBytes] /\ DOMAIN schema = 1 .. N /\ Len(tuple) = N
      /\ \A i \in 1 .. N : schema[i].type \in Types /\ tuple[i] \in Datums /\ tuple[i].type = schema[i].type
                           /\ (tuple[i].type = "TEXT" => Len(tuple[i].value) <= MaxInlineText)
  <2>1. schema \in Seq(StoredColumns) /\ Len(schema) < Power[CountBytes]
    BY DEF StoredSchemas
  <2>2. \A i \in 1 .. N : schema[i] \in StoredColumns
    BY <2>1
  <2>3. N \in Nat /\ DOMAIN schema = 1 .. N
    BY <2>1
  <2>4. Len(tuple) = N /\ \A i \in 1 .. N : tuple[i].type = schema[i].type
                           /\ (tuple[i].type = "TEXT" => Len(tuple[i].value) <= MaxInlineText)
    BY <2>3 DEF Encodable
  <2>5. \A i \in 1 .. N : tuple[i] \in Datums
    BY <2>4
  <2>. QED BY <2>1, <2>2, <2>3, <2>4, <2>5 DEF StoredColumns
<1>2. ASSUME NEW i \in 1 .. N
      PROVE  /\ fs[i] \in Fields /\ Held(fs[i], raw[i]) /\ ws[i] = Written(fs[i], raw[i])
             /\ ws[i] \in Seq(Bytes) /\ raw[i] \in Raw
  <2>. DEFINE d == tuple[i]
  <2>1. d \in Datums /\ (d.type = "TEXT" => Len(d.value) <= MaxInlineText) /\ d.type = schema[i].type
    BY <1>1
  <2>. HIDE DEF d
  <2>2. /\ ValueField(d.type) \in Fields /\ Held(ValueField(d.type), RawValue(d))
        /\ EncodeValue(d) = Written(ValueField(d.type), RawValue(d))
        /\ EncodeValue(d) \in Seq(Bytes) /\ RawValue(d) \in Raw
    BY <2>1, ValueReads, Zenon
  <2>3. fs[i] = ValueField(d.type) /\ raw[i] = RawValue(d) /\ ws[i] = EncodeValue(d)
    BY <2>1 DEF d
  <2>. QED BY <2>2, <2>3, Zenon
<1>3. fs \in [1 .. N -> Fields] /\ raw \in [1 .. N -> Raw] /\ ws \in [1 .. N -> Seq(Bytes)]
  BY <1>2
<1>4. EncodeRecord(schema, tuple) = u \o FlattenSeq(ws)
  BY <1>1, Zenon DEF EncodeRecord
<1>5. RowFields(schema) = gf
  BY <1>1, Zenon DEF RowFields
<1>. HIDE DEF fs, raw, ws
<1>6. fs \in Seq(Fields) /\ Len(fs) = N /\ raw \in Seq(Raw) /\ Len(raw) = N
  <2>1. N \in Nat
    BY <1>1
  <2>. HIDE DEF N
  <2>2. fs \in Seq(Fields) /\ Len(fs) = N
    BY <1>3, <2>1, AsSequence
  <2>3. raw \in Seq(Raw) /\ Len(raw) = N
    BY <1>3, <2>1, AsSequence
  <2>. QED BY <2>2, <2>3
<1>7. two \in Seq(Fields) /\ Len(two) = 2 /\ counts \in Seq(Raw) /\ Len(counts) = 2
      /\ FormatVersion \in Nat /\ FormatVersion < Power[CountBytes] /\ CountBytes \in Nat
  BY <1>1, Widths DEF Raw, FormatVersion
<1>8. Reads(u, 0, two, counts)
  <2>1. Reads(WriteLittleEndian(CountBytes, FormatVersion), 0, <<Word(CountBytes)>>, <<FormatVersion>>)
    BY <1>7, ReadsFirst
  <2>2. 0 \in Nat
    OBVIOUS
  <2>3. Reads(u, 0, Append(<<Word(CountBytes)>>, Word(CountBytes)), Append(<<FormatVersion>>, N))
    <3>. HIDE DEF N
    <3>. QED BY <1>1, <1>7, <2>1, <2>2, ReadsWord
  <2>4. Append(<<Word(CountBytes)>>, Word(CountBytes)) = two /\ Append(<<FormatVersion>>, N) = counts
    BY TwoOf, Zenon
  <2>. QED BY <2>3, <2>4, Zenon
<1>9. u \in Seq(Bytes)
  BY <1>8 DEF Reads
<1>. HIDE DEF u, two, counts, N
<1>10. gf \in Seq(Fields) /\ Len(gf) = N + 2 /\ gv \in Seq(Raw) /\ Len(gv) = N + 2
       /\ \A i \in 1 .. N : gf[i + 2] = fs[i] /\ gv[i + 2] = raw[i]
  <2>1. gf \in Seq(Fields) /\ Len(gf) = 2 + N /\ gv \in Seq(Raw) /\ Len(gv) = 2 + N
    <3>1. gf \in Seq(Fields) /\ Len(gf) = Len(two) + Len(fs)
      BY <1>6, <1>7, ConcatProperties
    <3>2. gv \in Seq(Raw) /\ Len(gv) = Len(counts) + Len(raw)
      BY <1>6, <1>7, ConcatProperties
    <3>. HIDE DEF gf, gv
    <3>. QED BY <1>6, <1>7, <3>1, <3>2
  <2>2. \A i \in 1 .. N : i + 2 \in 1 .. 2 + N /\ ~(i + 2 <= 2) /\ (i + 2) - 2 = i
    BY <1>1
  <2>3. \A i \in 1 .. N : gf[i + 2] = fs[i]
    <3>1. \A i \in 1 .. Len(two) + Len(fs) : gf[i] = IF i <= Len(two) THEN two[i] ELSE fs[i - Len(two)]
      BY <1>6, <1>7, ConcatProperties
    <3>. HIDE DEF gf
    <3>. QED BY <1>6, <1>7, <2>2, <3>1
  <2>4. \A i \in 1 .. N : gv[i + 2] = raw[i]
    <3>1. \A i \in 1 .. Len(counts) + Len(raw) : gv[i] = IF i <= Len(counts) THEN counts[i] ELSE raw[i - Len(counts)]
      BY <1>6, <1>7, ConcatProperties
    <3>. HIDE DEF gv
    <3>. QED BY <1>6, <1>7, <2>2, <3>1
  <2>. HIDE DEF gf, gv
  <2>. QED BY <1>1, <2>1, <2>3, <2>4
<1>11. F[0] = two /\ V[0] = counts /\ F[N] = gf /\ V[N] = gv
  <2>1. 0 \in 0 .. N /\ N \in 0 .. N /\ 0 + 2 = 2
    BY <1>1
  <2>2. Firsts(gf, 2) = two /\ Firsts(gv, 2) = counts
    <3>1. Firsts(gf, Len(two)) = two
      BY <1>6, <1>7, FirstsOf, ZenonT(60)
    <3>2. Firsts(gv, Len(counts)) = counts
      BY <1>6, <1>7, FirstsOf, ZenonT(60)
    <3>. QED BY <1>7, <3>1, <3>2
  <2>3. Firsts(gf, N + 2) = gf /\ Firsts(gv, N + 2) = gv
    <3>. HIDE DEF gf, gv
    <3>1. Firsts(gf, Len(gf)) = gf
      BY <1>10, FirstsOf
    <3>2. Firsts(gv, Len(gv)) = gv
      BY <1>10, FirstsOf
    <3>. QED BY <1>10, <3>1, <3>2
  <2>. HIDE DEF gf, gv
  <2>. QED BY <2>1, <2>2, <2>3
<1>12. ReadsEach(N, ws, 0, F, V)
  <2>. SUFFICES ASSUME NEW n \in 1 .. N, NEW b, Reads(b, 0, F[n - 1], V[n - 1])
                PROVE  Reads(b \o ws[n], 0, F[n], V[n])
    BY DEF ReadsEach
  <2>. HIDE DEF gf, gv
  <2>0. 0 \in Nat
    OBVIOUS
  <2>1. n \in 0 .. N /\ n - 1 \in 0 .. N /\ (n - 1) + 2 \in Nat /\ ((n - 1) + 2) + 1 = n + 2 /\ n + 2 <= N + 2
    BY <1>1
  <2>2. F[n] = Append(F[n - 1], gf[n + 2])
    <3>1. Firsts(gf, ((n - 1) + 2) + 1) = Append(Firsts(gf, (n - 1) + 2), gf[((n - 1) + 2) + 1])
      BY <1>10, <2>1, FirstsNext
    <3>. QED BY <2>1, <3>1
  <2>3. V[n] = Append(V[n - 1], gv[n + 2])
    <3>1. Firsts(gv, ((n - 1) + 2) + 1) = Append(Firsts(gv, (n - 1) + 2), gv[((n - 1) + 2) + 1])
      BY <1>10, <2>1, FirstsNext
    <3>. QED BY <2>1, <3>1
  <2>4. gf[n + 2] = fs[n] /\ gv[n + 2] = raw[n]
    BY <1>10
  <2>. HIDE DEF F, V
  <2>5. fs[n] \in Fields /\ Held(fs[n], raw[n]) /\ ws[n] = Written(fs[n], raw[n])
    BY <1>2
  <2>6. Reads(b \o Written(fs[n], raw[n]), 0, Append(F[n - 1], fs[n]), Append(V[n - 1], raw[n]))
    BY <2>0, <2>5, ReadsNext, Zenon
  <2>. QED BY <2>2, <2>3, <2>4, <2>5, <2>6, Zenon
<1>13. Reads(u \o FlattenSeq(ws), 0, F[N], V[N])
  <2>0. 0 \in Nat /\ N \in Nat
    BY <1>1
  <2>. HIDE DEF F, V
  <2>1. Reads(u, 0, F[0], V[0])
    BY <1>8, <1>11, Zenon
  <2>. QED BY <1>3, <1>9, <1>12, <2>0, <2>1, ReadsMany, Zenon
<1>14. Reads(EncodeRecord(schema, tuple), 0, RowFields(schema), gv)
  <2>. HIDE DEF F, V, gf, gv
  <2>. QED BY <1>4, <1>5, <1>11, <1>13, Zenon
<1>. QED BY <1>6, <1>14 DEF counts, raw, N

\* The record of a row is read back, and neither a shorter nor a longer one is.
THEOREM RowRecordsDelimited ==
    ASSUME NEW schema \in StoredSchemas, NEW tuple \in Seq(Datums), Encodable(schema, tuple)
    PROVE  LET record == EncodeRecord(schema, tuple)
           IN /\ DecodeRecord(schema, record) = [ok |-> TRUE, tuple |-> tuple]
              /\ \A bytes \in Shorter(record) \cup Longer(record) : ~DecodeRecord(schema, bytes).ok
<1>. DEFINE record == EncodeRecord(schema, tuple)
            N == Len(schema)
            raw == [i \in 1 .. N |-> RawValue(tuple[i])]
            counts == <<FormatVersion, N>>
            values == counts \o raw
            fs == RowFields(schema)
<1>0. 0 \in Nat
  OBVIOUS
<1>1. raw \in Seq(Raw) /\ Len(raw) = N /\ Reads(record, 0, fs, values)
  BY RowReads
<1>2. \A b : DecodeRecord(schema, b) = ReadTuple(schema, b, ReadFields(b, 0, fs))
  BY Zenon DEF DecodeRecord, RowFields
<1>3. /\ schema \in Seq(StoredColumns) /\ N \in Nat /\ DOMAIN schema = 1 .. N /\ Len(tuple) = N
      /\ \A i \in 1 .. N : tuple[i] \in Datums /\ tuple[i].type = schema[i].type
                           /\ (tuple[i].type = "TEXT" => Len(tuple[i].value) <= MaxInlineText)
  <2>1. schema \in Seq(StoredColumns)
    BY DEF StoredSchemas
  <2>2. N \in Nat /\ DOMAIN schema = 1 .. N
    BY <2>1
  <2>3. Len(tuple) = N /\ \A i \in 1 .. N : tuple[i].type = schema[i].type
                           /\ (tuple[i].type = "TEXT" => Len(tuple[i].value) <= MaxInlineText)
    BY <2>2 DEF Encodable
  <2>4. \A i \in 1 .. N : tuple[i] \in Datums
    BY <2>3
  <2>. QED BY <2>1, <2>2, <2>3, <2>4
<1>4. ASSUME NEW i \in 1 .. N
      PROVE  /\ schema[i].type = "TEXT" => Len(raw[i]) <= MaxInlineText
             /\ tuple[i] = [type |-> schema[i].type,
                            value |-> IF schema[i].type = "INT" THEN AsSigned(raw[i]) ELSE raw[i]]
  <2>. DEFINE d == tuple[i]
  <2>1. d \in Datums /\ d.type = schema[i].type /\ (d.type = "TEXT" => Len(d.value) <= MaxInlineText) /\ raw[i] = RawValue(d)
    BY <1>3
  <2>. HIDE DEF d
  <2>2. d = [type |-> d.type, value |-> IF d.type = "INT" THEN AsSigned(RawValue(d)) ELSE RawValue(d)]
    BY <2>1, ValueReads, Zenon
  <2>3. d.type = "TEXT" => RawValue(d) = d.value
    BY DEF RawValue
  <2>4. schema[i].type = "TEXT" => Len(raw[i]) <= MaxInlineText
    BY <2>1, <2>3
  <2>5. d = [type |-> schema[i].type, value |-> IF schema[i].type = "INT" THEN AsSigned(raw[i]) ELSE raw[i]]
    BY <2>1, <2>2, Zenon
  <2>. QED BY <2>4, <2>5 DEF d
<1>5. tuple = Tuple(schema, raw)
  <2>. DEFINE other == Tuple(schema, raw)
  <2>1. other = [i \in 1 .. N |-> [type |-> schema[i].type,
                                   value |-> IF schema[i].type = "INT" THEN AsSigned(raw[i]) ELSE raw[i]]]
    BY <1>3, Zenon DEF Tuple
  <2>2. tuple = [i \in 1 .. N |-> tuple[i]]
    BY <1>3
  <2>. HIDE DEF raw
  <2>. QED BY <1>4, <2>1, <2>2, Zenon
<1>. HIDE DEF record, raw, fs
<1>6. SubSeq(values, 3, Len(values)) = raw /\ values[1] = FormatVersion /\ values[2] = N
  <2>1. counts \in Seq(Raw) /\ Len(counts) = 2 /\ counts[1] = FormatVersion /\ counts[2] = N
    BY <1>3 DEF Raw, FormatVersion
  <2>. HIDE DEF counts
  <2>2. values \in Seq(Raw) /\ Len(values) = Len(counts) + N /\ values[1] = counts[1] /\ values[2] = counts[2]
    <3>1. 1 \in 1 .. Len(counts) /\ 2 \in 1 .. Len(counts)
      BY <2>1
    <3>2. /\ values \in Seq(Raw) /\ Len(values) = Len(counts) + Len(raw)
          /\ \A i \in 1 .. Len(counts) + Len(raw) : values[i] = IF i <= Len(counts) THEN counts[i] ELSE raw[i - Len(counts)]
      <4>1. counts \in Seq(Raw) /\ raw \in Seq(Raw)
        BY <1>1, <2>1
      <4>. QED BY <4>1, ConcatProperties, Zenon
    <3>. HIDE DEF values
    <3>3. N \in Nat
      BY <1>3
    <3>. HIDE DEF N
    <3>. QED BY <1>1, <2>1, <3>1, <3>2, <3>3
  <2>3. SubSeq(values, Len(counts) + 1, Len(counts) + Len(raw)) = SubSeq(raw, 1, Len(raw))
    <3>1. Len(raw) \in Nat /\ Len(raw) <= Len(raw)
      BY <1>1
    <3>. QED BY <1>1, <2>1, <3>1, PartOfLast
  <2>4. SubSeq(raw, 1, Len(raw)) = raw
    BY <1>1, WholeOf
  <2>5. Len(counts) + 1 = 3
    BY <2>1
  <2>. HIDE DEF values
  <2>. QED BY <1>1, <2>1, <2>2, <2>3, <2>4, <2>5
<1>. HIDE DEF values
<1>7. ReadFields(record, 0, fs) = Reader(Len(record), values) /\ Len(record) \in Nat
  BY <1>1 DEF Reads
<1>8. DecodeRecord(schema, record) = [ok |-> TRUE, tuple |-> tuple]
  <2>. DEFINE r == Reader(Len(record), values)
  <2>1. Consumed(record, r)
    BY <1>7 DEF Consumed, Remaining, Reader
  <2>2. r.values = values
    BY DEF Reader
  <2>. HIDE DEF r
  <2>3. \A i \in DOMAIN schema : schema[i].type = "TEXT" => Len(raw[i]) <= MaxInlineText
    BY <1>3, <1>4
  <2>4. ReadTuple(schema, record, r) = [ok |-> TRUE, tuple |-> tuple]
    BY <1>5, <1>6, <2>1, <2>2, <2>3, Zenon DEF ReadTuple
  <2>. QED BY <1>2, <1>7, <2>4 DEF r
<1>9. ASSUME NEW p \in Shorter(record) \cup Longer(record) PROVE ~DecodeRecord(schema, p).ok
  <2>1. ~Consumed(p, ReadFields(p, 0, fs))
    BY <1>0, <1>1, Delimited
  <2>2. DecodeRecord(schema, p) = Refused
    BY <1>2, <2>1, Zenon DEF ReadTuple
  <2>. QED BY <2>2 DEF Refused
<1>. QED BY <1>8, <1>9 DEF record

-----------------------------------------------------------------------------
(***************************************************************************)
(* Tables of the catalog file.                                             *)
(***************************************************************************)
StoredTables == [id : 1 .. InvalidId - 1, name : StoredNames, schema : StoredSchemas]

HeaderFields == <<Word(WordBytes), Prefixed(CountBytes), Word(CountBytes)>>
Header(table) ==
    WriteLittleEndian(WordBytes, table.id) \o WriteText(CountBytes, table.name)
    \o WriteLittleEndian(CountBytes, Len(table.schema))

\* A column is read as two fields.
ColumnFields(count) == [i \in 1 .. 2 * count |-> IF i % 2 = 1 THEN Prefixed(CountBytes) ELSE Word(1)]
ColumnValues(schema) ==
    [i \in 1 .. 2 * Len(schema) |->
       IF i % 2 = 1 THEN schema[(i + 1) \div 2].name ELSE TypeCode(schema[i \div 2].type)]

\* What serialize_table writes ahead of the columns is read back from it.
LEMMA HeaderReads ==
    ASSUME NEW table \in StoredTables
    PROVE  Reads(Header(table), 0, HeaderFields, <<table.id, table.name, Len(table.schema)>>)
<1>1. /\ table.id \in Nat /\ table.id < Power[WordBytes] /\ table.name \in Seq(Bytes)
      /\ Len(table.name) < Power[CountBytes] /\ Len(table.schema) \in Nat
      /\ Len(table.schema) < Power[CountBytes] /\ 0 \in Nat /\ CountBytes \in Nat /\ WordBytes \in Nat
  <2>1. table.id \in 1 .. InvalidId - 1 /\ table.name \in StoredNames /\ table.schema \in StoredSchemas
    BY DEF StoredTables
  <2>2. table.name \in Seq(Bytes) /\ Len(table.name) < Power[CountBytes]
    BY <2>1 DEF StoredNames
  <2>3. Len(table.schema) \in Nat /\ Len(table.schema) < Power[CountBytes]
    BY <2>1 DEF StoredSchemas
  <2>4. Power[WordBytes] \in Nat /\ InvalidId = Power[WordBytes] - 1 /\ CountBytes \in Nat /\ WordBytes \in Nat
    BY Widths
  <2>. DEFINE L == Power[WordBytes]
  <2>5. L \in Nat /\ table.id \in 1 .. (L - 1) - 1
    BY <2>1, <2>4
  <2>. HIDE DEF L
  <2>6. table.id \in Nat /\ table.id < L
    BY <2>5
  <2>. QED BY <2>2, <2>3, <2>4, <2>6 DEF L
<1>. DEFINE w == Word(WordBytes)
            t == Prefixed(CountBytes)
            c == Word(CountBytes)
            n == Len(table.schema)
            p1 == WriteLittleEndian(WordBytes, table.id)
            p2 == p1 \o WriteText(CountBytes, table.name)
<1>2. Reads(p1, 0, <<w>>, <<table.id>>)
  BY <1>1, ReadsFirst, Zenon
<1>. HIDE DEF p1
<1>3. Reads(p2, 0, <<w, t>>, <<table.id, table.name>>)
  <2>1. Reads(p2, 0, Append(<<w>>, t), Append(<<table.id>>, table.name))
    BY <1>1, <1>2, ReadsText, Zenon
  <2>. QED BY <2>1, TwoOf, Zenon
<1>. HIDE DEF p2
<1>4. Reads(p2 \o WriteLittleEndian(CountBytes, n), 0, <<w, t, c>>, <<table.id, table.name, n>>)
  <2>1. Reads(p2 \o WriteLittleEndian(CountBytes, n), 0, Append(<<w, t>>, c), Append(<<table.id, table.name>>, n))
    BY <1>1, <1>3, ReadsWord, Zenon
  <2>. QED BY <2>1, ThreeOf, Zenon
<1>5. Header(table) = p2 \o WriteLittleEndian(CountBytes, n)
  BY Zenon DEF Header, p1, p2
<1>. QED BY <1>4, <1>5, Zenon DEF HeaderFields

\* Where the fields of a column are.
LEMMA Places ==
    ASSUME NEW N \in Nat
    PROVE  \A n \in 1 .. N :
              /\ 2 * n - 1 \in 1 .. 2 * N /\ 2 * n \in 1 .. 2 * N
              /\ (2 * n - 1) % 2 = 1 /\ (2 * n) % 2 # 1
              /\ ((2 * n - 1) + 1) \div 2 = n /\ (2 * n) \div 2 = n
<1>. TAKE n \in 1 .. N
<1>1. 2 * n - 1 \in 1 .. 2 * N /\ 2 * n \in 1 .. 2 * N
  OBVIOUS
<1>2. (2 * n - 1) % 2 = 1
  OBVIOUS
<1>3. (2 * n) % 2 # 1
  OBVIOUS
<1>4. ((2 * n - 1) + 1) \div 2 = n
  OBVIOUS
<1>5. (2 * n) \div 2 = n
  OBVIOUS
<1>. QED BY <1>1, <1>2, <1>3, <1>4, <1>5, Zenon

\* The columns are read as they were written, behind what was read before.
LEMMA ColumnsRead ==
    ASSUME NEW schema \in StoredSchemas, NEW u \in Seq(Bytes)
    PROVE  LET columns == [i \in DOMAIN schema |-> WriteText(CountBytes, schema[i].name)
                                                   \o WriteLittleEndian(1, TypeCode(schema[i].type))]
           IN FlattenSeq(columns) \in Seq(Bytes)
              /\ Reads(u \o FlattenSeq(columns), Len(u), ColumnFields(Len(schema)), ColumnValues(schema))
<1>. DEFINE N == Len(schema)
            part(i) == WriteText(CountBytes, schema[i].name) \o WriteLittleEndian(1, TypeCode(schema[i].type))
            ws == [i \in 1 .. N |-> part(i)]
            gf == ColumnFields(N)
            gv == ColumnValues(schema)
            F == [n \in 0 .. N |-> Firsts(gf, 2 * n)]
            V == [n \in 0 .. N |-> Firsts(gv, 2 * n)]
            at == Len(u)
<1>1. N \in Nat /\ DOMAIN schema = 1 .. N /\ \A i \in 1 .. N : schema[i] \in StoredColumns
  BY DEF StoredSchemas
<1>2. ASSUME NEW i \in 1 .. N
      PROVE  /\ schema[i].name \in Seq(Bytes) /\ Len(schema[i].name) < Power[CountBytes]
             /\ TypeCode(schema[i].type) \in Nat /\ TypeCode(schema[i].type) < Power[1]
  <2>1. schema[i].name \in StoredNames
    BY <1>1 DEF StoredColumns
  <2>2. TypeCode(schema[i].type) \in {0, 1}
    BY DEF TypeCode
  <2>3. Power[1] \in Nat /\ Power[1] > 1
    BY Widths
  <2>4. TypeCode(schema[i].type) \in Nat /\ TypeCode(schema[i].type) < Power[1]
    <3>. DEFINE c == TypeCode(schema[i].type)
    <3>. HIDE DEF c
    <3>1. c \in {0, 1}
      BY <2>2 DEF c
    <3>2. c \in Nat /\ c < Power[1]
      BY <2>3, <3>1
    <3>. QED BY <3>2 DEF c
  <2>. QED BY <2>1, <2>4 DEF StoredNames
<1>3. CountBytes \in Nat /\ 1 \in Nat /\ at \in Nat /\ Prefixed(CountBytes) \in Fields /\ Word(1) \in Fields
  BY Widths
<1>4. ws \in [1 .. N -> Seq(Bytes)]
  <2>1. ASSUME NEW i \in 1 .. N PROVE part(i) \in Seq(Bytes)
    <3>. DEFINE l == WriteLittleEndian(CountBytes, Len(schema[i].name))
                c == WriteLittleEndian(1, TypeCode(schema[i].type))
    <3>1. Len(schema[i].name) \in Nat
      BY <1>2
    <3>2. l \in Seq(Bytes) /\ c \in Seq(Bytes)
      BY <1>2, <1>3, <3>1, WritesBytes, Zenon
    <3>. HIDE DEF l, c
    <3>3. (l \o schema[i].name) \o c \in Seq(Bytes)
      BY <1>2, <3>2
    <3>. QED BY <3>3, Zenon DEF l, c, WriteText
  <2>. HIDE DEF part
  <2>. QED BY <2>1
<1>5. gf \in Seq(Fields) /\ Len(gf) = 2 * N /\ gv \in Seq(Raw) /\ Len(gv) = 2 * N
  <2>1. 2 * N \in Nat
    BY <1>1
  <2>2. gf \in [1 .. 2 * N -> Fields]
    BY <1>3 DEF ColumnFields
  <2>3. gv \in [1 .. 2 * N -> Raw]
    <3>1. ASSUME NEW i \in 1 .. 2 * N, i % 2 = 1 PROVE schema[(i + 1) \div 2].name \in Raw
      <4>1. (i + 1) \div 2 \in 1 .. N
        BY <1>1, <3>1
      <4>. QED BY <1>2, <4>1 DEF Raw
    <3>2. ASSUME NEW i \in 1 .. 2 * N, i % 2 # 1 PROVE TypeCode(schema[i \div 2].type) \in Raw
      BY DEF TypeCode, Raw
    <3>. QED BY <3>1, <3>2 DEF ColumnValues
  <2>. HIDE DEF gf, gv
  <2>. DEFINE M == 2 * N
  <2>4. M \in Nat /\ gf \in [1 .. M -> Fields] /\ gv \in [1 .. M -> Raw]
    BY <2>1, <2>2, <2>3
  <2>. HIDE DEF M
  <2>5. gf \in Seq(Fields) /\ Len(gf) = M
    BY <2>4, AsSequence
  <2>6. gv \in Seq(Raw) /\ Len(gv) = M
    BY <2>4, AsSequence
  <2>. QED BY <2>5, <2>6 DEF M
<1>6. ASSUME NEW n \in 1 .. N
      PROVE  /\ gf[2 * n - 1] = Prefixed(CountBytes) /\ gf[2 * n] = Word(1)
             /\ gv[2 * n - 1] = schema[n].name /\ gv[2 * n] = TypeCode(schema[n].type)
  <2>. DEFINE a == 2 * n - 1
              b == 2 * n
  <2>1. /\ a \in 1 .. 2 * N /\ b \in 1 .. 2 * N /\ a % 2 = 1 /\ b % 2 # 1 /\ (a + 1) \div 2 = n /\ b \div 2 = n
    BY <1>1, Places
  <2>. HIDE DEF a, b
  <2>2. gf[a] = Prefixed(CountBytes) /\ gf[b] = Word(1)
    BY <2>1 DEF ColumnFields
  <2>3. gv[a] = schema[n].name
    BY <2>1 DEF ColumnValues
  <2>4. gv[b] = TypeCode(schema[n].type)
    BY <2>1 DEF ColumnValues
  <2>. QED BY <2>2, <2>3, <2>4 DEF a, b
<1>. HIDE DEF gf, gv
<1>7. F[0] = <<>> /\ V[0] = <<>> /\ F[N] = gf /\ V[N] = gv
  <2>1. 0 \in 0 .. N /\ N \in 0 .. N /\ 2 * 0 = 0
    BY <1>1
  <2>2. Firsts(gf, 0) = <<>> /\ Firsts(gv, 0) = <<>>
    BY DEF Firsts
  <2>3. Firsts(gf, 2 * N) = gf
    <3>1. Firsts(gf, Len(gf)) = gf
      BY <1>5, FirstsOf
    <3>. QED BY <1>5, <3>1
  <2>4. Firsts(gv, 2 * N) = gv
    <3>1. Firsts(gv, Len(gv)) = gv
      BY <1>5, FirstsOf
    <3>. QED BY <1>5, <3>1
  <2>. QED BY <2>1, <2>2, <2>3, <2>4
<1>8. ReadsEach(N, ws, at, F, V)
  <2>. SUFFICES ASSUME NEW n \in 1 .. N, NEW b, Reads(b, at, F[n - 1], V[n - 1])
                PROVE  Reads(b \o ws[n], at, F[n], V[n])
    BY DEF ReadsEach
  <2>. DEFINE m == 2 * (n - 1)
  <2>1. /\ n \in 0 .. N /\ n - 1 \in 0 .. N /\ m \in Nat /\ m + 1 = 2 * n - 1 /\ (m + 1) + 1 = 2 * n
        /\ m + 1 \in Nat /\ m + 1 <= 2 * N /\ (m + 1) + 1 <= 2 * N
    BY <1>1
  <2>2. F[n - 1] = Firsts(gf, m) /\ V[n - 1] = Firsts(gv, m) /\ F[n] = Firsts(gf, 2 * n) /\ V[n] = Firsts(gv, 2 * n)
    BY <2>1
  <2>. HIDE DEF m, F, V
  <2>3. F[n] = Append(Append(F[n - 1], Prefixed(CountBytes)), Word(1))
    <3>1. Firsts(gf, m + 1) = Append(Firsts(gf, m), gf[m + 1])
      BY <1>5, <2>1, FirstsNext
    <3>2. Firsts(gf, (m + 1) + 1) = Append(Firsts(gf, m + 1), gf[(m + 1) + 1])
      BY <1>5, <2>1, FirstsNext
    <3>3. gf[m + 1] = Prefixed(CountBytes) /\ gf[(m + 1) + 1] = Word(1)
      BY <1>6, <2>1
    <3>4. F[n] = Firsts(gf, (m + 1) + 1)
      BY <2>1, <2>2
    <3>. QED BY <2>2, <3>1, <3>2, <3>3, <3>4, Zenon
  <2>4. V[n] = Append(Append(V[n - 1], schema[n].name), TypeCode(schema[n].type))
    <3>1. Firsts(gv, m + 1) = Append(Firsts(gv, m), gv[m + 1])
      BY <1>5, <2>1, FirstsNext
    <3>2. Firsts(gv, (m + 1) + 1) = Append(Firsts(gv, m + 1), gv[(m + 1) + 1])
      BY <1>5, <2>1, FirstsNext
    <3>3. gv[m + 1] = schema[n].name /\ gv[(m + 1) + 1] = TypeCode(schema[n].type)
      BY <1>6, <2>1
    <3>4. V[n] = Firsts(gv, (m + 1) + 1)
      BY <2>1, <2>2
    <3>. QED BY <2>2, <3>1, <3>2, <3>3, <3>4, Zenon
  <2>. DEFINE text == WriteText(CountBytes, schema[n].name)
              code == WriteLittleEndian(1, TypeCode(schema[n].type))
  <2>5. Reads(b \o text, at, Append(F[n - 1], Prefixed(CountBytes)), Append(V[n - 1], schema[n].name))
    BY <1>2, <1>3, ReadsText, Zenon
  <2>6. Reads((b \o text) \o code, at, F[n], V[n])
    <3>. HIDE DEF text, at
    <3>1. Reads((b \o text) \o code, at, Append(Append(F[n - 1], Prefixed(CountBytes)), Word(1)),
                Append(Append(V[n - 1], schema[n].name), TypeCode(schema[n].type)))
      BY <1>2, <1>3, <2>5, ReadsWord, Zenon
    <3>. QED BY <2>3, <2>4, <3>1, Zenon
  <2>7. ws[n] = text \o code /\ text \in Seq(Bytes) /\ code \in Seq(Bytes) /\ b \in Seq(Bytes)
    <3>1. b \in Seq(Bytes)
      BY DEF Reads
    <3>2. Prefixed(CountBytes) \in Fields /\ Held(Prefixed(CountBytes), schema[n].name)
          /\ Written(Prefixed(CountBytes), schema[n].name) = text
      BY <1>2, <1>3 DEF Held, Written, Prefixed
    <3>3. text \in Seq(Bytes)
      BY <3>2, WrittenBytes
    <3>4. code \in Seq(Bytes)
      BY <1>2, <1>3, WritesBytes, Zenon
    <3>5. ws[n] = text \o code
      BY Zenon
    <3>. HIDE DEF text, code
    <3>. QED BY <3>1, <3>3, <3>4, <3>5
  <2>. HIDE DEF text, code, ws
  <2>8. b \o (text \o code) = (b \o text) \o code
    BY <2>7, Associates
  <2>9. b \o ws[n] = (b \o text) \o code
    BY <2>7, <2>8
  <2>10. \A x, y : x = y /\ Reads(x, at, F[n], V[n]) => Reads(y, at, F[n], V[n])
    OBVIOUS
  <2>. QED BY <2>6, <2>9, <2>10
<1>9. FlattenSeq(ws) \in Seq(Bytes) /\ Reads(u \o FlattenSeq(ws), at, F[N], V[N])
  <2>1. Reads(u, at, F[0], V[0])
    <3>1. Reads(u, at, <<>>, <<>>)
      BY ReadsNothing
    <3>. HIDE DEF F, V, at
    <3>. QED BY <1>7, <3>1
  <2>. HIDE DEF F, V, ws, at
  <2>. QED BY <1>1, <1>3, <1>4, <1>8, <2>1, ReadsMany, Zenon
<1>10. [i \in DOMAIN schema |-> part(i)] = ws
  BY <1>1, Zenon
<1>11. Reads(u \o FlattenSeq(ws), at, gf, gv)
  <2>. HIDE DEF F, V, ws, at
  <2>. QED BY <1>7, <1>9, Zenon
<1>12. FlattenSeq([i \in DOMAIN schema |-> part(i)]) \in Seq(Bytes)
       /\ Reads(u \o FlattenSeq([i \in DOMAIN schema |-> part(i)]), at, gf, gv)
  <2>. HIDE DEF part, F, V, ws
  <2>. QED BY <1>9, <1>10, <1>11, Zenon
<1>. QED BY <1>12, Zenon DEF gf, gv

\* The record of a table is read back, and neither a shorter nor a longer one is.
THEOREM CatalogRecordsDelimited ==
    ASSUME NEW table \in StoredTables
    PROVE  LET record == EncodeCatalogRecord(table)
           IN /\ DecodeCatalogRecord(record) = [ok |-> TRUE, table |-> table]
              /\ \A bytes \in Shorter(record) \cup Longer(record) : ~DecodeCatalogRecord(bytes).ok
<1>. DEFINE record == EncodeCatalogRecord(table)
            schema == table.schema
            N == Len(schema)
            head == Header(table)
            at == Len(head)
            columns == [i \in DOMAIN schema |-> WriteText(CountBytes, schema[i].name)
                                                   \o WriteLittleEndian(1, TypeCode(schema[i].type))]
            tail == FlattenSeq(columns)
            counts == <<table.id, table.name, N>>
            fs == ColumnFields(N)
            vs == ColumnValues(schema)
<1>0. 0 \in Nat
  OBVIOUS
<1>1. /\ table.id \in 1 .. InvalidId - 1 /\ table.name \in StoredNames /\ schema \in StoredSchemas
      /\ table = [id |-> table.id, name |-> table.name, schema |-> schema]
  BY DEF StoredTables
<1>2. /\ schema \in Seq(StoredColumns) /\ N \in Nat /\ N # 0 /\ DOMAIN schema = 1 .. N
      /\ \A i \in 1 .. N : schema[i] \in StoredColumns
  BY <1>1 DEF StoredSchemas
<1>3. Reads(head, 0, HeaderFields, counts)
  BY HeaderReads
<1>4. head \in Seq(Bytes) /\ at \in Nat
  BY <1>3 DEF Reads
<1>. HIDE DEF head
<1>5. tail \in Seq(Bytes) /\ Reads(head \o tail, at, fs, vs)
  BY <1>1, <1>4, ColumnsRead, ZenonT(60)
<1>6. record = head \o tail
  BY Zenon DEF EncodeCatalogRecord, Header, head
<1>7. \A b : DecodeCatalogRecord(b) = ReadTable(b, ReadFields(b, 0, HeaderFields))
  BY Zenon DEF DecodeCatalogRecord, HeaderFields
<1>. HIDE DEF record, columns, tail, schema, fs, vs, counts
<1>8. record \in Seq(Bytes) /\ ReadFields(record, 0, HeaderFields) = Reader(at, counts) /\ Reads(record, at, fs, vs)
  <2>1. ReadFields(head \o tail, 0, HeaderFields) = Reader(Len(head), counts)
    BY <1>0, <1>3, <1>5, ReadsPrefix, ZenonT(60)
  <2>2. record \in Seq(Bytes)
    <3>1. head \o tail \in Seq(Bytes)
      BY <1>4, <1>5
    <3>. QED BY <1>6, <3>1
  <2>3. \A x : x = head \o tail => /\ ReadFields(x, 0, HeaderFields) = Reader(Len(head), counts)
                                   /\ Reads(x, at, fs, vs)
    BY <1>5, <2>1
  <2>. QED BY <1>6, <2>2, <2>3
<1>. DEFINE r == Reader(at, counts)
<1>9. r.ok /\ r.at = at /\ r.values = counts
  BY DEF Reader
<1>10. counts[1] = table.id /\ counts[2] = table.name /\ counts[3] = N
  BY DEF counts
<1>11. counts[1] \notin {0, InvalidId} /\ counts[2] # <<>> /\ counts[3] # 0
  <2>1. InvalidId \in Int
    BY Widths
  <2>2. counts[2] # <<>>
    BY <1>1, <1>10 DEF StoredNames
  <2>. QED BY <1>1, <1>2, <1>10, <2>1, <2>2
<1>. HIDE DEF r, at
<1>12. \A b : ReadTable(b, r) = ReadColumns(b, r, ReadFields(b, at, fs))
  <2>1. r.ok /\ r.values[1] \notin {0, InvalidId} /\ r.values[2] # <<>> /\ r.values[3] # 0
    BY <1>9, <1>11, Zenon
  <2>2. [i \in 1 .. 2 * r.values[3] |-> IF i % 2 = 1 THEN Prefixed(CountBytes) ELSE Word(1)] = fs
    BY <1>9, <1>10, Zenon DEF fs, ColumnFields
  <2>. QED BY <1>9, <2>1, <2>2, Zenon DEF ReadTable
<1>13. DecodeCatalogRecord(record) = [ok |-> TRUE, table |-> table]
  <2>. DEFINE c == Reader(Len(record), vs)
  <2>1. ReadFields(record, at, fs) = c /\ Len(record) \in Nat
    BY <1>8 DEF Reads
  <2>2. Consumed(record, c) /\ c.values = vs
    BY <2>1 DEF Consumed, Remaining, Reader
  <2>. HIDE DEF c
  <2>3. ASSUME NEW i \in 1 .. N
        PROVE  /\ vs[2 * i - 1] = schema[i].name /\ vs[2 * i] = TypeCode(schema[i].type)
               /\ schema[i].name # <<>> /\ TypeCode(schema[i].type) \in {0, 1}
               /\ schema[i] = [name |-> schema[i].name, type |-> ColumnTypes[TypeCode(schema[i].type) + 1]]
    <3>. DEFINE a == 2 * i - 1
                b == 2 * i
    <3>1. /\ a \in 1 .. 2 * N /\ b \in 1 .. 2 * N /\ a % 2 = 1 /\ b % 2 # 1 /\ (a + 1) \div 2 = i /\ b \div 2 = i
      BY <1>2, Places
    <3>. HIDE DEF a, b
    <3>2. vs[a] = schema[i].name
      BY <3>1 DEF vs, ColumnValues
    <3>3. vs[b] = TypeCode(schema[i].type)
      BY <3>1 DEF vs, ColumnValues
    <3>4. schema[i].name # <<>> /\ schema[i].type \in Types
          /\ schema[i] = [name |-> schema[i].name, type |-> schema[i].type]
      BY <1>2 DEF StoredColumns, StoredNames
    <3>5. TypeCode(schema[i].type) \in {0, 1} /\ ColumnTypes[TypeCode(schema[i].type) + 1] = schema[i].type
      BY <3>4 DEF Types, TypeCode, ColumnTypes
    <3>. QED BY <3>2, <3>3, <3>4, <3>5, Zenon DEF a, b
  <2>4. \A i \in 1 .. N : vs[2 * i - 1] # <<>> /\ vs[2 * i] \in {0, 1}
    BY <2>3
  <2>5. [i \in 1 .. N |-> [name |-> vs[2 * i - 1], type |-> ColumnTypes[vs[2 * i] + 1]]] = schema
    <3>. DEFINE s == [i \in 1 .. N |-> [name |-> vs[2 * i - 1], type |-> ColumnTypes[vs[2 * i] + 1]]]
    <3>1. ASSUME NEW i \in 1 .. N PROVE s[i] = schema[i]
      <4>1. s[i] = [name |-> vs[2 * i - 1], type |-> ColumnTypes[vs[2 * i] + 1]]
        BY Zenon
      <4>. HIDE DEF s
      <4>. QED BY <2>3, <4>1, Zenon
    <3>2. DOMAIN s = 1 .. N
      BY Zenon
    <3>3. s = [i \in 1 .. N |-> s[i]]
      BY Zenon
    <3>4. schema = [i \in 1 .. N |-> schema[i]]
      BY <1>2
    <3>. HIDE DEF s
    <3>5. s = schema
      BY <3>1, <3>3, <3>4, Zenon
    <3>. QED BY <3>5 DEF s
  <2>6. ReadColumns(record, r, c) = [ok |-> TRUE, table |-> [id |-> table.id, name |-> table.name, schema |-> schema]]
    <3>1. \A i \in 1 .. r.values[3] : c.values[2 * i - 1] # <<>> /\ c.values[2 * i] \in {0, 1}
      BY <1>9, <1>10, <2>2, <2>4, Zenon
    <3>2. [i \in 1 .. r.values[3] |-> [name |-> c.values[2 * i - 1], type |-> ColumnTypes[c.values[2 * i] + 1]]] = schema
      BY <1>9, <1>10, <2>2, <2>5, Zenon
    <3>. QED BY <1>9, <1>10, <2>2, <3>1, <3>2, Zenon DEF ReadColumns
  <2>. QED BY <1>1, <1>7, <1>8, <1>12, <2>1, <2>6, Zenon DEF r
<1>14. ASSUME NEW p \in Shorter(record) \cup Longer(record) PROVE ~DecodeCatalogRecord(p).ok
  <2>. DEFINE hr == ReadFields(p, 0, HeaderFields)
  <2>0. ~Consumed(p, ReadFields(p, at, fs)) /\ p \in Seq(Bytes)
    BY <1>4, <1>8, Delimited
  <2>1. CASE ~hr.ok
    <3>1. ReadTable(p, hr) = Refused
      BY <2>1, Zenon DEF ReadTable
    <3>. QED BY <1>7, <3>1 DEF Refused
  <2>2. CASE hr.ok
    <3>1. hr = r
      <4>1. CASE p \in Longer(record)
        <5>1. PICK byte \in Bytes : p = Append(record, byte)
          BY <4>1 DEF Longer
        <5>2. p = record \o <<byte>> /\ <<byte>> \in Seq(Bytes)
          BY <1>8, <5>1, AppendIsConcat
        <5>3. HeaderFields \in Seq(Fields)
          BY <1>3 DEF Reads
        <5>4. ReadFields(record, 0, HeaderFields).ok
          BY <1>8, <1>9 DEF r
        <5>5. ReadFields(record \o <<byte>>, 0, HeaderFields) = ReadFields(record, 0, HeaderFields)
          BY <1>0, <1>8, <5>2, <5>3, <5>4, ReadsOn, Zenon
        <5>. QED BY <1>8, <5>2, <5>5, Zenon DEF r
      <4>2. CASE p \in Shorter(record)
        <5>1. PICK q \in Seq(Bytes) : record = p \o q
          BY <1>8, <4>2, ShorterThan
        <5>2. HeaderFields \in Seq(Fields)
          BY <1>3 DEF Reads
        <5>3. ReadFields(p \o q, 0, HeaderFields) = hr
          BY <1>0, <2>0, <2>2, <5>2, ReadsOn, Zenon
        <5>. QED BY <1>8, <5>1, <5>3, Zenon DEF r
      <4>. QED BY <4>1, <4>2
    <3>. HIDE DEF hr
    <3>2. ReadTable(p, hr) = Refused
      BY <1>12, <2>0, <3>1, Zenon DEF ReadColumns
    <3>. QED BY <1>7, <3>2 DEF Refused, hr
  <2>. QED BY <2>1, <2>2
<1>. QED BY <1>13, <1>14 DEF record

-----------------------------------------------------------------------------
(***************************************************************************)
(* Lists of the same rows in another order.                                *)
(***************************************************************************)
Bijects(p, S, T) ==
    /\ p \in [S -> T]
    /\ \A x, y \in S : p[x] = p[y] => x = y
    /\ \A t \in T : \E x \in S : p[x] = t

\* Sets matched one to one have as many elements.
LEMMA BijectsCardinality ==
    ASSUME NEW S, NEW T, NEW p, Bijects(p, S, T), IsFiniteSet(S)
    PROVE  IsFiniteSet(T) /\ Cardinality(T) = Cardinality(S)
<1>1. p \in Bijection(S, T)
  <2>1. p \in [S -> T] /\ (\A x, y \in S : p[x] = p[y] => x = y) /\ \A t \in T : \E x \in S : p[x] = t
    BY DEF Bijects
  <2>2. IsInjective(p)
    BY <2>1 DEF IsInjective
  <2>. QED BY <2>1, <2>2 DEF Bijection, Injection, Surjection
<1>2. ExistsBijection(S, T)
  BY <1>1 DEF ExistsBijection
<1>. QED BY <1>2, FS_Bijection

\* Two matchings one after the other are a matching.
LEMMA BijectsComposed ==
    ASSUME NEW S, NEW T, NEW U, NEW p, NEW q, Bijects(p, S, T), Bijects(q, T, U)
    PROVE  Bijects([x \in S |-> q[p[x]]], S, U)
<1>. DEFINE r == [x \in S |-> q[p[x]]]
<1>1. p \in [S -> T] /\ q \in [T -> U]
  BY DEF Bijects
<1>2. r \in [S -> U]
  BY <1>1
<1>3. ASSUME NEW x \in S, NEW y \in S, r[x] = r[y] PROVE x = y
  <2>1. p[x] \in T /\ p[y] \in T /\ q[p[x]] = q[p[y]]
    BY <1>1, <1>3
  <2>2. p[x] = p[y]
    BY <2>1 DEF Bijects
  <2>. QED BY <2>2 DEF Bijects
<1>4. ASSUME NEW u \in U PROVE \E x \in S : r[x] = u
  <2>1. PICK t \in T : q[t] = u
    BY DEF Bijects
  <2>2. PICK x \in S : p[x] = t
    BY DEF Bijects
  <2>. QED BY <2>1, <2>2
<1>. HIDE DEF r
<1>5. Bijects(r, S, U)
  BY <1>2, <1>3, <1>4 DEF Bijects
<1>. QED BY <1>5 DEF r

\* A matching can be read the other way.
LEMMA BijectsBack ==
    ASSUME NEW S, NEW T, NEW p, Bijects(p, S, T)
    PROVE  \E q : Bijects(q, T, S) /\ \A t \in T : p[q[t]] = t
<1>. DEFINE q == [t \in T |-> CHOOSE x \in S : p[x] = t]
<1>1. ASSUME NEW t \in T PROVE q[t] \in S /\ p[q[t]] = t
  <2>1. \E x \in S : p[x] = t
    BY DEF Bijects
  <2>. QED BY <2>1
<1>2. q \in [T -> S]
  <2>1. q = [t \in T |-> q[t]]
    OBVIOUS
  <2>. HIDE DEF q
  <2>. QED BY <1>1, <2>1
<1>. HIDE DEF q
<1>3. ASSUME NEW s \in T, NEW t \in T, q[s] = q[t] PROVE s = t
  BY <1>1, <1>3
<1>4. ASSUME NEW x \in S PROVE \E t \in T : q[t] = x
  <2>1. p[x] \in T
    BY DEF Bijects
  <2>2. q[p[x]] \in S /\ p[q[p[x]]] = p[x]
    BY <1>1, <2>1
  <2>3. q[p[x]] = x
    BY <2>2 DEF Bijects
  <2>. QED BY <2>1, <2>3
<1>5. Bijects(q, T, S)
  BY <1>2, <1>3, <1>4 DEF Bijects
<1>. QED BY <1>1, <1>5

\* The part of a correspondence.
PartOf(q, p, A, B) == Bijects(q, A, B) /\ \A x \in A : q[x] = p[x]

\* A matching that keeps a part matches the parts.
LEMMA BijectsPart ==
    ASSUME NEW S, NEW T, NEW p, Bijects(p, S, T), NEW A \in SUBSET S, NEW B \in SUBSET T,
           \A x \in S : x \in A <=> p[x] \in B
    PROVE  \E q : PartOf(q, p, A, B)
<1>. DEFINE q == [x \in A |-> p[x]]
<1>1. \A x \in A : q[x] = p[x]
  OBVIOUS
<1>2. q \in [A -> B]
  OBVIOUS
<1>. HIDE DEF q
<1>3. ASSUME NEW x \in A, NEW y \in A, q[x] = q[y] PROVE x = y
  BY <1>1, <1>3 DEF Bijects
<1>4. ASSUME NEW b \in B PROVE \E x \in A : q[x] = b
  <2>1. PICK x \in S : p[x] = b
    BY DEF Bijects
  <2>. QED BY <1>1, <2>1
<1>5. Bijects(q, A, B)
  BY <1>2, <1>3, <1>4 DEF Bijects
<1>. QED BY <1>1, <1>5 DEF PartOf

\* The two have the same elements.
SameListing(a, b) == \E p : Bijects(p, DOMAIN a, DOMAIN b) /\ \A i \in DOMAIN a : a[i] = b[p[i]]

\* Each element is then in both equally often.
LEMMA ListedAlike ==
    ASSUME NEW S, NEW a \in Seq(S), NEW b \in Seq(S), SameListing(a, b)
    PROVE  SameRows(a, b)
<1>1. PICK p : Bijects(p, DOMAIN a, DOMAIN b) /\ \A i \in DOMAIN a : a[i] = b[p[i]]
  BY DEF SameListing
<1>2. Len(a) \in Nat /\ Len(b) \in Nat /\ DOMAIN a = 1 .. Len(a) /\ DOMAIN b = 1 .. Len(b)
  OBVIOUS
<1>3. /\ IsFiniteSet(DOMAIN a) /\ Cardinality(DOMAIN a) = Len(a)
      /\ IsFiniteSet(DOMAIN b) /\ Cardinality(DOMAIN b) = Len(b)
  <2>1. \A n \in Nat : IsFiniteSet(1 .. n) /\ Cardinality(1 .. n) = n
    <3>. TAKE n \in Nat
    <3>1. 1 \in Int /\ n \in Int /\ n - 1 + 1 = n
      OBVIOUS
    <3>2. /\ IsFiniteSet(1 .. n)
          /\ Cardinality(1 .. n) = IF 1 > n THEN 0 ELSE n - 1 + 1
      BY <3>1, FS_Interval
    <3>. QED BY <3>1, <3>2
  <2>. QED BY <1>2, <2>1
<1>4. Len(a) = Len(b)
  BY <1>1, <1>3, BijectsCardinality
<1>5. ASSUME NEW i \in DOMAIN a
      PROVE  Cardinality({j \in DOMAIN a : a[j] = a[i]}) = Cardinality({j \in DOMAIN b : b[j] = a[i]})
  <2>. DEFINE A == {j \in DOMAIN a : a[j] = a[i]}
              B == {j \in DOMAIN b : b[j] = a[i]}
  <2>1. A \in SUBSET DOMAIN a /\ B \in SUBSET DOMAIN b
    OBVIOUS
  <2>2. \A x \in DOMAIN a : x \in A <=> p[x] \in B
    <3>1. p \in [DOMAIN a -> DOMAIN b]
      BY <1>1 DEF Bijects
    <3>. QED BY <1>1, <3>1
  <2>3. IsFiniteSet(A)
    BY <1>3, <2>1, FS_Subset
  <2>. HIDE DEF A, B
  <2>4. PICK q : Bijects(q, A, B)
    BY <1>1, <2>1, <2>2, BijectsPart, Zenon DEF PartOf
  <2>5. Cardinality(B) = Cardinality(A)
    BY <2>3, <2>4, BijectsCardinality
  <2>. QED BY <2>5 DEF A, B
<1>. QED BY <1>4, <1>5 DEF SameRows

\* RowsAt lists the rows of its places.
LEMMA RowsAtPlaces ==
    ASSUME NEW S, NEW rows \in Seq(S), NEW places \in SUBSET (DOMAIN rows)
    PROVE  /\ RowsAt(rows, places) \in Seq(S)
           /\ \E g : /\ Bijects(g, DOMAIN RowsAt(rows, places), places)
                     /\ \A k \in DOMAIN RowsAt(rows, places) : RowsAt(rows, places)[k] = rows[g[k]]
<1>. DEFINE N == Len(rows)
            D == Seq(S)
            s == [x \in (1 .. N) \X D |-> IF x[1] \in places THEN Append(x[2], rows[x[1]]) ELSE x[2]]
            W(f) == [n \in 0 .. N |-> IF n = 0 THEN <<>>
                                      ELSE IF n \in places THEN Append(f[n - 1], rows[n]) ELSE f[n - 1]]
            kept == CHOOSE f : f = W(f)
<1>1. N \in Nat /\ DOMAIN rows = 1 .. N /\ (\A n \in 1 .. N : rows[n] \in S) /\ <<>> \in D
  OBVIOUS
<1>2. s \in [(1 .. N) \X D -> D]
  <2>1. ASSUME NEW x \in (1 .. N) \X D
        PROVE  (IF x[1] \in places THEN Append(x[2], rows[x[1]]) ELSE x[2]) \in D
    <3>1. x[1] \in 1 .. N /\ x[2] \in Seq(S)
      OBVIOUS
    <3>2. rows[x[1]] \in S
      BY <1>1, <3>1
    <3>. QED BY <3>1, <3>2
  <2>. HIDE DEF D
  <2>. QED BY <2>1
<1>3. PICK f \in [0 .. N -> D] : Steps(f, s, <<>>, N)
  <2>. HIDE DEF s, N, D
  <2>. QED BY <1>1, <1>2, StepsExist
<1>4. ASSUME NEW n \in 1 .. N PROVE f[n] = IF n \in places THEN Append(f[n - 1], rows[n]) ELSE f[n - 1]
  <2>1. n - 1 \in 0 .. N /\ f[n - 1] \in D
    BY <1>1
  <2>2. s[<<n, f[n - 1]>>] = IF n \in places THEN Append(f[n - 1], rows[n]) ELSE f[n - 1]
    <3>. HIDE DEF D
    <3>. QED BY <2>1
  <2>. HIDE DEF s
  <2>. QED BY <1>3, <2>2 DEF Steps
<1>5. f = W(f)
  <2>1. f[0] = <<>>
    BY <1>3 DEF Steps
  <2>2. f = [n \in 0 .. N |-> f[n]]
    <3>. HIDE DEF N, D
    <3>. QED BY <1>3
  <2>3. ASSUME NEW n \in 0 .. N
        PROVE  f[n] = IF n = 0 THEN <<>>
                      ELSE IF n \in places THEN Append(f[n - 1], rows[n]) ELSE f[n - 1]
    <3>1. CASE n = 0
      BY <2>1, <3>1
    <3>2. CASE n # 0
      <4>1. n \in 1 .. N
        BY <1>1, <3>2
      <4>. HIDE DEF N
      <4>. QED BY <1>4, <3>2, <4>1
    <3>. QED BY <3>1, <3>2
  <2>. HIDE DEF N
  <2>. QED BY <2>2, <2>3
<1>6. kept = W(kept)
  <2>. HIDE DEF W
  <2>. QED BY <1>5
<1>7. RowsAt(rows, places) = kept[N]
  BY DEF RowsAt
<1>. HIDE DEF kept, s
<1>8. kept[0] = <<>> /\ \A n \in 1 .. N : kept[n] = IF n \in places THEN Append(kept[n - 1], rows[n]) ELSE kept[n - 1]
  <2>1. 0 \in 0 .. N /\ \A n \in 1 .. N : n \in 0 .. N /\ n # 0
    BY <1>1
  <2>. HIDE DEF N
  <2>2. kept[0] = <<>>
    BY <1>6, <2>1
  <2>3. ASSUME NEW n \in 1 .. N
        PROVE  kept[n] = IF n \in places THEN Append(kept[n - 1], rows[n]) ELSE kept[n - 1]
    BY <1>6, <2>1
  <2>. QED BY <2>2, <2>3
<1>. DEFINE Upto(n) == {i \in places : i <= n}
            Lists(n) == /\ kept[n] \in D
                        /\ \E g : Bijects(g, DOMAIN kept[n], Upto(n)) /\ \A k \in DOMAIN kept[n] : kept[n][k] = rows[g[k]]
            I == {n \in 0 .. N : Lists(n)}
<1>9. 0 \in I
  <2>1. kept[0] \in D /\ DOMAIN kept[0] = {} /\ Upto(0) = {} /\ 0 \in 0 .. N
    BY <1>1, <1>8
  <2>2. Bijects(<<>>, {}, {})
    BY DEF Bijects
  <2>. HIDE DEF D, Upto
  <2>3. \E g : Bijects(g, DOMAIN kept[0], Upto(0)) /\ \A k \in DOMAIN kept[0] : kept[0][k] = rows[g[k]]
    BY <2>1, <2>2
  <2>. QED BY <2>1, <2>3
<1>10. ASSUME NEW n \in 0 .. N - 1, n \in I PROVE n + 1 \in I
  <2>1. n + 1 \in 1 .. N /\ (n + 1) - 1 = n /\ n + 1 \in 0 .. N /\ rows[n + 1] \in S /\ n \in Nat
    BY <1>1
  <2>2. PICK g : Bijects(g, DOMAIN kept[n], Upto(n)) /\ \A k \in DOMAIN kept[n] : kept[n][k] = rows[g[k]]
    BY <1>10
  <2>3. kept[n] \in Seq(S)
    BY <1>10
  <2>4. kept[n + 1] = IF n + 1 \in places THEN Append(kept[n], rows[n + 1]) ELSE kept[n]
    BY <1>8, <2>1
  <2>5. CASE n + 1 \in places
    <3>. DEFINE L == Len(kept[n])
                more == Append(kept[n], rows[n + 1])
                h == [k \in 1 .. L + 1 |-> IF k = L + 1 THEN n + 1 ELSE g[k]]
    <3>1. L \in Nat /\ DOMAIN kept[n] = 1 .. L
      BY <2>3
    <3>2. more \in Seq(S) /\ DOMAIN more = 1 .. L + 1 /\ more[L + 1] = rows[n + 1]
          /\ \A k \in 1 .. L : more[k] = kept[n][k]
      BY <2>1, <2>3
    <3>3. kept[n + 1] = more
      BY <2>4, <2>5
    <3>. HIDE DEF more
    <3>4. h[L + 1] = n + 1 /\ \A k \in 1 .. L : h[k] = g[k] /\ g[k] \in Upto(n)
      <4>1. \A k \in 1 .. L : k \in 1 .. L + 1 /\ k # L + 1
        BY <3>1
      <4>2. L + 1 \in 1 .. L + 1
        BY <3>1
      <4>3. \A k \in 1 .. L : g[k] \in Upto(n)
        <5>1. g \in [DOMAIN kept[n] -> Upto(n)]
          BY <2>2 DEF Bijects
        <5>. HIDE DEF Upto
        <5>. QED BY <3>1, <5>1
      <4>. HIDE DEF L, Upto
      <4>. QED BY <4>1, <4>2, <4>3
    <3>5. Upto(n + 1) = Upto(n) \cup {n + 1}
      <4>1. \A i \in places : i \in 1 .. N
        BY <1>1
      <4>. HIDE DEF N
      <4>. QED BY <1>1, <2>1, <2>5, <4>1
    <3>6. n + 1 \notin Upto(n)
      BY <2>1
    <3>7. h \in [1 .. L + 1 -> Upto(n + 1)]
      <4>1. ASSUME NEW k \in 1 .. L + 1 PROVE h[k] \in Upto(n + 1)
        <5>. HIDE DEF h, Upto
        <5>1. CASE k = L + 1
          BY <3>4, <3>5, <5>1
        <5>2. CASE k # L + 1
          <6>1. k \in 1 .. L
            BY <3>1, <5>2
          <6>. QED BY <3>4, <3>5, <6>1
        <5>. QED BY <5>1, <5>2
      <4>2. h = [k \in 1 .. L + 1 |-> h[k]]
        OBVIOUS
      <4>. HIDE DEF h, Upto
      <4>. QED BY <4>1, <4>2
    <3>. HIDE DEF h
    <3>8. Bijects(h, 1 .. L + 1, Upto(n + 1))
      <4>. HIDE DEF Upto
      <4>0. \A k \in 1 .. L + 1 : k = L + 1 \/ k \in 1 .. L
        BY <3>1
      <4>1. ASSUME NEW x \in 1 .. L + 1, NEW y \in 1 .. L + 1, h[x] = h[y] PROVE x = y
        <5>1. CASE x = L + 1
          BY <3>4, <3>6, <4>0, <4>1, <5>1
        <5>2. CASE y = L + 1
          BY <3>4, <3>6, <4>0, <4>1, <5>2
        <5>3. CASE x \in 1 .. L /\ y \in 1 .. L
          <6>1. g[x] = g[y]
            BY <3>4, <4>1, <5>3
          <6>. QED BY <2>2, <3>1, <5>3, <6>1 DEF Bijects
        <5>. QED BY <4>0, <5>1, <5>2, <5>3
      <4>2. ASSUME NEW t \in Upto(n + 1) PROVE \E x \in 1 .. L + 1 : h[x] = t
        <5>1. CASE t = n + 1
          <6>1. L + 1 \in 1 .. L + 1
            BY <3>1
          <6>. QED BY <3>4, <5>1, <6>1
        <5>2. CASE t \in Upto(n)
          <6>1. PICK x \in 1 .. L : g[x] = t
            BY <2>2, <3>1, <5>2 DEF Bijects
          <6>2. x \in 1 .. L + 1 /\ h[x] = t
            BY <3>1, <3>4, <6>1
          <6>. QED BY <6>2
        <5>. QED BY <3>5, <5>1, <5>2
      <4>. QED BY <3>7, <4>1, <4>2 DEF Bijects
    <3>9. ASSUME NEW k \in 1 .. L + 1 PROVE more[k] = rows[h[k]]
      <4>1. CASE k = L + 1
        BY <3>2, <3>4, <4>1
      <4>2. CASE k # L + 1
        <5>1. k \in 1 .. L
          BY <3>1, <4>2
        <5>. QED BY <2>2, <3>1, <3>2, <3>4, <5>1
      <4>. QED BY <4>1, <4>2
    <3>10. \E e : Bijects(e, DOMAIN kept[n + 1], Upto(n + 1)) /\ \A k \in DOMAIN kept[n + 1] : kept[n + 1][k] = rows[e[k]]
      <4>. HIDE DEF Upto, L
      <4>. QED BY <3>2, <3>3, <3>8, <3>9
    <3>. QED BY <2>1, <3>2, <3>3, <3>10
  <2>6. CASE n + 1 \notin places
    <3>1. kept[n + 1] = kept[n]
      BY <2>4, <2>6
    <3>2. Upto(n + 1) = Upto(n)
      <4>1. \A i \in places : i \in 1 .. N
        BY <1>1
      <4>. HIDE DEF N
      <4>. QED BY <1>1, <2>1, <2>6, <4>1
    <3>. HIDE DEF Upto
    <3>. QED BY <2>1, <2>2, <2>3, <3>1, <3>2
  <2>. QED BY <2>5, <2>6
<1>11. \A n \in 0 .. N : n \in I
  <2>. HIDE DEF I
  <2>. QED BY <1>1, <1>9, <1>10, UpTo
<1>12. Lists(N)
  <2>1. N \in 0 .. N
    BY <1>1
  <2>. QED BY <1>11, <2>1
<1>13. Upto(N) = places
  BY <1>1
<1>. HIDE DEF N, Upto
<1>. QED BY <1>7, <1>12, <1>13
-----------------------------------------------------------------------------
(***************************************************************************)
(* The tables and indexes of a database, as lists in the order of creation. *)
(***************************************************************************)
\* A name is normalised byte by byte.
LEMMA NormalNames ==
    ASSUME NEW text \in Identifiers
    PROVE  NormalizeIdentifier(text) \in StoredNames
<1>. DEFINE name == NormalizeIdentifier(text)
<1>1. text \in Seq(Bytes) /\ text # <<>> /\ Len(text) < Power[CountBytes] /\ LowerByte \in [Bytes -> Bytes]
  BY SessionConstants
<1>2. Len(text) \in Nat /\ DOMAIN text = 1 .. Len(text) /\ \A i \in 1 .. Len(text) : text[i] \in Bytes
  BY <1>1
<1>3. name \in [1 .. Len(text) -> Bytes]
  <2>1. name = [i \in 1 .. Len(text) |-> LowerByte[text[i]]]
    BY <1>2 DEF NormalizeIdentifier
  <2>2. \A i \in 1 .. Len(text) : LowerByte[text[i]] \in Bytes
    BY <1>1, <1>2
  <2>. HIDE DEF name
  <2>. QED BY <2>1, <2>2
<1>. HIDE DEF name
<1>4. name \in Seq(Bytes) /\ Len(name) = Len(text)
  BY <1>2, <1>3, AsSequence
<1>5. name # <<>>
  <2>1. Len(text) # 0
    BY <1>1
  <2>. QED BY <1>4, <2>1
<1>6. name \in StoredNames
  BY <1>1, <1>4, <1>5 DEF StoredNames
<1>. QED BY <1>6 DEF name

\* So is a schema.
LEMMA NormalSchemas ==
    ASSUME NEW columns \in SeqsUpTo(ColumnDefinitions, MaxColumns)
    PROVE  NormalSchema(columns) \in StoredSchemas
<1>. DEFINE schema == NormalSchema(columns)
<1>1. PICK k \in 1 .. MaxColumns : columns \in [1 .. k -> ColumnDefinitions]
  BY DEF SeqsUpTo
<1>2. MaxColumns \in Nat /\ MaxColumns < Power[CountBytes] /\ Power[CountBytes] \in Nat
  BY SessionConstants, Widths
<1>3. k \in Nat /\ k # 0 /\ k < Power[CountBytes] /\ DOMAIN columns = 1 .. k
  BY <1>1, <1>2
<1>4. ASSUME NEW i \in 1 .. k
      PROVE  [name |-> NormalizeIdentifier(columns[i].name), type |-> columns[i].type] \in StoredColumns
  <2>1. columns[i] \in ColumnDefinitions
    BY <1>1
  <2>2. columns[i].name \in Identifiers /\ columns[i].type \in {"INT", "TEXT"}
    BY <2>1 DEF ColumnDefinitions
  <2>3. NormalizeIdentifier(columns[i].name) \in StoredNames
    BY <2>2, NormalNames
  <2>. QED BY <2>2, <2>3 DEF StoredColumns, Types
<1>5. schema \in [1 .. k -> StoredColumns]
  <2>1. schema = [i \in 1 .. k |-> [name |-> NormalizeIdentifier(columns[i].name), type |-> columns[i].type]]
    BY <1>3 DEF NormalSchema
  <2>. HIDE DEF schema
  <2>. QED BY <1>4, <2>1
<1>. HIDE DEF schema
<1>6. schema \in Seq(StoredColumns) /\ Len(schema) = k
  BY <1>3, <1>5, AsSequence
<1>7. schema # <<>>
  BY <1>3, <1>6
<1>8. schema \in StoredSchemas
  BY <1>3, <1>6, <1>7 DEF StoredSchemas
<1>. QED BY <1>8 DEF schema

\* The values of a statement are values of a row.
LEMMA GivenValues ==
    ASSUME NEW values \in SeqsUpTo(Values, MaxColumns)
    PROVE  values \in Seq(Datums)
<1>1. PICK k \in 1 .. MaxColumns : values \in [1 .. k -> Values]
  BY DEF SeqsUpTo
<1>2. MaxColumns \in Nat
  BY SessionConstants
<1>3. ASSUME NEW v \in Values PROVE v \in Datums
  <2>1. CASE v \in [type : {"INT"}, value : -(WordLimit \div 2) .. WordLimit \div 2 - 1]
    BY <2>1 DEF Datums, Ints
  <2>2. CASE v.type = "TEXT" /\ v = [type |-> "TEXT", value |-> v.value] /\ v.value \in Seq(Bytes)
    <3>1. v \in Texts
      BY <2>2 DEF Texts
    <3>. QED BY <3>1 DEF Datums
  <2>. QED BY <2>1, <2>2, SessionConstants
<1>4. k \in Nat /\ values \in [1 .. k -> Datums]
  BY <1>1, <1>2, <1>3
<1>. QED BY <1>4, AsSequence

\* The column a name is resolved to.
LEMMA ColumnFound ==
    ASSUME NEW schema \in StoredSchemas, NEW table, table.schema = schema, NEW text, HasColumn(table, text)
    PROVE  Column(table, text) \in 1 .. Len(schema)
<1>1. schema \in Seq(StoredColumns)
  BY DEF StoredSchemas
<1>2. DOMAIN schema = 1 .. Len(schema) /\ Len(schema) \in Nat
  BY <1>1
<1>3. Columns(table, text) \subseteq 1 .. Len(schema)
  BY <1>2 DEF Columns
<1>4. Columns(table, text) # {}
  BY DEF HasColumn
<1>5. Columns(table, text) \subseteq Nat
  BY <1>2, <1>3
<1>6. \E n \in Columns(table, text) : \A m \in Columns(table, text) : n <= m
  BY <1>4, <1>5, LeastNatural
<1>7. Column(table, text) \in Columns(table, text)
  BY <1>6 DEF Column
<1>. QED BY <1>3, <1>7

Named(list) == {list[i].name : i \in DOMAIN list}

\* The members of a list have names of their own.
NamesDiffer(list) == \A i, j \in DOMAIN list : list[i].name = list[j].name => i = j

\* What a list adds to the catalog.
LEMMA LoadedTable ==
    ASSUME NEW list, NamesDiffer(list)
    PROVE  /\ DOMAIN LoadedTables(list) = Named(list)
           /\ LoadedTables(list) = [n \in Named(list) |-> LoadedTables(list)[n]]
           /\ \A i \in DOMAIN list :
                LoadedTables(list)[list[i].name] = [id |-> list[i].id, schema |-> list[i].schema]
<1>1. LoadedTables(list) = [n \in Named(list) |->
         LET table == list[CHOOSE i \in DOMAIN list : list[i].name = n]
         IN [id |-> table.id, schema |-> table.schema]]
  BY Zenon DEF LoadedTables, Named
<1>2. ASSUME NEW i \in DOMAIN list PROVE LoadedTables(list)[list[i].name] = [id |-> list[i].id, schema |-> list[i].schema]
  <2>. DEFINE n == list[i].name
              j == CHOOSE j \in DOMAIN list : list[j].name = n
  <2>1. j \in DOMAIN list /\ list[j].name = n
    OBVIOUS
  <2>2. j = i
    BY <2>1 DEF NamesDiffer
  <2>3. n \in Named(list)
    BY DEF Named
  <2>4. LoadedTables(list)[n] = [id |-> list[j].id, schema |-> list[j].schema]
    BY <1>1, <2>3
  <2>. HIDE DEF j
  <2>. QED BY <2>2, <2>4
<1>. QED BY <1>1, <1>2

\* What the in-memory side looks an index up by, as the stored list gives it.
LEMMA LoadedIndex ==
    ASSUME NEW list, NamesDiffer(list)
    PROVE  /\ DOMAIN LoadedIndexes(list) = Named(list)
           /\ LoadedIndexes(list) = [n \in Named(list) |-> LoadedIndexes(list)[n]]
           /\ \A i \in DOMAIN list :
                LoadedIndexes(list)[list[i].name] =
                    [id |-> list[i].id, table |-> list[i].table, column |-> list[i].column + 1]
<1>1. LoadedIndexes(list) = [n \in Named(list) |->
         LET index == list[CHOOSE i \in DOMAIN list : list[i].name = n]
         IN [id |-> index.id, table |-> index.table, column |-> index.column + 1]]
  BY Zenon DEF LoadedIndexes, Named
<1>2. ASSUME NEW i \in DOMAIN list
      PROVE  LoadedIndexes(list)[list[i].name] =
                 [id |-> list[i].id, table |-> list[i].table, column |-> list[i].column + 1]
  <2>. DEFINE n == list[i].name
              j == CHOOSE j \in DOMAIN list : list[j].name = n
  <2>1. j \in DOMAIN list /\ list[j].name = n
    OBVIOUS
  <2>2. j = i
    BY <2>1 DEF NamesDiffer
  <2>3. n \in Named(list)
    BY DEF Named
  <2>4. LoadedIndexes(list)[n] = [id |-> list[j].id, table |-> list[j].table, column |-> list[j].column + 1]
    BY <1>1, <2>3
  <2>. HIDE DEF j
  <2>. QED BY <2>2, <2>4
<1>. QED BY <1>1, <1>2

\* A list with one member more.
LEMMA ListGrown ==
    ASSUME NEW S, NEW list \in Seq(S), NEW e \in S, NamesDiffer(list), e.name \notin Named(list)
    PROVE  LET more == Append(list, e)
           IN /\ more \in Seq(S) /\ Len(more) = Len(list) + 1 /\ Len(list) \in Nat
              /\ DOMAIN list = 1 .. Len(list) /\ DOMAIN more = 1 .. Len(list) + 1
              /\ more[Len(list) + 1] = e /\ \A i \in 1 .. Len(list) : more[i] = list[i]
              /\ NamesDiffer(more) /\ Named(more) = {e.name} \cup Named(list)
<1>. DEFINE more == Append(list, e)
            L == Len(list)
<1>1. /\ more \in Seq(S) /\ Len(more) = L + 1 /\ L \in Nat
      /\ DOMAIN list = 1 .. L /\ DOMAIN more = 1 .. L + 1
      /\ more[L + 1] = e /\ \A i \in 1 .. L : more[i] = list[i]
  OBVIOUS
<1>. HIDE DEF more, L
<1>2. /\ \A i \in DOMAIN more : i = L + 1 \/ i \in DOMAIN list
      /\ L + 1 \in DOMAIN more /\ L + 1 \notin DOMAIN list
      /\ \A i \in DOMAIN list : i \in DOMAIN more /\ more[i] = list[i]
  BY <1>1
<1>3. NamesDiffer(more)
  <2>1. ASSUME NEW i \in DOMAIN more, NEW j \in DOMAIN more, more[i].name = more[j].name PROVE i = j
    BY <1>1, <1>2, <2>1, ZenonT(60) DEF NamesDiffer, Named
  <2>. QED BY <2>1, Zenon DEF NamesDiffer
<1>4. Named(more) = {e.name} \cup Named(list)
  <2>1. ASSUME NEW n PROVE n \in Named(more) <=> n = e.name \/ n \in Named(list)
    BY <1>1, <1>2, Zenon DEF Named
  <2>. QED BY <2>1
<1>. QED BY <1>1, <1>3, <1>4 DEF more, L

\* The catalog with one table more.
LEMMA TableAdded ==
    ASSUME NEW S, NEW list \in Seq(S), NEW e \in S, NamesDiffer(list), e.name \notin Named(list)
    PROVE  LoadedTables(Append(list, e)) = With(LoadedTables(list), e.name, [id |-> e.id, schema |-> e.schema])
<1>. DEFINE more == Append(list, e)
            a == LoadedTables(more)
            b == LoadedTables(list)
            v == [id |-> e.id, schema |-> e.schema]
            c == With(b, e.name, v)
<1>1. /\ DOMAIN list = 1 .. Len(list) /\ DOMAIN more = 1 .. Len(list) + 1 /\ Len(list) \in Nat
      /\ more[Len(list) + 1] = e /\ (\A i \in 1 .. Len(list) : more[i] = list[i])
      /\ NamesDiffer(more) /\ Named(more) = {e.name} \cup Named(list)
  BY ListGrown
<1>. HIDE DEF more
<1>2. /\ DOMAIN a = Named(more) /\ a = [n \in Named(more) |-> a[n]]
      /\ \A i \in DOMAIN more : a[more[i].name] = [id |-> more[i].id, schema |-> more[i].schema]
  BY <1>1, LoadedTable
<1>3. /\ DOMAIN b = Named(list)
      /\ \A i \in DOMAIN list : b[list[i].name] = [id |-> list[i].id, schema |-> list[i].schema]
  BY LoadedTable
<1>. HIDE DEF a, b
<1>4. c = [n \in {e.name} \cup Named(list) |-> IF n = e.name THEN v ELSE b[n]]
  <2>. HIDE DEF v
  <2>. QED BY <1>3, Zenon DEF With
<1>5. ASSUME NEW n \in Named(more) PROVE a[n] = IF n = e.name THEN v ELSE b[n]
  <2>1. CASE n = e.name
    <3>1. Len(list) + 1 \in DOMAIN more
      BY <1>1
    <3>2. a[e.name] = v
      BY <1>1, <1>2, <3>1, Zenon
    <3>. HIDE DEF v
    <3>. QED BY <2>1, <3>2
  <2>2. CASE n # e.name
    <3>1. n \in Named(list)
      BY <1>1, <2>2
    <3>2. PICK i \in DOMAIN list : n = list[i].name
      BY <3>1 DEF Named
    <3>3. i \in DOMAIN more /\ more[i] = list[i]
      BY <1>1, <3>2
    <3>4. a[n] = [id |-> list[i].id, schema |-> list[i].schema]
      BY <1>2, <3>2, <3>3
    <3>5. b[n] = [id |-> list[i].id, schema |-> list[i].schema]
      BY <1>3, <3>2
    <3>6. a[n] = b[n]
      BY <3>4, <3>5, Zenon
    <3>. HIDE DEF v
    <3>. QED BY <2>2, <3>6
  <2>. QED BY <2>1, <2>2
<1>. HIDE DEF c, v
<1>6. a = c
  <2>1. c = [n \in Named(more) |-> IF n = e.name THEN v ELSE b[n]]
    BY <1>1, <1>4
  <2>. QED BY <1>2, <1>5, <2>1
<1>. QED BY <1>6 DEF a, b, c, v, more

\* An entry added to the stored list is an index added to the looked-up ones.
LEMMA IndexAdded ==
    ASSUME NEW S, NEW list \in Seq(S), NEW e \in S, NamesDiffer(list), e.name \notin Named(list)
    PROVE  LoadedIndexes(Append(list, e)) =
               With(LoadedIndexes(list), e.name, [id |-> e.id, table |-> e.table, column |-> e.column + 1])
<1>. DEFINE more == Append(list, e)
            a == LoadedIndexes(more)
            b == LoadedIndexes(list)
            v == [id |-> e.id, table |-> e.table, column |-> e.column + 1]
            c == With(b, e.name, v)
<1>1. /\ DOMAIN list = 1 .. Len(list) /\ DOMAIN more = 1 .. Len(list) + 1 /\ Len(list) \in Nat
      /\ more[Len(list) + 1] = e /\ (\A i \in 1 .. Len(list) : more[i] = list[i])
      /\ NamesDiffer(more) /\ Named(more) = {e.name} \cup Named(list)
  BY ListGrown
<1>. HIDE DEF more
<1>2. /\ DOMAIN a = Named(more) /\ a = [n \in Named(more) |-> a[n]]
      /\ \A i \in DOMAIN more : a[more[i].name] = [id |-> more[i].id, table |-> more[i].table, column |-> more[i].column + 1]
  BY <1>1, LoadedIndex
<1>3. /\ DOMAIN b = Named(list)
      /\ \A i \in DOMAIN list : b[list[i].name] = [id |-> list[i].id, table |-> list[i].table, column |-> list[i].column + 1]
  BY LoadedIndex
<1>. HIDE DEF a, b
<1>4. c = [n \in {e.name} \cup Named(list) |-> IF n = e.name THEN v ELSE b[n]]
  <2>. HIDE DEF v
  <2>. QED BY <1>3, Zenon DEF With
<1>5. ASSUME NEW n \in Named(more) PROVE a[n] = IF n = e.name THEN v ELSE b[n]
  <2>1. CASE n = e.name
    <3>1. Len(list) + 1 \in DOMAIN more
      BY <1>1
    <3>2. a[e.name] = v
      BY <1>1, <1>2, <3>1, Zenon
    <3>. HIDE DEF v
    <3>. QED BY <2>1, <3>2
  <2>2. CASE n # e.name
    <3>1. n \in Named(list)
      BY <1>1, <2>2
    <3>2. PICK i \in DOMAIN list : n = list[i].name
      BY <3>1 DEF Named
    <3>3. i \in DOMAIN more /\ more[i] = list[i]
      BY <1>1, <3>2
    <3>4. a[n] = [id |-> list[i].id, table |-> list[i].table, column |-> list[i].column + 1]
      BY <1>2, <3>2, <3>3
    <3>5. b[n] = [id |-> list[i].id, table |-> list[i].table, column |-> list[i].column + 1]
      BY <1>3, <3>2
    <3>6. a[n] = b[n]
      BY <3>4, <3>5, Zenon
    <3>. HIDE DEF v
    <3>. QED BY <2>2, <3>6
  <2>. QED BY <2>1, <2>2
<1>. HIDE DEF c, v
<1>6. a = c
  <2>1. c = [n \in Named(more) |-> IF n = e.name THEN v ELSE b[n]]
    BY <1>1, <1>4
  <2>. QED BY <1>2, <1>5, <2>1
<1>. QED BY <1>6 DEF a, b, c, v, more

\* The next id is past the ids of the list.
LEMMA NextIdOf ==
    ASSUME NEW list, NEW n \in Nat, \A i \in DOMAIN list : list[i].id \in 0 .. n
    PROVE  NextId(list) \in 1 .. n + 1 /\ \A i \in DOMAIN list : list[i].id < NextId(list)
<1>. DEFINE ids == {0} \cup {list[i].id : i \in DOMAIN list}
<1>. DEFINE top == CHOOSE id \in ids : \A other \in ids : other <= id
<1>7. NextId(list) = 1 + top
  BY DEF NextId
<1>. HIDE DEF top
<1>1. ids \subseteq 0 .. n /\ 0 \in ids
  OBVIOUS
<1>. HIDE DEF ids
<1>. DEFINE gaps == {n - id : id \in ids}
<1>2. gaps \subseteq Nat /\ gaps # {}
  <2>1. ASSUME NEW id \in ids PROVE n - id \in Nat
    <3>1. id \in 0 .. n
      BY <1>1
    <3>. QED BY <3>1
  <2>2. n - 0 \in gaps
    BY <1>1
  <2>. QED BY <2>1, <2>2
<1>3. PICK g \in gaps : \A h \in gaps : g <= h
  <2>. HIDE DEF gaps
  <2>. QED BY <1>2, LeastNatural
<1>4. PICK low \in ids : g = n - low
  OBVIOUS
<1>5. \A other \in ids : other <= low
  <2>. SUFFICES ASSUME NEW other \in ids PROVE other <= low
    OBVIOUS
  <2>1. n - low <= n - other
    BY <1>3, <1>4
  <2>. QED BY <1>1, <2>1
<1>6. top \in ids /\ \A other \in ids : other <= top
  <2>1. \E id \in ids : \A other \in ids : other <= id
    BY <1>4, <1>5
  <2>. QED BY <2>1, Zenon DEF top
<1>8. top \in 0 .. n
  BY <1>1, <1>6
<1>9. 1 + top \in 1 .. n + 1
  <2>. DEFINE v == top
  <2>1. v \in 0 .. n
    BY <1>8
  <2>. HIDE DEF v
  <2>2. 1 + v \in 1 .. n + 1
    BY <2>1
  <2>. QED BY <2>2 DEF v
<1>10. ASSUME NEW i \in DOMAIN list PROVE list[i].id < 1 + top
  <2>. DEFINE v == top
              id == list[i].id
  <2>1. id \in ids
    BY DEF ids
  <2>2. id <= v /\ v \in 0 .. n /\ id \in 0 .. n
    BY <1>1, <1>6, <1>8, <2>1
  <2>. HIDE DEF v, id
  <2>3. id < 1 + v
    BY <2>2
  <2>. QED BY <2>3 DEF v, id
<1>. QED BY <1>7, <1>9, <1>10, Zenon

\* Numbered from one, the next id is the number of the next.
LEMMA NextIdNumbered ==
    ASSUME NEW S, NEW list \in Seq(S), \A i \in DOMAIN list : list[i].id = i
    PROVE  NextId(list) = Len(list) + 1
<1>. DEFINE ids == {0} \cup {list[i].id : i \in DOMAIN list}
            L == Len(list)
<1>1. L \in Nat /\ DOMAIN list = 1 .. L
  OBVIOUS
<1>2. ids = 0 .. L
  <2>1. {list[i].id : i \in DOMAIN list} = 1 .. L
    BY <1>1
  <2>. HIDE DEF L
  <2>. QED BY <1>1, <2>1
<1>. DEFINE top == CHOOSE id_1 \in ids : \A other \in ids : other <= id_1
<1>3. NextId(list) = 1 + top
  BY DEF NextId
<1>. HIDE DEF ids, L
<1>4. L \in ids /\ \A other \in ids : other <= L
  BY <1>1, <1>2
<1>5. top \in ids /\ \A other \in ids : other <= top
  BY <1>4
<1>. HIDE DEF top
<1>6. top = L
  BY <1>1, <1>2, <1>4, <1>5
<1>. QED BY <1>1, <1>3, <1>6 DEF L

-----------------------------------------------------------------------------
(***************************************************************************)
(* The invariant: the tables and the indexes of the databases are those of *)
(* two lists, the files hold the encoded lists and rows, and while the two *)
(* databases agree they have the same rows.                                *)
(***************************************************************************)
Ids(list) == {list[i].id : i \in DOMAIN list}

\* No id is given twice; the columns of the table with an id.
IdsDiffer(list) == \A i, j \in DOMAIN list : list[i].id = list[j].id => i = j
SchemaOf(list, t) == list[CHOOSE i \in DOMAIN list : list[i].id = t].schema

Listed(list) == list \in Seq(StoredTables) /\ NamesDiffer(list) /\ IdsDiffer(list)

\* The next id is past those that were given.
Numbered(list, next) == next \in 1 .. MaxTableId + 1 /\ \A t \in Ids(list) : t < next

Placed(list, table, column) == table \in Ids(list) /\ column \in 1 .. Len(SchemaOf(list, table))

Indexed(list, indexes) ==
    /\ indexes \in Seq(StoredIndexes) /\ NamesDiffer(indexes)
    /\ \A i \in DOMAIN indexes :
         indexes[i].id <= MaxIndexId /\ Placed(list, indexes[i].table, indexes[i].column + 1)

\* A database has the fields of EmptyDatabase.
DatabaseParts == {"tables", "nextTable", "indexes", "nextIndex", "rows", "catalogFile", "indexFile",
                  "blankHeaps", "blankCatalog", "blankIndexCatalog"}
Shaped(db) == db = [part \in DatabaseParts |-> db[part]]

\* A row of a table, the record of one, and the rows of records.
Fits(schema, row) ==
    /\ row \in Seq(Datums) /\ Len(row) = Len(schema)
    /\ \A i \in DOMAIN schema : row[i].type = schema[i].type

Stored(schema, record) ==
    \E row \in Seq(Datums) : Encodable(schema, row) /\ record = EncodeRecord(schema, row)

Decoded(schema, records) == [r \in DOMAIN records |-> DecodeRecord(schema, records[r]).tuple]

\* The rows of table t on files.
RowsOf(list, d, t) == Decoded(SchemaOf(list, t), d.rows[t])

InMemory(list, m) ==
    /\ Shaped(m) /\ m.tables = LoadedTables(list) /\ Numbered(list, m.nextTable)
    /\ m.rows \in [Ids(list) -> Seq(Seq(Datums))]
    /\ \A t \in Ids(list) : \A i \in DOMAIN m.rows[t] : Fits(SchemaOf(list, t), m.rows[t][i])
    /\ \A n \in DOMAIN m.indexes : Placed(list, m.indexes[n].table, m.indexes[n].column)

OnFiles(list, indexes, d) ==
    /\ Shaped(d) /\ d.tables = LoadedTables(list) /\ d.indexes = LoadedIndexes(indexes)
    /\ Numbered(list, d.nextTable) /\ d.nextIndex \in 1 .. MaxIndexId + 1
    /\ d.catalogFile = [i \in DOMAIN list |-> EncodeCatalogRecord(list[i])]
    /\ d.indexFile = [i \in DOMAIN indexes |-> EncodeIndexRecord(indexes[i])]
    /\ d.rows \in [Ids(list) -> Seq(Seq(Bytes))]
    /\ \A t \in Ids(list) : \A i \in DOMAIN d.rows[t] : Stored(SchemaOf(list, t), d.rows[t][i])
    /\ \A i \in DOMAIN indexes : ~HasDuplicates(RowsOf(list, d, indexes[i].table), indexes[i].column + 1)

\* Every page of its files has the layout of a page.
Whole(d) == d.blankHeaps = {} /\ ~d.blankCatalog /\ ~d.blankIndexCatalog

Alike(list, indexes, m, d) ==
    /\ m.nextTable = d.nextTable /\ d.nextTable = Len(list) + 1
    /\ \A i \in DOMAIN list : list[i].id = i
    /\ m.indexes = d.indexes /\ m.nextIndex = d.nextIndex /\ d.nextIndex = Len(indexes) + 1
    /\ \A i \in DOMAIN indexes : indexes[i].id = i
    /\ Whole(d)
    /\ \A t \in Ids(list) : SameListing(RowsOf(list, d, t), m.rows[t])

KnownInMemory(m) == \E list : Listed(list) /\ InMemory(list, m)
KnownOnFiles(d) == \E list, indexes : Listed(list) /\ Indexed(list, indexes) /\ OnFiles(list, indexes, d)
KnownAlike(m, d) ==
    \E list, indexes :
        /\ Listed(list) /\ Indexed(list, indexes) /\ InMemory(list, m) /\ OnFiles(list, indexes, d)
        /\ Alike(list, indexes, m, d)

Consistent(m, d, ag) ==
    /\ ag \in BOOLEAN /\ (ag <=> Storable(m))
    /\ KnownInMemory(m) /\ KnownOnFiles(d)
    /\ ag => KnownAlike(m, d)

\* The table with an id.
LEMMA SchemaFound ==
    ASSUME NEW list, IdsDiffer(list), NEW i \in DOMAIN list
    PROVE  list[i].id \in Ids(list) /\ SchemaOf(list, list[i].id) = list[i].schema
<1>1. list[i].id \in Ids(list)
  BY DEF Ids
<1>. DEFINE j == CHOOSE j \in DOMAIN list : list[j].id = list[i].id
<1>2. j \in DOMAIN list /\ list[j].id = list[i].id
  OBVIOUS
<1>3. SchemaOf(list, list[i].id) = list[j].schema
  BY DEF SchemaOf
<1>. HIDE DEF j
<1>4. j = i
  BY <1>2 DEF IdsDiffer
<1>. QED BY <1>1, <1>3, <1>4

\* What a list of tables holds.
LEMMA OfList ==
    ASSUME NEW list, Listed(list)
    PROVE  /\ Len(list) \in Nat /\ DOMAIN list = 1 .. Len(list)
           /\ \A i \in DOMAIN list : /\ list[i] \in StoredTables /\ list[i].id \in Ids(list)
                                     /\ SchemaOf(list, list[i].id) = list[i].schema
           /\ \A t \in Ids(list) : /\ t \in 1 .. InvalidId - 1 /\ \E i \in DOMAIN list : list[i].id = t
                                   /\ SchemaOf(list, t) \in StoredSchemas
                                   /\ SchemaOf(list, t) \in Seq(StoredColumns) /\ Len(SchemaOf(list, t)) \in Nat
                                   /\ DOMAIN SchemaOf(list, t) = 1 .. Len(SchemaOf(list, t))
           /\ DOMAIN LoadedTables(list) = Named(list)
           /\ \A i \in DOMAIN list :
                LoadedTables(list)[list[i].name] = [id |-> list[i].id, schema |-> SchemaOf(list, list[i].id)]
<1>1. list \in Seq(StoredTables) /\ NamesDiffer(list) /\ IdsDiffer(list)
  BY DEF Listed
<1>2. Len(list) \in Nat /\ DOMAIN list = 1 .. Len(list) /\ \A i \in DOMAIN list : list[i] \in StoredTables
  BY <1>1
<1>3. \A i \in DOMAIN list : list[i].id \in Ids(list) /\ SchemaOf(list, list[i].id) = list[i].schema
  BY <1>1, SchemaFound
<1>4. ASSUME NEW t \in Ids(list)
      PROVE  /\ t \in 1 .. InvalidId - 1 /\ \E i \in DOMAIN list : list[i].id = t
             /\ SchemaOf(list, t) \in StoredSchemas /\ SchemaOf(list, t) \in Seq(StoredColumns)
             /\ Len(SchemaOf(list, t)) \in Nat /\ DOMAIN SchemaOf(list, t) = 1 .. Len(SchemaOf(list, t))
  <2>1. PICK i \in DOMAIN list : list[i].id = t
    BY DEF Ids
  <2>2. SchemaOf(list, t) = list[i].schema
    BY <1>3, <2>1
  <2>3. list[i].schema \in StoredSchemas /\ list[i].id \in 1 .. InvalidId - 1
    BY <1>2 DEF StoredTables
  <2>4. list[i].schema \in Seq(StoredColumns)
    BY <2>3 DEF StoredSchemas
  <2>. QED BY <2>1, <2>2, <2>3, <2>4
<1>5. DOMAIN LoadedTables(list) = Named(list)
  BY <1>1, LoadedTable
<1>6. ASSUME NEW i \in DOMAIN list
      PROVE  LoadedTables(list)[list[i].name] = [id |-> list[i].id, schema |-> SchemaOf(list, list[i].id)]
  <2>1. LoadedTables(list)[list[i].name] = [id |-> list[i].id, schema |-> list[i].schema]
    BY <1>1, LoadedTable
  <2>. QED BY <1>3, <2>1
<1>. QED BY <1>2, <1>3, <1>4, <1>5, <1>6

\* The table a name is resolved to.
LEMMA TableFound ==
    ASSUME NEW list, Listed(list), NEW db, db.tables = LoadedTables(list), NEW text, HasTable(db, text)
    PROVE  \E t \in Ids(list) : Table(db, text) = [id |-> t, schema |-> SchemaOf(list, t)]
<1>1. NormalizeIdentifier(text) \in Named(list)
  BY OfList DEF HasTable
<1>2. PICK i \in DOMAIN list : NormalizeIdentifier(text) = list[i].name
  BY <1>1 DEF Named
<1>3. /\ LoadedTables(list)[list[i].name] = [id |-> list[i].id, schema |-> SchemaOf(list, list[i].id)]
      /\ list[i].id \in Ids(list)
  BY OfList
<1>. QED BY <1>2, <1>3 DEF Table

\* The rows of records are rows of the table, as they were encoded.
LEMMA DecodedRows ==
    ASSUME NEW schema \in StoredSchemas, NEW records \in Seq(Seq(Bytes)),
           \A i \in DOMAIN records : Stored(schema, records[i])
    PROVE  /\ Decoded(schema, records) \in Seq(Seq(Datums))
           /\ Len(Decoded(schema, records)) = Len(records)
           /\ DOMAIN Decoded(schema, records) = DOMAIN records
           /\ \A i \in DOMAIN records :
                LET row == Decoded(schema, records)[i]
                IN row \in Seq(Datums) /\ Encodable(schema, row) /\ Fits(schema, row) /\ records[i] = EncodeRecord(schema, row)
<1>. DEFINE rows == Decoded(schema, records)
<1>1. Len(records) \in Nat /\ DOMAIN records = 1 .. Len(records)
  OBVIOUS
<1>2. ASSUME NEW i \in DOMAIN records
      PROVE  /\ rows[i] \in Seq(Datums) /\ Encodable(schema, rows[i]) /\ Fits(schema, rows[i])
             /\ records[i] = EncodeRecord(schema, rows[i])
  <2>1. PICK row \in Seq(Datums) : Encodable(schema, row) /\ records[i] = EncodeRecord(schema, row)
    BY DEF Stored
  <2>2. DecodeRecord(schema, records[i]) = [ok |-> TRUE, tuple |-> row]
    BY <2>1, RowRecordsDelimited
  <2>3. rows[i] = row
    BY <2>2 DEF Decoded
  <2>4. Fits(schema, row)
    BY <2>1 DEF Fits, Encodable
  <2>. HIDE DEF rows
  <2>. QED BY <2>1, <2>3, <2>4
<1>3. rows \in [1 .. Len(records) -> Seq(Datums)]
  <2>1. rows = [r \in 1 .. Len(records) |-> rows[r]]
    BY <1>1 DEF Decoded
  <2>. HIDE DEF rows
  <2>. QED BY <1>1, <1>2, <2>1
<1>. HIDE DEF rows
<1>4. rows \in Seq(Seq(Datums)) /\ Len(rows) = Len(records) /\ DOMAIN rows = 1 .. Len(records)
  BY <1>1, <1>3, AsSequence
<1>. QED BY <1>1, <1>2, <1>4 DEF rows

\* The rows on files, of every table.
LEMMA RowsOfFiles ==
    ASSUME NEW list, NEW indexes, NEW d, Listed(list), OnFiles(list, indexes, d), NEW t \in Ids(list)
    PROVE  /\ d.rows[t] \in Seq(Seq(Bytes))
           /\ RowsOf(list, d, t) \in Seq(Seq(Datums))
           /\ Len(RowsOf(list, d, t)) = Len(d.rows[t])
           /\ DOMAIN RowsOf(list, d, t) = DOMAIN d.rows[t]
           /\ \A i \in DOMAIN d.rows[t] :
                LET row == RowsOf(list, d, t)[i]
                IN row \in Seq(Datums) /\ Encodable(SchemaOf(list, t), row) /\ Fits(SchemaOf(list, t), row)
                   /\ d.rows[t][i] = EncodeRecord(SchemaOf(list, t), row)
<1>1. d.rows[t] \in Seq(Seq(Bytes)) /\ \A i \in DOMAIN d.rows[t] : Stored(SchemaOf(list, t), d.rows[t][i])
  BY DEF OnFiles
<1>2. SchemaOf(list, t) \in StoredSchemas
  BY OfList
<1>. QED BY <1>1, <1>2, DecodedRows, Zenon DEF RowsOf

\* A scan answers the rows of the table.
LEMMA ScanOfFiles ==
    ASSUME NEW list, NEW db, NEW t \in Ids(list), NEW table, table = [id |-> t, schema |-> SchemaOf(list, t)]
    PROVE  Scan(db, TRUE, table) = RowsOf(list, db, t)
<1>1. table.id = t /\ table.schema = SchemaOf(list, t)
  OBVIOUS
<1>. QED BY <1>1, Zenon DEF Scan, RowsOf, Decoded

\* The in-memory database scans the rows it holds.
LEMMA ScanInMemory ==
    ASSUME NEW db, NEW t, NEW table, table.id = t, NEW S, db.rows[t] \in Seq(S)
    PROVE  Scan(db, FALSE, table) = db.rows[t]
<1>. DEFINE r == db.rows[t]
<1>1. Scan(db, FALSE, table) = [i \in DOMAIN r |-> r[i]]
  BY Zenon DEF Scan
<1>. HIDE DEF r
<1>2. r \in Seq(S)
  BY DEF r
<1>3. DOMAIN r = 1 .. Len(r) /\ Len(r) \in Nat
  BY <1>2
<1>4. r = [i \in 1 .. Len(r) |-> r[i]]
  BY <1>2
<1>. QED BY <1>1, <1>3, <1>4, Zenon DEF r

\* A function with one value more, or another one.
LEMMA WithDomain ==
    ASSUME NEW f, NEW k, NEW e
    PROVE  DOMAIN With(f, k, e) = {k} \cup DOMAIN f
BY DEF With

\* The value that With gives.
LEMMA WithValue ==
    ASSUME NEW f, NEW k, NEW e
    PROVE  With(f, k, e)[k] = e
BY DEF With

\* The values that With leaves.
LEMMA WithOthers ==
    ASSUME NEW f, NEW k, NEW e, NEW t \in DOMAIN f, t # k
    PROVE  With(f, k, e)[t] = f[t]
BY DEF With

-----------------------------------------------------------------------------
(***************************************************************************)
(* CREATE TABLE                                                            *)
(***************************************************************************)
\* What a statement means depends on the tables alone.
LEMMA BindsAlike ==
    ASSUME NEW a, NEW b, a.tables = b.tables, NEW s
    PROVE  /\ Binds(a, s) <=> Binds(b, s)
           /\ \A text : (HasTable(a, text) <=> HasTable(b, text)) /\ Table(a, text) = Table(b, text)
<1>1. \A text : (HasTable(a, text) <=> HasTable(b, text)) /\ Table(a, text) = Table(b, text)
  BY DEF HasTable, Table
<1>2. (HasTable(a, s.table) <=> HasTable(b, s.table)) /\ Table(a, s.table) = Table(b, s.table)
  BY <1>1
<1>3. Binds(a, s) <=> Binds(b, s)
  BY <1>2 DEF Binds
<1>. QED BY <1>1, <1>3

\* Mapping a list that has one member more.
LEMMA MappedGrown ==
    ASSUME NEW L \in Nat, NEW g, DOMAIN g = 1 .. L + 1
    PROVE  Append([i \in 1 .. L |-> g[i]], g[L + 1]) = [i \in 1 .. L + 1 |-> g[i]]
<1>. DEFINE S == {g[i] : i \in 1 .. L + 1}
            h == [i \in 1 .. L + 1 |-> g[i]]
<1>1. h \in [1 .. L + 1 -> S] /\ L + 1 \in Nat
  OBVIOUS
<1>. HIDE DEF S, h
<1>2. h \in Seq(S) /\ Len(h) = L + 1
  BY <1>1, AsSequence
<1>3. Firsts(h, L + 1) = Append(Firsts(h, L), h[L + 1])
  BY <1>2, FirstsNext
<1>4. h[L + 1] = g[L + 1] /\ Firsts(h, L) = [i \in 1 .. L |-> g[i]] /\ Firsts(h, L + 1) = h
  BY DEF Firsts, h
<1>. QED BY <1>3, <1>4 DEF h

NewTable(id, name, columns) ==
    [id |-> id, name |-> NormalizeIdentifier(name), schema |-> NormalSchema(columns)]

\* What one list has is in the longer one.
Extends(more, list) ==
    \A t \in Ids(list) : t \in Ids(more) /\ SchemaOf(more, t) = SchemaOf(list, t)

\* A column stays where it is when tables are added.
LEMMA StillPlaced ==
    ASSUME NEW list, NEW more, Extends(more, list), NEW table, NEW column, Placed(list, table, column)
    PROVE  Placed(more, table, column)
BY Zenon DEF Placed, Extends

\* The catalog has the table from then on.
LEMMA TableListed ==
    ASSUME NEW list, Listed(list), NEW id, Numbered(list, id), id <= MaxTableId, NEW name \in Identifiers,
           NEW columns \in SeqsUpTo(ColumnDefinitions, MaxColumns), NormalizeIdentifier(name) \notin Named(list)
    PROVE  LET table == NewTable(id, name, columns)
               more == Append(list, table)
           IN /\ table \in StoredTables /\ Listed(more) /\ Len(list) \in Nat
              /\ DOMAIN list = 1 .. Len(list) /\ DOMAIN more = 1 .. Len(list) + 1
              /\ more[Len(list) + 1] = table /\ (\A i \in 1 .. Len(list) : more[i] = list[i])
              /\ id \notin Ids(list) /\ Ids(more) = {id} \cup Ids(list)
              /\ SchemaOf(more, id) = table.schema /\ Extends(more, list)
              /\ Numbered(list, id + 1) /\ Numbered(more, id + 1)
              /\ LoadedTables(more) = With(LoadedTables(list), table.name, [id |-> table.id, schema |-> table.schema])
<1>. DEFINE table == NewTable(id, name, columns)
            more == Append(list, table)
            L == Len(list)
<1>1. list \in Seq(StoredTables) /\ NamesDiffer(list) /\ L \in Nat /\ DOMAIN list = 1 .. L /\ IdsDiffer(list)
  BY DEF Listed
<1>2. MaxTableId \in 1 .. InvalidId - 1 /\ InvalidId \in Int
  BY IdAssumption, Widths
<1>3. id \in 1 .. InvalidId - 1 /\ id \in 1 .. MaxTableId + 1 /\ \A t \in Ids(list) : t < id
  BY <1>2 DEF Numbered
<1>4. table \in StoredTables
  <2>1. NormalizeIdentifier(name) \in StoredNames /\ NormalSchema(columns) \in StoredSchemas
    BY NormalNames, NormalSchemas
  <2>. QED BY <1>3, <2>1 DEF StoredTables, NewTable
<1>5. table.name \notin Named(list) /\ table.id = id
  BY DEF NewTable
<1>. HIDE DEF table
<1>6. /\ more \in Seq(StoredTables) /\ Len(more) = L + 1 /\ DOMAIN more = 1 .. L + 1
      /\ more[L + 1] = table /\ (\A i \in 1 .. L : more[i] = list[i])
      /\ NamesDiffer(more)
  BY <1>1, <1>4, <1>5, ListGrown
<1>7. LoadedTables(more) = With(LoadedTables(list), table.name, [id |-> table.id, schema |-> table.schema])
  BY <1>1, <1>4, <1>5, TableAdded
<1>. HIDE DEF more
<1>8. \A i \in DOMAIN more : i = L + 1 \/ i \in 1 .. L
  BY <1>1, <1>6
<1>9. id \notin Ids(list) /\ \A t \in Ids(list) : t \in Nat
  <2>1. \A t \in Ids(list) : t \in 1 .. InvalidId - 1
    <3>1. Listed(list)
      OBVIOUS
    <3>. QED BY <3>1, OfList
  <2>. QED BY <1>2, <1>3, <2>1
<1>. HIDE DEF L
<1>10. Ids(more) = {id} \cup Ids(list)
  <2>1. \A i \in DOMAIN more : more[i].id = id \/ more[i].id \in Ids(list)
    BY <1>1, <1>5, <1>6, <1>8 DEF Ids
  <2>2. L + 1 \in DOMAIN more /\ more[L + 1].id = id
    BY <1>1, <1>5, <1>6
  <2>3. \A i \in DOMAIN list : i \in DOMAIN more /\ more[i].id = list[i].id
    BY <1>1, <1>6
  <2>. QED BY <2>1, <2>2, <2>3 DEF Ids
<1>11. IdsDiffer(more)
  <2>. SUFFICES ASSUME NEW i \in DOMAIN more, NEW j \in DOMAIN more, more[i].id = more[j].id PROVE i = j
    BY DEF IdsDiffer
  <2>1. \A k \in 1 .. L : more[k].id \in Ids(list) /\ more[k].id = list[k].id /\ k \in DOMAIN list
    BY <1>1, <1>6 DEF Ids
  <2>2. more[L + 1].id = id
    BY <1>5, <1>6
  <2>3. CASE i = L + 1 \/ j = L + 1
    BY <1>8, <1>9, <2>1, <2>2, <2>3
  <2>4. CASE i \in 1 .. L /\ j \in 1 .. L
    <3>1. list[i].id = list[j].id /\ i \in DOMAIN list /\ j \in DOMAIN list
      BY <2>1, <2>4
    <3>. QED BY <1>1, <3>1 DEF IdsDiffer
  <2>. QED BY <1>8, <2>3, <2>4
<1>12. Listed(more)
  BY <1>6, <1>11 DEF Listed
<1>13. SchemaOf(more, id) = table.schema
  <2>1. L + 1 \in DOMAIN more
    BY <1>1, <1>6
  <2>2. SchemaOf(more, more[L + 1].id) = more[L + 1].schema
    BY <1>11, <2>1, SchemaFound
  <2>. QED BY <1>5, <1>6, <2>2
<1>14. Extends(more, list)
  <2>. SUFFICES ASSUME NEW t \in Ids(list) PROVE t \in Ids(more) /\ SchemaOf(more, t) = SchemaOf(list, t)
    BY DEF Extends
  <2>1. PICK i \in DOMAIN list : list[i].id = t
    BY DEF Ids
  <2>2. i \in DOMAIN more /\ more[i] = list[i]
    BY <1>1, <1>6
  <2>3. SchemaOf(more, more[i].id) = more[i].schema
    BY <1>11, <2>2, SchemaFound
  <2>4. SchemaOf(list, list[i].id) = list[i].schema
    BY <1>1, SchemaFound
  <2>. QED BY <1>10, <2>1, <2>2, <2>3, <2>4
<1>15. Numbered(list, id + 1) /\ Numbered(more, id + 1)
  <2>1. id + 1 \in 1 .. MaxTableId + 1
    BY <1>2, <1>3
  <2>2. \A t \in Ids(list) : t < id + 1
    BY <1>3, <1>9
  <2>3. \A t \in {id} \cup Ids(list) : t < id + 1
    BY <1>3, <2>2
  <2>. QED BY <1>10, <2>1, <2>2, <2>3 DEF Numbered
<1>. QED BY <1>1, <1>4, <1>6, <1>7, <1>9, <1>10, <1>12, <1>13, <1>14, <1>15 DEF table, more, L

\* The record of the table called name.
TableRecord(name, table) == EncodeCatalogRecord([id |-> table.id, name |-> name, schema |-> table.schema])

\* The database with a table that has no rows.
Created(a, m, name, table) ==
    /\ Shaped(a) /\ a.tables = With(m.tables, name, table) /\ a.nextTable = m.nextTable + 1
    /\ a.rows = With(m.rows, table.id, <<>>)
    /\ a.indexes = m.indexes /\ a.nextIndex = m.nextIndex /\ a.indexFile = m.indexFile
    /\ (Whole(m) => Whole(a))

\* The database with a table that was taken back.
TakenBack(a, m) ==
    /\ Shaped(a) /\ a.tables = m.tables /\ a.nextTable = m.nextTable + 1 /\ a.rows = m.rows
    /\ a.indexes = m.indexes /\ a.nextIndex = m.nextIndex /\ a.indexFile = m.indexFile
    /\ a.catalogFile = m.catalogFile

\* It can be stored if the old one can, and its record fits a page.
LEMMA TableStorable ==
    ASSUME NEW m, NEW a, NEW name, name \notin DOMAIN m.tables, NEW table, table.id \notin DOMAIN m.rows,
           Created(a, m, name, table),
           \A n \in DOMAIN m.tables : m.tables[n].id \in DOMAIN m.rows,
           \A n \in DOMAIN m.indexes : m.indexes[n].table \in DOMAIN m.rows
    PROVE  Storable(a) <=> Storable(m) /\ FitsPage(TableRecord(name, table))
<1>1. /\ DOMAIN a.tables = {name} \cup DOMAIN m.tables /\ a.tables[name] = table
      /\ \A n \in DOMAIN m.tables : a.tables[n] = m.tables[n] /\ a.tables[n].id # table.id
  <2>1. a.tables = With(m.tables, name, table)
    BY DEF Created
  <2>. QED BY <2>1 DEF With
<1>2. /\ a.rows[table.id] = <<>> /\ \A t \in DOMAIN m.rows : a.rows[t] = m.rows[t]
  <2>1. a.rows = With(m.rows, table.id, <<>>)
    BY DEF Created
  <2>. QED BY <2>1 DEF With
<1>3. a.indexes = m.indexes
  BY DEF Created
<1>4. UniqueKeys(a) <=> UniqueKeys(m)
  <2>1. \A n \in DOMAIN m.indexes : a.rows[m.indexes[n].table] = m.rows[m.indexes[n].table]
    BY <1>2
  <2>. QED BY <1>3, <2>1, Zenon DEF UniqueKeys
<1>5. StorableTable(name, table, a.rows[table.id]) <=> FitsPage(TableRecord(name, table))
  <2>1. DOMAIN a.rows[table.id] = {}
    BY <1>2
  <2>. QED BY <2>1, Zenon DEF StorableTable, TableRecord
<1>6. \A n \in DOMAIN m.tables : a.rows[a.tables[n].id] = m.rows[m.tables[n].id]
  BY <1>1, <1>2
<1>7. (\A n \in DOMAIN a.tables : StorableTable(n, a.tables[n], a.rows[a.tables[n].id]))
      <=> /\ \A n \in DOMAIN m.tables : StorableTable(n, m.tables[n], m.rows[m.tables[n].id])
          /\ FitsPage(TableRecord(name, table))
  <2>1. ASSUME \A n \in DOMAIN a.tables : StorableTable(n, a.tables[n], a.rows[a.tables[n].id])
        PROVE  /\ \A n \in DOMAIN m.tables : StorableTable(n, m.tables[n], m.rows[m.tables[n].id])
               /\ FitsPage(TableRecord(name, table))
    <3>1. ASSUME NEW n \in DOMAIN m.tables PROVE StorableTable(n, m.tables[n], m.rows[m.tables[n].id])
      <4>1. StorableTable(n, a.tables[n], a.rows[a.tables[n].id])
        BY <1>1, <2>1, Zenon
      <4>2. a.tables[n] = m.tables[n] /\ a.rows[a.tables[n].id] = m.rows[m.tables[n].id]
        BY <1>1, <1>6
      <4>. QED BY <4>1, <4>2, Zenon
    <3>2. StorableTable(name, table, a.rows[table.id])
      <4>1. name \in DOMAIN a.tables
        BY <1>1
      <4>. QED BY <1>1, <2>1, <4>1, Zenon
    <3>. QED BY <1>5, <3>1, <3>2, Zenon
  <2>2. ASSUME \A n \in DOMAIN m.tables : StorableTable(n, m.tables[n], m.rows[m.tables[n].id]),
               FitsPage(TableRecord(name, table))
        PROVE  \A n \in DOMAIN a.tables : StorableTable(n, a.tables[n], a.rows[a.tables[n].id])
    <3>. TAKE n \in DOMAIN a.tables
    <3>1. CASE n = name
      BY <1>1, <1>5, <2>2, <3>1, Zenon
    <3>2. CASE n \in DOMAIN m.tables
      <4>1. a.tables[n] = m.tables[n] /\ a.rows[a.tables[n].id] = m.rows[m.tables[n].id]
        BY <1>1, <1>6, <3>2
      <4>. QED BY <2>2, <3>2, <4>1, Zenon
    <3>. QED BY <1>1, <3>1, <3>2
  <2>. QED BY <2>1, <2>2, Zenon
<1>. QED BY <1>3, <1>4, <1>7, Zenon DEF Storable

\* The ids in a catalog are those of its tables.
LEMMA LoadedIds ==
    ASSUME NEW list, Listed(list)
    PROVE  \A n \in DOMAIN LoadedTables(list) : LoadedTables(list)[n].id \in Ids(list)
<1>. TAKE n \in DOMAIN LoadedTables(list)
<1>1. n \in Named(list)
  BY OfList
<1>2. PICK i \in DOMAIN list : n = list[i].name
  BY <1>1 DEF Named
<1>3. LoadedTables(list)[list[i].name] = [id |-> list[i].id, schema |-> SchemaOf(list, list[i].id)] /\ list[i].id \in Ids(list)
  BY OfList
<1>. QED BY <1>2, <1>3

\* In memory, the new table has no rows.
LEMMA TableInMemory ==
    ASSUME NEW list, NEW m, Listed(list), InMemory(list, m), m.nextTable <= MaxTableId, NEW name \in Identifiers,
           NEW columns \in SeqsUpTo(ColumnDefinitions, MaxColumns), NormalizeIdentifier(name) \notin Named(list),
           NEW table, table = [id |-> m.nextTable, schema |-> NormalSchema(columns)],
           NEW a, Created(a, m, NormalizeIdentifier(name), table)
    PROVE  /\ Listed(Append(list, NewTable(m.nextTable, name, columns)))
           /\ InMemory(Append(list, NewTable(m.nextTable, name, columns)), a)
           /\ Storable(a) <=> Storable(m) /\ FitsPage(TableRecord(NormalizeIdentifier(name), table))
<1>. DEFINE entry == NewTable(m.nextTable, name, columns)
            more == Append(list, entry)
            normal == NormalizeIdentifier(name)
<1>1. PICK id : id = m.nextTable
  OBVIOUS
<1>2. /\ m.tables = LoadedTables(list) /\ Numbered(list, id) /\ id <= MaxTableId
      /\ m.rows \in [Ids(list) -> Seq(Seq(Datums))]
  BY <1>1 DEF InMemory
<1>3. /\ Listed(more) /\ id \notin Ids(list) /\ Ids(more) = {id} \cup Ids(list)
      /\ SchemaOf(more, id) = entry.schema /\ Extends(more, list) /\ Numbered(more, id + 1)
      /\ LoadedTables(more) = With(LoadedTables(list), entry.name, [id |-> entry.id, schema |-> entry.schema])
  <2>1. entry = NewTable(id, name, columns) /\ more = Append(list, entry)
    BY <1>1
  <2>. HIDE DEF entry, more
  <2>. QED BY <1>2, <2>1, TableListed
<1>4. entry.name = normal /\ entry.id = id /\ entry.schema = NormalSchema(columns) /\ table = [id |-> id, schema |-> NormalSchema(columns)]
  BY <1>1 DEF NewTable
<1>. HIDE DEF more, entry
<1>5. /\ a.tables = LoadedTables(more) /\ Shaped(a) /\ a.nextTable = id + 1 /\ a.indexes = m.indexes
      /\ a.rows = With(m.rows, id, <<>>)
  <2>1. table.id = id
    BY <1>4
  <2>. QED BY <1>1, <1>2, <1>3, <1>4, <2>1, Zenon DEF Created
<1>6. /\ a.rows \in [Ids(more) -> Seq(Seq(Datums))] /\ a.rows[id] = <<>>
      /\ \A t \in Ids(list) : a.rows[t] = m.rows[t]
  <2>. DEFINE D == Seq(Seq(Datums))
              e == <<>>
              S == Ids(list)
              f == m.rows
              g == a.rows
  <2>1. e \in D /\ f \in [S -> D] /\ g = With(f, id, e) /\ id \notin S
    BY <1>2, <1>3, <1>5
  <2>. HIDE DEF D, e, S, f, g
  <2>2. g = [x \in {id} \cup S |-> IF x = id THEN e ELSE f[x]]
    BY <2>1 DEF With
  <2>3. g \in [{id} \cup S -> D]
    BY <2>1, <2>2
  <2>4. g[id] = e /\ \A t \in S : g[t] = f[t]
    BY <2>1, <2>2
  <2>. QED BY <1>3, <2>3, <2>4, Zenon DEF D, e, S, f, g
<1>7. ASSUME NEW t \in Ids(more), NEW i \in DOMAIN a.rows[t] PROVE Fits(SchemaOf(more, t), a.rows[t][i])
  <2>1. t # id
    BY <1>6
  <2>2. t \in Ids(list) /\ a.rows[t] = m.rows[t] /\ SchemaOf(more, t) = SchemaOf(list, t)
    BY <1>3, <1>6, <2>1 DEF Extends
  <2>3. \A j \in DOMAIN m.rows[t] : Fits(SchemaOf(list, t), m.rows[t][j])
    BY <2>2 DEF InMemory
  <2>. QED BY <2>2, <2>3
<1>8. ASSUME NEW n \in DOMAIN a.indexes PROVE Placed(more, a.indexes[n].table, a.indexes[n].column)
  <2>1. Placed(list, m.indexes[n].table, m.indexes[n].column)
    BY <1>5 DEF InMemory
  <2>2. Placed(more, m.indexes[n].table, m.indexes[n].column)
    BY <1>3, <2>1, StillPlaced
  <2>. QED BY <1>5, <2>2
<1>9. InMemory(more, a)
  <2>1. Numbered(more, a.nextTable)
    BY <1>3, <1>5
  <2>. QED BY <1>5, <1>6, <1>7, <1>8, <2>1 DEF InMemory
<1>10. Storable(a) <=> Storable(m) /\ FitsPage(TableRecord(normal, table))
  <2>1. DOMAIN m.rows = Ids(list) /\ DOMAIN m.tables = Named(list)
    BY <1>2, OfList
  <2>2. \A n \in DOMAIN m.indexes : m.indexes[n].table \in DOMAIN m.rows
    BY <2>1 DEF InMemory, Placed
  <2>3. \A n \in DOMAIN m.tables : m.tables[n].id \in DOMAIN m.rows
    BY <1>2, <2>1, LoadedIds
  <2>4. table.id \notin DOMAIN m.rows /\ normal \notin DOMAIN m.tables /\ Created(a, m, normal, table)
    BY <1>3, <1>4, <2>1
  <2>. HIDE DEF normal
  <2>. QED BY <2>2, <2>3, <2>4, TableStorable
<1>. QED BY <1>1, <1>3, <1>9, <1>10 DEF more, entry

\* On files, its record is in the catalog.
LEMMA TableOnFiles ==
    ASSUME NEW list, NEW indexes, NEW d, Listed(list), Indexed(list, indexes), OnFiles(list, indexes, d),
           d.nextTable <= MaxTableId, NEW name \in Identifiers,
           NEW columns \in SeqsUpTo(ColumnDefinitions, MaxColumns), NormalizeIdentifier(name) \notin Named(list),
           NEW table, table = [id |-> d.nextTable, schema |-> NormalSchema(columns)],
           NEW b, Created(b, d, NormalizeIdentifier(name), table),
           b.catalogFile = Append(d.catalogFile, TableRecord(NormalizeIdentifier(name), table))
    PROVE  LET more == Append(list, NewTable(d.nextTable, name, columns))
           IN /\ Listed(more) /\ OnFiles(more, indexes, b) /\ Indexed(more, indexes)
              /\ Ids(more) = {d.nextTable} \cup Ids(list) /\ d.nextTable \notin Ids(list)
              /\ \A t \in Ids(list) : RowsOf(more, b, t) = RowsOf(list, d, t)
              /\ RowsOf(more, b, d.nextTable) = <<>>
<1>. DEFINE entry == NewTable(d.nextTable, name, columns)
            more == Append(list, entry)
            normal == NormalizeIdentifier(name)
            L == Len(list)
<1>1. PICK id : id = d.nextTable
  OBVIOUS
<1>2. /\ d.tables = LoadedTables(list) /\ Numbered(list, id) /\ id <= MaxTableId
      /\ d.rows \in [Ids(list) -> Seq(Seq(Bytes))]
  BY <1>1 DEF OnFiles
<1>3. /\ Listed(more) /\ id \notin Ids(list) /\ Ids(more) = {id} \cup Ids(list)
      /\ SchemaOf(more, id) = entry.schema /\ Extends(more, list) /\ Numbered(more, id + 1)
      /\ L \in Nat /\ DOMAIN list = 1 .. L /\ DOMAIN more = 1 .. L + 1
      /\ more[L + 1] = entry /\ (\A i \in 1 .. L : more[i] = list[i])
      /\ LoadedTables(more) = With(LoadedTables(list), entry.name, [id |-> entry.id, schema |-> entry.schema])
  <2>1. entry = NewTable(id, name, columns) /\ more = Append(list, entry)
    BY <1>1
  <2>. HIDE DEF entry, more
  <2>. QED BY <1>2, <2>1, TableListed
<1>4. entry.name = normal /\ entry.id = id /\ entry.schema = NormalSchema(columns) /\ table = [id |-> id, schema |-> NormalSchema(columns)]
  BY <1>1 DEF NewTable
<1>5. b.catalogFile = Append(d.catalogFile, EncodeCatalogRecord(entry))
  <2>1. entry = [id |-> table.id, name |-> normal, schema |-> table.schema]
    BY <1>1 DEF NewTable
  <2>. HIDE DEF entry
  <2>. QED BY <2>1 DEF TableRecord
<1>. HIDE DEF more, entry, L
<1>6. /\ b.tables = LoadedTables(more) /\ Shaped(b) /\ b.nextTable = id + 1 /\ b.indexes = d.indexes
      /\ b.rows = With(d.rows, id, <<>>) /\ b.nextIndex = d.nextIndex /\ b.indexFile = d.indexFile
  <2>1. table.id = id
    BY <1>4
  <2>. QED BY <1>1, <1>2, <1>3, <1>4, <2>1, Zenon DEF Created
<1>7. /\ b.rows \in [Ids(more) -> Seq(Seq(Bytes))] /\ b.rows[id] = <<>>
      /\ \A t \in Ids(list) : b.rows[t] = d.rows[t]
  <2>. DEFINE D == Seq(Seq(Bytes))
              e == <<>>
              S == Ids(list)
              f == d.rows
              g == b.rows
  <2>1. e \in D /\ f \in [S -> D] /\ g = With(f, id, e) /\ id \notin S
    BY <1>2, <1>3, <1>6
  <2>. HIDE DEF D, e, S, f, g
  <2>2. g = [x \in {id} \cup S |-> IF x = id THEN e ELSE f[x]]
    BY <2>1 DEF With
  <2>3. g \in [{id} \cup S -> D]
    BY <2>1, <2>2
  <2>4. g[id] = e /\ \A t \in S : g[t] = f[t]
    BY <2>1, <2>2
  <2>. QED BY <1>3, <2>3, <2>4, Zenon DEF D, e, S, f, g
<1>8. ASSUME NEW t \in Ids(list) PROVE RowsOf(more, b, t) = RowsOf(list, d, t)
  <2>1. b.rows[t] = d.rows[t] /\ SchemaOf(more, t) = SchemaOf(list, t)
    BY <1>3, <1>7 DEF Extends
  <2>. QED BY <2>1, Zenon DEF RowsOf
<1>9. RowsOf(more, b, id) = <<>>
  BY <1>7 DEF RowsOf, Decoded
<1>10. Indexed(more, indexes)
  <2>1. \A i \in DOMAIN indexes : Placed(more, indexes[i].table, indexes[i].column + 1)
    <3>. TAKE i \in DOMAIN indexes
    <3>1. Placed(list, indexes[i].table, indexes[i].column + 1)
      BY DEF Indexed
    <3>. QED BY <1>3, <3>1, StillPlaced
  <2>. QED BY <2>1 DEF Indexed
<1>11. b.catalogFile = [i \in DOMAIN more |-> EncodeCatalogRecord(more[i])]
  <2>. DEFINE g == [i \in 1 .. L + 1 |-> EncodeCatalogRecord(more[i])]
  <2>1. d.catalogFile = [i \in 1 .. L |-> g[i]]
    <3>1. d.catalogFile = [i \in 1 .. L |-> EncodeCatalogRecord(list[i])]
      BY <1>3 DEF OnFiles
    <3>2. \A i \in 1 .. L : g[i] = EncodeCatalogRecord(list[i])
      BY <1>3
    <3>. HIDE DEF g
    <3>. QED BY <3>1, <3>2
  <2>2. g[L + 1] = EncodeCatalogRecord(entry) /\ DOMAIN g = 1 .. L + 1 /\ g = [i \in 1 .. L + 1 |-> g[i]]
    BY <1>3
  <2>. HIDE DEF g
  <2>3. Append([i \in 1 .. L |-> g[i]], g[L + 1]) = [i \in 1 .. L + 1 |-> g[i]]
    BY <1>3, <2>2, MappedGrown
  <2>4. b.catalogFile = g
    BY <1>5, <2>1, <2>2, <2>3, Zenon
  <2>. QED BY <1>3, <2>4 DEF g
<1>12. ASSUME NEW t \in Ids(more), NEW i \in DOMAIN b.rows[t] PROVE Stored(SchemaOf(more, t), b.rows[t][i])
  <2>1. t # id
    BY <1>7
  <2>2. t \in Ids(list) /\ b.rows[t] = d.rows[t] /\ SchemaOf(more, t) = SchemaOf(list, t)
    BY <1>3, <1>7, <2>1 DEF Extends
  <2>3. \A j \in DOMAIN d.rows[t] : Stored(SchemaOf(list, t), d.rows[t][j])
    BY <2>2 DEF OnFiles
  <2>. QED BY <2>2, <2>3
<1>13. ASSUME NEW i \in DOMAIN indexes
       PROVE  ~HasDuplicates(RowsOf(more, b, indexes[i].table), indexes[i].column + 1)
  <2>1. indexes[i].table \in Ids(list)
    BY DEF Indexed, Placed
  <2>2. ~HasDuplicates(RowsOf(list, d, indexes[i].table), indexes[i].column + 1)
    BY DEF OnFiles
  <2>. QED BY <1>8, <2>1, <2>2
<1>14. OnFiles(more, indexes, b)
  <2>1. /\ b.indexes = LoadedIndexes(indexes) /\ b.nextIndex \in 1 .. MaxIndexId + 1
        /\ b.indexFile = [i \in DOMAIN indexes |-> EncodeIndexRecord(indexes[i])]
    BY <1>6 DEF OnFiles
  <2>2. Numbered(more, b.nextTable)
    BY <1>3, <1>6
  <2>. QED BY <1>6, <1>7, <1>11, <1>12, <1>13, <2>1, <2>2, Zenon DEF OnFiles
<1>. QED BY <1>1, <1>3, <1>8, <1>9, <1>10, <1>14 DEF more, entry

\* A number that is taken back leaves the files as they are.
LEMMA TableTakenBack ==
    ASSUME NEW list, NEW indexes, NEW d, Listed(list), OnFiles(list, indexes, d), d.nextTable <= MaxTableId,
           NEW b, TakenBack(b, d)
    PROVE  OnFiles(list, indexes, b)
<1>1. Numbered(list, b.nextTable)
  <2>1. Numbered(list, d.nextTable) /\ b.nextTable = d.nextTable + 1
    BY DEF OnFiles, TakenBack
  <2>2. MaxTableId \in 1 .. InvalidId - 1 /\ InvalidId \in Int /\ \A t \in Ids(list) : t \in 1 .. InvalidId - 1
    BY OfList, IdAssumption, Widths
  <2>. QED BY <2>1, <2>2 DEF Numbered
<1>2. RowsOf(list, b, 0) = RowsOf(list, b, 0) /\ \A u : RowsOf(list, b, u) = RowsOf(list, d, u)
  BY DEF RowsOf, TakenBack
<1>. QED BY <1>1, <1>2 DEF OnFiles, TakenBack

\* What a statement does to the database in memory, and to the one on files.
MemoryOutcomes(m, s) == Outcomes(m, FALSE, s)
FileOutcomes(d, s) == Outcomes(d, TRUE, s)

\* CREATE TABLE that changes nothing, and where it does.
TableRefused(m, o, name, columns) ==
    \/ DuplicateColumn(columns) /\ o.db = m /\ o.code = "refused"
    \/ ~DuplicateColumn(columns) /\ HasTable(m, name) /\ o.db = m /\ o.code = "already_exists"
    \/ ~DuplicateColumn(columns) /\ ~HasTable(m, name) /\ m.nextTable > MaxTableId
       /\ o.db = m /\ o.code = "resource_exhausted"

TableNumbered(m, name, columns) == ~DuplicateColumn(columns) /\ ~HasTable(m, name) /\ ~ (m.nextTable > MaxTableId)

\* What CREATE TABLE can leave in memory.
LEMMA TableOutcomesInMemory ==
    ASSUME NEW m, Shaped(m), NEW name, NEW columns,
           NEW s, s = [statement |-> "create_table", table |-> name, columns |-> columns],
           NEW o \in MemoryOutcomes(m, s),
           NEW table, table = [id |-> m.nextTable, schema |-> NormalSchema(columns)]
    PROVE  \/ TableRefused(m, o, name, columns)
           \/ TableNumbered(m, name, columns) /\ o.code = "ok" /\ Created(o.db, m, NormalizeIdentifier(name), table)
<1>. DEFINE normal == NormalizeIdentifier(name)
            numbered == [m EXCEPT !.nextTable = @ + 1]
            more == [numbered EXCEPT !.tables = With(@, normal, table), !.rows = With(@, table.id, <<>>)]
<1>1. s.statement = "create_table" /\ s.table = name /\ s.columns = columns
  OBVIOUS
<1>2. Binds(m, s) <=> ~DuplicateColumn(columns)
  BY <1>1 DEF Binds
<1>3. CASE DuplicateColumn(columns)
  <2>1. o = Outcome(m, "refused")
    BY <1>2, <1>3 DEF MemoryOutcomes, Outcomes
  <2>. QED BY <1>3, <2>1 DEF Outcome, TableRefused
<1>4. CASE ~DuplicateColumn(columns)
  <2>1. o \in CreateTable(m, FALSE, s)
    BY <1>1, <1>2, <1>4 DEF MemoryOutcomes, Outcomes
  <2>2. \/ HasTable(m, name) /\ o = Outcome(m, "already_exists")
        \/ ~HasTable(m, name) /\ m.nextTable > MaxTableId /\ o = Outcome(m, "resource_exhausted")
        \/ ~HasTable(m, name) /\ ~ (m.nextTable > MaxTableId) /\ o = Outcome(more, "ok")
    BY <1>1, <2>1 DEF CreateTable, HasTable
  <2>3. Created(more, m, normal, table)
    <3>. HIDE DEF normal
    <3>1. DOMAIN m = DatabaseParts
      BY DEF Shaped
    <3>2. /\ more.tables = With(m.tables, normal, table) /\ more.nextTable = m.nextTable + 1
          /\ more.rows = With(m.rows, table.id, <<>>) /\ more.indexes = m.indexes
          /\ more.nextIndex = m.nextIndex /\ more.indexFile = m.indexFile /\ more.blankHeaps = m.blankHeaps
          /\ more.blankCatalog = m.blankCatalog /\ more.blankIndexCatalog = m.blankIndexCatalog
      BY <3>1 DEF DatabaseParts
    <3>3. more = [part \in DatabaseParts |-> more[part]]
      BY <3>1
    <3>. HIDE DEF more
    <3>. QED BY <3>2, <3>3, Zenon DEF Shaped, Created, Whole
  <2>. HIDE DEF more
  <2>4. Outcome(more, "ok").db = more /\ Outcome(more, "ok").code = "ok"
    BY DEF Outcome
  <2>5. CASE o = Outcome(more, "ok") /\ ~HasTable(m, name) /\ ~ (m.nextTable > MaxTableId)
    BY <1>4, <2>3, <2>4, <2>5 DEF TableNumbered
  <2>6. CASE HasTable(m, name) \/ m.nextTable > MaxTableId
    BY <1>4, <2>2, <2>6 DEF Outcome, TableRefused
  <2>. QED BY <2>2, <2>5, <2>6
<1>. QED BY <1>3, <1>4

\* What it can leave in the files.
AfterTable(d, p, name, columns, table) ==
    \/ TableRefused(d, p, name, columns)
    \/ /\ TableNumbered(d, name, columns) /\ p.code = "ok" /\ Created(p.db, d, NormalizeIdentifier(name), table)
       /\ p.db.catalogFile = Append(d.catalogFile, TableRecord(NormalizeIdentifier(name), table))
       /\ FitsPage(TableRecord(NormalizeIdentifier(name), table))
    \/ /\ TableNumbered(d, name, columns) /\ p.code # "ok" /\ TakenBack(p.db, d)
       /\ d.blankCatalog \/ ~FitsPage(TableRecord(NormalizeIdentifier(name), table))

\* What CREATE TABLE can leave in the files.
LEMMA TableOutcomesOnFiles ==
    ASSUME NEW d, Shaped(d), NEW name, NEW columns,
           NEW s, s = [statement |-> "create_table", table |-> name, columns |-> columns],
           NEW p \in FileOutcomes(d, s),
           NEW table, table = [id |-> d.nextTable, schema |-> NormalSchema(columns)]
    PROVE  AfterTable(d, p, name, columns, table)
<1>. DEFINE normal == NormalizeIdentifier(name)
            record == TableRecord(normal, table)
            numbered == [d EXCEPT !.nextTable = @ + 1]
            created == [numbered EXCEPT !.tables = With(@, normal, table), !.rows = With(@, table.id, <<>>)]
            more == [created EXCEPT !.catalogFile = Append(@, record)]
            back(blank) == [numbered EXCEPT !.blankCatalog = blank]
<1>1. s.statement = "create_table" /\ s.table = name /\ s.columns = columns
  OBVIOUS
<1>2. Binds(d, s) <=> ~DuplicateColumn(columns)
  BY <1>1 DEF Binds
<1>3. CASE DuplicateColumn(columns)
  <2>1. p = Outcome(d, "refused")
    BY <1>2, <1>3 DEF FileOutcomes, Outcomes
  <2>. QED BY <1>3, <2>1 DEF Outcome, TableRefused, AfterTable
<1>4. CASE ~DuplicateColumn(columns)
  <2>1. p \in CreateTable(d, TRUE, s)
    BY <1>1, <1>2, <1>4 DEF FileOutcomes, Outcomes
  <2>2. \/ HasTable(d, name) /\ p = Outcome(d, "already_exists")
        \/ ~HasTable(d, name) /\ d.nextTable > MaxTableId /\ p = Outcome(d, "resource_exhausted")
        \/ /\ ~HasTable(d, name) /\ ~ (d.nextTable > MaxTableId)
           /\ \E a \in Appends(record, d.catalogFile, d.blankCatalog) :
                p = IF a.code = "ok" THEN Outcome(more, "ok") ELSE Outcome(back(a.blank), a.code)
    <3>1. CreateTable(d, TRUE, s) =
            IF normal \in DOMAIN d.tables THEN {Outcome(d, "already_exists")}
            ELSE IF d.nextTable > MaxTableId THEN {Outcome(d, "resource_exhausted")}
            ELSE {IF a.code = "ok" THEN Outcome(more, "ok") ELSE Outcome(back(a.blank), a.code) :
                    a \in Appends(record, d.catalogFile, d.blankCatalog)}
      BY <1>1 DEF CreateTable, TableRecord
    <3>. HIDE DEF record, more, back, normal
    <3>2. HasTable(d, name) <=> normal \in DOMAIN d.tables
      BY DEF HasTable, normal
    <3>. DEFINE big == d.nextTable > MaxTableId
                answers == Appends(record, d.catalogFile, d.blankCatalog)
    <3>. HIDE DEF answers, big
    <3>3. CASE normal \in DOMAIN d.tables
      <4>1. p \in {Outcome(d, "already_exists")}
        BY <2>1, <3>1, <3>3, Zenon DEF big, answers
      <4>. QED BY <3>2, <3>3, <4>1, Zenon
    <3>4. CASE normal \notin DOMAIN d.tables /\ big
      <4>1. p \in {Outcome(d, "resource_exhausted")}
        BY <2>1, <3>1, <3>4, Zenon DEF big, answers
      <4>. QED BY <3>2, <3>4, <4>1, Zenon DEF big
    <3>5. CASE normal \notin DOMAIN d.tables /\ ~big
      <4>1. p \in {IF a.code = "ok" THEN Outcome(more, "ok") ELSE Outcome(back(a.blank), a.code) : a \in answers}
        BY <2>1, <3>1, <3>5, Zenon DEF big, answers
      <4>. QED BY <3>2, <3>5, <4>1, Zenon DEF big, answers
    <3>. QED BY <3>3, <3>4, <3>5
  <2>3. CASE HasTable(d, name) \/ d.nextTable > MaxTableId
    <3>. HIDE DEF record, more, back
    <3>1. \/ HasTable(d, name) /\ p = Outcome(d, "already_exists")
          \/ ~HasTable(d, name) /\ d.nextTable > MaxTableId /\ p = Outcome(d, "resource_exhausted")
      BY <2>2, <2>3
    <3>2. TableRefused(d, p, name, columns)
      BY <1>4, <3>1 DEF Outcome, TableRefused
    <3>. QED BY <3>2 DEF AfterTable
  <2>4. CASE ~HasTable(d, name) /\ ~ (d.nextTable > MaxTableId)
    <3>0. TableNumbered(d, name, columns)
      BY <1>4, <2>4 DEF TableNumbered
    <3>1. PICK a \in Appends(record, d.catalogFile, d.blankCatalog) :
            p = IF a.code = "ok" THEN Outcome(more, "ok") ELSE Outcome(back(a.blank), a.code)
      BY <2>2, <2>4
    <3>2. /\ a.code = "ok" => FitsPage(record)
          /\ a.code # "ok" => d.blankCatalog \/ ~FitsPage(record)
      BY DEF Appends
    <3>3. DOMAIN d = DatabaseParts
      BY DEF Shaped
    <3>4. CASE a.code = "ok"
      <4>. HIDE DEF record, normal
      <4>1. /\ more.tables = With(d.tables, normal, table) /\ more.nextTable = d.nextTable + 1
            /\ more.rows = With(d.rows, table.id, <<>>) /\ more.indexes = d.indexes
            /\ more.nextIndex = d.nextIndex /\ more.indexFile = d.indexFile /\ more.blankHeaps = d.blankHeaps
            /\ more.blankCatalog = d.blankCatalog /\ more.blankIndexCatalog = d.blankIndexCatalog
            /\ more.catalogFile = Append(d.catalogFile, record)
        BY <3>3 DEF DatabaseParts
      <4>2. more = [part \in DatabaseParts |-> more[part]]
        BY <3>3
      <4>3. p.db = more /\ p.code = "ok"
        BY <3>1, <3>4 DEF Outcome
      <4>. HIDE DEF more
      <4>4. Created(p.db, d, normal, table) /\ p.db.catalogFile = Append(d.catalogFile, record)
        BY <4>1, <4>2, <4>3, Zenon DEF Shaped, Created, Whole
      <4>. QED BY <3>0, <3>2, <3>4, <4>3, <4>4, Zenon DEF AfterTable, record, normal
    <3>5. CASE a.code # "ok"
      <4>1. p.db = back(a.blank) /\ p.code = a.code
        BY <3>1, <3>5 DEF Outcome
      <4>. DEFINE b == back(a.blank)
      <4>2. /\ b.tables = d.tables /\ b.nextTable = d.nextTable + 1 /\ b.rows = d.rows
            /\ b.indexes = d.indexes /\ b.nextIndex = d.nextIndex /\ b.indexFile = d.indexFile
            /\ b.catalogFile = d.catalogFile
        BY <3>3 DEF DatabaseParts
      <4>3. b = [part \in DatabaseParts |-> b[part]]
        BY <3>3
      <4>. HIDE DEF b, record
      <4>4. p.db = b
        BY <4>1 DEF b
      <4>5. TakenBack(p.db, d)
        BY <4>2, <4>3, <4>4, Zenon DEF Shaped, TakenBack
      <4>. QED BY <3>0, <3>2, <3>5, <4>1, <4>5, Zenon DEF AfterTable, record
    <3>. QED BY <3>4, <3>5
  <2>. QED BY <2>3, <2>4
<1>. QED BY <1>3, <1>4

\* Nothing was listed twice, and nothing left out.
LEMMA EmptyAlike ==
    SameListing(<<>>, <<>>)
<1>1. DOMAIN <<>> = {}
  OBVIOUS
<1>2. Bijects(<<>>, {}, {})
  BY DEF Bijects
<1>. QED BY <1>1, <1>2 DEF SameListing

\* Whether the two agree after a statement.
AgreeAfter(ag, o, p, after) == after \in BOOLEAN /\ (after <=> (ag /\ o.code = p.code))

\* What a statement leaves when the two agreed before it: the same answers leave
\* them alike, and other ones only what files do not hold.
Parts(o, p) == (o.code = p.code <=> Storable(o.db)) /\ (o.code = p.code => KnownAlike(o.db, p.db))

\* A statement keeps the databases consistent when it keeps the parts.
LEMMA StepConsistent ==
    ASSUME NEW m, NEW d, NEW ag, Consistent(m, d, ag), NEW o, NEW p, NEW after, AgreeAfter(ag, o, p, after),
           KnownInMemory(o.db), Storable(o.db) => Storable(m), KnownOnFiles(p.db),
           KnownAlike(m, d) /\ Storable(m) => Parts(o, p)
    PROVE  Consistent(o.db, p.db, after)
<1>1. ag \in BOOLEAN /\ (ag <=> Storable(m)) /\ (ag => KnownAlike(m, d))
  BY DEF Consistent
<1>2. after \in BOOLEAN /\ (after <=> (ag /\ o.code = p.code))
  BY DEF AgreeAfter
<1>3. CASE ag
  <2>1. Parts(o, p)
    BY <1>1, <1>3
  <2>2. (after <=> Storable(o.db)) /\ (after => KnownAlike(o.db, p.db))
    BY <1>2, <1>3, <2>1, Zenon DEF Parts
  <2>. QED BY <1>2, <2>2, Zenon DEF Consistent
<1>4. CASE ~ag
  <2>1. ~Storable(o.db) /\ ~after
    BY <1>1, <1>2, <1>4
  <2>. QED BY <1>2, <2>1, Zenon DEF Consistent
<1>. QED BY <1>3, <1>4

\* Nothing changes when both refuse alike.
LEMMA BothRefuse ==
    ASSUME NEW m, NEW d, KnownAlike(m, d), Storable(m), NEW o, NEW p, o.db = m, p.db = d, o.code = p.code
    PROVE  Parts(o, p)
BY Zenon DEF Parts

\* CREATE TABLE leaves a list of tables in memory.
LEMMA CreateTableInMemory ==
    ASSUME NEW m, KnownInMemory(m), NEW name \in Identifiers, NEW columns \in SeqsUpTo(ColumnDefinitions, MaxColumns),
           NEW s, s = [statement |-> "create_table", table |-> name, columns |-> columns], NEW o \in MemoryOutcomes(m, s)
    PROVE  KnownInMemory(o.db) /\ (Storable(o.db) => Storable(m))
<1>1. PICK list : Listed(list) /\ InMemory(list, m)
  BY DEF KnownInMemory
<1>. DEFINE table == [id |-> m.nextTable, schema |-> NormalSchema(columns)]
<1>2. \/ TableRefused(m, o, name, columns)
      \/ TableNumbered(m, name, columns) /\ o.code = "ok" /\ Created(o.db, m, NormalizeIdentifier(name), table)
  <2>1. Shaped(m)
    BY <1>1 DEF InMemory
  <2>. QED BY <2>1, TableOutcomesInMemory
<1>3. CASE TableRefused(m, o, name, columns)
  <2>1. o.db = m
    BY <1>3 DEF TableRefused
  <2>. QED BY <2>1
<1>4. CASE TableNumbered(m, name, columns) /\ Created(o.db, m, NormalizeIdentifier(name), table)
  <2>1. m.nextTable <= MaxTableId /\ NormalizeIdentifier(name) \notin Named(list)
    <3>1. m.tables = LoadedTables(list) /\ Numbered(list, m.nextTable)
      BY <1>1 DEF InMemory
    <3>2. m.nextTable \in Int /\ MaxTableId \in Int
      BY <3>1, IdAssumption, Widths DEF Numbered
    <3>. QED BY <1>1, <1>4, <3>1, <3>2, OfList DEF TableNumbered, HasTable
  <2>. HIDE DEF table
  <2>2. PICK more : Listed(more) /\ InMemory(more, o.db)
    BY <1>1, <1>4, <2>1, TableInMemory DEF table
  <2>3. Storable(o.db) => Storable(m)
    BY <1>1, <1>4, <2>1, TableInMemory DEF table
  <2>. QED BY <2>2, <2>3, Zenon DEF KnownInMemory
<1>. QED BY <1>2, <1>3, <1>4

\* And one in the files.
LEMMA CreateTableOnFiles ==
    ASSUME NEW d, KnownOnFiles(d), NEW name \in Identifiers, NEW columns \in SeqsUpTo(ColumnDefinitions, MaxColumns),
           NEW s, s = [statement |-> "create_table", table |-> name, columns |-> columns], NEW p \in FileOutcomes(d, s)
    PROVE  KnownOnFiles(p.db)
<1>1. PICK list, indexes : Listed(list) /\ Indexed(list, indexes) /\ OnFiles(list, indexes, d)
  BY DEF KnownOnFiles
<1>. DEFINE table == [id |-> d.nextTable, schema |-> NormalSchema(columns)]
<1>2. Shaped(d) /\ d.tables = LoadedTables(list) /\ Numbered(list, d.nextTable)
  BY <1>1 DEF OnFiles
<1>3. AfterTable(d, p, name, columns, table)
  BY <1>2, TableOutcomesOnFiles
<1>. HIDE DEF table
<1>4. TableNumbered(d, name, columns) => d.nextTable <= MaxTableId /\ NormalizeIdentifier(name) \notin Named(list)
  <2>1. d.nextTable \in Int /\ MaxTableId \in Int
    BY <1>2, IdAssumption, Widths DEF Numbered
  <2>. QED BY <1>1, <1>2, <2>1, OfList DEF TableNumbered, HasTable
<1>5. CASE TableRefused(d, p, name, columns)
  <2>1. p.db = d
    BY <1>5 DEF TableRefused
  <2>. QED BY <2>1
<1>6. CASE /\ TableNumbered(d, name, columns) /\ Created(p.db, d, NormalizeIdentifier(name), table)
           /\ p.db.catalogFile = Append(d.catalogFile, TableRecord(NormalizeIdentifier(name), table))
  <2>. DEFINE more == Append(list, NewTable(d.nextTable, name, columns))
  <2>1. Listed(more) /\ OnFiles(more, indexes, p.db) /\ Indexed(more, indexes)
    BY <1>1, <1>4, <1>6, TableOnFiles DEF table
  <2>. HIDE DEF more
  <2>. QED BY <2>1, Zenon DEF KnownOnFiles
<1>7. CASE TableNumbered(d, name, columns) /\ TakenBack(p.db, d)
  <2>1. OnFiles(list, indexes, p.db)
    BY <1>1, <1>4, <1>7, TableTakenBack
  <2>. QED BY <1>1, <2>1, Zenon DEF KnownOnFiles
<1>. QED BY <1>3, <1>5, <1>6, <1>7 DEF AfterTable

\* The two read the same tables.
LEMMA SameTables ==
    ASSUME NEW list, NEW indexes, NEW m, NEW d, InMemory(list, m), OnFiles(list, indexes, d)
    PROVE  /\ m.tables = LoadedTables(list) /\ d.tables = LoadedTables(list) /\ Shaped(m) /\ Shaped(d)
           /\ \A s : Binds(m, s) <=> Binds(d, s)
           /\ \A text : (HasTable(m, text) <=> HasTable(d, text)) /\ Table(m, text) = Table(d, text)
<1>1. m.tables = LoadedTables(list) /\ d.tables = LoadedTables(list) /\ Shaped(m) /\ Shaped(d)
  BY DEF InMemory, OnFiles
<1>2. m.tables = d.tables
  BY <1>1
<1>3. \A s : Binds(m, s) <=> Binds(d, s)
  BY <1>2, BindsAlike
<1>4. \A text : (HasTable(m, text) <=> HasTable(d, text)) /\ Table(m, text) = Table(d, text)
  BY <1>2, BindsAlike
<1>. QED BY <1>1, <1>3, <1>4

\* Run on both, CREATE TABLE parts them when the record of the table fits no page.
LEMMA CreateTableParts ==
    ASSUME NEW m, NEW d, KnownAlike(m, d), Storable(m),
           NEW name \in Identifiers, NEW columns \in SeqsUpTo(ColumnDefinitions, MaxColumns),
           NEW s, s = [statement |-> "create_table", table |-> name, columns |-> columns],
           NEW o \in MemoryOutcomes(m, s), NEW p \in FileOutcomes(d, s)
    PROVE  Parts(o, p)
<1>1. PICK list, indexes :
        /\ Listed(list) /\ Indexed(list, indexes) /\ InMemory(list, m) /\ OnFiles(list, indexes, d)
        /\ Alike(list, indexes, m, d)
  BY DEF KnownAlike
<1>2. /\ Shaped(m) /\ Shaped(d) /\ m.tables = LoadedTables(list)
      /\ (HasTable(m, name) <=> HasTable(d, name))
  BY <1>1, SameTables
<1>3. /\ m.nextTable = d.nextTable /\ d.nextTable = Len(list) + 1 /\ m.indexes = d.indexes
      /\ m.nextIndex = d.nextIndex /\ d.nextIndex = Len(indexes) + 1 /\ Whole(d)
      /\ (\A i \in DOMAIN list : list[i].id = i) /\ (\A i \in DOMAIN indexes : indexes[i].id = i)
      /\ \A t \in Ids(list) : SameListing(RowsOf(list, d, t), m.rows[t])
  BY <1>1 DEF Alike
<1>. DEFINE table == [id |-> m.nextTable, schema |-> NormalSchema(columns)]
            normal == NormalizeIdentifier(name)
            fits == FitsPage(TableRecord(normal, table))
<1>4. \/ TableRefused(m, o, name, columns)
      \/ TableNumbered(m, name, columns) /\ o.code = "ok" /\ Created(o.db, m, normal, table)
  BY <1>2, TableOutcomesInMemory
<1>5. AfterTable(d, p, name, columns, table)
  BY <1>2, <1>3, TableOutcomesOnFiles
<1>6. CASE TableRefused(m, o, name, columns)
  <2>1. ~TableNumbered(d, name, columns)
    BY <1>2, <1>3, <1>6 DEF TableRefused, TableNumbered
  <2>2. TableRefused(d, p, name, columns)
    BY <1>5, <2>1 DEF AfterTable
  <2>3. o.db = m /\ p.db = d /\ o.code = p.code
    BY <1>2, <1>3, <1>6, <2>2 DEF TableRefused
  <2>. QED BY <2>3, BothRefuse
<1>7. CASE TableNumbered(m, name, columns) /\ o.code = "ok" /\ Created(o.db, m, normal, table)
  <2>1. ~TableRefused(d, p, name, columns)
    BY <1>2, <1>3, <1>7 DEF TableRefused, TableNumbered
  <2>2. m.nextTable <= MaxTableId /\ normal \notin Named(list)
    <3>1. Numbered(list, m.nextTable)
      BY <1>1 DEF InMemory
    <3>2. m.nextTable \in Int /\ MaxTableId \in Int
      BY <3>1, IdAssumption, Widths DEF Numbered
    <3>. QED BY <1>1, <1>2, <1>7, <3>2, OfList DEF TableNumbered, HasTable
  <2>. HIDE DEF table, normal
  <2>. DEFINE entry == NewTable(m.nextTable, name, columns)
              more == Append(list, entry)
  <2>3. Listed(more) /\ InMemory(more, o.db) /\ (Storable(o.db) <=> Storable(m) /\ fits)
    BY <1>1, <1>7, <2>2, TableInMemory DEF table, normal
  <2>4. CASE /\ p.code = "ok" /\ Created(p.db, d, normal, table)
             /\ p.db.catalogFile = Append(d.catalogFile, TableRecord(normal, table)) /\ fits
    <3>1. /\ OnFiles(more, indexes, p.db) /\ Indexed(more, indexes)
          /\ Ids(more) = {d.nextTable} \cup Ids(list) /\ d.nextTable \notin Ids(list)
          /\ \A t \in Ids(list) : RowsOf(more, p.db, t) = RowsOf(list, d, t)
          /\ RowsOf(more, p.db, d.nextTable) = <<>>
      <4>1. entry = NewTable(d.nextTable, name, columns) /\ more = Append(list, entry) /\ d.nextTable <= MaxTableId
            /\ table = [id |-> d.nextTable, schema |-> NormalSchema(columns)]
        BY <1>3, <2>2 DEF table
      <4>. HIDE DEF entry, more
      <4>. QED BY <1>1, <2>2, <2>4, <4>1, TableOnFiles DEF normal
    <3>2. /\ p.db.nextTable = d.nextTable + 1 /\ o.db.nextTable = m.nextTable + 1 /\ Whole(p.db)
          /\ o.db.indexes = m.indexes /\ p.db.indexes = d.indexes /\ o.db.nextIndex = m.nextIndex /\ p.db.nextIndex = d.nextIndex
          /\ o.db.rows = With(m.rows, m.nextTable, <<>>)
      <4>1. table.id = m.nextTable
        BY DEF table
      <4>. QED BY <1>3, <1>7, <2>4, <4>1 DEF Created
    <3>3. Len(more) = Len(list) + 1 /\ \A i \in DOMAIN more : more[i].id = i
      <4>. DEFINE L == Len(list)
      <4>1. list \in Seq(StoredTables) /\ L \in Nat /\ DOMAIN list = 1 .. L /\ entry.id = L + 1
        BY <1>1, <1>3 DEF Listed, NewTable
      <4>2. entry \in StoredTables
        <5>1. Numbered(list, m.nextTable)
          BY <1>1 DEF InMemory
        <5>. QED BY <1>1, <2>2, <5>1, TableListed DEF normal
      <4>. HIDE DEF entry
      <4>3. Len(more) = L + 1 /\ DOMAIN more = 1 .. L + 1 /\ more[L + 1] = entry /\ \A i \in 1 .. L : more[i] = list[i]
        BY <4>1, <4>2
      <4>. HIDE DEF more, L
      <4>4. \A i \in DOMAIN more : i = L + 1 \/ i \in 1 .. L
        BY <4>1, <4>3
      <4>5. \A i \in DOMAIN more : more[i].id = i
        BY <1>3, <4>1, <4>3, <4>4
      <4>. QED BY <4>3, <4>5 DEF L
    <3>. HIDE DEF more, entry
    <3>4. ASSUME NEW t \in Ids(more) PROVE SameListing(RowsOf(more, p.db, t), o.db.rows[t])
      <4>1. CASE t = m.nextTable
        <5>1. o.db.rows[t] = <<>>
          BY <3>2, <4>1, WithValue
        <5>. QED BY <1>3, <3>1, <4>1, <5>1, EmptyAlike
      <4>2. CASE t # m.nextTable
        <5>1. t \in Ids(list) /\ t \in DOMAIN m.rows
          BY <1>1, <1>3, <3>1, <4>2 DEF InMemory
        <5>2. o.db.rows[t] = m.rows[t]
          BY <3>2, <4>2, <5>1, WithOthers
        <5>. QED BY <1>3, <3>1, <5>1, <5>2
      <4>. QED BY <4>1, <4>2
    <3>5. Alike(more, indexes, o.db, p.db)
      BY <1>3, <3>2, <3>3, <3>4 DEF Alike
    <3>6. KnownAlike(o.db, p.db)
      BY <2>3, <3>1, <3>5, Zenon DEF KnownAlike
    <3>. QED BY <1>7, <2>3, <2>4, <3>6 DEF Parts
  <2>5. CASE p.code # "ok" /\ (d.blankCatalog \/ ~FitsPage(TableRecord(normal, table)))
    <3>1. ~fits
      BY <1>3, <2>5 DEF Whole
    <3>. QED BY <1>7, <2>3, <2>5, <3>1 DEF Parts
  <2>. QED BY <1>5, <2>1, <2>4, <2>5 DEF AfterTable, normal, table
<1>. QED BY <1>4, <1>6, <1>7

\* CREATE TABLE run on both databases keeps them consistent.
LEMMA CreateTableStep ==
    ASSUME NEW m, NEW d, NEW ag, Consistent(m, d, ag), NEW name \in Identifiers,
           NEW columns \in SeqsUpTo(ColumnDefinitions, MaxColumns),
           NEW s, s = [statement |-> "create_table", table |-> name, columns |-> columns],
           NEW o \in MemoryOutcomes(m, s), NEW p \in FileOutcomes(d, s), NEW after, AgreeAfter(ag, o, p, after)
    PROVE  Consistent(o.db, p.db, after)
<1>1. KnownInMemory(m) /\ KnownOnFiles(d)
  BY DEF Consistent
<1>2. KnownInMemory(o.db) /\ (Storable(o.db) => Storable(m))
  BY <1>1, CreateTableInMemory
<1>3. KnownOnFiles(p.db)
  BY <1>1, CreateTableOnFiles
<1>4. KnownAlike(m, d) /\ Storable(m) => Parts(o, p)
  BY CreateTableParts
<1>. QED BY <1>2, <1>3, <1>4, StepConsistent

-----------------------------------------------------------------------------
(***************************************************************************)
(* CREATE INDEX                                                            *)
(***************************************************************************)
\* The same rows in another order have the same keys twice.
LEMMA SameDuplicates ==
    ASSUME NEW a, NEW b, SameListing(a, b), NEW column
    PROVE  HasDuplicates(a, column) <=> HasDuplicates(b, column)
<1>1. PICK p : Bijects(p, DOMAIN a, DOMAIN b) /\ \A i \in DOMAIN a : a[i] = b[p[i]]
  BY DEF SameListing
<1>2. /\ p \in [DOMAIN a -> DOMAIN b] /\ (\A x, y \in DOMAIN a : p[x] = p[y] => x = y)
      /\ \A t \in DOMAIN b : \E x \in DOMAIN a : p[x] = t
  BY <1>1 DEF Bijects
<1>3. ASSUME HasDuplicates(a, column) PROVE HasDuplicates(b, column)
  <2>1. PICK i \in DOMAIN a, j \in DOMAIN a : i # j /\ a[i][column] = a[j][column]
    BY <1>3 DEF HasDuplicates
  <2>2. p[i] \in DOMAIN b /\ p[j] \in DOMAIN b /\ p[i] # p[j] /\ b[p[i]][column] = b[p[j]][column]
    BY <1>1, <1>2, <2>1
  <2>. QED BY <2>2 DEF HasDuplicates
<1>4. ASSUME HasDuplicates(b, column) PROVE HasDuplicates(a, column)
  <2>1. PICK i \in DOMAIN b, j \in DOMAIN b : i # j /\ b[i][column] = b[j][column]
    BY <1>4 DEF HasDuplicates
  <2>2. PICK x \in DOMAIN a : p[x] = i
    BY <1>2
  <2>3. PICK y \in DOMAIN a : p[y] = j
    BY <1>2
  <2>4. x # y /\ a[x][column] = a[y][column]
    BY <1>1, <2>1, <2>2, <2>3
  <2>. QED BY <2>4 DEF HasDuplicates
<1>. QED BY <1>3, <1>4

\* The record of the index called name.
IndexRecord(name, entry) ==
    EncodeIndexRecord([id |-> entry.id, name |-> name, table |-> entry.table, column |-> entry.column - 1, root |-> 0])

\* The database with an index more, and one in which it was taken back.
WithIndex(a, m, name, entry) ==
    /\ Shaped(a) /\ a.tables = m.tables /\ a.nextTable = m.nextTable /\ a.rows = m.rows
    /\ a.indexes = With(m.indexes, name, entry) /\ a.nextIndex = m.nextIndex + 1 /\ a.catalogFile = m.catalogFile
    /\ (Whole(m) => Whole(a))

IndexBack(a, m) ==
    /\ Shaped(a) /\ a.tables = m.tables /\ a.nextTable = m.nextTable /\ a.rows = m.rows
    /\ a.indexes = m.indexes /\ a.nextIndex = m.nextIndex + 1 /\ a.catalogFile = m.catalogFile
    /\ a.indexFile = m.indexFile

\* In memory an index is an entry of the catalog.
LEMMA IndexInMemory ==
    ASSUME NEW list, NEW m, InMemory(list, m), NEW t, NEW c, Placed(list, t, c), NEW name, name \notin DOMAIN m.indexes,
           NEW entry, entry.table = t, entry.column = c, NEW a, WithIndex(a, m, name, entry)
    PROVE  /\ InMemory(list, a)
           /\ Storable(a) <=> Storable(m) /\ ~HasDuplicates(m.rows[t], c) /\ FitsPage(IndexRecord(name, entry))
<1>0. /\ Shaped(a) /\ a.tables = m.tables /\ a.nextTable = m.nextTable /\ a.rows = m.rows
      /\ a.indexes = With(m.indexes, name, entry)
  BY DEF WithIndex
<1>1. /\ DOMAIN a.indexes = {name} \cup DOMAIN m.indexes /\ a.indexes[name] = entry
      /\ \A n \in DOMAIN m.indexes : a.indexes[n] = m.indexes[n]
  <2>1. DOMAIN a.indexes = {name} \cup DOMAIN m.indexes
    BY <1>0, WithDomain
  <2>2. a.indexes[name] = entry
    BY <1>0, WithValue
  <2>3. ASSUME NEW n \in DOMAIN m.indexes PROVE a.indexes[n] = m.indexes[n]
    <3>1. n # name
      OBVIOUS
    <3>. QED BY <1>0, <3>1, WithOthers
  <2>. QED BY <2>1, <2>2, <2>3
<1>2. InMemory(list, a)
  <2>1. ASSUME NEW n \in DOMAIN a.indexes PROVE Placed(list, a.indexes[n].table, a.indexes[n].column)
    <3>1. CASE n = name
      BY <1>1, <3>1
    <3>2. CASE n \in DOMAIN m.indexes
      BY <1>1, <3>2 DEF InMemory
    <3>. QED BY <1>1, <3>1, <3>2
  <2>. QED BY <1>0, <2>1 DEF InMemory
<1>3. UniqueKeys(a) <=> UniqueKeys(m) /\ ~HasDuplicates(m.rows[t], c)
  <2>1. ASSUME UniqueKeys(a) PROVE UniqueKeys(m) /\ ~HasDuplicates(m.rows[t], c)
    <3>1. \A n \in DOMAIN a.indexes : ~HasDuplicates(m.rows[a.indexes[n].table], a.indexes[n].column)
      BY <1>0, <2>1 DEF UniqueKeys
    <3>2. \A n \in DOMAIN m.indexes : ~HasDuplicates(m.rows[m.indexes[n].table], m.indexes[n].column)
      BY <1>1, <3>1
    <3>3. ~HasDuplicates(m.rows[t], c)
      BY <1>1, <3>1
    <3>. QED BY <3>2, <3>3, Zenon DEF UniqueKeys
  <2>2. ASSUME UniqueKeys(m), ~HasDuplicates(m.rows[t], c) PROVE UniqueKeys(a)
    <3>1. ASSUME NEW n \in DOMAIN a.indexes PROVE ~HasDuplicates(a.rows[a.indexes[n].table], a.indexes[n].column)
      <4>1. CASE n = name
        BY <1>0, <1>1, <2>2, <4>1
      <4>2. CASE n \in DOMAIN m.indexes
        BY <1>0, <1>1, <2>2, <4>2 DEF UniqueKeys
      <4>. QED BY <1>1, <4>1, <4>2
    <3>. QED BY <3>1, Zenon DEF UniqueKeys
  <2>. QED BY <2>1, <2>2
<1>4. (\A n \in DOMAIN a.indexes : StorableIndex(n, a.indexes[n]))
      <=> (\A n \in DOMAIN m.indexes : StorableIndex(n, m.indexes[n])) /\ FitsPage(IndexRecord(name, entry))
  <2>1. StorableIndex(name, entry) <=> FitsPage(IndexRecord(name, entry))
    BY Zenon DEF StorableIndex, IndexRecord
  <2>2. ASSUME \A n \in DOMAIN a.indexes : StorableIndex(n, a.indexes[n])
        PROVE  (\A n \in DOMAIN m.indexes : StorableIndex(n, m.indexes[n])) /\ FitsPage(IndexRecord(name, entry))
    <3>1. \A n \in DOMAIN m.indexes : StorableIndex(n, m.indexes[n])
      BY <1>1, <2>2
    <3>2. StorableIndex(name, entry)
      BY <1>1, <2>2
    <3>. QED BY <2>1, <3>1, <3>2
  <2>3. ASSUME \A n \in DOMAIN m.indexes : StorableIndex(n, m.indexes[n]), FitsPage(IndexRecord(name, entry)),
               NEW n \in DOMAIN a.indexes
        PROVE  StorableIndex(n, a.indexes[n])
    BY <1>1, <2>1, <2>3
  <2>. QED BY <2>2, <2>3
<1>5. (\A n \in DOMAIN a.tables : StorableTable(n, a.tables[n], a.rows[a.tables[n].id]))
      <=> \A n \in DOMAIN m.tables : StorableTable(n, m.tables[n], m.rows[m.tables[n].id])
  BY <1>0
<1>. QED BY <1>2, <1>3, <1>4, <1>5, Zenon DEF Storable

NewIndex(d, name, t, c) ==
    [id |-> d.nextIndex, table |-> t, column |-> c - 1, root |-> 0, name |-> name]

\* An index has a place in the file.
LEMMA IndexStored ==
    ASSUME NEW list, NEW indexes, NEW d, Listed(list), OnFiles(list, indexes, d), d.nextIndex <= MaxIndexId,
           NEW t, NEW c, Placed(list, t, c), NEW name \in StoredNames
    PROVE  NewIndex(d, name, t, c) \in StoredIndexes /\ c - 1 + 1 = c
<1>1. InvalidId \in Int /\ WordLimit \in Nat /\ InvalidId = WordLimit - 1 /\ WordLimit >= Power[CountBytes]
      /\ Power[CountBytes] \in Nat
  BY Widths
<1>2. MaxIndexId \in 1 .. InvalidId - 1
  BY IdAssumption
<1>3. d.nextIndex \in 1 .. InvalidId - 1
  <2>1. d.nextIndex \in 1 .. MaxIndexId + 1
    BY DEF OnFiles
  <2>. QED BY <1>1, <1>2, <2>1
<1>4. t \in 0 .. InvalidId - 1
  <2>1. t \in 1 .. InvalidId - 1
    BY OfList DEF Placed
  <2>. QED BY <1>1, <2>1
<1>5. c - 1 \in 0 .. WordLimit - 1 /\ c - 1 + 1 = c
  <2>1. t \in Ids(list) /\ c \in 1 .. Len(SchemaOf(list, t))
    BY DEF Placed
  <2>2. SchemaOf(list, t) \in StoredSchemas /\ Len(SchemaOf(list, t)) \in Nat
    BY <2>1, OfList
  <2>3. Len(SchemaOf(list, t)) < Power[CountBytes]
    BY <2>2 DEF StoredSchemas
  <2>. QED BY <1>1, <2>1, <2>2, <2>3
<1>6. 0 \in 0 .. InvalidId - 1
  BY <1>1, <1>2
<1>. DEFINE number == d.nextIndex
            column == c - 1
<1>. HIDE DEF number, column
<1>7. [id |-> number, table |-> t, column |-> column, root |-> 0, name |-> name] \in StoredIndexes
  BY <1>3, <1>4, <1>5, <1>6 DEF StoredIndexes, number, column
<1>. QED BY <1>5, <1>7 DEF NewIndex, number, column

\* On files its record is in the index catalog, and its keys are unique.
LEMMA IndexOnFiles ==
    ASSUME NEW list, NEW indexes, NEW d, Listed(list), Indexed(list, indexes), OnFiles(list, indexes, d),
           d.nextIndex <= MaxIndexId, NEW t, NEW c, Placed(list, t, c), NEW name \in StoredNames,
           name \notin DOMAIN d.indexes, ~HasDuplicates(RowsOf(list, d, t), c),
           NEW entry, entry = [id |-> d.nextIndex, table |-> t, column |-> c], NEW b, WithIndex(b, d, name, entry),
           b.indexFile = Append(d.indexFile, IndexRecord(name, entry))
    PROVE  LET more == Append(indexes, NewIndex(d, name, t, c))
           IN /\ OnFiles(list, more, b) /\ Indexed(list, more)
              /\ \A u : RowsOf(list, b, u) = RowsOf(list, d, u)
<1>. DEFINE e == NewIndex(d, name, t, c)
            more == Append(indexes, e)
            L == Len(indexes)
<1>1. e \in StoredIndexes /\ c - 1 + 1 = c
  BY IndexStored
<1>2. e.id = d.nextIndex /\ e.table = t /\ e.column + 1 = c /\ e.name = name
  BY <1>1 DEF NewIndex
<1>b. /\ b.indexes = With(d.indexes, name, [id |-> d.nextIndex, table |-> t, column |-> c])
      /\ Shaped(b) /\ b.tables = d.tables /\ b.nextTable = d.nextTable /\ b.rows = d.rows
      /\ b.catalogFile = d.catalogFile /\ b.nextIndex = d.nextIndex + 1
  BY DEF WithIndex
<1>3. indexes \in Seq(StoredIndexes) /\ NamesDiffer(indexes) /\ d.indexes = LoadedIndexes(indexes)
  BY DEF Indexed, OnFiles
<1>4. e.name \notin Named(indexes)
  <2>1. DOMAIN d.indexes = Named(indexes)
    BY <1>3, LoadedIndex
  <2>. HIDE DEF e
  <2>. QED BY <1>2, <2>1
<1>a. b.indexFile = Append(d.indexFile, EncodeIndexRecord(e))
  <2>1. e = [id |-> entry.id, name |-> name, table |-> entry.table, column |-> entry.column - 1, root |-> 0]
    BY DEF NewIndex
  <2>. HIDE DEF e
  <2>. QED BY <2>1 DEF IndexRecord
<1>. HIDE DEF e
<1>5. /\ more \in Seq(StoredIndexes) /\ L \in Nat
      /\ DOMAIN indexes = 1 .. L /\ DOMAIN more = 1 .. L + 1
      /\ more[L + 1] = e /\ (\A i \in 1 .. L : more[i] = indexes[i])
      /\ NamesDiffer(more)
  BY <1>1, <1>3, <1>4, ListGrown
<1>6. LoadedIndexes(more) = With(LoadedIndexes(indexes), e.name, [id |-> e.id, table |-> e.table, column |-> e.column + 1])
  BY <1>1, <1>3, <1>4, IndexAdded
<1>. HIDE DEF more, L
<1>7. b.indexes = LoadedIndexes(more)
  BY <1>2, <1>3, <1>6, <1>b
<1>8. \A i \in DOMAIN more : i = L + 1 \/ i \in DOMAIN indexes
  BY <1>5
<1>9. \A i \in DOMAIN indexes : i \in DOMAIN more /\ more[i] = indexes[i]
  BY <1>5
<1>10. \A u : RowsOf(list, b, u) = RowsOf(list, d, u)
  BY <1>b DEF RowsOf
<1>11. e.id <= MaxIndexId /\ Placed(list, e.table, e.column + 1)
  BY <1>2
<1>12. Indexed(list, more)
  <2>1. ASSUME NEW i \in DOMAIN more PROVE more[i].id <= MaxIndexId /\ Placed(list, more[i].table, more[i].column + 1)
    <3>1. CASE i = L + 1
      BY <1>5, <1>11, <3>1
    <3>2. CASE i \in DOMAIN indexes
      BY <1>9, <3>2 DEF Indexed
    <3>. QED BY <1>8, <3>1, <3>2
  <2>. QED BY <1>5, <2>1 DEF Indexed
<1>13. b.indexFile = [i \in DOMAIN more |-> EncodeIndexRecord(more[i])]
  <2>. DEFINE g == [i \in 1 .. L + 1 |-> EncodeIndexRecord(more[i])]
  <2>1. d.indexFile = [i \in 1 .. L |-> g[i]]
    <3>1. d.indexFile = [i \in 1 .. L |-> EncodeIndexRecord(indexes[i])]
      BY <1>5 DEF OnFiles
    <3>2. \A i \in 1 .. L : g[i] = EncodeIndexRecord(indexes[i])
      BY <1>5
    <3>. HIDE DEF g
    <3>. QED BY <3>1, <3>2
  <2>2. g[L + 1] = EncodeIndexRecord(e) /\ DOMAIN g = 1 .. L + 1 /\ g = [i \in 1 .. L + 1 |-> g[i]]
    BY <1>5
  <2>. HIDE DEF g
  <2>3. Append([i \in 1 .. L |-> g[i]], g[L + 1]) = [i \in 1 .. L + 1 |-> g[i]]
    BY <1>5, <2>2, MappedGrown
  <2>4. b.indexFile = g
    BY <1>a, <2>1, <2>2, <2>3, Zenon
  <2>. QED BY <1>5, <2>4 DEF g
<1>14. ASSUME NEW i \in DOMAIN more
       PROVE  ~HasDuplicates(RowsOf(list, b, more[i].table), more[i].column + 1)
  <2>1. CASE i = L + 1
    BY <1>2, <1>5, <1>10, <2>1
  <2>2. CASE i \in DOMAIN indexes
    <3>1. ~HasDuplicates(RowsOf(list, d, indexes[i].table), indexes[i].column + 1)
      BY <2>2 DEF OnFiles
    <3>. QED BY <1>9, <1>10, <2>2, <3>1
  <2>. QED BY <1>8, <2>1, <2>2
<1>15. b.nextIndex \in 1 .. MaxIndexId + 1
  <2>1. d.nextIndex \in 1 .. MaxIndexId + 1
    BY DEF OnFiles
  <2>2. MaxIndexId \in Nat
    BY IdAssumption, Widths
  <2>. QED BY <1>b, <2>1, <2>2
<1>16. OnFiles(list, more, b)
  <2>1. /\ b.tables = LoadedTables(list) /\ Shaped(b) /\ Numbered(list, b.nextTable)
        /\ b.catalogFile = [i \in DOMAIN list |-> EncodeCatalogRecord(list[i])]
        /\ b.rows \in [Ids(list) -> Seq(Seq(Bytes))]
        /\ \A u \in Ids(list) : \A i \in DOMAIN b.rows[u] : Stored(SchemaOf(list, u), b.rows[u][i])
    BY <1>b DEF OnFiles
  <2>. QED BY <1>7, <1>13, <1>14, <1>15, <2>1, Zenon DEF OnFiles
<1>. QED BY <1>10, <1>12, <1>16 DEF more, e

\* An index that is taken back leaves its number used.
LEMMA IndexTakenBack ==
    ASSUME NEW list, NEW indexes, NEW d, OnFiles(list, indexes, d), d.nextIndex <= MaxIndexId, NEW b, IndexBack(b, d)
    PROVE  OnFiles(list, indexes, b)
<1>1. b.nextIndex \in 1 .. MaxIndexId + 1
  <2>1. d.nextIndex \in 1 .. MaxIndexId + 1 /\ b.nextIndex = d.nextIndex + 1
    BY DEF OnFiles, IndexBack
  <2>2. MaxIndexId \in Nat
    BY IdAssumption, Widths
  <2>. QED BY <2>1, <2>2
<1>2. \A u : RowsOf(list, b, u) = RowsOf(list, d, u)
  BY DEF RowsOf, IndexBack
<1>3. \A i \in DOMAIN indexes : ~HasDuplicates(RowsOf(list, b, indexes[i].table), indexes[i].column + 1)
  <2>. TAKE i \in DOMAIN indexes
  <2>1. ~HasDuplicates(RowsOf(list, d, indexes[i].table), indexes[i].column + 1)
    BY DEF OnFiles
  <2>. QED BY <1>2, <2>1
<1>4. /\ b.tables = LoadedTables(list) /\ b.indexes = LoadedIndexes(indexes) /\ Shaped(b) /\ Numbered(list, b.nextTable)
      /\ b.catalogFile = [i \in DOMAIN list |-> EncodeCatalogRecord(list[i])]
      /\ b.indexFile = [i \in DOMAIN indexes |-> EncodeIndexRecord(indexes[i])]
      /\ b.rows \in [Ids(list) -> Seq(Seq(Bytes))]
      /\ \A u \in Ids(list) : \A i \in DOMAIN b.rows[u] : Stored(SchemaOf(list, u), b.rows[u][i])
  BY DEF OnFiles, IndexBack
<1>. QED BY <1>1, <1>3, <1>4, Zenon DEF OnFiles

\* Neither the name nor the column has an index.
Unindexed(db, name, table, c) == name \notin DOMAIN db.indexes /\ IndexesFor(db, table, c) = {}

\* CREATE INDEX that changes nothing, and where it takes a number.
IndexRefused(m, o, name, table, c) ==
    \/ ~Unindexed(m, name, table, c) /\ o.db = m /\ o.code = "already_exists"
    \/ Unindexed(m, name, table, c) /\ m.nextIndex > MaxIndexId /\ o.db = m /\ o.code = "resource_exhausted"

IndexNumbered(m, name, table, c) == Unindexed(m, name, table, c) /\ ~ (m.nextIndex > MaxIndexId)

\* What CREATE INDEX does in memory: refuse, or have one index more.
LEMMA IndexOutcomesInMemory ==
    ASSUME NEW m, NEW s, s.statement = "create_index", Binds(m, s), Shaped(m), NEW o \in MemoryOutcomes(m, s),
           NEW name, name = NormalizeIdentifier(s.index), NEW table, table = Table(m, s.table),
           NEW c, c = Column(table, s.column), NEW entry, entry = [id |-> m.nextIndex, table |-> table.id, column |-> c]
    PROVE  \/ IndexRefused(m, o, name, table, c)
           \/ IndexNumbered(m, name, table, c) /\ o.code = "ok" /\ WithIndex(o.db, m, name, entry)
<1>. DEFINE numbered == [m EXCEPT !.nextIndex = @ + 1]
            new == [numbered EXCEPT !.indexes = With(@, name, entry)]
<1>1. o \in CreateIndex(m, FALSE, s)
  BY DEF MemoryOutcomes, Outcomes
<1>2. \/ ~Unindexed(m, name, table, c) /\ o = Outcome(m, "already_exists")
      \/ Unindexed(m, name, table, c) /\ m.nextIndex > MaxIndexId /\ o = Outcome(m, "resource_exhausted")
      \/ Unindexed(m, name, table, c) /\ ~ (m.nextIndex > MaxIndexId) /\ o = Outcome(new, "ok")
  BY <1>1 DEF CreateIndex, Unindexed
<1>3. WithIndex(new, m, name, entry)
  <2>1. DOMAIN m = DatabaseParts
    BY DEF Shaped
  <2>. HIDE DEF Unindexed
  <2>2. /\ new.tables = m.tables /\ new.nextTable = m.nextTable /\ new.rows = m.rows
        /\ new.indexes = With(m.indexes, name, entry) /\ new.nextIndex = m.nextIndex + 1
        /\ new.catalogFile = m.catalogFile /\ new.blankHeaps = m.blankHeaps
        /\ new.blankCatalog = m.blankCatalog /\ new.blankIndexCatalog = m.blankIndexCatalog
    BY <2>1 DEF DatabaseParts
  <2>3. new = [part \in DatabaseParts |-> new[part]]
    BY <2>1
  <2>. HIDE DEF new
  <2>. QED BY <2>2, <2>3, Zenon DEF Shaped, WithIndex, Whole
<1>. HIDE DEF new
<1>4. CASE Unindexed(m, name, table, c) /\ ~ (m.nextIndex > MaxIndexId) /\ o = Outcome(new, "ok")
  <2>1. o.db = new /\ o.code = "ok"
    BY <1>4 DEF Outcome
  <2>. QED BY <1>3, <1>4, <2>1 DEF IndexNumbered
<1>5. CASE \/ ~Unindexed(m, name, table, c) /\ o = Outcome(m, "already_exists")
           \/ Unindexed(m, name, table, c) /\ m.nextIndex > MaxIndexId /\ o = Outcome(m, "resource_exhausted")
  <2>1. IndexRefused(m, o, name, table, c)
    BY <1>5 DEF Outcome, IndexRefused
  <2>. QED BY <2>1
<1>. QED BY <1>2, <1>4, <1>5

\* And on files, where it is also taken back.
AfterIndex(d, p, name, table, c, rows, entry) ==
    \/ IndexRefused(d, p, name, table, c)
    \/ /\ IndexNumbered(d, name, table, c) /\ p.code # "ok" /\ IndexBack(p.db, d)
       /\ Whole(d) => HasDuplicates(rows, c) \/ ~FitsPage(IndexRecord(name, entry))
    \/ /\ IndexNumbered(d, name, table, c) /\ p.code = "ok" /\ WithIndex(p.db, d, name, entry)
       /\ ~HasDuplicates(rows, c) /\ FitsPage(IndexRecord(name, entry))
       /\ p.db.indexFile = Append(d.indexFile, IndexRecord(name, entry))

\* What CREATE INDEX can leave in the files.
LEMMA IndexOutcomesOnFiles ==
    ASSUME NEW d, NEW s, s.statement = "create_index", Binds(d, s), Shaped(d), NEW p \in FileOutcomes(d, s),
           NEW name, name = NormalizeIdentifier(s.index), NEW table, table = Table(d, s.table),
           NEW c, c = Column(table, s.column),
           NEW rows, rows = Scan(d, TRUE, table), NEW entry, entry = [id |-> d.nextIndex, table |-> table.id, column |-> c]
    PROVE  AfterIndex(d, p, name, table, c, rows, entry)
<1>. DEFINE record == IndexRecord(name, entry)
            numbered == [d EXCEPT !.nextIndex = @ + 1]
            created == [numbered EXCEPT !.indexes = With(@, name, entry)]
            more == [created EXCEPT !.indexFile = Append(@, record)]
            back(blank) == [numbered EXCEPT !.blankIndexCatalog = blank]
            answers == Appends(record, d.indexFile, d.blankIndexCatalog)
            big == d.nextIndex > MaxIndexId
            twice == HasDuplicates(rows, c)
            free == Unindexed(d, name, table, c)
            scanned == Scannable(d, table)
<1>1. p \in CreateIndex(d, TRUE, s)
  BY DEF FileOutcomes, Outcomes
<1>2. CreateIndex(d, TRUE, s) =
        IF ~free THEN {Outcome(d, "already_exists")}
        ELSE IF big THEN {Outcome(d, "resource_exhausted")}
        ELSE IF ~scanned THEN {Outcome(numbered, "corruption")}
        ELSE IF twice THEN {Outcome(numbered, "already_exists")}
        ELSE {IF a.code = "ok" THEN Outcome(more, "ok") ELSE Outcome(back(a.blank), a.code) : a \in answers}
  <2>1. record = EncodeIndexRecord([id |-> d.nextIndex, name |-> name, table |-> table.id, column |-> c - 1, root |-> 0])
    BY DEF IndexRecord
  <2>2. (name \in DOMAIN d.indexes \/ IndexesFor(d, table, c) # {}) <=> ~free
    BY DEF Unindexed
  <2>3. CreateIndex(d, TRUE, s) =
        IF name \in DOMAIN d.indexes \/ IndexesFor(d, table, c) # {} THEN {Outcome(d, "already_exists")}
        ELSE IF big THEN {Outcome(d, "resource_exhausted")}
        ELSE IF ~scanned THEN {Outcome(numbered, "corruption")}
        ELSE IF twice THEN {Outcome(numbered, "already_exists")}
        ELSE {IF a.code = "ok" THEN Outcome(more, "ok") ELSE Outcome(back(a.blank), a.code) : a \in answers}
    BY <2>1 DEF CreateIndex
  <2>. HIDE DEF free, record, numbered, created, more, back, answers, big, twice, scanned
  <2>. QED BY <2>2, <2>3
<1>3. /\ answers \subseteq [code : {"ok", "resource_exhausted", "corruption"}, blank : BOOLEAN]
      /\ \A a \in answers : /\ a.code = "ok" => FitsPage(record)
                            /\ a.code # "ok" => d.blankIndexCatalog \/ ~FitsPage(record)
  BY DEF Appends
<1>4. IndexBack(numbered, d) /\ \A blank : IndexBack(back(blank), d)
  <2>1. DOMAIN d = DatabaseParts
    BY DEF Shaped
  <2>. HIDE DEF record
  <2>2. /\ numbered.tables = d.tables /\ numbered.nextTable = d.nextTable /\ numbered.rows = d.rows
        /\ numbered.indexes = d.indexes /\ numbered.nextIndex = d.nextIndex + 1
        /\ numbered.catalogFile = d.catalogFile /\ numbered.indexFile = d.indexFile /\ DOMAIN numbered = DatabaseParts
    BY <2>1 DEF DatabaseParts
  <2>3. numbered = [part \in DatabaseParts |-> numbered[part]]
    BY <2>1
  <2>. HIDE DEF numbered
  <2>4. ASSUME NEW blank PROVE IndexBack(back(blank), d)
    <3>. DEFINE b == back(blank)
    <3>1. /\ b.tables = d.tables /\ b.nextTable = d.nextTable /\ b.rows = d.rows
          /\ b.indexes = d.indexes /\ b.nextIndex = d.nextIndex + 1
          /\ b.catalogFile = d.catalogFile /\ b.indexFile = d.indexFile
      BY <2>2 DEF DatabaseParts
    <3>2. b = [part \in DatabaseParts |-> b[part]]
      BY <2>2
    <3>. HIDE DEF b
    <3>3. IndexBack(b, d)
      BY <3>1, <3>2, Zenon DEF Shaped, IndexBack
    <3>. QED BY <3>3 DEF b
  <2>5. IndexBack(numbered, d)
    BY <2>2, <2>3, Zenon DEF Shaped, IndexBack
  <2>. QED BY <2>4, <2>5
<1>5. WithIndex(more, d, name, entry) /\ more.indexFile = Append(d.indexFile, record)
  <2>1. DOMAIN d = DatabaseParts
    BY DEF Shaped
  <2>. HIDE DEF record
  <2>2. /\ more.tables = d.tables /\ more.nextTable = d.nextTable /\ more.rows = d.rows
        /\ more.indexes = With(d.indexes, name, entry) /\ more.nextIndex = d.nextIndex + 1
        /\ more.catalogFile = d.catalogFile /\ more.blankHeaps = d.blankHeaps
        /\ more.blankCatalog = d.blankCatalog /\ more.blankIndexCatalog = d.blankIndexCatalog
        /\ more.indexFile = Append(d.indexFile, record)
    BY <2>1 DEF DatabaseParts
  <2>3. more = [part \in DatabaseParts |-> more[part]]
    BY <2>1
  <2>. HIDE DEF more
  <2>. QED BY <2>2, <2>3, Zenon DEF Shaped, WithIndex, Whole
<1>6. ~scanned => ~Whole(d)
  BY DEF Scannable, Whole
<1>7. d.blankIndexCatalog => ~Whole(d)
  BY DEF Whole
<1>8. IndexNumbered(d, name, table, c) <=> free /\ ~big
  BY DEF IndexNumbered
<1>. HIDE DEF record, numbered, created, more, back, answers, free, scanned, twice
<1>9. CASE ~free \/ big
  <2>. HIDE DEF big
  <2>1. \/ ~free /\ p \in {Outcome(d, "already_exists")}
        \/ free /\ big /\ p \in {Outcome(d, "resource_exhausted")}
    BY <1>1, <1>2, <1>9, Zenon
  <2>2. IndexRefused(d, p, name, table, c)
    BY <2>1 DEF IndexRefused, Outcome, free, big
  <2>. QED BY <2>2 DEF AfterIndex
<1>10. CASE free /\ ~big
  <2>. HIDE DEF big
  <2>1. CASE ~scanned \/ twice
    <3>1. p \in {Outcome(numbered, "corruption"), Outcome(numbered, "already_exists")} /\ (~scanned \/ twice)
      <4>1. CASE ~scanned
        BY <1>1, <1>2, <1>10, <4>1
      <4>2. CASE scanned /\ twice
        BY <1>1, <1>2, <1>10, <4>2
      <4>. QED BY <2>1, <4>1, <4>2
    <3>2. p.db = numbered /\ p.code # "ok"
      BY <3>1 DEF Outcome
    <3>3. Whole(d) => twice
      BY <1>6, <2>1
    <3>. QED BY <1>4, <1>8, <1>10, <3>2, <3>3 DEF AfterIndex, twice
  <2>2. CASE scanned /\ ~twice
    <3>1. p \in {IF a.code = "ok" THEN Outcome(more, "ok") ELSE Outcome(back(a.blank), a.code) : a \in answers}
      BY <1>1, <1>2, <1>10, <2>2, Zenon
    <3>2. PICK a \in answers : p = IF a.code = "ok" THEN Outcome(more, "ok") ELSE Outcome(back(a.blank), a.code)
      BY <3>1
    <3>3. CASE a.code = "ok"
      <4>1. p.db = more /\ p.code = "ok"
        BY <3>2, <3>3 DEF Outcome
      <4>2. FitsPage(record)
        BY <1>3, <3>3
      <4>. QED BY <1>5, <1>8, <1>10, <2>2, <4>1, <4>2 DEF AfterIndex, twice, record
    <3>4. CASE a.code # "ok"
      <4>1. p = Outcome(back(a.blank), a.code)
        BY <3>2, <3>4
      <4>2. p.db = back(a.blank) /\ p.code = a.code
        BY <4>1 DEF Outcome
      <4>3. IndexBack(p.db, d)
        BY <1>4, <4>2, Zenon
      <4>4. Whole(d) => ~FitsPage(record)
        BY <1>3, <1>7, <3>4
      <4>. QED BY <1>8, <1>10, <3>4, <4>2, <4>3, <4>4 DEF AfterIndex, record
    <3>. QED BY <3>3, <3>4
  <2>. QED BY <2>1, <2>2
<1>. QED BY <1>9, <1>10

\* What a bound CREATE INDEX names: a table of the list and a column of it.
LEMMA IndexTarget ==
    ASSUME NEW list, Listed(list), NEW m, m.tables = LoadedTables(list), NEW index \in Identifiers, NEW text, NEW column,
           NEW s, s = [statement |-> "create_index", index |-> index, table |-> text, column |-> column], Binds(m, s)
    PROVE  \E t \in Ids(list) :
             /\ Table(m, s.table) = [id |-> t, schema |-> SchemaOf(list, t)]
             /\ Placed(list, t, Column(Table(m, s.table), s.column)) /\ NormalizeIdentifier(s.index) \in StoredNames
<1>. DEFINE table == Table(m, s.table)
            c == Column(table, s.column)
<1>1. s.statement = "create_index" /\ s.index = index /\ s.table = text /\ s.column = column
  OBVIOUS
<1>2. HasTable(m, text) /\ HasColumn(table, column)
  BY <1>1 DEF Binds
<1>3. PICK t \in Ids(list) : table = [id |-> t, schema |-> SchemaOf(list, t)]
  BY <1>1, <1>2, TableFound
<1>4. NormalizeIdentifier(s.index) \in StoredNames
  BY <1>1, NormalNames
<1>. HIDE DEF table
<1>5. Placed(list, t, c)
  <2>1. SchemaOf(list, t) \in StoredSchemas
    BY OfList
  <2>2. table.schema = SchemaOf(list, t)
    BY <1>3
  <2>3. c \in 1 .. Len(SchemaOf(list, t))
    BY <1>1, <1>2, <2>1, <2>2, ColumnFound
  <2>. QED BY <2>3 DEF Placed
<1>. QED BY <1>3, <1>4, <1>5 DEF table

\* CREATE INDEX leaves the tables in memory.
LEMMA CreateIndexInMemory ==
    ASSUME NEW m, KnownInMemory(m), NEW index \in Identifiers, NEW text, NEW column,
           NEW s, s = [statement |-> "create_index", index |-> index, table |-> text, column |-> column],
           NEW o \in MemoryOutcomes(m, s)
    PROVE  KnownInMemory(o.db) /\ (Storable(o.db) => Storable(m))
<1>1. PICK list : Listed(list) /\ InMemory(list, m)
  BY DEF KnownInMemory
<1>2. Shaped(m) /\ m.tables = LoadedTables(list) /\ s.statement = "create_index"
  BY <1>1 DEF InMemory
<1>3. CASE ~Binds(m, s)
  <2>1. o = Outcome(m, "refused")
    BY <1>3 DEF MemoryOutcomes, Outcomes
  <2>2. o.db = m
    BY <2>1 DEF Outcome
  <2>. QED BY <2>2
<1>4. CASE Binds(m, s)
  <2>. DEFINE name == NormalizeIdentifier(s.index)
              table == Table(m, s.table)
              c == Column(table, s.column)
              entry == [id |-> m.nextIndex, table |-> table.id, column |-> c]
  <2>1. PICK t \in Ids(list) : table = [id |-> t, schema |-> SchemaOf(list, t)] /\ Placed(list, t, c)
    BY <1>1, <1>2, <1>4, IndexTarget
  <2>2. \/ IndexRefused(m, o, name, table, c)
        \/ IndexNumbered(m, name, table, c) /\ o.code = "ok" /\ WithIndex(o.db, m, name, entry)
    BY <1>2, <1>4, IndexOutcomesInMemory
  <2>. HIDE DEF name, table, c
  <2>3. CASE IndexRefused(m, o, name, table, c)
    <3>1. o.db = m
      BY <2>3 DEF IndexRefused
    <3>. QED BY <3>1
  <2>4. CASE IndexNumbered(m, name, table, c) /\ WithIndex(o.db, m, name, entry)
    <3>1. entry.table = t /\ entry.column = c /\ name \notin DOMAIN m.indexes
      BY <2>1, <2>4 DEF IndexNumbered, Unindexed
    <3>. HIDE DEF entry
    <3>2. InMemory(list, o.db)
      BY <1>1, <2>1, <2>4, <3>1, IndexInMemory
    <3>3. Storable(o.db) => Storable(m)
      BY <1>1, <2>1, <2>4, <3>1, IndexInMemory
    <3>. QED BY <1>1, <3>2, <3>3, Zenon DEF KnownInMemory
  <2>. QED BY <2>2, <2>3, <2>4
<1>. QED BY <1>3, <1>4

\* And those in the files.
LEMMA CreateIndexOnFiles ==
    ASSUME NEW d, KnownOnFiles(d), NEW index \in Identifiers, NEW text, NEW column,
           NEW s, s = [statement |-> "create_index", index |-> index, table |-> text, column |-> column],
           NEW p \in FileOutcomes(d, s)
    PROVE  KnownOnFiles(p.db)
<1>1. PICK list, indexes : Listed(list) /\ Indexed(list, indexes) /\ OnFiles(list, indexes, d)
  BY DEF KnownOnFiles
<1>2. Shaped(d) /\ d.tables = LoadedTables(list) /\ s.statement = "create_index"
  BY <1>1 DEF OnFiles
<1>3. CASE ~Binds(d, s)
  <2>1. p = Outcome(d, "refused")
    BY <1>3 DEF FileOutcomes, Outcomes
  <2>2. p.db = d
    BY <2>1 DEF Outcome
  <2>. QED BY <2>2
<1>4. CASE Binds(d, s)
  <2>. DEFINE name == NormalizeIdentifier(s.index)
              table == Table(d, s.table)
              c == Column(table, s.column)
              rows == Scan(d, TRUE, table)
              entry == [id |-> d.nextIndex, table |-> table.id, column |-> c]
  <2>1. PICK t \in Ids(list) : table = [id |-> t, schema |-> SchemaOf(list, t)] /\ Placed(list, t, c) /\ name \in StoredNames
    BY <1>1, <1>2, <1>4, IndexTarget
  <2>2. AfterIndex(d, p, name, table, c, rows, entry)
    BY <1>2, <1>4, IndexOutcomesOnFiles, ZenonT(60)
  <2>. HIDE DEF name, table, c
  <2>3. rows = RowsOf(list, d, t)
    BY <2>1, ScanOfFiles, Zenon
  <2>4. IndexNumbered(d, name, table, c) => d.nextIndex <= MaxIndexId /\ name \notin DOMAIN d.indexes
    <3>1. d.nextIndex \in 1 .. MaxIndexId + 1 /\ MaxIndexId \in 1 .. InvalidId - 1 /\ InvalidId \in Int
      BY <1>1, IdAssumption, Widths DEF OnFiles
    <3>. QED BY <3>1 DEF IndexNumbered, Unindexed
  <2>5. CASE IndexRefused(d, p, name, table, c)
    <3>1. p.db = d
      BY <2>5 DEF IndexRefused
    <3>. QED BY <3>1
  <2>6. CASE IndexNumbered(d, name, table, c) /\ IndexBack(p.db, d)
    <3>1. OnFiles(list, indexes, p.db)
      BY <1>1, <2>4, <2>6, IndexTakenBack
    <3>. QED BY <1>1, <3>1, Zenon DEF KnownOnFiles
  <2>. HIDE DEF rows
  <2>7. CASE /\ IndexNumbered(d, name, table, c) /\ WithIndex(p.db, d, name, entry) /\ ~HasDuplicates(rows, c)
             /\ p.db.indexFile = Append(d.indexFile, IndexRecord(name, entry))
    <3>. DEFINE more == Append(indexes, NewIndex(d, name, t, c))
    <3>1. entry = [id |-> d.nextIndex, table |-> t, column |-> c]
      BY <2>1
    <3>. HIDE DEF entry
    <3>2. OnFiles(list, more, p.db) /\ Indexed(list, more)
      BY <1>1, <2>1, <2>3, <2>4, <2>7, <3>1, IndexOnFiles
    <3>. HIDE DEF more
    <3>. QED BY <1>1, <3>2, Zenon DEF KnownOnFiles
  <2>. QED BY <2>2, <2>5, <2>6, <2>7 DEF AfterIndex
<1>. QED BY <1>3, <1>4

\* Run on both, CREATE INDEX parts them when a key comes twice, or its record fits
\* no page.
LEMMA CreateIndexParts ==
    ASSUME NEW m, NEW d, KnownAlike(m, d), Storable(m), NEW index \in Identifiers, NEW text, NEW column,
           NEW s, s = [statement |-> "create_index", index |-> index, table |-> text, column |-> column],
           NEW o \in MemoryOutcomes(m, s), NEW p \in FileOutcomes(d, s)
    PROVE  Parts(o, p)
<1>1. PICK list, indexes :
        /\ Listed(list) /\ Indexed(list, indexes) /\ InMemory(list, m) /\ OnFiles(list, indexes, d)
        /\ Alike(list, indexes, m, d)
  BY DEF KnownAlike
<1>2. /\ Shaped(m) /\ Shaped(d) /\ m.tables = LoadedTables(list) /\ (Binds(m, s) <=> Binds(d, s))
      /\ Table(m, s.table) = Table(d, s.table) /\ s.statement = "create_index"
  BY <1>1, SameTables
<1>3. /\ m.nextTable = d.nextTable /\ d.nextTable = Len(list) + 1 /\ m.indexes = d.indexes
      /\ m.nextIndex = d.nextIndex /\ d.nextIndex = Len(indexes) + 1 /\ Whole(d)
      /\ (\A i \in DOMAIN list : list[i].id = i) /\ (\A i \in DOMAIN indexes : indexes[i].id = i)
      /\ \A t \in Ids(list) : SameListing(RowsOf(list, d, t), m.rows[t])
  BY <1>1 DEF Alike
<1>4. CASE ~Binds(m, s)
  <2>1. o = Outcome(m, "refused") /\ p = Outcome(d, "refused")
    BY <1>2, <1>4 DEF MemoryOutcomes, FileOutcomes, Outcomes
  <2>2. o.db = m /\ p.db = d /\ o.code = p.code
    BY <2>1 DEF Outcome
  <2>. QED BY <2>2, BothRefuse
<1>5. CASE Binds(m, s)
  <2>. DEFINE name == NormalizeIdentifier(s.index)
              table == Table(m, s.table)
              c == Column(table, s.column)
              rows == Scan(d, TRUE, table)
              entry == [id |-> m.nextIndex, table |-> table.id, column |-> c]
  <2>1. PICK t \in Ids(list) : table = [id |-> t, schema |-> SchemaOf(list, t)] /\ Placed(list, t, c) /\ name \in StoredNames
    BY <1>1, <1>2, <1>5, IndexTarget
  <2>2. \/ IndexRefused(m, o, name, table, c)
        \/ IndexNumbered(m, name, table, c) /\ o.code = "ok" /\ WithIndex(o.db, m, name, entry)
    BY <1>2, <1>5, IndexOutcomesInMemory
  <2>3. AfterIndex(d, p, name, table, c, rows, entry)
    <3>1. /\ Binds(d, s) /\ table = Table(d, s.table) /\ entry = [id |-> d.nextIndex, table |-> table.id, column |-> c]
          /\ name = NormalizeIdentifier(s.index) /\ c = Column(table, s.column) /\ rows = Scan(d, TRUE, table)
      BY <1>2, <1>3, <1>5
    <3>. HIDE DEF name, table, c, rows, entry
    <3>. QED BY <1>2, <3>1, IndexOutcomesOnFiles, ZenonT(60)
  <2>. HIDE DEF name, table, c
  <2>4. /\ Unindexed(m, name, table, c) <=> Unindexed(d, name, table, c)
        /\ IndexNumbered(m, name, table, c) <=> IndexNumbered(d, name, table, c)
    BY <1>3, Zenon DEF Unindexed, IndexesFor, IndexNumbered
  <2>5. rows = RowsOf(list, d, t) /\ (HasDuplicates(rows, c) <=> HasDuplicates(m.rows[t], c))
    <3>1. rows = RowsOf(list, d, t)
      BY <2>1, ScanOfFiles, Zenon
    <3>2. SameListing(RowsOf(list, d, t), m.rows[t])
      BY <1>3
    <3>. HIDE DEF rows
    <3>. QED BY <3>1, <3>2, SameDuplicates
  <2>. HIDE DEF rows
  <2>6. CASE IndexRefused(m, o, name, table, c)
    <3>1. ~IndexNumbered(d, name, table, c)
      BY <2>4, <2>6 DEF IndexRefused, IndexNumbered
    <3>2. IndexRefused(d, p, name, table, c)
      BY <2>3, <3>1 DEF AfterIndex
    <3>3. o.db = m /\ p.db = d /\ o.code = p.code
      BY <1>3, <2>4, <2>6, <3>2 DEF IndexRefused
    <3>. QED BY <3>3, BothRefuse
  <2>7. CASE IndexNumbered(m, name, table, c) /\ o.code = "ok" /\ WithIndex(o.db, m, name, entry)
    <3>1. ~IndexRefused(d, p, name, table, c) /\ IndexNumbered(d, name, table, c)
      BY <2>4, <2>7 DEF IndexRefused, IndexNumbered
    <3>2. entry.table = t /\ entry.column = c /\ name \notin DOMAIN m.indexes
          /\ entry = [id |-> d.nextIndex, table |-> t, column |-> c]
      BY <1>3, <2>1, <2>7 DEF IndexNumbered, Unindexed
    <3>3. d.nextIndex <= MaxIndexId
      <4>1. d.nextIndex \in 1 .. MaxIndexId + 1 /\ MaxIndexId \in 1 .. InvalidId - 1 /\ InvalidId \in Int
        BY <1>1, IdAssumption, Widths DEF OnFiles
      <4>. QED BY <3>1, <4>1 DEF IndexNumbered
    <3>. HIDE DEF entry
    <3>4. /\ InMemory(list, o.db)
          /\ Storable(o.db) <=> Storable(m) /\ ~HasDuplicates(m.rows[t], c) /\ FitsPage(IndexRecord(name, entry))
      BY <1>1, <2>1, <2>7, <3>2, IndexInMemory
    <3>5. CASE /\ p.code = "ok" /\ WithIndex(p.db, d, name, entry) /\ ~HasDuplicates(rows, c)
               /\ FitsPage(IndexRecord(name, entry)) /\ p.db.indexFile = Append(d.indexFile, IndexRecord(name, entry))
      <4>. DEFINE e == NewIndex(d, name, t, c)
                  more == Append(indexes, e)
                  L == Len(indexes)
      <4>1. OnFiles(list, more, p.db) /\ Indexed(list, more) /\ \A u : RowsOf(list, p.db, u) = RowsOf(list, d, u)
        <5>1. name \notin DOMAIN d.indexes
          BY <1>3, <3>2
        <5>. QED BY <1>1, <2>1, <2>5, <3>2, <3>3, <3>5, <5>1, IndexOnFiles
      <4>2. /\ p.db.nextTable = d.nextTable /\ o.db.nextTable = m.nextTable /\ Whole(p.db)
            /\ o.db.indexes = p.db.indexes /\ o.db.nextIndex = m.nextIndex + 1 /\ p.db.nextIndex = d.nextIndex + 1
            /\ o.db.rows = m.rows
        BY <1>3, <2>7, <3>5 DEF WithIndex
      <4>3. Len(more) = L + 1 /\ \A i \in DOMAIN more : more[i].id = i
        <5>1. indexes \in Seq(StoredIndexes) /\ d.nextIndex = L + 1 /\ e.id = d.nextIndex
          BY <1>1, <1>3 DEF Indexed, NewIndex
        <5>. HIDE DEF e
        <5>2. Len(more) = L + 1 /\ L \in Nat /\ DOMAIN indexes = 1 .. L /\ DOMAIN more = 1 .. L + 1 /\ more[L + 1] = e
              /\ \A i \in 1 .. L : more[i] = indexes[i]
          BY <5>1
        <5>. HIDE DEF more, L
        <5>3. \A i \in DOMAIN more : i = L + 1 \/ i \in 1 .. L
          BY <5>2
        <5>4. \A i \in DOMAIN more : more[i].id = i
          BY <1>3, <5>1, <5>2, <5>3
        <5>. QED BY <5>2, <5>4
      <4>. HIDE DEF more, e
      <4>4. \A u \in Ids(list) : SameListing(RowsOf(list, p.db, u), o.db.rows[u])
        BY <1>3, <4>1, <4>2
      <4>5. Alike(list, more, o.db, p.db)
        BY <1>3, <4>2, <4>3, <4>4 DEF Alike
      <4>6. KnownAlike(o.db, p.db)
        BY <1>1, <3>4, <4>1, <4>5, Zenon DEF KnownAlike
      <4>. QED BY <2>5, <2>7, <3>4, <3>5, <4>6 DEF Parts
    <3>6. CASE p.code # "ok" /\ (HasDuplicates(rows, c) \/ ~FitsPage(IndexRecord(name, entry)))
      BY <2>5, <2>7, <3>4, <3>6 DEF Parts
    <3>. QED BY <1>3, <2>3, <3>1, <3>5, <3>6 DEF AfterIndex
  <2>. QED BY <2>2, <2>6, <2>7
<1>. QED BY <1>4, <1>5

\* CREATE INDEX run on both databases keeps them consistent.
LEMMA CreateIndexStep ==
    ASSUME NEW m, NEW d, NEW ag, Consistent(m, d, ag), NEW index \in Identifiers, NEW text, NEW column,
           NEW s, s = [statement |-> "create_index", index |-> index, table |-> text, column |-> column],
           NEW o \in MemoryOutcomes(m, s), NEW p \in FileOutcomes(d, s), NEW after, AgreeAfter(ag, o, p, after)
    PROVE  Consistent(o.db, p.db, after)
<1>1. KnownInMemory(m) /\ KnownOnFiles(d)
  BY DEF Consistent
<1>2. KnownInMemory(o.db) /\ (Storable(o.db) => Storable(m))
  BY <1>1, CreateIndexInMemory
<1>3. KnownOnFiles(p.db)
  BY <1>1, CreateIndexOnFiles
<1>4. KnownAlike(m, d) /\ Storable(m) => Parts(o, p)
  BY CreateIndexParts
<1>. QED BY <1>2, <1>3, <1>4, StepConsistent

-----------------------------------------------------------------------------
(***************************************************************************)
(* INSERT                                                                  *)
(***************************************************************************)
\* What is listed alike twice over is listed alike.
LEMMA AlikeTwice ==
    ASSUME NEW a, NEW b, NEW c, SameListing(a, b), SameListing(b, c)
    PROVE  SameListing(a, c)
<1>1. PICK p : Bijects(p, DOMAIN a, DOMAIN b) /\ \A i \in DOMAIN a : a[i] = b[p[i]]
  BY DEF SameListing
<1>2. PICK q : Bijects(q, DOMAIN b, DOMAIN c) /\ \A i \in DOMAIN b : b[i] = c[q[i]]
  BY DEF SameListing
<1>. DEFINE r == [x \in DOMAIN a |-> q[p[x]]]
<1>3. Bijects(r, DOMAIN a, DOMAIN c)
  BY <1>1, <1>2, BijectsComposed
<1>4. ASSUME NEW i \in DOMAIN a PROVE a[i] = c[r[i]]
  <2>1. p[i] \in DOMAIN b
    BY <1>1 DEF Bijects
  <2>. QED BY <1>1, <1>2, <2>1
<1>. HIDE DEF r
<1>. QED BY <1>3, <1>4 DEF SameListing

\* A sequence with one more element at its end.
LEMMA Appended ==
    ASSUME NEW S, NEW s \in Seq(S), NEW e \in S, NEW more, more = Append(s, e), NEW L, L = Len(s)
    PROVE  /\ more \in Seq(S) /\ L \in Nat /\ DOMAIN s = 1 .. L /\ DOMAIN more = 1 .. L + 1
           /\ more[L + 1] = e /\ \A i \in 1 .. L : more[i] = s[i]
OBVIOUS

\* So do two lists with the same element more.
LEMMA AlikeAppended ==
    ASSUME NEW S, NEW a \in Seq(S), NEW b \in Seq(S), SameListing(a, b), NEW e \in S
    PROVE  SameListing(Append(a, e), Append(b, e))
<1>1. PICK p : Bijects(p, DOMAIN a, DOMAIN b) /\ \A i \in DOMAIN a : a[i] = b[p[i]]
  BY DEF SameListing
<1>. DEFINE K == Len(a)
            M == Len(b)
            x == Append(a, e)
            y == Append(b, e)
            q == [i \in 1 .. K + 1 |-> IF i = K + 1 THEN M + 1 ELSE p[i]]
<1>2. /\ x \in Seq(S) /\ K \in Nat /\ DOMAIN a = 1 .. K /\ DOMAIN x = 1 .. K + 1
      /\ x[K + 1] = e /\ \A i \in 1 .. K : x[i] = a[i]
  BY Appended
<1>3. /\ y \in Seq(S) /\ M \in Nat /\ DOMAIN b = 1 .. M /\ DOMAIN y = 1 .. M + 1
      /\ y[M + 1] = e /\ \A i \in 1 .. M : y[i] = b[i]
  BY Appended
<1>. HIDE DEF K, M, x, y
<1>4. p \in [1 .. K -> 1 .. M] /\ (\A i, j \in 1 .. K : p[i] = p[j] => i = j) /\ \A t \in 1 .. M : \E i \in 1 .. K : p[i] = t
  BY <1>1, <1>2, <1>3 DEF Bijects
<1>5. q[K + 1] = M + 1 /\ \A i \in 1 .. K : q[i] = p[i] /\ p[i] \in 1 .. M /\ p[i] # M + 1
  <2>1. K + 1 \in 1 .. K + 1 /\ \A i \in 1 .. K : i \in 1 .. K + 1 /\ i # K + 1
    BY <1>2
  <2>2. \A i \in 1 .. K : p[i] \in 1 .. M
    BY <1>4
  <2>3. \A j \in 1 .. M : j # M + 1
    BY <1>3
  <2>. QED BY <2>1, <2>2, <2>3
<1>6. q \in [1 .. K + 1 -> 1 .. M + 1]
  <2>1. \A i \in 1 .. K + 1 : i = K + 1 \/ i \in 1 .. K
    BY <1>2
  <2>2. M + 1 \in 1 .. M + 1 /\ \A j \in 1 .. M : j \in 1 .. M + 1
    BY <1>3
  <2>3. \A i \in 1 .. K + 1 : q[i] \in 1 .. M + 1
    <3>. HIDE DEF q
    <3>. QED BY <1>5, <2>1, <2>2
  <2>4. q = [i \in 1 .. K + 1 |-> q[i]]
    OBVIOUS
  <2>. HIDE DEF q
  <2>. QED BY <2>3, <2>4
<1>. HIDE DEF q
<1>7. \A i \in 1 .. K + 1 : i = K + 1 \/ i \in 1 .. K
  BY <1>2
<1>8. \A j \in 1 .. M + 1 : j = M + 1 \/ j \in 1 .. M
  BY <1>3
<1>9. ASSUME NEW i \in 1 .. K + 1, NEW j \in 1 .. K + 1, q[i] = q[j] PROVE i = j
  <2>1. CASE i = K + 1
    BY <1>5, <1>7, <1>9, <2>1
  <2>2. CASE j = K + 1
    BY <1>5, <1>7, <1>9, <2>2
  <2>3. CASE i \in 1 .. K /\ j \in 1 .. K
    BY <1>4, <1>5, <1>9, <2>3
  <2>. QED BY <1>7, <2>1, <2>2, <2>3
<1>10. ASSUME NEW t \in 1 .. M + 1 PROVE \E i \in 1 .. K + 1 : q[i] = t
  <2>1. CASE t = M + 1
    <3>1. K + 1 \in 1 .. K + 1
      BY <1>2
    <3>. QED BY <1>5, <2>1, <3>1
  <2>2. CASE t \in 1 .. M
    <3>1. PICK i \in 1 .. K : p[i] = t
      BY <1>4, <2>2
    <3>2. i \in 1 .. K + 1
      BY <1>2
    <3>. QED BY <1>5, <3>1, <3>2
  <2>. QED BY <1>8, <2>1, <2>2
<1>11. Bijects(q, DOMAIN x, DOMAIN y)
  BY <1>2, <1>3, <1>6, <1>9, <1>10 DEF Bijects
<1>12. ASSUME NEW i \in DOMAIN x PROVE x[i] = y[q[i]]
  <2>1. CASE i = K + 1
    BY <1>2, <1>3, <1>5, <2>1
  <2>2. CASE i \in 1 .. K
    BY <1>1, <1>2, <1>3, <1>5, <2>2
  <2>. QED BY <1>2, <1>7, <2>1, <2>2
<1>13. SameListing(x, y)
  BY <1>11, <1>12 DEF SameListing
<1>. QED BY <1>13 DEF x, y

\* The elements of a sequence with one inserted.
InsertedAt(old, new, k, e) ==
    /\ DOMAIN new = 1 .. Len(old) + 1
    /\ new[k] = e
    /\ \A i \in 1 .. Len(old) : (i < k => new[i] = old[i]) /\ (k <= i => new[i + 1] = old[i])

\* InsertAt puts the element where it says and moves the later ones up.
LEMMA InsertAtIs ==
    ASSUME NEW S, NEW s \in Seq(S), NEW k \in 1 .. Len(s) + 1, NEW e \in S
    PROVE  InsertAt(s, k, e) \in Seq(S) /\ InsertedAt(s, InsertAt(s, k, e), k, e)
<1>. DEFINE L == Len(s)
            a == SubSeq(s, 1, k - 1)
            b == SubSeq(s, k, L)
            r == a \o (<<e>> \o b)
            one == <<e>>
<1>0. L \in Nat /\ k \in Nat /\ k - 1 \in Nat /\ k - 1 <= L
  OBVIOUS
<1>1. a \in Seq(S) /\ Len(a) = k - 1 /\ \A i \in 1 .. k - 1 : a[i] = s[i]
  OBVIOUS
<1>2. b \in Seq(S) /\ Len(b) = L - k + 1 /\ \A i \in 1 .. L - k + 1 : b[i] = s[k + i - 1]
  <2>1. \A i \in k .. L : i \in 1 .. L
    BY <1>0
  <2>. QED BY <1>0, <2>1
<1>3. one \in Seq(S) /\ Len(one) = 1 /\ one[1] = e
  OBVIOUS
<1>4. InsertAt(s, k, e) = (a \o one) \o b
  BY DEF InsertAt
<1>. HIDE DEF a, b, one, L
<1>. DEFINE h == a \o one
            t == h \o b
<1>5. h \in Seq(S) /\ Len(h) = k /\ h[k] = e /\ \A i \in 1 .. k - 1 : h[i] = s[i]
  <2>. DEFINE l == k - 1
  <2>0. l \in Nat /\ k = l + 1 /\ Len(a) = l /\ \A i \in 1 .. l : a[i] = s[i]
    BY <1>0, <1>1
  <2>. HIDE DEF l
  <2>1. h = Append(a, e)
    BY <1>1 DEF one
  <2>2. h \in Seq(S) /\ DOMAIN h = 1 .. l + 1 /\ h[l + 1] = e /\ \A i \in 1 .. l : h[i] = a[i]
    BY <1>1, <2>0, <2>1, Appended
  <2>3. Len(h) = l + 1
    <3>. HIDE DEF h
    <3>. QED BY <2>0, <2>2
  <2>. HIDE DEF h
  <2>4. \A i \in 1 .. k - 1 : i \in 1 .. l
    BY <2>0
  <2>. QED BY <2>0, <2>2, <2>3, <2>4
<1>. HIDE DEF h
<1>6. t \in Seq(S) /\ Len(t) = L + 1 /\ DOMAIN t = 1 .. L + 1
  <2>1. t \in Seq(S) /\ Len(t) = Len(h) + Len(b)
    BY <1>2, <1>5, ConcatProperties, Zenon
  <2>2. Len(t) = L + 1
    <3>. HIDE DEF t
    <3>. QED BY <1>0, <1>2, <1>5, <2>1
  <2>. HIDE DEF t
  <2>. QED BY <2>1, <2>2
<1>p. \A i \in 1 .. Len(h) + Len(b) : t[i] = IF i <= Len(h) THEN h[i] ELSE b[i - Len(h)]
  BY <1>2, <1>5, ConcatProperties, Zenon
<1>7. t[k] = e
  <2>. HIDE DEF t
  <2>. QED BY <1>0, <1>2, <1>5, <1>p
<1>8. ASSUME NEW i \in 1 .. L PROVE (i < k => t[i] = s[i]) /\ (k <= i => t[i + 1] = s[i])
  <2>1. ASSUME i < k PROVE t[i] = s[i]
    <3>1. i \in 1 .. k - 1 /\ i \in 1 .. Len(h)
      BY <1>0, <1>5, <2>1
    <3>. HIDE DEF t
    <3>2. t[i] = h[i]
      BY <1>0, <1>2, <1>5, <1>p, <2>1, <3>1
    <3>. QED BY <1>5, <3>1, <3>2
  <2>2. ASSUME k <= i PROVE t[i + 1] = s[i]
    <3>. DEFINE j == i + 1 - k
    <3>1. j \in 1 .. L - k + 1 /\ i + 1 = k + j /\ k + j - 1 = i
      BY <1>0, <2>2
    <3>. HIDE DEF j
    <3>. HIDE DEF t
    <3>2. k + j \in 1 .. Len(h) + Len(b) /\ ~ (k + j <= k) /\ (k + j) - k = j
      BY <1>0, <1>2, <1>5, <3>1
    <3>3. t[k + j] = b[j]
      BY <1>5, <1>p, <3>2
    <3>. QED BY <1>2, <3>1, <3>3
  <2>. QED BY <2>1, <2>2
<1>9. InsertedAt(s, t, k, e)
  <2>. HIDE DEF t
  <2>. QED BY <1>6, <1>7, <1>8 DEF InsertedAt, L
<1>. QED BY <1>4, <1>6, <1>9 DEF h

\* Where it was inserted does not matter.
LEMMA InsertedAlike ==
    ASSUME NEW S, NEW old \in Seq(S), NEW e \in S, NEW new, NEW k \in 1 .. Len(old) + 1, InsertedAt(old, new, k, e)
    PROVE  SameListing(new, Append(old, e))
<1>. DEFINE L == Len(old)
            y == Append(old, e)
            q == [j \in 1 .. L + 1 |-> IF j < k THEN j ELSE IF j = k THEN L + 1 ELSE j - 1]
<1>1. /\ L \in Nat /\ DOMAIN old = 1 .. L /\ DOMAIN y = 1 .. L + 1
      /\ y[L + 1] = e /\ \A i \in 1 .. L : y[i] = old[i]
  BY Appended
<1>2. DOMAIN new = 1 .. L + 1 /\ new[k] = e
      /\ \A i \in 1 .. L : (i < k => new[i] = old[i]) /\ (k <= i => new[i + 1] = old[i])
  BY DEF InsertedAt
<1>. HIDE DEF L, y
<1>0. k \in 1 .. L + 1
  BY DEF L
<1>3. ASSUME NEW j \in 1 .. L + 1 PROVE q[j] \in 1 .. L + 1 /\ q[j] = IF j < k THEN j ELSE IF j = k THEN L + 1 ELSE j - 1
  BY <1>0, <1>1
<1>4. q \in [1 .. L + 1 -> 1 .. L + 1]
  <2>1. q = [j \in 1 .. L + 1 |-> q[j]]
    OBVIOUS
  <2>. HIDE DEF q
  <2>. QED BY <1>3, <2>1
<1>. HIDE DEF q
<1>a. ASSUME NEW j \in 1 .. L + 1 PROVE j < k \/ j = k \/ k < j
  BY <1>0, <1>1
<1>b. ASSUME NEW j \in 1 .. L + 1 PROVE (j < k => q[j] = j /\ j < L + 1) /\ (j = k => q[j] = L + 1) /\ (k < j => q[j] = j - 1 /\ k <= q[j] /\ q[j] < L + 1)
  BY <1>0, <1>1, <1>3
<1>5. ASSUME NEW i \in 1 .. L + 1, NEW j \in 1 .. L + 1, q[i] = q[j] PROVE i = j
  <2>1. /\ i \in Nat /\ j \in Nat /\ k \in Nat /\ L \in Nat
        /\ (i < k => q[i] = i /\ i < L + 1) /\ (i = k => q[i] = L + 1) /\ (k < i => q[i] = i - 1 /\ k <= q[i] /\ q[i] < L + 1)
        /\ (j < k => q[j] = j /\ j < L + 1) /\ (j = k => q[j] = L + 1) /\ (k < j => q[j] = j - 1 /\ k <= q[j] /\ q[j] < L + 1)
    BY <1>b, <1>0, <1>1
  <2>2. CASE i < k
    BY <2>1, <2>2, <1>5
  <2>3. CASE i = k
    BY <2>1, <2>3, <1>5
  <2>4. CASE k < i
    BY <2>1, <2>4, <1>5
  <2>. QED BY <1>a, <2>2, <2>3, <2>4
<1>6. ASSUME NEW t \in 1 .. L + 1 PROVE \E i \in 1 .. L + 1 : q[i] = t
  <2>1. CASE t < k
    BY <1>3, <2>1
  <2>2. CASE t = L + 1 /\ k <= t
    <3>1. q[k] = IF k < k THEN k ELSE IF k = k THEN L + 1 ELSE k - 1
      BY <1>0, <1>3
    <3>2. ~ (k < k)
      BY <1>0
    <3>. QED BY <1>0, <2>2, <3>1, <3>2
  <2>3. CASE t # L + 1 /\ k <= t
    <3>1. t + 1 \in 1 .. L + 1 /\ ~ (t + 1 < k) /\ t + 1 # k /\ (t + 1) - 1 = t
      BY <1>0, <1>1, <2>3
    <3>2. q[t + 1] = IF t + 1 < k THEN t + 1 ELSE IF t + 1 = k THEN L + 1 ELSE (t + 1) - 1
      BY <1>3, <3>1
    <3>. QED BY <3>1, <3>2
  <2>. QED BY <1>0, <1>1, <2>1, <2>2, <2>3
<1>7. Bijects(q, DOMAIN new, DOMAIN y)
  BY <1>1, <1>2, <1>4, <1>5, <1>6 DEF Bijects
<1>8. ASSUME NEW j \in DOMAIN new PROVE new[j] = y[q[j]]
  <2>0. j \in 1 .. L + 1 /\ q[j] = IF j < k THEN j ELSE IF j = k THEN L + 1 ELSE j - 1
    BY <1>2, <1>3
  <2>1. CASE j < k
    <3>1. j \in 1 .. L /\ q[j] = j
      BY <1>0, <1>1, <2>0, <2>1
    <3>. QED BY <1>1, <1>2, <2>1, <3>1
  <2>2. CASE j = k
    <3>1. q[j] = L + 1
      BY <1>0, <2>0, <2>2
    <3>. QED BY <1>1, <1>2, <2>2, <3>1
  <2>3. CASE ~ (j < k) /\ j # k
    <3>1. j - 1 \in 1 .. L /\ k <= j - 1 /\ (j - 1) + 1 = j /\ q[j] = j - 1
      BY <1>0, <1>1, <2>0, <2>3
    <3>2. new[(j - 1) + 1] = old[j - 1]
      BY <1>2, <3>1
    <3>. QED BY <1>1, <3>1, <3>2
  <2>. QED BY <2>1, <2>2, <2>3
<1>9. SameListing(new, y)
  BY <1>7, <1>8 DEF SameListing
<1>. QED BY <1>9 DEF y

\* A key comes twice when it did, or when the new row repeats one.
LEMMA AppendedDuplicates ==
    ASSUME NEW S, NEW rows \in Seq(S), NEW e \in S, NEW c
    PROVE  HasDuplicates(Append(rows, e), c) <=> HasDuplicates(rows, c) \/ \E i \in DOMAIN rows : rows[i][c] = e[c]
<1>. DEFINE L == Len(rows)
            y == Append(rows, e)
<1>1. /\ L \in Nat /\ DOMAIN rows = 1 .. L /\ DOMAIN y = 1 .. L + 1
      /\ y[L + 1] = e /\ \A i \in 1 .. L : y[i] = rows[i]
  BY Appended
<1>. HIDE DEF L, y
<1>2. /\ \A i \in DOMAIN y : i = L + 1 \/ i \in DOMAIN rows
      /\ \A i \in DOMAIN rows : i \in DOMAIN y /\ i # L + 1 /\ y[i] = rows[i]
      /\ L + 1 \in DOMAIN y
  BY <1>1
<1>3. HasDuplicates(y, c) <=> HasDuplicates(rows, c) \/ \E i \in DOMAIN rows : rows[i][c] = e[c]
  BY <1>1, <1>2 DEF HasDuplicates
<1>. QED BY <1>3 DEF y


\* A row of values has a key that an indexed column has already.
Repeats(indexes, t, rows, values) ==
    \E n \in DOMAIN indexes :
        indexes[n].table = t /\ \E i \in DOMAIN rows : rows[i][indexes[n].column] = values[indexes[n].column]

\* A row that is bound fits its table.
LEMMA BoundFits ==
    ASSUME NEW db, NEW s, s.statement = "insert", Binds(db, s), s.values \in Seq(Datums),
           NEW schema \in StoredSchemas, NEW t, Table(db, s.table) = [id |-> t, schema |-> schema]
    PROVE  Fits(schema, s.values)
<1>. DEFINE table == Table(db, s.table)
            values == s.values
<1>1. Len(values) = Len(table.schema) /\ \A i \in DOMAIN values : values[i].type = table.schema[i].type
  BY DEF Binds
<1>2. table.schema = schema
  OBVIOUS
<1>. HIDE DEF table
<1>3. schema \in Seq(StoredColumns) /\ values \in Seq(Datums)
  BY DEF StoredSchemas
<1>. HIDE DEF values
<1>4. DOMAIN values = DOMAIN schema
  <2>1. DOMAIN values = 1 .. Len(values) /\ DOMAIN schema = 1 .. Len(schema)
    BY <1>3
  <2>. QED BY <1>1, <1>2, <2>1
<1>5. Fits(schema, values)
  BY <1>1, <1>2, <1>3, <1>4 DEF Fits
<1>. QED BY <1>5 DEF values

WithRow(rows, t, row) == [rows EXCEPT ![t] = Append(rows[t], row)]
WithRecord(rows, t, k, record) == [rows EXCEPT ![t] = InsertAt(rows[t], k, record)]

\* The catalog is as it was: only rows were written.
SameCatalog(b, d) ==
    /\ Shaped(b) /\ b.tables = d.tables /\ b.nextTable = d.nextTable
    /\ b.indexes = d.indexes /\ b.nextIndex = d.nextIndex

\* A row was added in memory, or on files, or refused there.
RowAdded(a, m, t, values) == SameCatalog(a, m) /\ a.rows = WithRow(m.rows, t, values)

RecordAdded(b, d, t, k, record) ==
    /\ SameCatalog(b, d) /\ b.catalogFile = d.catalogFile /\ b.indexFile = d.indexFile
    /\ b.rows = WithRecord(d.rows, t, k, record) /\ (Whole(d) => Whole(b))

RowRefused(b, d) ==
    SameCatalog(b, d) /\ b.catalogFile = d.catalogFile /\ b.indexFile = d.indexFile /\ b.rows = d.rows

\* The tables of a catalog are those of its list.
LEMMA LoadedSchemas ==
    ASSUME NEW list, Listed(list), NEW tables, tables = LoadedTables(list)
    PROVE  /\ \A n \in DOMAIN tables : tables[n].id \in Ids(list) /\ tables[n].schema = SchemaOf(list, tables[n].id)
           /\ \A t \in Ids(list) : \E n \in DOMAIN tables : tables[n].id = t
<1>1. /\ DOMAIN tables = Named(list)
      /\ \A i \in DOMAIN list : /\ tables[list[i].name] = [id |-> list[i].id, schema |-> SchemaOf(list, list[i].id)]
                                /\ list[i].id \in Ids(list)
  BY OfList
<1>2. ASSUME NEW n \in DOMAIN tables
      PROVE  tables[n].id \in Ids(list) /\ tables[n].schema = SchemaOf(list, tables[n].id)
  <2>1. PICK i \in DOMAIN list : n = list[i].name
    BY <1>1 DEF Named
  <2>2. tables[n] = [id |-> list[i].id, schema |-> SchemaOf(list, list[i].id)]
    BY <1>1, <2>1
  <2>3. tables[n].id = list[i].id /\ tables[n].schema = SchemaOf(list, list[i].id)
    BY <2>2
  <2>4. list[i].id \in Ids(list)
    BY <1>1
  <2>. QED BY <2>3, <2>4
<1>3. ASSUME NEW t \in Ids(list) PROVE \E n \in DOMAIN tables : tables[n].id = t
  <2>1. PICK i \in DOMAIN list : list[i].id = t
    BY DEF Ids
  <2>2. list[i].name \in DOMAIN tables
    BY <1>1 DEF Named
  <2>3. tables[list[i].name] = [id |-> list[i].id, schema |-> SchemaOf(list, list[i].id)]
    BY <1>1
  <2>4. tables[list[i].name].id = t
    BY <2>1, <2>3
  <2>. QED BY <2>2, <2>4
<1>. QED BY <1>2, <1>3

\* In memory, the row is added; files hold it if it repeats no key and can be stored.
LEMMA RowInMemory ==
    ASSUME NEW list, Listed(list), NEW m, InMemory(list, m), NEW t \in Ids(list), NEW values \in Seq(Datums),
           Fits(SchemaOf(list, t), values), NEW a, RowAdded(a, m, t, values)
    PROVE  /\ InMemory(list, a)
           /\ Storable(a) <=> /\ Storable(m) /\ ~Repeats(m.indexes, t, m.rows[t], values)
                              /\ StorableRow(SchemaOf(list, t), values)
<1>. DEFINE old == m.rows[t]
            new == Append(old, values)
            L == Len(old)
            schema == SchemaOf(list, t)
<1>0. Shaped(a) /\ a.tables = m.tables /\ a.nextTable = m.nextTable /\ a.indexes = m.indexes
      /\ a.rows = WithRow(m.rows, t, values)
  BY DEF RowAdded, SameCatalog
<1>1. m.rows \in [Ids(list) -> Seq(Seq(Datums))] /\ old \in Seq(Seq(Datums))
  BY DEF InMemory
<1>2. /\ new \in Seq(Seq(Datums)) /\ L \in Nat /\ DOMAIN old = 1 .. L /\ DOMAIN new = 1 .. L + 1
      /\ new[L + 1] = values /\ \A i \in 1 .. L : new[i] = old[i]
  <2>. HIDE DEF old
  <2>. QED BY <1>1, Appended
<1>3. /\ a.rows \in [Ids(list) -> Seq(Seq(Datums))] /\ a.rows[t] = new
      /\ \A u \in Ids(list) : u # t => a.rows[u] = m.rows[u]
  <2>1. a.rows = [m.rows EXCEPT ![t] = new]
    BY <1>0 DEF WithRow
  <2>. HIDE DEF new
  <2>. QED BY <1>1, <1>2, <2>1
<1>4. ASSUME NEW c PROVE HasDuplicates(new, c) <=> HasDuplicates(old, c) \/ \E i \in DOMAIN old : old[i][c] = values[c]
  <2>. DEFINE S == Seq(Datums)
  <2>1. old \in Seq(S) /\ values \in S
    BY <1>1
  <2>. HIDE DEF S, old
  <2>. QED BY <2>1, AppendedDuplicates
<1>. HIDE DEF new, L
<1>5. \A i \in 1 .. L + 1 : i = L + 1 \/ i \in 1 .. L
  BY <1>2
<1>6. L + 1 \in 1 .. L + 1 /\ \A i \in 1 .. L : i \in 1 .. L + 1
  BY <1>2
<1>7. ASSUME NEW u \in Ids(list), NEW i \in DOMAIN a.rows[u] PROVE Fits(SchemaOf(list, u), a.rows[u][i])
  <2>1. \A j \in DOMAIN m.rows[u] : Fits(SchemaOf(list, u), m.rows[u][j])
    BY DEF InMemory
  <2>2. CASE u # t
    BY <1>3, <2>1, <2>2
  <2>3. CASE u = t
    BY <1>2, <1>3, <1>5, <2>1, <2>3
  <2>. QED BY <2>2, <2>3
<1>8. \A n \in DOMAIN m.indexes : m.indexes[n].table \in Ids(list)
  BY DEF InMemory, Placed
<1>9. InMemory(list, a)
  <2>1. /\ m.tables = LoadedTables(list) /\ Numbered(list, m.nextTable)
        /\ \A n \in DOMAIN m.indexes : Placed(list, m.indexes[n].table, m.indexes[n].column)
    BY DEF InMemory
  <2>. QED BY <1>0, <1>3, <1>7, <2>1 DEF InMemory
<1>10. UniqueKeys(a) <=> UniqueKeys(m) /\ ~Repeats(m.indexes, t, old, values)
  <2>. DEFINE ix == m.indexes
              Again(n) == ix[n].table = t /\ \E i \in DOMAIN old : old[i][ix[n].column] = values[ix[n].column]
  <2>1. ASSUME NEW n \in DOMAIN ix
        PROVE  HasDuplicates(a.rows[ix[n].table], ix[n].column) <=> HasDuplicates(m.rows[ix[n].table], ix[n].column) \/ Again(n)
    <3>1. CASE ix[n].table = t
      <4>1. a.rows[ix[n].table] = new /\ m.rows[ix[n].table] = old
        BY <1>3, <3>1
      <4>2. HasDuplicates(new, ix[n].column) <=> HasDuplicates(old, ix[n].column) \/ Again(n)
        BY <1>4, <3>1
      <4>. QED BY <4>1, <4>2
    <3>2. CASE ix[n].table # t
      <4>1. a.rows[ix[n].table] = m.rows[ix[n].table]
        BY <1>3, <1>8, <3>2
      <4>. QED BY <3>2, <4>1
    <3>. QED BY <3>1, <3>2
  <2>2. Repeats(ix, t, old, values) <=> \E n \in DOMAIN ix : Again(n)
    BY DEF Repeats
  <2>3. /\ UniqueKeys(a) <=> \A n \in DOMAIN ix : ~HasDuplicates(a.rows[ix[n].table], ix[n].column)
        /\ UniqueKeys(m) <=> \A n \in DOMAIN ix : ~HasDuplicates(m.rows[ix[n].table], ix[n].column)
    BY <1>0 DEF UniqueKeys
  <2>. HIDE DEF Again, ix
  <2>4. UniqueKeys(a) <=> UniqueKeys(m) /\ ~ \E n \in DOMAIN ix : Again(n)
    BY <2>1, <2>3
  <2>. QED BY <2>2, <2>4 DEF ix
<1>11. (\A n \in DOMAIN a.tables : StorableTable(n, a.tables[n], a.rows[a.tables[n].id]))
       <=> /\ \A n \in DOMAIN m.tables : StorableTable(n, m.tables[n], m.rows[m.tables[n].id])
           /\ StorableRow(schema, values)
  <2>. DEFINE T == m.tables
  <2>1. /\ \A n \in DOMAIN T : T[n].id \in Ids(list) /\ T[n].schema = SchemaOf(list, T[n].id)
        /\ \E n \in DOMAIN T : T[n].id = t
    <3>1. T = LoadedTables(list)
      BY DEF InMemory
    <3>. QED BY <3>1, LoadedSchemas
  <2>2. (\A i \in DOMAIN new : StorableRow(schema, new[i]))
        <=> (\A i \in DOMAIN old : StorableRow(schema, old[i])) /\ StorableRow(schema, values)
    BY <1>2, <1>5, <1>6
  <2>. HIDE DEF T
  <2>3. ASSUME NEW n \in DOMAIN T
        PROVE  StorableTable(n, T[n], a.rows[T[n].id])
               <=> StorableTable(n, T[n], m.rows[T[n].id]) /\ (T[n].id = t => StorableRow(schema, values))
    <3>1. CASE T[n].id = t
      <4>1. T[n].schema = schema /\ a.rows[T[n].id] = new /\ m.rows[T[n].id] = old
        BY <1>3, <2>1, <3>1
      <4>. HIDE DEF schema, old
      <4>2. StorableTable(n, T[n], new) <=> StorableTable(n, T[n], old) /\ StorableRow(schema, values)
        BY <2>2, <4>1 DEF StorableTable
      <4>. QED BY <3>1, <4>1, <4>2
    <3>2. CASE T[n].id # t
      <4>1. a.rows[T[n].id] = m.rows[T[n].id]
        BY <1>3, <2>1, <3>2
      <4>. QED BY <3>2, <4>1
    <3>. QED BY <3>1, <3>2
  <2>4. (\A n \in DOMAIN T : StorableTable(n, T[n], a.rows[T[n].id]))
        <=> (\A n \in DOMAIN T : StorableTable(n, T[n], m.rows[T[n].id])) /\ StorableRow(schema, values)
    BY <2>1, <2>3
  <2>. QED BY <1>0, <2>4 DEF T
<1>12. (\A n \in DOMAIN a.indexes : StorableIndex(n, a.indexes[n])) <=> \A n \in DOMAIN m.indexes : StorableIndex(n, m.indexes[n])
  BY <1>0
<1>13. Storable(a) <=> Storable(m) /\ ~Repeats(m.indexes, t, old, values) /\ StorableRow(schema, values)
  <2>. HIDE DEF old, schema
  <2>. QED BY <1>10, <1>11, <1>12, Zenon DEF Storable
<1>. QED BY <1>9, <1>13

\* On files, its record is put somewhere among the others, and no key is repeated.
LEMMA RowOnFiles ==
    ASSUME NEW list, NEW indexes, NEW d, Listed(list), Indexed(list, indexes), OnFiles(list, indexes, d),
           NEW t \in Ids(list), NEW values \in Seq(Datums), Encodable(SchemaOf(list, t), values),
           ~Repeats(d.indexes, t, RowsOf(list, d, t), values), NEW k \in 1 .. Len(d.rows[t]) + 1,
           NEW b, RecordAdded(b, d, t, k, EncodeRecord(SchemaOf(list, t), values))
    PROVE  /\ OnFiles(list, indexes, b)
           /\ SameListing(RowsOf(list, b, t), Append(RowsOf(list, d, t), values))
           /\ \A u \in Ids(list) : u # t => RowsOf(list, b, u) = RowsOf(list, d, u)
<1>. DEFINE schema == SchemaOf(list, t)
            record == EncodeRecord(schema, values)
            records == d.rows[t]
            new == InsertAt(records, k, record)
            old == RowsOf(list, d, t)
            rows == RowsOf(list, b, t)
            L == Len(records)
<1>a. /\ Shaped(b) /\ b.tables = d.tables /\ b.nextTable = d.nextTable /\ b.indexes = d.indexes /\ b.nextIndex = d.nextIndex
      /\ b.catalogFile = d.catalogFile /\ b.indexFile = d.indexFile /\ b.rows = WithRecord(d.rows, t, k, record)
  BY DEF RecordAdded, SameCatalog
<1>1. schema \in StoredSchemas
  BY OfList
<1>2. record \in Seq(Bytes) /\ DecodeRecord(schema, record) = [ok |-> TRUE, tuple |-> values]
  <2>1. record \in Seq(Bytes)
    <3>1. Reads(record, 0, RowFields(schema), <<FormatVersion, Len(schema)>> \o [i \in 1 .. Len(schema) |-> RawValue(values[i])])
      BY <1>1, RowReads
    <3>. QED BY <3>1, Zenon DEF Reads
  <2>2. DecodeRecord(schema, record) = [ok |-> TRUE, tuple |-> values]
    BY <1>1, RowRecordsDelimited
  <2>. QED BY <2>1, <2>2
<1>3. records \in Seq(Seq(Bytes)) /\ old \in Seq(Seq(Datums)) /\ Len(old) = L /\ L \in Nat /\ DOMAIN records = 1 .. L /\ DOMAIN old = 1 .. L
      /\ d.rows \in [Ids(list) -> Seq(Seq(Bytes))]
  <2>1. records \in Seq(Seq(Bytes)) /\ old \in Seq(Seq(Datums)) /\ Len(old) = L /\ DOMAIN old = DOMAIN records
    BY RowsOfFiles
  <2>2. d.rows \in [Ids(list) -> Seq(Seq(Bytes))]
    BY DEF OnFiles
  <2>3. L \in Nat /\ DOMAIN records = 1 .. L
    BY <2>1
  <2>. QED BY <2>1, <2>2, <2>3
<1>4. new \in Seq(Seq(Bytes)) /\ InsertedAt(records, new, k, record)
  <2>. DEFINE S == Seq(Bytes)
  <2>1. records \in Seq(S) /\ record \in S
    BY <1>2, <1>3
  <2>. HIDE DEF S, record, records
  <2>2. k \in 1 .. Len(records) + 1
    BY DEF records
  <2>3. InsertAt(records, k, record) \in Seq(S) /\ InsertedAt(records, InsertAt(records, k, record), k, record)
    BY <2>1, <2>2, InsertAtIs
  <2>. QED BY <2>3 DEF S
<1>5. /\ b.rows \in [Ids(list) -> Seq(Seq(Bytes))] /\ b.rows[t] = new
      /\ \A u \in Ids(list) : u # t => b.rows[u] = d.rows[u]
  <2>1. b.rows = [d.rows EXCEPT ![t] = new]
    BY <1>a DEF WithRecord
  <2>. HIDE DEF new
  <2>. QED BY <1>3, <1>4, <2>1
<1>0. k \in 1 .. L + 1
  OBVIOUS
<1>6. /\ DOMAIN new = 1 .. L + 1 /\ new[k] = record
      /\ \A i \in 1 .. L : (i < k => new[i] = records[i]) /\ (k <= i => new[i + 1] = records[i])
  BY <1>4 DEF InsertedAt
<1>7. old = Decoded(schema, records) /\ rows = Decoded(schema, new)
  BY <1>5 DEF RowsOf
<1>. HIDE DEF new, old, rows, L, records, record
<1>8. /\ \A i \in 1 .. L : i \in 1 .. L + 1 /\ i + 1 \in 1 .. L + 1
      /\ \A i \in 1 .. L + 1 : i = k \/ (i < k /\ i \in 1 .. L) \/ (i - 1 \in 1 .. L /\ k <= i - 1 /\ (i - 1) + 1 = i)
  BY <1>0, <1>3
<1>9. InsertedAt(old, rows, k, values)
  <2>1. DOMAIN rows = 1 .. L + 1 /\ (\A i \in 1 .. L + 1 : rows[i] = DecodeRecord(schema, new[i]).tuple)
        /\ \A i \in 1 .. L : old[i] = DecodeRecord(schema, records[i]).tuple
    BY <1>3, <1>6, <1>7, Zenon DEF Decoded
  <2>2. rows[k] = values
    <3>1. rows[k] = DecodeRecord(schema, record).tuple
      BY <1>0, <1>6, <2>1
    <3>. QED BY <1>2, <3>1
  <2>3. ASSUME NEW i \in 1 .. L PROVE (i < k => rows[i] = old[i]) /\ (k <= i => rows[i + 1] = old[i])
    BY <1>6, <1>8, <2>1
  <2>. QED BY <1>3, <2>1, <2>2, <2>3 DEF InsertedAt
<1>10. SameListing(rows, Append(old, values))
  <2>. DEFINE S == Seq(Datums)
  <2>1. old \in Seq(S) /\ values \in S /\ k \in 1 .. Len(old) + 1
    BY <1>0, <1>3
  <2>. HIDE DEF S
  <2>. QED BY <1>9, <2>1, InsertedAlike
<1>11. ASSUME NEW u \in Ids(list), u # t PROVE RowsOf(list, b, u) = RowsOf(list, d, u)
  <2>1. b.rows[u] = d.rows[u]
    BY <1>5, <1>11
  <2>. QED BY <2>1 DEF RowsOf
<1>12. ASSUME NEW u \in Ids(list), NEW i \in DOMAIN b.rows[u] PROVE Stored(SchemaOf(list, u), b.rows[u][i])
  <2>1. \A j \in DOMAIN d.rows[u] : Stored(SchemaOf(list, u), d.rows[u][j])
    BY DEF OnFiles
  <2>2. CASE u # t
    BY <1>5, <2>1, <2>2
  <2>3. CASE u = t
    <3>1. b.rows[u] = new /\ i \in 1 .. L + 1
      BY <1>5, <1>6, <2>3
    <3>2. \A j \in 1 .. L : Stored(schema, records[j])
      BY <1>3, <2>1, <2>3 DEF records
    <3>3. Stored(schema, record)
      BY DEF Stored, record
    <3>4. CASE i = k
      BY <1>6, <2>3, <3>1, <3>3, <3>4
    <3>5. CASE i < k /\ i \in 1 .. L
      <4>1. new[i] = records[i]
        BY <1>6, <3>5
      <4>. QED BY <2>3, <3>1, <3>2, <3>5, <4>1
    <3>6. CASE i - 1 \in 1 .. L /\ k <= i - 1 /\ (i - 1) + 1 = i
      <4>1. new[(i - 1) + 1] = records[i - 1]
        BY <1>6, <3>6
      <4>. QED BY <2>3, <3>1, <3>2, <3>6, <4>1
    <3>. QED BY <1>8, <3>1, <3>4, <3>5, <3>6
  <2>. QED BY <2>2, <2>3
<1>13. ASSUME NEW i \in DOMAIN indexes
       PROVE  ~HasDuplicates(RowsOf(list, b, indexes[i].table), indexes[i].column + 1)
  <2>. DEFINE c == indexes[i].column + 1
  <2>1. indexes[i].table \in Ids(list) /\ ~HasDuplicates(RowsOf(list, d, indexes[i].table), c)
    BY DEF Indexed, Placed, OnFiles
  <2>2. CASE indexes[i].table # t
    BY <1>11, <2>1, <2>2
  <2>3. CASE indexes[i].table = t
    <3>1. ~ \E j \in DOMAIN old : old[j][c] = values[c]
      <4>1. NamesDiffer(indexes) /\ d.indexes = LoadedIndexes(indexes)
        BY DEF Indexed, OnFiles
      <4>2. DOMAIN d.indexes = Named(indexes) /\ d.indexes[indexes[i].name] = [id |-> indexes[i].id, table |-> indexes[i].table, column |-> c]
        BY <4>1, LoadedIndex
      <4>3. indexes[i].name \in Named(indexes)
        BY DEF Named
      <4>4. ~Repeats(d.indexes, t, old, values)
        BY DEF old
      <4>. HIDE DEF c
      <4>. DEFINE n == indexes[i].name
      <4>5. n \in DOMAIN d.indexes /\ d.indexes[n].table = t /\ d.indexes[n].column = c
        BY <2>3, <4>2, <4>3
      <4>. HIDE DEF n
      <4>. QED BY <4>4, <4>5 DEF Repeats
    <3>2. ~HasDuplicates(old, c)
      BY <2>1, <2>3 DEF old
    <3>. HIDE DEF c
    <3>3. ~HasDuplicates(Append(old, values), c)
      <4>. DEFINE S == Seq(Datums)
      <4>1. old \in Seq(S) /\ values \in S
        BY <1>3
      <4>. HIDE DEF S
      <4>. QED BY <3>1, <3>2, <4>1, AppendedDuplicates
    <3>4. ~HasDuplicates(rows, c)
      BY <1>10, <3>3, SameDuplicates
    <3>. QED BY <2>3, <3>4 DEF rows, c
  <2>. QED BY <2>2, <2>3
<1>14. OnFiles(list, indexes, b)
  <2>1. /\ b.tables = LoadedTables(list) /\ b.indexes = LoadedIndexes(indexes) /\ b.nextIndex \in 1 .. MaxIndexId + 1
        /\ Shaped(b) /\ Numbered(list, b.nextTable)
        /\ b.catalogFile = [i \in DOMAIN list |-> EncodeCatalogRecord(list[i])]
        /\ b.indexFile = [i \in DOMAIN indexes |-> EncodeIndexRecord(indexes[i])]
    BY <1>a DEF OnFiles
  <2>. QED BY <1>5, <1>12, <1>13, <2>1, Zenon DEF OnFiles
<1>. QED BY <1>10, <1>11, <1>14 DEF rows, old

\* The rows on files.
FileScan(d, table) == Scan(d, TRUE, table)

HasKey(rows, c, key) == \E i \in DOMAIN rows : rows[i][c] = key

\* A key is found when a row has it.
LEMMA KeyFound ==
    ASSUME NEW d, NEW table, NEW c, NEW key
    PROVE  Lookup(d, table, c, key) # <<>> <=> HasKey(FileScan(d, table), c, key)
<1>. DEFINE rows == FileScan(d, table)
            places == WithKey(rows, c, key)
<1>1. Lookup(d, table, c, key) = AnyOne(rows, places)
  BY DEF Lookup, FileScan
<1>. HIDE DEF rows
<1>2. places # {} <=> HasKey(rows, c, key)
  BY DEF WithKey, HasKey
<1>. HIDE DEF places
<1>3. AnyOne(rows, places) # <<>> <=> places # {}
  BY DEF AnyOne
<1>. QED BY <1>1, <1>2, <1>3 DEF rows

\* The table that a bound INSERT names, which its values fit.
LEMMA InsertTarget ==
    ASSUME NEW list, Listed(list), NEW m, m.tables = LoadedTables(list), NEW text, NEW values \in SeqsUpTo(Values, MaxColumns),
           NEW s, s = [statement |-> "insert", table |-> text, values |-> values], Binds(m, s)
    PROVE  /\ values \in Seq(Datums)
           /\ \E t \in Ids(list) : /\ Table(m, s.table) = [id |-> t, schema |-> SchemaOf(list, t)]
                                   /\ Fits(SchemaOf(list, t), values)
<1>1. s.statement = "insert" /\ s.table = text /\ s.values = values
  OBVIOUS
<1>2. values \in Seq(Datums)
  BY GivenValues
<1>3. HasTable(m, text)
  BY <1>1 DEF Binds
<1>4. PICK t \in Ids(list) : Table(m, text) = [id |-> t, schema |-> SchemaOf(list, t)]
  BY <1>3, TableFound
<1>5. Fits(SchemaOf(list, t), s.values)
  <2>. DEFINE schema == SchemaOf(list, t)
  <2>1. schema \in StoredSchemas
    BY OfList
  <2>2. Table(m, s.table) = [id |-> t, schema |-> schema] /\ s.values \in Seq(Datums)
    BY <1>1, <1>2, <1>4
  <2>. HIDE DEF schema
  <2>3. Fits(schema, s.values)
    BY <1>1, <2>1, <2>2, BoundFits
  <2>. QED BY <2>3 DEF schema
<1>. QED BY <1>1, <1>2, <1>4, <1>5

\* What INSERT does in memory.
LEMMA InsertOutcomesInMemory ==
    ASSUME NEW m, NEW s, s.statement = "insert", Binds(m, s), Shaped(m), NEW o \in MemoryOutcomes(m, s),
           NEW t, Table(m, s.table).id = t
    PROVE  o.code = "ok" /\ RowAdded(o.db, m, t, s.values)
<1>. DEFINE rows == WithRow(m.rows, t, s.values)
            a == [m EXCEPT !.rows = rows]
<1>1. o \in InsertRow(m, FALSE, s)
  BY DEF MemoryOutcomes, Outcomes
<1>2. o = Outcome(a, "ok")
  BY <1>1 DEF InsertRow, WithRow
<1>. HIDE DEF rows
<1>3. /\ Shaped(a) /\ a.tables = m.tables /\ a.nextTable = m.nextTable
      /\ a.indexes = m.indexes /\ a.nextIndex = m.nextIndex /\ a.rows = rows
  <2>1. DOMAIN m = DatabaseParts
    BY DEF Shaped
  <2>2. /\ a.tables = m.tables /\ a.nextTable = m.nextTable /\ a.indexes = m.indexes /\ a.nextIndex = m.nextIndex
        /\ a.rows = rows
    BY <2>1 DEF DatabaseParts
  <2>3. a = [part \in DatabaseParts |-> a[part]]
    BY <2>1
  <2>. QED BY <2>2, <2>3, Zenon DEF Shaped
<1>. HIDE DEF a
<1>. QED BY <1>2, <1>3 DEF Outcome, rows, RowAdded, SameCatalog

\* And on files.
AfterInsert(d, p, t, schema, values, rows) ==
    \/ Repeats(d.indexes, t, rows, values) /\ p.db = d /\ p.code = "already_exists"
    \/ /\ ~Repeats(d.indexes, t, rows, values) /\ ~Encodable(schema, values)
       /\ p.db = d /\ p.code = "resource_exhausted"
    \/ /\ ~Repeats(d.indexes, t, rows, values) /\ Encodable(schema, values)
       /\ RowRefused(p.db, d) /\ p.code # "ok" /\ (Whole(d) => ~FitsPage(EncodeRecord(schema, values)))
    \/ /\ ~Repeats(d.indexes, t, rows, values) /\ StorableRow(schema, values) /\ p.code = "ok"
       /\ \E k \in 1 .. Len(d.rows[t]) + 1 : RecordAdded(p.db, d, t, k, EncodeRecord(schema, values))

\* What INSERT can leave in the files.
LEMMA InsertOutcomesOnFiles ==
    ASSUME NEW d, NEW s, s.statement = "insert", Binds(d, s), Shaped(d), NEW p \in FileOutcomes(d, s),
           NEW t, NEW schema, Table(d, s.table) = [id |-> t, schema |-> schema],
           NEW rows, rows = FileScan(d, Table(d, s.table)), NEW values, values = s.values
    PROVE  AfterInsert(d, p, t, schema, values, rows)
<1>. DEFINE table == Table(d, s.table)
            ix == d.indexes
            repeated == \E n \in DOMAIN ix : ix[n].table = t /\ Lookup(d, table, ix[n].column, values[ix[n].column]) # <<>>
            encodes == Encodable(schema, values)
            record == EncodeRecord(schema, values)
            places == 1 .. Len(d.rows[t]) + 1
            new(k) == [d EXCEPT !.rows = WithRecord(d.rows, t, k, record)]
            refused(blank) == [d EXCEPT !.blankHeaps = IF blank THEN @ \cup {t} ELSE @]
            answers == Appends(record, d.rows[t], t \in d.blankHeaps)
            After(a) == IF a.code = "ok" THEN {Outcome(new(k), "ok") : k \in places}
                        ELSE {Outcome(refused(a.blank), a.code)}
            repeats == \E n \in DOMAIN ix :
                          /\ ix[n].table = table.id
                          /\ Lookup(d, table, ix[n].column, s.values[ix[n].column]) # <<>>
            put(k) == [d EXCEPT !.rows[table.id] = InsertAt(@, k, EncodeRecord(table.schema, s.values))]
            kept(blank) == [d EXCEPT !.blankHeaps = IF blank THEN @ \cup {table.id} ELSE @]
            Answered(a) == IF a.code = "ok" THEN {Outcome(put(k), "ok") : k \in 1 .. Len(d.rows[table.id]) + 1}
                           ELSE {Outcome(kept(a.blank), a.code)}
            asked == Appends(EncodeRecord(table.schema, s.values), d.rows[table.id], table.id \in d.blankHeaps)
<1>1. p \in InsertRow(d, TRUE, s)
  BY DEF FileOutcomes, Outcomes
<1>2. InsertRow(d, TRUE, s) =
        IF repeated THEN {Outcome(d, "already_exists")}
        ELSE IF ~encodes THEN {Outcome(d, "resource_exhausted")}
        ELSE UNION {After(a) : a \in answers}
  <2>1. InsertRow(d, TRUE, s) =
          IF repeats THEN {Outcome(d, "already_exists")}
          ELSE IF ~Encodable(table.schema, s.values) THEN {Outcome(d, "resource_exhausted")}
          ELSE UNION {Answered(a) : a \in asked}
    BY DEF InsertRow
  <2>2. table.id = t /\ table.schema = schema /\ s.values = values
    OBVIOUS
  <2>. HIDE DEF table
  <2>3. asked = answers /\ (repeats <=> repeated)
    BY <2>2
  <2>4. \A k : put(k) = new(k)
    BY <2>2 DEF WithRecord
  <2>5. \A blank : kept(blank) = refused(blank)
    BY <2>2
  <2>. HIDE DEF repeats, repeated, put, new, kept, refused, asked, answers
  <2>6. ASSUME NEW a PROVE Answered(a) = After(a)
    <3>1. CASE a.code = "ok"
      <4>1. {Outcome(put(k), "ok") : k \in 1 .. Len(d.rows[table.id]) + 1} = {Outcome(new(k), "ok") : k \in places}
        BY <2>2, <2>4
      <4>. HIDE DEF places
      <4>. QED BY <3>1, <4>1
    <3>2. CASE a.code # "ok"
      BY <2>5, <3>2
    <3>. QED BY <3>1, <3>2
  <2>. HIDE DEF Answered, After
  <2>7. UNION {Answered(a) : a \in asked} = UNION {After(a) : a \in answers}
    BY <2>3, <2>6
  <2>. QED BY <2>1, <2>2, <2>3, <2>7, Zenon DEF encodes
<1>3. /\ answers \subseteq [code : {"ok", "resource_exhausted", "corruption"}, blank : BOOLEAN]
      /\ \A a \in answers : /\ a.code = "ok" => FitsPage(record)
                            /\ a.code # "ok" => t \in d.blankHeaps \/ ~FitsPage(record)
  BY DEF Appends
<1>4. repeated <=> Repeats(d.indexes, t, rows, values)
  <2>1. rows = FileScan(d, table)
    BY DEF table
  <2>. HIDE DEF table
  <2>2. ASSUME NEW c, NEW key PROVE Lookup(d, table, c, key) # <<>> <=> HasKey(rows, c, key)
    <3>1. Lookup(d, table, c, key) # <<>> <=> HasKey(FileScan(d, table), c, key)
      BY KeyFound
    <3>. QED BY <2>1, <3>1
  <2>3. \A n \in DOMAIN ix : Lookup(d, table, ix[n].column, values[ix[n].column]) # <<>>
                               <=> HasKey(rows, ix[n].column, values[ix[n].column])
    BY <2>2
  <2>. QED BY <2>3, Zenon DEF Repeats, HasKey
<1>. HIDE DEF repeated, answers, After, encodes
<1>5. ASSUME NEW k PROVE RecordAdded(new(k), d, t, k, record)
  <2>. DEFINE r == WithRecord(d.rows, t, k, record)
              b == [d EXCEPT !.rows = r]
  <2>1. DOMAIN d = DatabaseParts
    BY DEF Shaped
  <2>. HIDE DEF r
  <2>2. /\ b.tables = d.tables /\ b.nextTable = d.nextTable /\ b.indexes = d.indexes /\ b.nextIndex = d.nextIndex
        /\ b.catalogFile = d.catalogFile /\ b.indexFile = d.indexFile /\ b.rows = r
        /\ b.blankHeaps = d.blankHeaps /\ b.blankCatalog = d.blankCatalog /\ b.blankIndexCatalog = d.blankIndexCatalog
    BY <2>1 DEF DatabaseParts
  <2>3. b = [part \in DatabaseParts |-> b[part]]
    BY <2>1
  <2>4. b = new(k)
    BY DEF r
  <2>. HIDE DEF b, new
  <2>5. RecordAdded(b, d, t, k, record)
    BY <2>2, <2>3, Zenon DEF Shaped, SameCatalog, RecordAdded, Whole, r
  <2>. QED BY <2>4, <2>5
<1>6. ASSUME NEW blank PROVE RowRefused(refused(blank), d)
  <2>. DEFINE heaps == IF blank THEN d.blankHeaps \cup {t} ELSE d.blankHeaps
              b == [d EXCEPT !.blankHeaps = heaps]
  <2>1. DOMAIN d = DatabaseParts
    BY DEF Shaped
  <2>2. b = refused(blank)
    BY <2>1 DEF DatabaseParts
  <2>. HIDE DEF heaps
  <2>3. /\ b.tables = d.tables /\ b.nextTable = d.nextTable /\ b.indexes = d.indexes /\ b.nextIndex = d.nextIndex
        /\ b.catalogFile = d.catalogFile /\ b.indexFile = d.indexFile /\ b.rows = d.rows
    BY <2>1 DEF DatabaseParts
  <2>4. b = [part \in DatabaseParts |-> b[part]]
    BY <2>1
  <2>. HIDE DEF b, refused
  <2>5. RowRefused(b, d)
    BY <2>3, <2>4, Zenon DEF Shaped, SameCatalog, RowRefused
  <2>. QED BY <2>2, <2>5
<1>7. t \in d.blankHeaps => ~Whole(d)
  BY DEF Whole
<1>. HIDE DEF new, refused, record
<1>8. CASE repeated
  <2>1. p \in {Outcome(d, "already_exists")}
    BY <1>1, <1>2, <1>8
  <2>. QED BY <1>4, <1>8, <2>1 DEF Outcome, AfterInsert
<1>9. CASE ~repeated /\ ~encodes
  <2>1. p \in {Outcome(d, "resource_exhausted")}
    BY <1>1, <1>2, <1>9
  <2>. QED BY <1>4, <1>9, <2>1 DEF Outcome, AfterInsert, encodes
<1>10. CASE ~repeated /\ encodes
  <2>1. p \in UNION {After(a) : a \in answers}
    BY <1>1, <1>2, <1>10
  <2>2. PICK a \in answers : p \in After(a)
    BY <2>1
  <2>3. CASE a.code = "ok"
    <3>1. PICK k \in places : p = Outcome(new(k), "ok")
      BY <2>2, <2>3 DEF After
    <3>2. p.db = new(k) /\ p.code = "ok" /\ FitsPage(record)
      BY <1>3, <2>3, <3>1 DEF Outcome
    <3>3. RecordAdded(p.db, d, t, k, record)
      BY <1>5, <3>2
    <3>. QED BY <1>4, <1>10, <3>2, <3>3, Zenon DEF AfterInsert, StorableRow, record, encodes
  <2>4. CASE a.code # "ok"
    <3>1. p = Outcome(refused(a.blank), a.code)
      BY <2>2, <2>4 DEF After
    <3>2. p.db = refused(a.blank) /\ p.code = a.code
      BY <3>1 DEF Outcome
    <3>3. RowRefused(p.db, d)
      BY <1>6, <3>2
    <3>4. Whole(d) => ~FitsPage(record)
      BY <1>3, <1>7, <2>4
    <3>. QED BY <1>4, <1>10, <2>4, <3>2, <3>3, <3>4, Zenon DEF AfterInsert, record, encodes
  <2>. QED BY <2>3, <2>4
<1>. QED BY <1>8, <1>9, <1>10

\* A row repeats the same keys wherever the others are.
LEMMA SameRepeats ==
    ASSUME NEW a, NEW b, SameListing(a, b), NEW indexes, NEW t, NEW values
    PROVE  Repeats(indexes, t, a, values) <=> Repeats(indexes, t, b, values)
<1>1. PICK p : Bijects(p, DOMAIN a, DOMAIN b) /\ \A i \in DOMAIN a : a[i] = b[p[i]]
  BY DEF SameListing
<1>2. (\A i \in DOMAIN a : p[i] \in DOMAIN b) /\ \A j \in DOMAIN b : \E i \in DOMAIN a : p[i] = j
  BY <1>1 DEF Bijects
<1>3. ASSUME NEW c, NEW key
      PROVE  (\E i \in DOMAIN a : a[i][c] = key) <=> \E j \in DOMAIN b : b[j][c] = key
  BY <1>1, <1>2
<1>4. \A n \in DOMAIN indexes : (\E i \in DOMAIN a : a[i][indexes[n].column] = values[indexes[n].column])
                                  <=> \E j \in DOMAIN b : b[j][indexes[n].column] = values[indexes[n].column]
  BY <1>3
<1>. QED BY <1>4, Zenon DEF Repeats

\* INSERT adds a row in memory, or nothing.
LEMMA InsertInMemory ==
    ASSUME NEW m, KnownInMemory(m), NEW text, NEW values \in SeqsUpTo(Values, MaxColumns),
           NEW s, s = [statement |-> "insert", table |-> text, values |-> values], NEW o \in MemoryOutcomes(m, s)
    PROVE  KnownInMemory(o.db) /\ (Storable(o.db) => Storable(m))
<1>1. PICK list : Listed(list) /\ InMemory(list, m)
  BY DEF KnownInMemory
<1>2. m.tables = LoadedTables(list) /\ Shaped(m)
  BY <1>1 DEF InMemory
<1>3. CASE ~Binds(m, s)
  <2>1. o = Outcome(m, "refused")
    BY <1>3 DEF MemoryOutcomes, Outcomes
  <2>2. o.db = m
    BY <2>1 DEF Outcome
  <2>. QED BY <2>2
<1>4. CASE Binds(m, s)
  <2>1. values \in Seq(Datums) /\ s.statement = "insert" /\ s.values = values
    BY GivenValues
  <2>2. PICK t \in Ids(list) : Table(m, s.table) = [id |-> t, schema |-> SchemaOf(list, t)] /\ Fits(SchemaOf(list, t), values)
    BY <1>1, <1>2, <1>4, InsertTarget
  <2>3. Table(m, s.table).id = t
    BY <2>2
  <2>4. RowAdded(o.db, m, t, values)
    BY <1>2, <1>4, <2>1, <2>3, InsertOutcomesInMemory
  <2>5. InMemory(list, o.db) /\ (Storable(o.db) => Storable(m))
    BY <1>1, <2>1, <2>2, <2>4, RowInMemory
  <2>. QED BY <1>1, <2>5 DEF KnownInMemory
<1>. QED BY <1>3, <1>4

\* On files too.
LEMMA InsertOnFiles ==
    ASSUME NEW d, KnownOnFiles(d), NEW text, NEW values \in SeqsUpTo(Values, MaxColumns),
           NEW s, s = [statement |-> "insert", table |-> text, values |-> values], NEW p \in FileOutcomes(d, s)
    PROVE  KnownOnFiles(p.db)
<1>1. PICK list, indexes : Listed(list) /\ Indexed(list, indexes) /\ OnFiles(list, indexes, d)
  BY DEF KnownOnFiles
<1>2. d.tables = LoadedTables(list) /\ Shaped(d)
  BY <1>1 DEF OnFiles
<1>3. CASE ~Binds(d, s)
  <2>1. p = Outcome(d, "refused")
    BY <1>3 DEF FileOutcomes, Outcomes
  <2>2. p.db = d
    BY <2>1 DEF Outcome
  <2>. QED BY <2>2
<1>4. CASE Binds(d, s)
  <2>1. values \in Seq(Datums) /\ s.statement = "insert" /\ s.values = values
    BY GivenValues
  <2>2. PICK t \in Ids(list) : Table(d, s.table) = [id |-> t, schema |-> SchemaOf(list, t)] /\ Fits(SchemaOf(list, t), values)
    BY <1>1, <1>2, <1>4, InsertTarget
  <2>. DEFINE schema == SchemaOf(list, t)
              rows == RowsOf(list, d, t)
  <2>3. rows = FileScan(d, Table(d, s.table))
    BY <2>2, ScanOfFiles, Zenon DEF FileScan
  <2>4. AfterInsert(d, p, t, schema, values, rows)
    <3>. HIDE DEF schema, rows
    <3>1. Table(d, s.table) = [id |-> t, schema |-> schema]
      BY <2>2 DEF schema
    <3>. QED BY <1>2, <1>4, <2>1, <2>3, <3>1, InsertOutcomesOnFiles, Zenon
  <2>. HIDE DEF rows, schema
  <2>5. CASE p.db = d
    BY <2>5
  <2>6. CASE RowRefused(p.db, d)
    <3>1. OnFiles(list, indexes, p.db)
      <4>1. /\ Shaped(p.db) /\ p.db.tables = d.tables /\ p.db.nextTable = d.nextTable /\ p.db.indexes = d.indexes
            /\ p.db.nextIndex = d.nextIndex /\ p.db.catalogFile = d.catalogFile /\ p.db.indexFile = d.indexFile
            /\ p.db.rows = d.rows
        BY <2>6 DEF RowRefused, SameCatalog
      <4>2. \A u : RowsOf(list, p.db, u) = RowsOf(list, d, u)
        BY <4>1 DEF RowsOf
      <4>. QED BY <1>1, <4>1, <4>2, Zenon DEF OnFiles
    <3>. QED BY <1>1, <3>1 DEF KnownOnFiles
  <2>7. CASE /\ ~Repeats(d.indexes, t, rows, values) /\ StorableRow(schema, values)
             /\ \E k \in 1 .. Len(d.rows[t]) + 1 : RecordAdded(p.db, d, t, k, EncodeRecord(schema, values))
    <3>1. PICK k \in 1 .. Len(d.rows[t]) + 1 : RecordAdded(p.db, d, t, k, EncodeRecord(schema, values))
      BY <2>7
    <3>2. Encodable(schema, values)
      BY <2>7 DEF StorableRow
    <3>3. OnFiles(list, indexes, p.db)
      BY <1>1, <2>1, <2>7, <3>1, <3>2, RowOnFiles DEF schema, rows
    <3>. QED BY <1>1, <3>3 DEF KnownOnFiles
  <2>. QED BY <2>4, <2>5, <2>6, <2>7 DEF AfterInsert
<1>. QED BY <1>3, <1>4

\* Run on both, INSERT parts them when the row repeats a key or cannot be stored.
LEMMA InsertParts ==
    ASSUME NEW m, NEW d, KnownAlike(m, d), Storable(m), NEW text, NEW values \in SeqsUpTo(Values, MaxColumns),
           NEW s, s = [statement |-> "insert", table |-> text, values |-> values],
           NEW o \in MemoryOutcomes(m, s), NEW p \in FileOutcomes(d, s)
    PROVE  Parts(o, p)
<1>1. PICK list, indexes :
        /\ Listed(list) /\ Indexed(list, indexes) /\ InMemory(list, m) /\ OnFiles(list, indexes, d)
        /\ Alike(list, indexes, m, d)
  BY DEF KnownAlike
<1>2. /\ Shaped(m) /\ Shaped(d) /\ m.tables = LoadedTables(list)
      /\ (Binds(m, s) <=> Binds(d, s)) /\ Table(m, s.table) = Table(d, s.table)
  BY <1>1, SameTables
<1>3. /\ m.nextTable = d.nextTable /\ d.nextTable = Len(list) + 1 /\ m.indexes = d.indexes
      /\ m.nextIndex = d.nextIndex /\ d.nextIndex = Len(indexes) + 1 /\ Whole(d)
      /\ (\A i \in DOMAIN list : list[i].id = i) /\ (\A i \in DOMAIN indexes : indexes[i].id = i)
      /\ \A t \in Ids(list) : SameListing(RowsOf(list, d, t), m.rows[t])
  BY <1>1 DEF Alike
<1>4. CASE ~Binds(m, s)
  <2>1. o = Outcome(m, "refused") /\ p = Outcome(d, "refused")
    BY <1>2, <1>4 DEF MemoryOutcomes, FileOutcomes, Outcomes
  <2>2. o.db = m /\ p.db = d /\ o.code = p.code
    BY <2>1 DEF Outcome
  <2>. QED BY <2>2, BothRefuse
<1>5. CASE Binds(m, s)
  <2>1. values \in Seq(Datums) /\ s.statement = "insert" /\ s.values = values
    BY GivenValues
  <2>2. PICK t \in Ids(list) : Table(m, s.table) = [id |-> t, schema |-> SchemaOf(list, t)] /\ Fits(SchemaOf(list, t), values)
    BY <1>1, <1>2, <1>5, InsertTarget
  <2>. DEFINE a == o.db
              b == p.db
              schema == SchemaOf(list, t)
              rows == RowsOf(list, d, t)
              old == m.rows[t]
  <2>3. o.code = "ok" /\ RowAdded(a, m, t, values)
    <3>1. Table(m, s.table).id = t
      BY <2>2
    <3>. QED BY <1>2, <1>5, <2>1, <3>1, InsertOutcomesInMemory
  <2>4. AfterInsert(d, p, t, schema, values, rows)
    <3>1. Table(d, s.table) = [id |-> t, schema |-> schema] /\ Binds(d, s)
      BY <1>2, <1>5, <2>2
    <3>2. rows = FileScan(d, Table(d, s.table))
      BY <3>1, ScanOfFiles, Zenon DEF FileScan
    <3>. HIDE DEF rows, schema
    <3>. QED BY <1>2, <2>1, <3>1, <3>2, InsertOutcomesOnFiles, Zenon
  <2>. HIDE DEF a, b
  <2>5. InMemory(list, a) /\ (Storable(a) <=> ~Repeats(m.indexes, t, old, values) /\ StorableRow(schema, values))
    BY <1>1, <2>1, <2>2, <2>3, RowInMemory
  <2>6. SameListing(rows, old) /\ (Repeats(d.indexes, t, rows, values) <=> Repeats(m.indexes, t, old, values))
    <3>1. SameListing(rows, old)
      BY <1>3
    <3>. HIDE DEF rows, old
    <3>. QED BY <1>3, <3>1, SameRepeats
  <2>. HIDE DEF rows, schema, old
  <2>7. CASE p.code # "ok" /\ (Repeats(d.indexes, t, rows, values) \/ ~StorableRow(schema, values))
    BY <2>3, <2>5, <2>6, <2>7 DEF Parts, a
  <2>8. CASE /\ p.code = "ok" /\ ~Repeats(d.indexes, t, rows, values) /\ StorableRow(schema, values)
             /\ \E k \in 1 .. Len(d.rows[t]) + 1 : RecordAdded(b, d, t, k, EncodeRecord(schema, values))
    <3>1. PICK k \in 1 .. Len(d.rows[t]) + 1 : RecordAdded(b, d, t, k, EncodeRecord(schema, values))
      BY <2>8
    <3>2. Encodable(schema, values)
      BY <2>8 DEF StorableRow
    <3>3. /\ OnFiles(list, indexes, b)
          /\ SameListing(RowsOf(list, b, t), Append(rows, values))
          /\ \A u \in Ids(list) : u # t => RowsOf(list, b, u) = RowsOf(list, d, u)
      BY <1>1, <2>1, <2>8, <3>1, <3>2, RowOnFiles DEF schema, rows
    <3>4. /\ b.nextTable = d.nextTable /\ b.indexes = d.indexes /\ b.nextIndex = d.nextIndex /\ Whole(b)
          /\ a.nextTable = m.nextTable /\ a.indexes = m.indexes /\ a.nextIndex = m.nextIndex
          /\ a.rows = WithRow(m.rows, t, values)
      BY <1>3, <2>3, <3>1 DEF RecordAdded, RowAdded, SameCatalog
    <3>5. /\ m.rows \in [Ids(list) -> Seq(Seq(Datums))] /\ old \in Seq(Seq(Datums)) /\ rows \in Seq(Seq(Datums))
      <4>1. m.rows \in [Ids(list) -> Seq(Seq(Datums))]
        BY <1>1 DEF InMemory
      <4>2. rows \in Seq(Seq(Datums))
        BY <1>1, RowsOfFiles DEF rows
      <4>. QED BY <4>1, <4>2 DEF old
    <3>6. a.rows[t] = Append(old, values) /\ \A u \in Ids(list) : u # t => a.rows[u] = m.rows[u]
      BY <3>4, <3>5, Zenon DEF old, WithRow
    <3>7. SameListing(RowsOf(list, b, t), a.rows[t])
      <4>. DEFINE S == Seq(Datums)
      <4>1. rows \in Seq(S) /\ old \in Seq(S) /\ values \in S
        BY <2>1, <3>5
      <4>. HIDE DEF S
      <4>2. SameListing(Append(rows, values), Append(old, values))
        BY <2>6, <4>1, AlikeAppended
      <4>. QED BY <3>3, <3>6, <4>2, AlikeTwice
    <3>8. ASSUME NEW u \in Ids(list) PROVE SameListing(RowsOf(list, b, u), a.rows[u])
      <4>1. CASE u = t
        BY <3>7, <4>1
      <4>2. CASE u # t
        BY <1>3, <3>3, <3>6, <4>2
      <4>. QED BY <4>1, <4>2
    <3>9. Alike(list, indexes, a, b)
      BY <1>3, <3>4, <3>8 DEF Alike
    <3>10. KnownAlike(a, b)
      BY <1>1, <2>5, <3>3, <3>9, Zenon DEF KnownAlike
    <3>. QED BY <2>3, <2>5, <2>6, <2>8, <3>10 DEF Parts, a, b
  <2>9. p.code = "ok" \/ (p.code # "ok" /\ (Repeats(d.indexes, t, rows, values) \/ ~StorableRow(schema, values)))
    BY <1>3, <2>4 DEF AfterInsert, StorableRow
  <2>10. p.code = "ok" => /\ ~Repeats(d.indexes, t, rows, values) /\ StorableRow(schema, values)
                         /\ \E k \in 1 .. Len(d.rows[t]) + 1 : RecordAdded(b, d, t, k, EncodeRecord(schema, values))
    BY <2>4, Zenon DEF AfterInsert, b
  <2>. QED BY <2>7, <2>8, <2>9, <2>10
<1>. QED BY <1>4, <1>5

\* INSERT run on both databases keeps them consistent.
LEMMA InsertStep ==
    ASSUME NEW m, NEW d, NEW ag, Consistent(m, d, ag), NEW text, NEW values \in SeqsUpTo(Values, MaxColumns),
           NEW s, s = [statement |-> "insert", table |-> text, values |-> values],
           NEW o \in MemoryOutcomes(m, s), NEW p \in FileOutcomes(d, s), NEW after, AgreeAfter(ag, o, p, after)
    PROVE  Consistent(o.db, p.db, after)
<1>1. KnownInMemory(m) /\ KnownOnFiles(d)
  BY DEF Consistent
<1>2. KnownInMemory(o.db) /\ (Storable(o.db) => Storable(m))
  BY <1>1, InsertInMemory
<1>3. KnownOnFiles(p.db)
  BY <1>1, InsertOnFiles
<1>4. KnownAlike(m, d) /\ Storable(m) => Parts(o, p)
  BY InsertParts
<1>. QED BY <1>2, <1>3, <1>4, StepConsistent

-----------------------------------------------------------------------------
(***************************************************************************)
(* Reopening, and the invariant                                            *)
(***************************************************************************)
\* The catalog files are read back as the lists.
LEMMA FilesReadBack ==
    ASSUME NEW list, NEW indexes, NEW d, Listed(list), Indexed(list, indexes), OnFiles(list, indexes, d)
    PROVE  /\ [i \in DOMAIN d.catalogFile |-> DecodeCatalogRecord(d.catalogFile[i]).table] = list
           /\ [i \in DOMAIN d.indexFile |-> DecodeIndexRecord(d.indexFile[i]).index] = indexes
<1>1. list \in Seq(StoredTables) /\ indexes \in Seq(StoredIndexes)
  BY DEF Listed, Indexed
<1>2. /\ d.catalogFile = [i \in DOMAIN list |-> EncodeCatalogRecord(list[i])]
      /\ d.indexFile = [i \in DOMAIN indexes |-> EncodeIndexRecord(indexes[i])]
  BY DEF OnFiles
<1>. DEFINE f == d.catalogFile
            g == d.indexFile
<1>3. /\ DOMAIN f = DOMAIN list /\ \A i \in DOMAIN list : f[i] = EncodeCatalogRecord(list[i])
      /\ DOMAIN g = DOMAIN indexes /\ \A i \in DOMAIN indexes : g[i] = EncodeIndexRecord(indexes[i])
  BY <1>2
<1>. HIDE DEF f, g
<1>4. ASSUME NEW i \in DOMAIN list PROVE DecodeCatalogRecord(f[i]).table = list[i]
  <2>1. list[i] \in StoredTables
    BY <1>1
  <2>2. DecodeCatalogRecord(EncodeCatalogRecord(list[i])) = [ok |-> TRUE, table |-> list[i]]
    BY <2>1, CatalogRecordsDelimited
  <2>. QED BY <1>3, <2>2
<1>5. ASSUME NEW i \in DOMAIN indexes PROVE DecodeIndexRecord(g[i]).index = indexes[i]
  <2>1. indexes[i] \in StoredIndexes
    BY <1>1
  <2>2. DecodeIndexRecord(EncodeIndexRecord(indexes[i])) = [ok |-> TRUE, index |-> indexes[i]]
    BY <2>1, IndexRecordsDelimited
  <2>. QED BY <1>3, <2>2
<1>6. list = [i \in DOMAIN list |-> list[i]] /\ indexes = [i \in DOMAIN indexes |-> indexes[i]]
  BY <1>1
<1>7. [i \in DOMAIN f |-> DecodeCatalogRecord(f[i]).table] = list
  BY <1>3, <1>4, <1>6
<1>8. [i \in DOMAIN g |-> DecodeIndexRecord(g[i]).index] = indexes
  BY <1>3, <1>5, <1>6
<1>. QED BY <1>7, <1>8 DEF f, g

\* A database that is reopened is the same, save the ids it has left unused.
LEMMA ReopenedFiles ==
    ASSUME NEW list, NEW indexes, NEW d, Listed(list), Indexed(list, indexes), OnFiles(list, indexes, d), NEW b, b = Reopened(d)
    PROVE  /\ OnFiles(list, indexes, b) /\ b.rows = d.rows /\ b.indexes = d.indexes
           /\ b.nextTable = NextId(list) /\ b.nextIndex = NextId(indexes) /\ (Whole(d) => Whole(b))
<1>. DEFINE T == LoadedTables(list)
            X == LoadedIndexes(indexes)
            M == NextId(list)
            N == NextId(indexes)
<1>1. b = [d EXCEPT !.tables = T, !.nextTable = M, !.indexes = X, !.nextIndex = N]
  <2>1. /\ [i \in DOMAIN d.catalogFile |-> DecodeCatalogRecord(d.catalogFile[i]).table] = list
        /\ [i \in DOMAIN d.indexFile |-> DecodeIndexRecord(d.indexFile[i]).index] = indexes
    BY FilesReadBack
  <2>. QED BY <2>1, Zenon DEF Reopened
<1>. HIDE DEF T, X, M, N
<1>2. /\ Shaped(b) /\ b.tables = T /\ b.nextTable = M /\ b.indexes = X /\ b.nextIndex = N
      /\ b.rows = d.rows /\ b.catalogFile = d.catalogFile /\ b.indexFile = d.indexFile
      /\ b.blankHeaps = d.blankHeaps /\ b.blankCatalog = d.blankCatalog /\ b.blankIndexCatalog = d.blankIndexCatalog
  <2>1. DOMAIN d = DatabaseParts
    BY DEF OnFiles, Shaped
  <2>2. /\ b.tables = T /\ b.nextTable = M /\ b.indexes = X /\ b.nextIndex = N
        /\ b.rows = d.rows /\ b.catalogFile = d.catalogFile /\ b.indexFile = d.indexFile
        /\ b.blankHeaps = d.blankHeaps /\ b.blankCatalog = d.blankCatalog /\ b.blankIndexCatalog = d.blankIndexCatalog
    BY <1>1, <2>1 DEF DatabaseParts
  <2>3. b = [part \in DatabaseParts |-> b[part]]
    BY <1>1, <2>1
  <2>. QED BY <2>2, <2>3, Zenon DEF Shaped
<1>3. Numbered(list, M)
  <2>1. MaxTableId \in Nat
    BY IdAssumption, Widths
  <2>2. Numbered(list, d.nextTable) /\ \A i \in DOMAIN list : list[i].id \in Ids(list) /\ list[i].id \in 1 .. InvalidId - 1
    BY OfList DEF OnFiles
  <2>3. \A i \in DOMAIN list : list[i].id \in 0 .. MaxTableId
    <3>1. d.nextTable \in 1 .. MaxTableId + 1 /\ \A t \in Ids(list) : t < d.nextTable
      BY <2>2 DEF Numbered
    <3>2. InvalidId \in Int
      BY Widths
    <3>. QED BY <2>1, <2>2, <3>1, <3>2
  <2>4. M \in 1 .. MaxTableId + 1 /\ \A i \in DOMAIN list : list[i].id < M
    BY <2>1, <2>3, NextIdOf DEF M
  <2>. QED BY <2>4 DEF Numbered, Ids
<1>4. N \in 1 .. MaxIndexId + 1
  <2>1. MaxIndexId \in Nat
    BY IdAssumption, Widths
  <2>2. \A i \in DOMAIN indexes : indexes[i].id \in 0 .. MaxIndexId
    <3>1. \A i \in DOMAIN indexes : indexes[i] \in StoredIndexes /\ indexes[i].id <= MaxIndexId
      BY DEF Indexed
    <3>2. \A i \in DOMAIN indexes : indexes[i].id \in 1 .. InvalidId - 1 /\ indexes[i].id <= MaxIndexId
      BY <3>1 DEF StoredIndexes
    <3>3. InvalidId \in Int
      BY Widths
    <3>. QED BY <2>1, <3>2, <3>3
  <2>. QED BY <2>1, <2>2, NextIdOf DEF N
<1>5. \A t : RowsOf(list, b, t) = RowsOf(list, d, t)
  BY <1>2 DEF RowsOf
<1>6. OnFiles(list, indexes, b)
  <2>1. /\ b.tables = LoadedTables(list) /\ b.indexes = LoadedIndexes(indexes)
        /\ Numbered(list, b.nextTable) /\ b.nextIndex \in 1 .. MaxIndexId + 1
    BY <1>2, <1>3, <1>4 DEF T, X
  <2>2. /\ b.catalogFile = [i \in DOMAIN list |-> EncodeCatalogRecord(list[i])]
        /\ b.indexFile = [i \in DOMAIN indexes |-> EncodeIndexRecord(indexes[i])]
        /\ b.rows \in [Ids(list) -> Seq(Seq(Bytes))]
        /\ \A t \in Ids(list) : \A i \in DOMAIN b.rows[t] : Stored(SchemaOf(list, t), b.rows[t][i])
    BY <1>2, Zenon DEF OnFiles
  <2>3. \A i \in DOMAIN indexes : ~HasDuplicates(RowsOf(list, b, indexes[i].table), indexes[i].column + 1)
    BY <1>5, Zenon DEF OnFiles
  <2>. QED BY <1>2, <2>1, <2>2, <2>3, Zenon DEF OnFiles
<1>7. d.indexes = X
  BY DEF OnFiles, X
<1>. QED BY <1>2, <1>6, <1>7 DEF M, N, Whole

\* Reopening keeps the databases consistent.
LEMMA ReopenStep ==
    ASSUME NEW m, NEW d, NEW ag, Consistent(m, d, ag)
    PROVE  Consistent(m, Reopened(d), ag)
<1>. DEFINE b == Reopened(d)
<1>1. ag \in BOOLEAN /\ (ag <=> Storable(m)) /\ KnownInMemory(m) /\ KnownOnFiles(d) /\ (ag => KnownAlike(m, d))
  BY DEF Consistent
<1>2. KnownOnFiles(b)
  <2>1. PICK list, indexes : Listed(list) /\ Indexed(list, indexes) /\ OnFiles(list, indexes, d)
    BY <1>1 DEF KnownOnFiles
  <2>2. OnFiles(list, indexes, b)
    BY <2>1, ReopenedFiles
  <2>. HIDE DEF b
  <2>. QED BY <2>1, <2>2 DEF KnownOnFiles
<1>3. ASSUME ag PROVE KnownAlike(m, b)
  <2>1. PICK list, indexes :
          /\ Listed(list) /\ Indexed(list, indexes) /\ InMemory(list, m) /\ OnFiles(list, indexes, d)
          /\ Alike(list, indexes, m, d)
    BY <1>1, <1>3 DEF KnownAlike
  <2>2. /\ OnFiles(list, indexes, b) /\ b.rows = d.rows /\ b.indexes = d.indexes
        /\ b.nextTable = NextId(list) /\ b.nextIndex = NextId(indexes) /\ (Whole(d) => Whole(b))
    BY <2>1, ReopenedFiles
  <2>. HIDE DEF b
  <2>3. /\ m.nextTable = d.nextTable /\ d.nextTable = Len(list) + 1 /\ m.indexes = d.indexes
        /\ m.nextIndex = d.nextIndex /\ d.nextIndex = Len(indexes) + 1 /\ Whole(d)
        /\ (\A i \in DOMAIN list : list[i].id = i) /\ (\A i \in DOMAIN indexes : indexes[i].id = i)
        /\ \A t \in Ids(list) : SameListing(RowsOf(list, d, t), m.rows[t])
    BY <2>1 DEF Alike
  <2>4. NextId(list) = Len(list) + 1 /\ NextId(indexes) = Len(indexes) + 1
    <3>1. list \in Seq(StoredTables) /\ indexes \in Seq(StoredIndexes)
      BY <2>1 DEF Listed, Indexed
    <3>. QED BY <2>3, <3>1, NextIdNumbered
  <2>5. \A t \in Ids(list) : SameListing(RowsOf(list, b, t), m.rows[t])
    BY <2>2, <2>3 DEF RowsOf
  <2>6. Alike(list, indexes, m, b)
    BY <2>2, <2>3, <2>4, <2>5 DEF Alike
  <2>. QED BY <2>1, <2>2, <2>6, Zenon DEF KnownAlike
<1>4. Consistent(m, b, ag)
  BY <1>1, <1>2, <1>3, Zenon DEF Consistent
<1>. QED BY <1>4 DEF b

\* Two empty databases agree.
LEMMA EmptyConsistent ==
    ASSUME NEW ag \in BOOLEAN, ag
    PROVE  Consistent(EmptyDatabase, EmptyDatabase, ag)
<1>. DEFINE e == EmptyDatabase
            none == <<>>
<1>1. /\ e.tables = none /\ e.nextTable = 1 /\ e.indexes = none /\ e.nextIndex = 1 /\ e.rows = none
      /\ e.catalogFile = none /\ e.indexFile = none /\ Shaped(e) /\ Whole(e)
  BY DEF EmptyDatabase, Shaped, DatabaseParts, Whole
<1>2. DOMAIN none = {} /\ (\A S : none \in Seq(S)) /\ Len(none) = 0
  OBVIOUS
<1>3. (\A D : none \in [{} -> D]) /\ \A f : DOMAIN f = {} /\ f = [x \in {} |-> f[x]] => f = none
  OBVIOUS
<1>4. LoadedTables(none) = none /\ LoadedIndexes(none) = none
  BY <1>2, <1>3 DEF LoadedTables, LoadedIndexes
<1>5. [i \in DOMAIN none |-> EncodeCatalogRecord(none[i])] = none /\ [i \in DOMAIN none |-> EncodeIndexRecord(none[i])] = none
  BY <1>2
<1>. HIDE DEF e, none
<1>6. Listed(none) /\ Indexed(none, none) /\ Ids(none) = {}
  BY <1>2 DEF Listed, Indexed, NamesDiffer, IdsDiffer, Ids
<1>n. Numbered(none, 1) /\ 1 \in 1 .. MaxIndexId + 1
  <2>1. 1 \in 1 .. MaxTableId + 1 /\ 1 \in 1 .. MaxIndexId + 1
    BY IdAssumption, Widths
  <2>. QED BY <1>6, <2>1 DEF Numbered
<1>7. InMemory(none, e)
  BY <1>1, <1>2, <1>3, <1>4, <1>6, <1>n DEF InMemory
<1>8. OnFiles(none, none, e)
  BY <1>1, <1>2, <1>3, <1>4, <1>5, <1>6, <1>n DEF OnFiles
<1>9. Alike(none, none, e, e)
  BY <1>1, <1>2, <1>6 DEF Alike
<1>10. Storable(e)
  BY <1>1, <1>2 DEF Storable, UniqueKeys
<1>11. KnownInMemory(e) /\ KnownOnFiles(e) /\ KnownAlike(e, e)
  <2>1. KnownInMemory(e)
    BY <1>6, <1>7, Zenon DEF KnownInMemory
  <2>2. KnownOnFiles(e)
    BY <1>6, <1>8, Zenon DEF KnownOnFiles
  <2>3. KnownAlike(e, e)
    BY <1>6, <1>7, <1>8, <1>9, Zenon DEF KnownAlike
  <2>. QED BY <2>1, <2>2, <2>3
<1>12. ag \in BOOLEAN /\ (ag <=> Storable(e))
  BY <1>10
<1>13. Consistent(e, e, ag)
  BY <1>11, <1>12, Zenon DEF Consistent
<1>. QED BY <1>13, Zenon DEF e

\* One statement, or one reopening.
LEMMA NextConsistent ==
    ASSUME Consistent(memory, durable, agreed), [Next]_vars
    PROVE  Consistent(memory, durable, agreed)'
<1>. DEFINE m == memory
            d == durable
            ag == agreed
<1>1. ASSUME NEW s, Execute(s)
      PROVE  \E o \in MemoryOutcomes(memory, s), p \in FileOutcomes(durable, s) :
               memory' = o.db /\ durable' = p.db /\ AgreeAfter(agreed, o, p, agreed')
  <2>1. PICK o \in Outcomes(memory, FALSE, s), p \in Outcomes(durable, TRUE, s) :
          memory' = o.db /\ durable' = p.db /\ agreed' = (agreed /\ o.code = p.code)
    BY <1>1 DEF Execute
  <2>2. o \in MemoryOutcomes(memory, s) /\ p \in FileOutcomes(durable, s)
    BY <2>1 DEF MemoryOutcomes, FileOutcomes
  <2>3. AgreeAfter(agreed, o, p, agreed')
    BY <2>1, Zenon DEF AgreeAfter
  <2>. QED BY <2>1, <2>2, <2>3
<1>2. ASSUME NEW name \in Identifiers, NEW columns \in SeqsUpTo(ColumnDefinitions, MaxColumns), ExecuteCreateTable(name, columns)
      PROVE  Consistent(memory', durable', agreed')
  <2>. DEFINE s == [statement |-> "create_table", table |-> name, columns |-> columns]
  <2>1. Execute(s)
    BY <1>2 DEF ExecuteCreateTable
  <2>2. PICK o \in MemoryOutcomes(memory, s), p \in FileOutcomes(durable, s) :
          memory' = o.db /\ durable' = p.db /\ AgreeAfter(agreed, o, p, agreed')
    BY <1>1, <2>1
  <2>3. Consistent(o.db, p.db, agreed')
    BY <2>2, CreateTableStep
  <2>. QED BY <2>2, <2>3
<1>3. ASSUME NEW index \in Identifiers, NEW table \in Identifiers, NEW column \in Identifiers,
             ExecuteCreateIndex(index, table, column)
      PROVE  Consistent(memory', durable', agreed')
  <2>. DEFINE s == [statement |-> "create_index", index |-> index, table |-> table, column |-> column]
  <2>1. PICK o \in MemoryOutcomes(memory, s), p \in FileOutcomes(durable, s) :
          memory' = o.db /\ durable' = p.db /\ AgreeAfter(agreed, o, p, agreed')
    BY <1>1, <1>3 DEF ExecuteCreateIndex
  <2>2. Consistent(o.db, p.db, agreed')
    BY <2>1, CreateIndexStep
  <2>. QED BY <2>1, <2>2
<1>4. ASSUME NEW table \in Identifiers, NEW values \in SeqsUpTo(Values, MaxColumns), ExecuteInsert(table, values)
      PROVE  Consistent(memory', durable', agreed')
  <2>. DEFINE s == [statement |-> "insert", table |-> table, values |-> values]
  <2>1. PICK o \in MemoryOutcomes(memory, s), p \in FileOutcomes(durable, s) :
          memory' = o.db /\ durable' = p.db /\ AgreeAfter(agreed, o, p, agreed')
    BY <1>1, <1>4 DEF ExecuteInsert
  <2>2. Consistent(o.db, p.db, agreed')
    BY <2>1, InsertStep
  <2>. QED BY <2>1, <2>2
<1>5. ASSUME Reopen PROVE Consistent(memory', durable', agreed')
  <2>1. memory' = memory /\ durable' = Reopened(durable) /\ agreed' = agreed
    BY <1>5 DEF Reopen
  <2>2. Consistent(memory, Reopened(durable), agreed)
    BY ReopenStep
  <2>. QED BY <2>1, <2>2
<1>6. CASE UNCHANGED vars
  BY <1>6 DEF vars
<1>7. CASE Next
  BY <1>2, <1>3, <1>4, <1>5, <1>7 DEF Next
<1>8. Consistent(memory', durable', agreed')
  BY <1>6, <1>7 DEF vars
<1>. QED BY <1>8

\* The invariant always holds.
THEOREM SessionConsistent ==
    Spec => []Consistent(memory, durable, agreed)
<1>1. Init => Consistent(memory, durable, agreed)
  <2>. HAVE Init
  <2>1. memory = EmptyDatabase /\ durable = EmptyDatabase /\ agreed = TRUE
    BY DEF Init
  <2>2. agreed \in BOOLEAN /\ agreed
    BY <2>1
  <2>3. Consistent(EmptyDatabase, EmptyDatabase, agreed)
    BY <2>2, EmptyConsistent, Zenon
  <2>. QED BY <2>1, <2>3
<1>2. Consistent(memory, durable, agreed) /\ [Next]_vars => Consistent(memory, durable, agreed)'
  BY NextConsistent
<1>. QED BY <1>1, <1>2, PTL DEF Spec

-----------------------------------------------------------------------------
(***************************************************************************)
(* The properties                                                          *)
(***************************************************************************)
\* Every record is one of a table, or of the lists.
LEMMA ConsistentRecords ==
    Consistent(memory, durable, agreed) => RecordsDelimited
<1>. SUFFICES ASSUME Consistent(memory, durable, agreed) PROVE RecordsDelimited
  OBVIOUS
<1>. DEFINE d == durable
<1>1. PICK list, indexes : Listed(list) /\ Indexed(list, indexes) /\ OnFiles(list, indexes, d)
  BY DEF Consistent, KnownOnFiles
<1>2. Listed(list) /\ Indexed(list, indexes) /\ OnFiles(list, indexes, d) /\ d.tables = LoadedTables(list)
  BY <1>1 DEF OnFiles
<1>3. /\ list \in Seq(StoredTables) /\ indexes \in Seq(StoredIndexes)
      /\ d.catalogFile = [i \in DOMAIN list |-> EncodeCatalogRecord(list[i])]
      /\ d.indexFile = [i \in DOMAIN indexes |-> EncodeIndexRecord(indexes[i])]
  BY <1>2 DEF Listed, Indexed, OnFiles
<1>4. ASSUME NEW n \in DOMAIN d.tables, NEW i \in DOMAIN d.rows[d.tables[n].id]
      PROVE  LET schema == d.tables[n].schema
                 record == d.rows[d.tables[n].id][i]
             IN /\ DecodeRecord(schema, record).ok
                /\ \A bytes \in Shorter(record) \cup Longer(record) : ~DecodeRecord(schema, bytes).ok
  <2>1. d.tables[n].id \in Ids(list) /\ d.tables[n].schema = SchemaOf(list, d.tables[n].id)
    BY <1>2, LoadedSchemas
  <2>2. PICK t \in Ids(list) : d.tables[n].id = t
    BY <2>1
  <2>. DEFINE schema == SchemaOf(list, t)
              row == RowsOf(list, d, t)[i]
              record == d.rows[t][i]
  <2>4. d.tables[n].id = t /\ d.tables[n].schema = schema
    BY <2>1, <2>2
  <2>5. i \in DOMAIN d.rows[t]
    BY <2>4
  <2>6. row \in Seq(Datums) /\ Encodable(schema, row) /\ record = EncodeRecord(schema, row) /\ schema \in StoredSchemas
    BY <1>2, <2>5, RowsOfFiles, OfList
  <2>. HIDE DEF schema, row, d
  <2>7. LET z == EncodeRecord(schema, row)
        IN /\ DecodeRecord(schema, z) = [ok |-> TRUE, tuple |-> row]
           /\ \A bytes \in Shorter(z) \cup Longer(z) : ~DecodeRecord(schema, bytes).ok
    BY <2>6, RowRecordsDelimited
  <2>8. DecodeRecord(schema, record).ok /\ \A bytes \in Shorter(record) \cup Longer(record) : ~DecodeRecord(schema, bytes).ok
    BY <2>6, <2>7
  <2>. HIDE DEF record
  <2>9. d.rows[d.tables[n].id][i] = record
    BY <2>4 DEF record
  <2>. QED BY <2>4, <2>8, <2>9
<1>5. ASSUME NEW i \in DOMAIN d.catalogFile
      PROVE  LET record == d.catalogFile[i]
             IN /\ DecodeCatalogRecord(record).ok
                /\ \A bytes \in Shorter(record) \cup Longer(record) : ~DecodeCatalogRecord(bytes).ok
  <2>1. i \in DOMAIN list /\ d.catalogFile[i] = EncodeCatalogRecord(list[i]) /\ list[i] \in StoredTables
    BY <1>3
  <2>2. LET z == EncodeCatalogRecord(list[i])
        IN /\ DecodeCatalogRecord(z) = [ok |-> TRUE, table |-> list[i]]
           /\ \A bytes \in Shorter(z) \cup Longer(z) : ~DecodeCatalogRecord(bytes).ok
    BY <2>1, CatalogRecordsDelimited
  <2>. QED BY <2>1, <2>2
<1>6. ASSUME NEW i \in DOMAIN d.indexFile
      PROVE  LET record == d.indexFile[i]
             IN /\ DecodeIndexRecord(record).ok
                /\ \A bytes \in Shorter(record) \cup Longer(record) : ~DecodeIndexRecord(bytes).ok
  <2>1. i \in DOMAIN indexes /\ d.indexFile[i] = EncodeIndexRecord(indexes[i]) /\ indexes[i] \in StoredIndexes
    BY <1>3
  <2>2. LET z == EncodeIndexRecord(indexes[i])
        IN /\ DecodeIndexRecord(z) = [ok |-> TRUE, index |-> indexes[i]]
           /\ \A bytes \in Shorter(z) \cup Longer(z) : ~DecodeIndexRecord(bytes).ok
    BY <2>1, IndexRecordsDelimited
  <2>. QED BY <2>1, <2>2
<1>. QED BY <1>4, <1>5, <1>6, Zenon DEF RecordsDelimited

\* Records are read back, and nothing shorter or longer passes for one (the
\* decoders of record.cpp, catalog_store.cpp and index_catalog_store.cpp).
THEOREM SessionRecordsDelimited ==
    Spec => []RecordsDelimited
BY SessionConsistent, ConsistentRecords, PTL

\* At most one place is listed as it is looked up.
LEMMA OnePlace ==
    ASSUME NEW S, NEW rows \in Seq(S), NEW places \in SUBSET DOMAIN rows, \A i, j \in places : i = j
    PROVE  RowsAt(rows, places) = AnyOne(rows, places)
<1>. DEFINE r == RowsAt(rows, places)
<1>1. r \in Seq(S) /\ \E g : Bijects(g, DOMAIN r, places) /\ \A k \in DOMAIN r : r[k] = rows[g[k]]
  BY RowsAtPlaces
<1>. HIDE DEF r
<1>2. PICK g : Bijects(g, DOMAIN r, places) /\ \A k \in DOMAIN r : r[k] = rows[g[k]]
  BY <1>1
<1>3. Len(r) \in Nat /\ DOMAIN r = 1 .. Len(r)
  BY <1>1
<1>4. /\ \A k \in DOMAIN r : g[k] \in places
      /\ \A k, l \in DOMAIN r : g[k] = g[l] => k = l
      /\ \A i \in places : \E k \in DOMAIN r : g[k] = i
  BY <1>2 DEF Bijects
<1>5. CASE places = {}
  <2>1. DOMAIN r = {}
    BY <1>4, <1>5
  <2>2. r = <<>>
    BY <1>1, <2>1
  <2>. QED BY <1>5, <2>2 DEF AnyOne, r
<1>6. CASE places # {}
  <2>. DEFINE x == CHOOSE i \in places : TRUE
  <2>1. x \in places
    BY <1>6
  <2>. HIDE DEF x
  <2>2. \A k \in DOMAIN r : g[k] = x
    BY <1>4, <2>1
  <2>3. PICK k \in DOMAIN r : g[k] = x
    BY <1>4, <2>1
  <2>4. \A l \in DOMAIN r : l = k
    BY <1>4, <2>2
  <2>5. 1 \in DOMAIN r /\ Len(r) \in DOMAIN r
    BY <1>3, <2>3
  <2>6. Len(r) = 1 /\ r[1] = rows[x]
    BY <1>2, <2>2, <2>4, <2>5
  <2>7. r = <<rows[x]>>
    BY <1>1, <2>6
  <2>. QED BY <1>6, <2>7 DEF AnyOne, x, r
<1>. QED BY <1>5, <1>6

\* A query that binds, and its answer by a scan of these rows.
Answer(table, rows, s) == Project(table, RowsAt(rows, Selected(table, rows, s.predicate)), s.projections)

\* What the two databases answer, as planned and by a scan.
MemoryAnswer(m, s) == Select(m, FALSE, s)
MemoryScan(m, s) == SequentialScan(m, FALSE, s)
FileAnswer(d, s) == Select(d, TRUE, s)
FilesScanned(d, s) == SequentialScan(d, TRUE, s)

\* In memory there is one plan.
LEMMA AnswerInMemory ==
    ASSUME NEW list, NEW m, Listed(list), InMemory(list, m), NEW s, HasTable(m, s.table),
           NEW t \in Ids(list), Table(m, s.table) = [id |-> t, schema |-> SchemaOf(list, t)]
    PROVE  /\ MemoryAnswer(m, s) = Answer(Table(m, s.table), m.rows[t], s)
           /\ MemoryScan(m, s) = Answer(Table(m, s.table), m.rows[t], s)
<1>. DEFINE table == Table(m, s.table)
<1>1. m.rows[t] \in Seq(Seq(Datums)) /\ table.id = t
  BY DEF InMemory
<1>. HIDE DEF table
<1>2. Scan(m, FALSE, table) = m.rows[t]
  BY <1>1, ScanInMemory
<1>3. MemoryScan(m, s) = Answer(table, m.rows[t], s)
  BY <1>2, Zenon DEF MemoryScan, SequentialScan, Answer, table
<1>4. MemoryAnswer(m, s) = MemoryScan(m, s)
  BY DEF MemoryAnswer, MemoryScan, Select, IndexScan
<1>. QED BY <1>3, <1>4 DEF table

\* On files, an index has at most one row of a key, and it is the one a scan finds.
LEMMA AnswerOnFiles ==
    ASSUME NEW list, NEW indexes, NEW d, Listed(list), Indexed(list, indexes), OnFiles(list, indexes, d),
           NEW s \in Queries, Binds(d, s),
           NEW t \in Ids(list), Table(d, s.table) = [id |-> t, schema |-> SchemaOf(list, t)]
    PROVE  /\ FileAnswer(d, s) = Answer(Table(d, s.table), RowsOf(list, d, t), s)
           /\ FilesScanned(d, s) = Answer(Table(d, s.table), RowsOf(list, d, t), s)
<1>. DEFINE table == Table(d, s.table)
            rows == RowsOf(list, d, t)
<1>1. table.id = t /\ FileScan(d, table) = rows
  <2>1. FileScan(d, table) = rows
    BY ScanOfFiles, Zenon DEF FileScan
  <2>. QED BY <2>1
<1>2. rows \in Seq(Seq(Datums))
  BY RowsOfFiles
<1>. HIDE DEF table, rows
<1>3. FilesScanned(d, s) = Answer(table, rows, s)
  BY <1>1, Zenon DEF FilesScanned, SequentialScan, Answer, table, FileScan
<1>. DEFINE c == Column(table, s.predicate[1].column)
            key == s.predicate[1].literal
            available == IndexesFor(d, table, c)
            n == CHOOSE n \in available : TRUE
<1>4. CASE ~PlansIndexScan(s) \/ available = {}
  <2>1. FileAnswer(d, s) = FilesScanned(d, s)
    BY <1>4, Zenon DEF FileAnswer, FilesScanned, Select, IndexScan, table
  <2>. QED BY <1>3, <2>1 DEF table, rows
<1>5. CASE PlansIndexScan(s) /\ available # {}
  <2>1. n \in available
    BY <1>5
  <2>2. n \in DOMAIN d.indexes /\ d.indexes[n].table = t /\ d.indexes[n].column = c
    <3>. HIDE DEF n, c
    <3>. QED BY <1>1, <2>1 DEF IndexesFor
  <2>3. FileAnswer(d, s) = Project(table, Lookup(d, table, d.indexes[n].column, key), s.projections)
    BY <1>5, Zenon DEF FileAnswer, FilesScanned, Select, IndexScan, table
  <2>. DEFINE places == WithKey(rows, c, key)
  <2>4. Lookup(d, table, c, key) = AnyOne(rows, places)
    <3>. HIDE DEF c, key
    <3>. QED BY <1>1 DEF Lookup, FileScan
  <2>5. ~HasDuplicates(rows, c)
    <3>1. NamesDiffer(indexes) /\ d.indexes = LoadedIndexes(indexes)
      BY DEF Indexed, OnFiles
    <3>2. n \in Named(indexes)
      BY <2>2, <3>1, LoadedIndex
    <3>3. PICK i \in DOMAIN indexes : n = indexes[i].name
      BY <3>2 DEF Named
    <3>. HIDE DEF n, c
    <3>4. d.indexes[n] = [id |-> indexes[i].id, table |-> indexes[i].table, column |-> indexes[i].column + 1]
      BY <3>1, <3>3, LoadedIndex
    <3>5. indexes[i].table = t /\ indexes[i].column + 1 = c
      BY <2>2, <3>4
    <3>6. ~HasDuplicates(RowsOf(list, d, indexes[i].table), indexes[i].column + 1)
      BY DEF OnFiles
    <3>. QED BY <3>5, <3>6 DEF rows
  <2>6. Selected(table, rows, s.predicate) = places
    <3>1. s.predicate # <<>>
      BY <1>5 DEF PlansIndexScan
    <3>. QED BY <3>1 DEF Selected, WithKey
  <2>. HIDE DEF c, key, n
  <2>7. places \in SUBSET DOMAIN rows /\ \A i, j \in places : i = j
    BY <2>5 DEF WithKey, HasDuplicates
  <2>. HIDE DEF places
  <2>8. RowsAt(rows, places) = AnyOne(rows, places)
    <3>. DEFINE S == Seq(Datums)
    <3>1. rows \in Seq(S)
      BY <1>2
    <3>. HIDE DEF S
    <3>. QED BY <2>7, <3>1, OnePlace
  <2>9. FileAnswer(d, s) = Answer(table, rows, s)
    BY <2>2, <2>3, <2>4, <2>6, <2>8 DEF Answer
  <2>. QED BY <1>3, <2>9 DEF table, rows
<1>. QED BY <1>4, <1>5

\* A query that binds has a table.
LEMMA QueryBound ==
    ASSUME NEW s \in Queries, NEW db, Binds(db, s)
    PROVE  HasTable(db, s.table)
<1>1. s.statement = "select"
  BY DEF Queries
<1>. QED BY <1>1 DEF Binds

\* Consistent databases answer a query alike, whatever plan is taken.
LEMMA ConsistentPlans ==
    Consistent(memory, durable, agreed) => PlansAnswerAlike
<1>. SUFFICES ASSUME Consistent(memory, durable, agreed), NEW s \in Queries
              PROVE  /\ Binds(memory, s) => SameRows(Select(memory, FALSE, s), SequentialScan(memory, FALSE, s))
                     /\ Binds(durable, s) /\ Scannable(durable, Table(durable, s.table)) =>
                          SameRows(Select(durable, TRUE, s), SequentialScan(durable, TRUE, s))
  BY DEF PlansAnswerAlike
<1>. DEFINE m == memory
            d == durable
<1>. HIDE DEF m, d
<1>1. KnownInMemory(m) /\ KnownOnFiles(d)
  BY DEF Consistent, m, d
<1>3. ASSUME Binds(m, s) PROVE MemoryAnswer(m, s) = MemoryScan(m, s)
  <2>0. PICK list : Listed(list) /\ InMemory(list, m) /\ m.tables = LoadedTables(list)
    BY <1>1 DEF KnownInMemory, InMemory
  <2>1. HasTable(m, s.table)
    BY <1>3, QueryBound
  <2>2. PICK t \in Ids(list) : Table(m, s.table) = [id |-> t, schema |-> SchemaOf(list, t)]
    BY <2>0, <2>1, TableFound
  <2>. QED BY <2>0, <2>1, <2>2, AnswerInMemory
<1>4. ASSUME Binds(d, s) PROVE FileAnswer(d, s) = FilesScanned(d, s)
  <2>0. PICK list, indexes : Listed(list) /\ Indexed(list, indexes) /\ OnFiles(list, indexes, d) /\ d.tables = LoadedTables(list)
    BY <1>1 DEF KnownOnFiles, OnFiles
  <2>1. HasTable(d, s.table)
    BY <1>4, QueryBound
  <2>2. PICK t \in Ids(list) : Table(d, s.table) = [id |-> t, schema |-> SchemaOf(list, t)]
    BY <2>0, <2>1, TableFound
  <2>. QED BY <1>4, <2>0, <2>2, AnswerOnFiles
<1>5. \A a : SameRows(a, a)
  BY DEF SameRows
<1>. QED BY <1>3, <1>4, <1>5 DEF m, d, MemoryAnswer, MemoryScan, FileAnswer, FilesScanned

\* An index lookup and a scan answer every query alike (ExecuteIndexScan and
\* ExecuteSequentialScan of executor.cpp).
THEOREM SessionPlansAnswerAlike ==
    Spec => []PlansAnswerAlike
BY SessionConsistent, ConsistentPlans, PTL

\* What is chosen from lists of the same rows is the same.
LEMMA ChosenAlike ==
    ASSUME NEW S, NEW a \in Seq(S), NEW b \in Seq(S), SameListing(a, b), NEW table, NEW predicate
    PROVE  /\ RowsAt(a, Selected(table, a, predicate)) \in Seq(S)
           /\ RowsAt(b, Selected(table, b, predicate)) \in Seq(S)
           /\ SameListing(RowsAt(a, Selected(table, a, predicate)), RowsAt(b, Selected(table, b, predicate)))
<1>. DEFINE A == Selected(table, a, predicate)
            B == Selected(table, b, predicate)
            x == RowsAt(a, A)
            y == RowsAt(b, B)
<1>1. PICK p : Bijects(p, DOMAIN a, DOMAIN b) /\ \A i \in DOMAIN a : a[i] = b[p[i]]
  BY DEF SameListing
<1>2. A \in SUBSET DOMAIN a /\ B \in SUBSET DOMAIN b
  BY DEF Selected
<1>3. \A i \in DOMAIN a : i \in A <=> p[i] \in B
  <2>1. \A i \in DOMAIN a : p[i] \in DOMAIN b
    BY <1>1 DEF Bijects
  <2>. QED BY <1>1, <2>1 DEF Selected
<1>. HIDE DEF A, B
<1>4. PICK q : Bijects(q, A, B) /\ \A i \in A : q[i] = p[i]
  <2>1. Bijects(p, DOMAIN a, DOMAIN b)
    BY <1>1
  <2>2. \E q : PartOf(q, p, A, B)
    BY <1>2, <1>3, <2>1, BijectsPart, Zenon
  <2>. QED BY <2>2 DEF PartOf
<1>5. x \in Seq(S) /\ \E g : Bijects(g, DOMAIN x, A) /\ \A k \in DOMAIN x : x[k] = a[g[k]]
  BY <1>2, RowsAtPlaces
<1>6. y \in Seq(S) /\ \E h : Bijects(h, DOMAIN y, B) /\ \A k \in DOMAIN y : y[k] = b[h[k]]
  BY <1>2, RowsAtPlaces
<1>. HIDE DEF x, y
<1>7. PICK g : Bijects(g, DOMAIN x, A) /\ \A k \in DOMAIN x : x[k] = a[g[k]]
  BY <1>5
<1>8. PICK h : Bijects(h, DOMAIN y, B) /\ \A k \in DOMAIN y : y[k] = b[h[k]]
  BY <1>6
<1>9. PICK e : Bijects(e, B, DOMAIN y) /\ \A t \in B : h[e[t]] = t
  BY <1>8, BijectsBack
<1>. DEFINE u == [k \in DOMAIN x |-> q[g[k]]]
            r == [k \in DOMAIN x |-> e[u[k]]]
<1>10. Bijects(u, DOMAIN x, B)
  BY <1>4, <1>7, BijectsComposed
<1>11. \A k \in DOMAIN x : u[k] = q[g[k]]
  OBVIOUS
<1>. HIDE DEF u
<1>12. Bijects(r, DOMAIN x, DOMAIN y)
  BY <1>9, <1>10, BijectsComposed
<1>13. \A k \in DOMAIN x : r[k] = e[u[k]]
  OBVIOUS
<1>. HIDE DEF r
<1>14. ASSUME NEW k \in DOMAIN x PROVE x[k] = y[r[k]]
  <2>1. g[k] \in A /\ x[k] = a[g[k]] /\ u[k] \in B /\ u[k] = q[g[k]] /\ r[k] \in DOMAIN y
    BY <1>7, <1>10, <1>11, <1>12 DEF Bijects
  <2>2. a[g[k]] = b[p[g[k]]] /\ q[g[k]] = p[g[k]]
    BY <1>1, <1>2, <1>4, <2>1
  <2>3. y[r[k]] = b[h[r[k]]] /\ h[r[k]] = u[k]
    BY <1>8, <1>9, <1>13, <2>1
  <2>. QED BY <2>1, <2>2, <2>3
<1>15. SameListing(x, y)
  BY <1>12, <1>14 DEF SameListing
<1>. QED BY <1>5, <1>6, <1>15 DEF x, y, A, B

\* So are the columns of it.
LEMMA ProjectedAlike ==
    ASSUME NEW S, NEW a \in Seq(S), NEW b \in Seq(S), SameListing(a, b), NEW table, NEW columns
    PROVE  SameRows(Project(table, a, columns), Project(table, b, columns))
<1>. DEFINE Part(row) == [i \in DOMAIN columns |-> row[Column(table, columns[i])]]
            x == Project(table, a, columns)
            y == Project(table, b, columns)
<1>1. PICK p : Bijects(p, DOMAIN a, DOMAIN b) /\ \A i \in DOMAIN a : a[i] = b[p[i]]
  BY DEF SameListing
<1>2. x = [i \in DOMAIN a |-> Part(a[i])] /\ y = [i \in DOMAIN b |-> Part(b[i])]
  BY Zenon DEF Project
<1>. HIDE DEF Part, x, y
<1>3. /\ DOMAIN x = DOMAIN a /\ DOMAIN y = DOMAIN b
      /\ (\A i \in DOMAIN a : x[i] = Part(a[i])) /\ \A i \in DOMAIN b : y[i] = Part(b[i])
  BY <1>2
<1>4. \A i \in DOMAIN a : p[i] \in DOMAIN b
  BY <1>1 DEF Bijects
<1>5. \A i \in DOMAIN x : x[i] = y[p[i]]
  BY <1>1, <1>3, <1>4
<1>6. SameListing(x, y)
  BY <1>1, <1>3, <1>5 DEF SameListing
<1>. DEFINE U == {x[i] : i \in DOMAIN x} \cup {y[i] : i \in DOMAIN y}
<1>7. DOMAIN a = 1 .. Len(a) /\ Len(a) \in Nat /\ DOMAIN b = 1 .. Len(b) /\ Len(b) \in Nat
  OBVIOUS
<1>8. x = [i \in DOMAIN x |-> x[i]] /\ y = [i \in DOMAIN y |-> y[i]]
  BY <1>2
<1>9. x \in [1 .. Len(a) -> U] /\ y \in [1 .. Len(b) -> U]
  BY <1>3, <1>7, <1>8
<1>. HIDE DEF U
<1>10. x \in Seq(U) /\ y \in Seq(U)
  BY <1>7, <1>9, AsSequence
<1>11. SameRows(x, y)
  BY <1>6, <1>10, ListedAlike
<1>. QED BY <1>11 DEF x, y

\* Consistent databases hold the same tables, indexes and rows while they agree.
LEMMA ConsistentAgrees ==
    Consistent(memory, durable, agreed) => DatabasesAgree
<1>. SUFFICES ASSUME Consistent(memory, durable, agreed) PROVE DatabasesAgree
  OBVIOUS
<1>. DEFINE m == memory
            d == durable
<1>0. agreed \in BOOLEAN /\ (agreed <=> Storable(memory))
  BY DEF Consistent
<1>a. ASSUME ~agreed PROVE DatabasesAgree
  BY <1>0, <1>a DEF DatabasesAgree
<1>. SUFFICES ASSUME agreed PROVE DatabasesAgree
  BY <1>0, <1>a
<1>1. PICK list, indexes :
        /\ Listed(list) /\ Indexed(list, indexes) /\ InMemory(list, m) /\ OnFiles(list, indexes, d)
        /\ Alike(list, indexes, m, d)
  BY DEF Consistent, KnownAlike
<1>. HIDE DEF m, d
<1>2. /\ Listed(list) /\ Indexed(list, indexes) /\ InMemory(list, m) /\ OnFiles(list, indexes, d)
      /\ m.tables = LoadedTables(list) /\ d.tables = LoadedTables(list)
      /\ (\A s : Binds(m, s) <=> Binds(d, s))
      /\ \A text : (HasTable(m, text) <=> HasTable(d, text)) /\ Table(m, text) = Table(d, text)
  BY <1>1, SameTables
<1>3. ASSUME NEW s \in Queries, Binds(d, s) PROVE SameRows(FileAnswer(d, s), MemoryAnswer(m, s))
  <2>1. HasTable(d, s.table) /\ HasTable(m, s.table)
    BY <1>2, <1>3, QueryBound
  <2>2. PICK t \in Ids(list) : Table(d, s.table) = [id |-> t, schema |-> SchemaOf(list, t)]
    BY <1>2, <2>1, TableFound
  <2>. DEFINE table == Table(d, s.table)
              a == RowsOf(list, d, t)
              b == m.rows[t]
  <2>3. Table(m, s.table) = [id |-> t, schema |-> SchemaOf(list, t)] /\ Table(m, s.table) = table
    BY <1>2, <2>2
  <2>4. FileAnswer(d, s) = Answer(table, a, s)
    BY <1>2, <1>3, <2>2, AnswerOnFiles
  <2>5. MemoryAnswer(m, s) = Answer(Table(m, s.table), b, s)
    BY <1>2, <2>1, <2>3, AnswerInMemory
  <2>6. SameListing(a, b)
    BY <1>1 DEF Alike
  <2>. DEFINE S == Seq(Datums)
  <2>7. a \in Seq(S) /\ b \in Seq(S)
    <3>1. a \in Seq(Seq(Datums))
      BY <1>2, RowsOfFiles
    <3>2. m.rows \in [Ids(list) -> Seq(Seq(Datums))]
      BY <1>2 DEF InMemory
    <3>. QED BY <3>1, <3>2
  <2>. HIDE DEF S, a, b, table
  <2>. DEFINE x == RowsAt(a, Selected(table, a, s.predicate))
              y == RowsAt(b, Selected(table, b, s.predicate))
  <2>8. x \in Seq(S) /\ y \in Seq(S) /\ SameListing(x, y)
    BY <2>6, <2>7, ChosenAlike
  <2>9. Answer(table, a, s) = Project(table, x, s.projections) /\ Answer(table, b, s) = Project(table, y, s.projections)
    BY DEF Answer
  <2>. HIDE DEF x, y
  <2>10. SameRows(Project(table, x, s.projections), Project(table, y, s.projections))
    BY <2>8, ProjectedAlike
  <2>. QED BY <2>3, <2>4, <2>5, <2>9, <2>10
<1>4. /\ d.tables = m.tables /\ d.indexes = m.indexes
      /\ d.blankHeaps = {} /\ ~d.blankCatalog /\ ~d.blankIndexCatalog
  BY <1>1, <1>2 DEF Alike, Whole
<1>. QED BY <1>0, <1>2, <1>3, <1>4, Zenon DEF DatabasesAgree, FileAnswer, MemoryAnswer, m, d

\* A database in memory and one on files answer alike until the one in memory
\* takes what the other must refuse (Database::Execute).
THEOREM SessionDatabasesAgree ==
    Spec => []DatabasesAgree
BY SessionConsistent, ConsistentAgrees, PTL
=============================================================================
