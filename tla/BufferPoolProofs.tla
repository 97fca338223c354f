-------------------------- MODULE BufferPoolProofs --------------------------
(***************************************************************************)
(* Proofs about BufferPool: its inductive invariant IInv, and what follows.*)
(***************************************************************************)
EXTENDS BufferPool, FiniteSetTheorems, SequenceTheorems, TLAPS

(***************************************************************************)
(* The replacer list.  RemoveFirst takes an element out of a sequence      *)
(* without repetitions and leaves the others in place.                     *)
(***************************************************************************)
LEMMA RemoveFirstProperties ==
    ASSUME NEW S, NEW q \in Seq(S), IsInjective(q), NEW e
    PROVE  /\ RemoveFirst(q, e) \in Seq(S)
           /\ IsInjective(RemoveFirst(q, e))
           /\ ToSet(RemoveFirst(q, e)) = ToSet(q) \ {e}
<1>1. CASE ~ \E i \in 1 .. Len(q) : q[i] = e
  <2>1. RemoveFirst(q, e) = q
    BY <1>1 DEF RemoveFirst
  <2>2. e \notin ToSet(q)
    BY <1>1 DEF ToSet
  <2>. QED BY <2>1, <2>2
<1>2. CASE \E i \in 1 .. Len(q) : q[i] = e
  <2>1. PICK i \in 1 .. Len(q) : q[i] = e
    BY <1>2
  <2>2. {j \in 1 .. Len(q) : q[j] = e} = {i}
    BY <2>1 DEF IsInjective
  <2>3. Min({i}) = i
    BY DEF Min
  <2>4. SelectInSeq(q, LAMBDA v : v = e) = i
    BY <2>2, <2>3 DEF SelectInSeq
  <2>5. RemoveFirst(q, e) = RemoveAt(q, i)
    BY <1>2, <2>4 DEF RemoveFirst
  <2>. DEFINE r == RemoveAt(q, i)
  <2>6. /\ r \in Seq(S)
        /\ Len(r) = Len(q) - 1
        /\ \A k \in 1 .. Len(r) : r[k] = IF k < i THEN q[k] ELSE q[k + 1]
    <3>. DEFINE before == SubSeq(q, 1, i - 1)
                after == SubSeq(q, i + 1, Len(q))
    <3>1. Len(q) \in Nat /\ \A k \in 1 .. Len(q) : q[k] \in S
      BY ElementOfSeq
    <3>2. /\ before \in Seq(S) /\ Len(before) = i - 1
          /\ \A k \in 1 .. (i - 1) : before[k] = q[k]
      <4>1. \A k \in 1 .. (i - 1) : q[k] \in S
        BY <2>1, <3>1
      <4>. QED BY <4>1, <2>1, <3>1, SubSeqProperties
    <3>3. /\ after \in Seq(S) /\ Len(after) = Len(q) - i
          /\ \A k \in 1 .. (Len(q) - i) : after[k] = q[i + k]
      <4>1. \A k \in (i + 1) .. Len(q) : q[k] \in S
        BY <2>1, <3>1
      <4>2. i + 1 \in Int /\ Len(q) \in Int
        BY <2>1, <3>1
      <4>3. /\ after \in Seq(S)
            /\ Len(after) = IF i + 1 <= Len(q) THEN Len(q) - (i + 1) + 1 ELSE 0
            /\ \A k \in 1 .. (Len(q) - (i + 1) + 1) : after[k] = q[(i + 1) + k - 1]
        BY <4>1, <4>2, SubSeqProperties
      <4>. QED BY <4>3, <2>1, <3>1
    <3>. HIDE DEF before, after
    <3>4. /\ before \o after \in Seq(S)
          /\ Len(before \o after) = Len(before) + Len(after)
          /\ \A k \in 1 .. Len(before) + Len(after) : (before \o after)[k] =
                IF k <= Len(before) THEN before[k] ELSE after[k - Len(before)]
      BY <3>2, <3>3, ConcatProperties
    <3>5. r = before \o after
      BY DEF RemoveAt, before, after
    <3>6. Len(r) = Len(q) - 1
      BY <3>2, <3>3, <3>4, <3>5, <2>1, <3>1
    <3>7. ASSUME NEW k \in 1 .. Len(r)
          PROVE  r[k] = IF k < i THEN q[k] ELSE q[k + 1]
      <4>1. CASE k < i
        <5>1. k \in 1 .. (i - 1) /\ k \in 1 .. Len(before) + Len(after)
          BY <4>1, <3>1, <3>2, <3>3, <3>6, <2>1
        <5>. QED BY <5>1, <4>1, <3>2, <3>4, <3>5
      <4>2. CASE ~(k < i)
        <5>1. /\ k - (i - 1) \in 1 .. (Len(q) - i)
              /\ k \in 1 .. Len(before) + Len(after)
              /\ ~(k <= Len(before))
              /\ i + (k - (i - 1)) = k + 1
          BY <4>2, <3>1, <3>2, <3>3, <3>6, <2>1
        <5>2. r[k] = after[k - (i - 1)]
          BY <5>1, <3>2, <3>4, <3>5
        <5>. QED BY <5>1, <5>2, <4>2, <3>3
      <4>. QED BY <4>1, <4>2
    <3>. QED BY <3>4, <3>5, <3>6, <3>7
  <2>. HIDE DEF r
  <2>7. IsInjective(r)
    <3>1. SUFFICES ASSUME NEW a \in 1 .. Len(r), NEW b \in 1 .. Len(r), r[a] = r[b]
                   PROVE  a = b
      BY <2>6 DEF IsInjective
    <3>. DEFINE pos(k) == IF k < i THEN k ELSE k + 1
    <3>2. /\ pos(a) \in 1 .. Len(q) /\ pos(b) \in 1 .. Len(q)
          /\ q[pos(a)] = q[pos(b)]
      BY <3>1, <2>6, <2>1
    <3>3. pos(a) = pos(b)
      <4>. HIDE DEF pos
      <4>. QED BY <3>2 DEF IsInjective
    <3>. QED BY <3>3, <2>1
  <2>8. \A x : x \in ToSet(r) <=> x \in ToSet(q) /\ x # e
    <3>1. ASSUME NEW x \in ToSet(r) PROVE x \in ToSet(q) /\ x # e
      <4>1. PICK k \in 1 .. Len(r) : x = r[k]
        BY <2>6 DEF ToSet
      <4>2. PICK j \in 1 .. Len(q) : j # i /\ x = q[j]
        <5>1. k \in 1 .. Len(q) /\ k + 1 \in 1 .. Len(q)
          BY <2>6, <2>1
        <5>2. CASE k < i
          BY <5>1, <5>2, <4>1, <2>6, <2>1
        <5>3. CASE ~(k < i)
          BY <5>1, <5>3, <4>1, <2>6, <2>1
        <5>. QED BY <5>2, <5>3
      <4>. QED BY <4>2, <2>1 DEF ToSet, IsInjective
    <3>2. ASSUME NEW x \in ToSet(q), x # e PROVE x \in ToSet(r)
      <4>1. PICK j \in 1 .. Len(q) : x = q[j]
        BY DEF ToSet
      <4>2. PICK k \in 1 .. Len(r) : x = r[k]
        <5>1. CASE j < i
          BY <5>1, <4>1, <2>1, <2>6
        <5>2. CASE j > i
          <6>1. j - 1 \in 1 .. Len(r) /\ x = r[j - 1]
            BY <5>2, <4>1, <2>1, <2>6
          <6>. QED BY <6>1
        <5>. QED BY <5>1, <5>2, <4>1, <2>1, <3>2
      <4>. QED BY <4>2, <2>6 DEF ToSet
    <3>. QED BY <3>1, <3>2
  <2>. QED BY <2>5, <2>6, <2>7, <2>8 DEF r
<1>. QED BY <1>1, <1>2

\* AddToReplacer lists the frame once, at the end.
LEMMA AddToReplacerProperties ==
    ASSUME NEW S, NEW q \in Seq(S), IsInjective(q), NEW e \in S
    PROVE  /\ AddToReplacer(q, e) \in Seq(S)
           /\ IsInjective(AddToReplacer(q, e))
           /\ ToSet(AddToReplacer(q, e)) = ToSet(q) \cup {e}
<1>. DEFINE r == RemoveFirst(q, e)
<1>1. r \in Seq(S) /\ IsInjective(r) /\ ToSet(r) = ToSet(q) \ {e}
  BY RemoveFirstProperties
<1>. HIDE DEF r
<1>. DEFINE a == Append(r, e)
<1>2. /\ a \in Seq(S) /\ Len(a) = Len(r) + 1 /\ a[Len(r) + 1] = e
      /\ \A i \in 1 .. Len(r) : a[i] = r[i]
  BY <1>1, AppendProperties
<1>. HIDE DEF a
<1>3. \A i \in 1 .. Len(r) : r[i] # e
  BY <1>1 DEF ToSet
<1>4. IsInjective(a)
  BY <1>1, <1>2, <1>3 DEF IsInjective
<1>5. ToSet(a) = ToSet(r) \cup {e}
  BY <1>1, <1>2 DEF ToSet
<1>. QED BY <1>1, <1>2, <1>4, <1>5 DEF AddToReplacer, RemoveFromReplacer, a, r
-----------------------------------------------------------------------------
(* Initially the pool is empty. *)
LEMMA InitIInv == Init => IInv
<1>. SUFFICES ASSUME Init PROVE IInv
  OBVIOUS
<1>. USE DiskConstants, PoolConstants DEF Init
<1>1. FileTypeOK
  <2>1. disk \in [PageId -> Data \cup {Corrupt, Absent}]
    BY DEF FileInit
  <2>2. \A p \in PageId : disk[p] = Absent /\ p >= size
    BY DEF FileInit, PageId
  <2>3. size \in 0 .. MaxPages
    BY DEF FileInit
  <2>4. tail \in BOOLEAN
    BY DEF FileInit
  <2>. QED BY <2>1, <2>2, <2>3, <2>4 DEF FileTypeOK
<1>2. PoolTypeOK
  BY EmptySeq DEF PoolTypeOK, EmptyFrame, Released, InvalidPageId
<1>3. \A f \in Frames : frames[f].page = NoPage /\ frames[f].pin = 0
  BY DEF EmptyFrame
<1>4. \A g \in Guards : guards[g].frame = NoFrame
  BY DEF Released
<1>5. PageTableExact /\ GuardsKeepTheirPage /\ CachedPagesExist /\ NoLostUpdate
  BY <1>3, <1>4 DEF PageTableExact, GuardsKeepTheirPage, CachedPagesExist, NoLostUpdate,
     Holds, Live
<1>6. PinsAccounted
  <2>1. ASSUME NEW f \in Frames PROVE {g \in Guards : guards[g].frame = f} = {}
    BY <1>4 DEF Frames
  <2>. QED BY <2>1, <1>3, FS_EmptySet DEF PinsAccounted
<1>7. ReplacerExact
  <2>1. lru = << >> /\ DOMAIN lru = {}
    BY EmptySeq
  <2>. QED BY <2>1, <1>3 DEF ReplacerExact, IsInjective, ToSet, Holds
<1>. QED BY <1>1, <1>2, <1>5, <1>6, <1>7 DEF IInv

-----------------------------------------------------------------------------
(* What the invariant says of one frame, page or guard, in the form the step
   proofs use. *)
LEMMA FrameFacts ==
    ASSUME IInv, NEW f \in Frames
    PROVE  /\ frames[f] \in [page : MemPage \cup {NoPage}, pin : Nat, dirty : BOOLEAN]
           /\ frames[f] = [page |-> frames[f].page, pin |-> frames[f].pin,
                           dirty |-> frames[f].dirty]
           /\ f \in Nat /\ f # NoFrame
           /\ Holds(f) => /\ frames[f].page \in MemPage
                          /\ frames[f].page.id \in PageId
                          /\ frames[f].page.data \in Data
                          /\ frames[f].page.id < size
                          /\ page_table[frames[f].page.id] = f
BY PoolConstants DEF IInv, PoolTypeOK, Holds, MemPage, Frames, PageTableExact, CachedPagesExist

\* Two frames never hold the same page.
LEMMA FramesDisjoint ==
    ASSUME IInv, NEW e \in Frames, NEW f \in Frames, Holds(e), Holds(f),
           frames[e].page.id = frames[f].page.id
    PROVE  e = f
BY FrameFacts

\* Flushing the frames in F writes each dirty one's page and no other page.
LEMMA DiskWithProperties ==
    ASSUME IInv, NEW F \in SUBSET Frames
    PROVE  /\ DiskWith(F) \in [PageId -> Data \cup {Corrupt, Absent}]
           /\ \A p \in PageId : DiskWith(F)[p] = Absent <=> p >= size
           /\ \A f \in Frames : Holds(f) =>
                 DiskWith(F)[frames[f].page.id] =
                    IF f \in F /\ frames[f].dirty THEN frames[f].page.data
                    ELSE disk[frames[f].page.id]
<1>1. ASSUME NEW p \in PageId, Writers(F, p) # {}
      PROVE  \E f \in F : /\ Holds(f) /\ frames[f].page.id = p
                          /\ DiskWith(F)[p] = frames[f].page.data
  BY <1>1 DEF DiskWith, Writers, NeedsFlush
<1>2. ASSUME NEW p \in PageId, Writers(F, p) = {}
      PROVE  DiskWith(F)[p] = disk[p]
  BY <1>2 DEF DiskWith
<1>3. ASSUME NEW p \in PageId
      PROVE  /\ DiskWith(F)[p] \in Data \cup {Corrupt, Absent}
             /\ DiskWith(F)[p] = Absent <=> p >= size
  <2>1. CASE Writers(F, p) # {}
    <3>1. PICK f \in F : /\ Holds(f) /\ frames[f].page.id = p
                         /\ DiskWith(F)[p] = frames[f].page.data
      BY <1>1, <2>1
    <3>2. frames[f].page.data \in Data /\ p < size
      BY <3>1, FrameFacts
    <3>. QED BY <3>1, <3>2, DiskConstants DEF IInv, FileTypeOK, PageId
  <2>2. CASE Writers(F, p) = {}
    BY <1>2, <2>2 DEF IInv, FileTypeOK
  <2>. QED BY <2>1, <2>2
<1>4. ASSUME NEW f \in Frames, Holds(f)
      PROVE  DiskWith(F)[frames[f].page.id] =
                IF f \in F /\ frames[f].dirty THEN frames[f].page.data
                ELSE disk[frames[f].page.id]
  <2>. DEFINE p == frames[f].page.id
  <2>1. p \in PageId
    BY <1>4, FrameFacts
  <2>2. CASE f \in F /\ frames[f].dirty
    <3>1. f \in Writers(F, p)
      BY <1>4, <2>2 DEF Writers, NeedsFlush
    <3>2. PICK e \in F : /\ Holds(e) /\ frames[e].page.id = p
                         /\ DiskWith(F)[p] = frames[e].page.data
      BY <1>1, <2>1, <3>1
    <3>3. e = f
      BY <3>2, <1>4, FramesDisjoint
    <3>. QED BY <2>2, <3>2, <3>3
  <2>3. CASE ~(f \in F /\ frames[f].dirty)
    <3>1. Writers(F, p) = {}
      <4>1. SUFFICES ASSUME NEW e \in Writers(F, p) PROVE FALSE
        OBVIOUS
      <4>2. e \in Frames /\ Holds(e) /\ frames[e].page.id = p /\ frames[e].dirty /\ e \in F
        BY <4>1 DEF Writers, NeedsFlush
      <4>. QED BY <4>2, <1>4, <2>3, FramesDisjoint
    <3>. QED BY <3>1, <2>1, <1>2, <2>3
  <2>. QED BY <2>2, <2>3
<1>5. DiskWith(F) = [p \in PageId |-> DiskWith(F)[p]]
  BY DEF DiskWith
<1>. QED BY <1>3, <1>4, <1>5
\* A frame is unpinned exactly when no guard points at it, and a frame that
\* holds no page has none.
LEMMA UnpinnedFacts ==
    ASSUME IInv, NEW f \in Frames
    PROVE  /\ frames[f].pin = 0 <=> \A g \in Guards : guards[g].frame # f
           /\ ~Holds(f) => frames[f].pin = 0
<1>. DEFINE on == {g \in Guards : guards[g].frame = f}
<1>1. IsFiniteSet(on)
  BY PoolConstants, FS_Subset
<1>2. frames[f].pin = Cardinality(on)
  BY DEF IInv, PinsAccounted
<1>3. frames[f].pin = 0 <=> on = {}
  BY <1>1, <1>2, FS_EmptySet
<1>4. ASSUME NEW g \in Guards, guards[g].frame = f PROVE Holds(f)
  <2>1. Live(g)
    BY <1>4, FrameFacts DEF Live
  <2>. QED BY <2>1, <1>4, FrameFacts DEF IInv, GuardsKeepTheirPage, PageTableExact
<1>. QED BY <1>3, <1>4

\* The frame AcquireFrame chooses has no guard, and evicting it takes exactly
\* its page out of the page table and it out of the replacer.
LEMMA EvictFacts ==
    ASSUME IInv, NEW f \in Frames, AcquireFrame(f)
    PROVE  /\ frames[f].pin = 0
           /\ \A g \in Guards : guards[g].frame # f
           /\ LruWithout(f) \in Seq(Frames)
           /\ IsInjective(LruWithout(f))
           /\ \A e \in Frames : e \in ToSet(LruWithout(f))
                                  <=> e # f /\ Holds(e) /\ frames[e].pin = 0
           /\ TableWithout(f) \in [PageId -> Frames \cup {NoFrame}]
           /\ \A p \in PageId : TableWithout(f)[p] =
                  IF page_table[p] = f THEN NoFrame ELSE page_table[p]
<1>1. lru \in Seq(Frames) /\ IsInjective(lru)
  BY DEF IInv, PoolTypeOK, ReplacerExact
<1>2. \A e \in Frames : e \in ToSet(lru) <=> Holds(e) /\ frames[e].pin = 0
  BY DEF IInv, ReplacerExact
<1>3. page_table \in [PageId -> Frames \cup {NoFrame}]
  BY DEF IInv, PoolTypeOK
<1>4. frames[f].pin = 0
  <2>1. CASE ~Holds(f)
    BY <2>1, UnpinnedFacts
  <2>2. CASE Holds(f)
    <3>1. lru # << >> /\ f = Head(lru)
      BY <2>2 DEF AcquireFrame
    <3>2. f \in ToSet(lru)
      BY <1>1, <3>1 DEF ToSet
    <3>. QED BY <1>2, <3>2
  <2>. QED BY <2>1, <2>2
<1>5. \A g \in Guards : guards[g].frame # f
  BY <1>4, UnpinnedFacts
<1>6. /\ LruWithout(f) \in Seq(Frames)
      /\ IsInjective(LruWithout(f))
      /\ \A e \in Frames : e \in ToSet(LruWithout(f))
                             <=> e # f /\ Holds(e) /\ frames[e].pin = 0
  <2>1. CASE ~Holds(f)
    BY <2>1, <1>1, <1>2 DEF LruWithout
  <2>2. CASE Holds(f)
    <3>1. LruWithout(f) = RemoveFirst(lru, f)
      BY <2>2 DEF LruWithout, RemoveFromReplacer
    <3>. QED BY <3>1, <1>1, <1>2, RemoveFirstProperties
  <2>. QED BY <2>1, <2>2
<1>7. /\ TableWithout(f) \in [PageId -> Frames \cup {NoFrame}]
      /\ \A p \in PageId : TableWithout(f)[p] =
             IF page_table[p] = f THEN NoFrame ELSE page_table[p]
  <2>1. \A p \in PageId : page_table[p] = f => Holds(f) /\ frames[f].page.id = p
    <3>1. f # NoFrame
      BY FrameFacts
    <3>. QED BY <3>1 DEF IInv, PageTableExact
  <2>2. CASE ~Holds(f)
    BY <2>1, <2>2, <1>3 DEF TableWithout
  <2>3. CASE Holds(f)
    <3>1. page_table[frames[f].page.id] = f /\ frames[f].page.id \in PageId
      BY <2>3, FrameFacts
    <3>2. TableWithout(f) = [page_table EXCEPT ![frames[f].page.id] = NoFrame]
      BY <2>3 DEF TableWithout
    <3>. QED BY <2>1, <3>1, <3>2, <1>3
  <2>. QED BY <2>2, <2>3
<1>. QED BY <1>4, <1>5, <1>6, <1>7

-----------------------------------------------------------------------------
(* Preservation, one lemma per kind of step. *)

\* A call that is refused.
LEMMA RefusalStep == IInv /\ UNCHANGED <<fileVars, poolVars>> => IInv'
BY DEF IInv, fileVars, poolVars, FileTypeOK, PoolTypeOK, PageTableExact, GuardsKeepTheirPage,
   PinsAccounted, ReplacerExact, CachedPagesExist, NoLostUpdate, Holds, Live

\* A step that writes pages back: it may finalize cached pages, clear dirty
\* flags and change the file, and clears a flag only if the file now holds the
\* page.
LEMMA WriteBackStep ==
    ASSUME IInv,
           frames' \in [Frames -> [page : MemPage \cup {NoPage}, pin : Nat, dirty : BOOLEAN]],
           \A f \in Frames :
              /\ frames'[f].pin = frames[f].pin
              /\ frames'[f].page = NoPage <=> frames[f].page = NoPage
              /\ Holds(f) => /\ frames'[f].page.id = frames[f].page.id
                             /\ frames'[f].page.data = frames[f].page.data
              /\ Holds(f) /\ ~frames'[f].dirty =>
                    \/ disk'[frames[f].page.id] = frames[f].page.data
                    \/ ~frames[f].dirty /\ disk'[frames[f].page.id] = disk[frames[f].page.id],
           disk' \in [PageId -> Data \cup {Corrupt, Absent}],
           \A p \in PageId : disk'[p] = Absent <=> p >= size,
           UNCHANGED <<size, tail, open, page_table, lru, guards>>
    PROVE  IInv'
<1>1. FileTypeOK'
  BY DEF IInv, FileTypeOK
<1>2. PoolTypeOK'
  BY DEF IInv, PoolTypeOK
<1>3. \A f \in Frames : Holds(f)' <=> Holds(f)
  BY DEF Holds
<1>4. \A g \in Guards : Live(g)' <=> Live(g)
  BY DEF Live
<1>5. PageTableExact'
  <2>1. ASSUME NEW p \in PageId, page_table[p] # NoFrame
        PROVE  Holds(page_table[p])' /\ frames'[page_table[p]].page.id = p
    <3>1. page_table[p] \in Frames
      BY <2>1 DEF IInv, PoolTypeOK
    <3>2. Holds(page_table[p]) /\ frames[page_table[p]].page.id = p
      BY <2>1 DEF IInv, PageTableExact
    <3>. QED BY <3>1, <3>2, <1>3
  <2>2. ASSUME NEW f \in Frames, Holds(f)'
        PROVE  page_table[frames'[f].page.id] = f
    BY <2>2, <1>3 DEF IInv, PageTableExact
  <2>. QED BY <2>1, <2>2 DEF PageTableExact
<1>6. GuardsKeepTheirPage'
  BY <1>4 DEF IInv, GuardsKeepTheirPage
<1>7. PinsAccounted'
  <2>1. \A f \in Frames :
           frames[f].pin = Cardinality({g \in Guards : guards[g].frame = f})
    BY DEF IInv, PinsAccounted
  <2>2. \A f \in Frames : frames'[f].pin = frames[f].pin
    OBVIOUS
  <2>. QED BY <2>1, <2>2 DEF PinsAccounted
<1>8. ReplacerExact'
  <2>1. IsInjective(lru)
    BY DEF IInv, ReplacerExact
  <2>2. ASSUME NEW f \in Frames
        PROVE  f \in ToSet(lru) <=> Holds(f)' /\ frames'[f].pin = 0
    <3>1. f \in ToSet(lru) <=> Holds(f) /\ frames[f].pin = 0
      BY DEF IInv, ReplacerExact
    <3>. QED BY <3>1, <1>3
  <2>. QED BY <2>1, <2>2 DEF ReplacerExact
<1>9. CachedPagesExist'
  BY <1>3 DEF IInv, CachedPagesExist
<1>10. NoLostUpdate'
  BY <1>3 DEF IInv, NoLostUpdate
<1>. QED BY <1>1, <1>2, <1>5, <1>6, <1>7, <1>8, <1>9, <1>10 DEF IInv

\* The pool object goes away.
LEMMA PoolGoneStep ==
    ASSUME IInv, PoolGone, UNCHANGED <<size, tail>>,
           disk' \in [PageId -> Data \cup {Corrupt, Absent}],
           \A p \in PageId : disk'[p] = Absent <=> p >= size
    PROVE  IInv'
<1>. USE DEF PoolGone
<1>1. FileTypeOK'
  BY DEF IInv, FileTypeOK
<1>2. PoolTypeOK'
  <2>1. open' \in BOOLEAN
    OBVIOUS
  <2>2. frames' \in [Frames -> [page : MemPage \cup {NoPage}, pin : Nat, dirty : BOOLEAN]]
    BY DEF EmptyFrame
  <2>3. page_table' \in [PageId -> Frames \cup {NoFrame}] /\ lru' \in Seq(Frames)
    BY EmptySeq
  <2>4. guards' \in [Guards -> [page : 0 .. MaxPages, frame : Frames \cup {NoFrame},
                              dirty : BOOLEAN]]
    <3>1. MaxPages \in 0 .. MaxPages
      BY DiskConstants
    <3>. QED BY <3>1 DEF Released, InvalidPageId
  <2>. QED BY <2>1, <2>2, <2>3, <2>4 DEF PoolTypeOK
<1>3. \A f \in Frames : frames'[f].page = NoPage /\ frames'[f].pin = 0
  BY DEF EmptyFrame
<1>4. \A g \in Guards : guards'[g].frame = NoFrame
  BY DEF Released
<1>5. (PageTableExact /\ GuardsKeepTheirPage /\ CachedPagesExist /\ NoLostUpdate)'
  BY <1>3, <1>4 DEF PageTableExact, GuardsKeepTheirPage, CachedPagesExist, NoLostUpdate,
     Holds, Live
<1>6. PinsAccounted'
  <2>1. ASSUME NEW f \in Frames PROVE {g \in Guards : guards'[g].frame = f} = {}
    BY <1>4, PoolConstants DEF Frames
  <2>. QED BY <2>1, <1>3, FS_EmptySet DEF PinsAccounted
<1>7. ReplacerExact'
  <2>1. lru' = << >> /\ DOMAIN lru' = {}
    BY EmptySeq
  <2>. QED BY <2>1, <1>3 DEF ReplacerExact, IsInjective, ToSet, Holds
<1>. QED BY <1>1, <1>2, <1>5, <1>6, <1>7 DEF IInv
\* A step that changes pins and guards but neither the cached pages nor the
\* file: each frame's pin count follows its guards, the replacer follows the
\* pin counts, guards stay on their pages, and a dirty flag leaves a guard only
\* towards its frame.
LEMMA PinStep ==
    ASSUME IInv,
           frames' \in [Frames -> [page : MemPage \cup {NoPage}, pin : Nat, dirty : BOOLEAN]],
           guards' \in [Guards -> [page : 0 .. MaxPages, frame : Frames \cup {NoFrame},
                                  dirty : BOOLEAN]],
           lru' \in Seq(Frames), IsInjective(lru'),
           \A f \in Frames :
              /\ frames'[f].page = frames[f].page
              /\ frames'[f].pin = Cardinality({g \in Guards : guards'[g].frame = f})
              /\ f \in ToSet(lru') <=> Holds(f) /\ frames'[f].pin = 0
              /\ frames[f].dirty => frames'[f].dirty,
           \A g \in Guards : guards'[g].frame # NoFrame =>
              /\ guards'[g].page \in PageId
              /\ page_table[guards'[g].page] = guards'[g].frame,
           \A g \in Guards : guards[g].dirty /\ guards[g].frame # NoFrame =>
              \/ frames'[guards[g].frame].dirty
              \/ \E h \in Guards : guards'[h].frame = guards[g].frame /\ guards'[h].dirty,
           UNCHANGED <<fileVars, open, page_table>>
    PROVE  IInv'
<1>1. FileTypeOK'
  BY DEF IInv, FileTypeOK, fileVars
<1>2. PoolTypeOK'
  BY DEF IInv, PoolTypeOK
<1>3. \A f \in Frames : Holds(f)' <=> Holds(f)
  BY DEF Holds
<1>4. PageTableExact'
  <2>1. ASSUME NEW p \in PageId, page_table[p] # NoFrame
        PROVE  Holds(page_table[p])' /\ frames'[page_table[p]].page.id = p
    <3>1. page_table[p] \in Frames
      BY <2>1 DEF IInv, PoolTypeOK
    <3>. QED BY <2>1, <3>1, <1>3 DEF IInv, PageTableExact
  <2>2. ASSUME NEW f \in Frames, Holds(f)'
        PROVE  page_table[frames'[f].page.id] = f
    BY <2>2, <1>3 DEF IInv, PageTableExact
  <2>. QED BY <2>1, <2>2 DEF PageTableExact
<1>5. GuardsKeepTheirPage'
  BY DEF GuardsKeepTheirPage, Live
<1>6. PinsAccounted'
  BY DEF PinsAccounted
<1>7. ReplacerExact'
  BY <1>3 DEF ReplacerExact
<1>8. CachedPagesExist'
  BY <1>3 DEF IInv, CachedPagesExist, fileVars
<1>9. NoLostUpdate'
  <2>1. SUFFICES ASSUME NEW f \in Frames, Holds(f), ~frames'[f].dirty,
                        \A g \in Guards : guards'[g].frame = f => ~guards'[g].dirty
                 PROVE  disk[frames[f].page.id] = frames[f].page.data
    BY <1>3 DEF NoLostUpdate, fileVars
  <2>2. ~frames[f].dirty
    BY <2>1
  <2>3. f # NoFrame
    BY FrameFacts
  <2>4. \A g \in Guards : guards[g].frame = f => ~guards[g].dirty
    BY <2>1, <2>3
  <2>. QED BY <2>1, <2>2, <2>4 DEF IInv, NoLostUpdate
<1>. QED BY <1>1, <1>2, <1>4, <1>5, <1>6, <1>7, <1>8, <1>9 DEF IInv
\* A step that evicts what AcquireFrame's frame holds and caches page p in it
\* for guard g.
LEMMA InstallStep ==
    ASSUME IInv, NEW f \in Frames, AcquireFrame(f),
           NEW g \in Guards, ~Live(g),
           NEW p \in PageId, page_table[p] = NoFrame,
           NEW image \in MemPage, image.id = p,
           frames' = [frames EXCEPT ![f] = [page |-> image, pin |-> 1, dirty |-> FALSE]],
           page_table' = [TableWithout(f) EXCEPT ![p] = f],
           lru' = LruWithout(f),
           PinFrame(g, f, p),
           size' \in 0 .. MaxPages, size <= size', p < size',
           disk' \in [PageId -> Data \cup {Corrupt, Absent}],
           \A q \in PageId : disk'[q] = Absent <=> q >= size',
           disk'[p] = image.data,
           \A e \in Frames : Holds(e) /\ e # f /\ ~frames[e].dirty =>
               disk'[frames[e].page.id] = disk[frames[e].page.id],
           UNCHANGED <<tail, open>>
    PROVE  IInv'
<1>1. /\ frames \in [Frames -> [page : MemPage \cup {NoPage}, pin : Nat, dirty : BOOLEAN]]
      /\ guards \in [Guards -> [page : 0 .. MaxPages, frame : Frames \cup {NoFrame},
                                dirty : BOOLEAN]]
  BY DEF IInv, PoolTypeOK
<1>2. FileTypeOK'
  BY DEF IInv, FileTypeOK
<1>3. /\ f # NoFrame /\ image # NoPage
      /\ \A e \in Frames : Holds(e)' <=> e = f \/ Holds(e)
  BY <1>1, FrameFacts, PoolConstants DEF Holds
<1>4. /\ guards'[g].frame = f /\ guards'[g].page = p /\ guards'[g].dirty = FALSE
      /\ \A h \in Guards : h # g => guards'[h] = guards[h]
  BY <1>1 DEF PinFrame
<1>5. PoolTypeOK'
  <2>1. open' \in BOOLEAN
    BY DEF IInv, PoolTypeOK
  <2>2. frames' \in [Frames -> [page : MemPage \cup {NoPage}, pin : Nat, dirty : BOOLEAN]]
    BY <1>1
  <2>3. page_table' \in [PageId -> Frames \cup {NoFrame}] /\ lru' \in Seq(Frames)
    BY EvictFacts
  <2>4. guards' \in [Guards -> [page : 0 .. MaxPages, frame : Frames \cup {NoFrame},
                              dirty : BOOLEAN]]
    BY <1>1, DiskConstants DEF PinFrame, PageId
  <2>. QED BY <2>1, <2>2, <2>3, <2>4 DEF PoolTypeOK
<1>6. \A q \in PageId : page_table'[q] =
         IF q = p THEN f ELSE IF page_table[q] = f THEN NoFrame ELSE page_table[q]
  BY EvictFacts
<1>7. /\ frames'[f].page = image /\ frames'[f].pin = 1 /\ frames'[f].dirty = FALSE
      /\ \A e \in Frames : e # f => frames'[e] = frames[e]
  BY <1>1
<1>8. PageTableExact'
  <2>1. ASSUME NEW q \in PageId, page_table'[q] # NoFrame
        PROVE  Holds(page_table[q])' /\ frames'[page_table'[q]].page.id = q
    <3>1. CASE q = p
      BY <3>1, <1>3, <1>6, <1>7
    <3>2. CASE q # p
      <4>1. page_table'[q] = page_table[q] /\ page_table[q] # f /\ page_table[q] # NoFrame
        BY <3>2, <2>1, <1>6
      <4>2. page_table[q] \in Frames
        BY <4>1 DEF IInv, PoolTypeOK
      <4>3. Holds(page_table[q]) /\ frames[page_table[q]].page.id = q
        BY <4>1 DEF IInv, PageTableExact
      <4>. QED BY <4>1, <4>2, <4>3, <1>3, <1>7
    <3>. QED BY <3>1, <3>2
  <2>2. ASSUME NEW e \in Frames, Holds(e)'
        PROVE  page_table'[frames'[e].page.id] = e
    <3>1. CASE e = f
      BY <3>1, <1>6, <1>7
    <3>2. CASE e # f
      <4>1. Holds(e) /\ frames'[e] = frames[e]
        BY <2>2, <3>2, <1>3, <1>7
      <4>2. frames[e].page.id \in PageId /\ page_table[frames[e].page.id] = e /\ e # NoFrame
        BY <4>1, FrameFacts
      <4>3. frames[e].page.id # p
        BY <4>2
      <4>. QED BY <4>1, <4>2, <4>3, <3>2, <1>6
    <3>. QED BY <3>1, <3>2
  <2>. QED BY <2>1, <2>2 DEF PageTableExact
<1>9. GuardsKeepTheirPage'
  <2>1. SUFFICES ASSUME NEW h \in Guards, guards'[h].frame # NoFrame
                 PROVE  /\ guards'[h].page \in PageId
                        /\ page_table'[guards'[h].page] = guards'[h].frame
    BY DEF GuardsKeepTheirPage, Live
  <2>2. CASE h = g
    BY <2>2, <1>4, <1>6
  <2>3. CASE h # g
    <3>1. /\ guards'[h] = guards[h] /\ guards[h].page \in PageId
          /\ page_table[guards[h].page] = guards[h].frame
      BY <2>1, <2>3, <1>4 DEF IInv, GuardsKeepTheirPage, Live
    <3>2. guards[h].frame # f
      BY EvictFacts
    <3>3. guards[h].page # p
      BY <2>1, <3>1
    <3>. QED BY <3>1, <3>2, <3>3, <1>6
  <2>. QED BY <2>2, <2>3
<1>10. PinsAccounted'
  <2>1. SUFFICES ASSUME NEW e \in Frames
                 PROVE  frames'[e].pin = Cardinality({h \in Guards : guards'[h].frame = e})
    BY DEF PinsAccounted
  <2>2. CASE e = f
    <3>1. {h \in Guards : guards'[h].frame = f} = {g}
      <4>1. \A h \in Guards : guards[h].frame # f
        BY EvictFacts
      <4>. QED BY <4>1, <1>4
    <3>2. Cardinality({g}) = 1
      BY FS_Singleton
    <3>3. frames'[e].pin = 1
      BY <2>2, <1>7
    <3>. QED BY <2>2, <3>1, <3>2, <3>3
  <2>3. CASE e # f
    <3>1. {h \in Guards : guards'[h].frame = e} = {h \in Guards : guards[h].frame = e}
      <4>1. guards[g].frame # e /\ guards'[g].frame # e
        BY <2>3, <1>4, FrameFacts DEF Live
      <4>. QED BY <4>1, <1>4
    <3>2. frames'[e].pin = frames[e].pin
      BY <2>3, <1>7
    <3>. QED BY <3>1, <3>2 DEF IInv, PinsAccounted
  <2>. QED BY <2>2, <2>3
<1>11. ReplacerExact'
  <2>1. IsInjective(lru')
    BY EvictFacts
  <2>2. ASSUME NEW e \in Frames
        PROVE  e \in ToSet(lru') <=> Holds(e)' /\ frames'[e].pin = 0
    <3>1. e \in ToSet(lru') <=> e # f /\ Holds(e) /\ frames[e].pin = 0
      BY EvictFacts
    <3>2. CASE e = f
      BY <3>1, <3>2, <1>7
    <3>3. CASE e # f
      BY <3>1, <3>3, <1>3, <1>7
    <3>. QED BY <3>2, <3>3
  <2>. QED BY <2>1, <2>2 DEF ReplacerExact
<1>12. CachedPagesExist'
  <2>1. SUFFICES ASSUME NEW e \in Frames, Holds(e)'
                 PROVE  frames'[e].page.id < size'
    BY DEF CachedPagesExist
  <2>2. CASE e = f
    BY <2>2, <1>7
  <2>3. CASE e # f
    <3>1. Holds(e) /\ frames'[e] = frames[e]
      BY <2>1, <2>3, <1>3, <1>7
    <3>2. frames[e].page.id < size /\ frames[e].page.id \in PageId
      BY <3>1, FrameFacts
    <3>3. size \in 0 .. MaxPages
      BY DEF IInv, FileTypeOK
    <3>4. frames[e].page.id < size'
      BY <3>2, <3>3, DiskConstants DEF PageId
    <3>. QED BY <3>1, <3>4
  <2>. QED BY <2>2, <2>3
<1>13. NoLostUpdate'
  <2>1. SUFFICES ASSUME NEW e \in Frames, Holds(e)', ~frames'[e].dirty,
                        \A h \in Guards : guards'[h].frame = e => ~guards'[h].dirty
                 PROVE  disk'[frames'[e].page.id] = frames'[e].page.data
    BY DEF NoLostUpdate
  <2>2. CASE e = f
    BY <2>2, <1>7
  <2>3. CASE e # f
    <3>1. Holds(e) /\ frames'[e] = frames[e] /\ ~frames[e].dirty
      BY <2>1, <2>3, <1>3, <1>7
    <3>2. \A h \in Guards : guards[h].frame = e => ~guards[h].dirty
      <4>1. guards[g].frame # e
        BY FrameFacts DEF Live
      <4>. QED BY <4>1, <2>1, <1>4
    <3>3. disk[frames[e].page.id] = frames[e].page.data
      BY <3>1, <3>2 DEF IInv, NoLostUpdate
    <3>. QED BY <3>1, <3>3, <2>3
  <2>. QED BY <2>2, <2>3
<1>. QED BY <1>2, <1>5, <1>8, <1>9, <1>10, <1>11, <1>12, <1>13 DEF IInv
\* A step that empties an unpinned frame, or finds it empty.
LEMMA EmptyStep ==
    ASSUME IInv, NEW f \in Frames, frames[f].pin = 0,
           frames' = [frames EXCEPT ![f] = EmptyFrame],
           page_table' \in [PageId -> Frames \cup {NoFrame}],
           \A q \in PageId : page_table'[q] =
               IF page_table[q] = f THEN NoFrame ELSE page_table[q],
           lru' \in Seq(Frames), IsInjective(lru'),
           \A e \in Frames : e \in ToSet(lru') <=> e # f /\ Holds(e) /\ frames[e].pin = 0,
           disk' \in [PageId -> Data \cup {Corrupt, Absent}],
           size' \in 0 .. MaxPages, tail' \in BOOLEAN,
           \A q \in PageId : disk'[q] = Absent <=> q >= size',
           \A e \in Frames : Holds(e) /\ e # f =>
               /\ frames[e].page.id < size'
               /\ ~frames[e].dirty => disk'[frames[e].page.id] = disk[frames[e].page.id],
           UNCHANGED <<open, guards>>
    PROVE  IInv'
<1>1. /\ frames \in [Frames -> [page : MemPage \cup {NoPage}, pin : Nat, dirty : BOOLEAN]]
      /\ f # NoFrame
  BY FrameFacts DEF IInv, PoolTypeOK
<1>2. /\ frames'[f].page = NoPage /\ frames'[f].pin = 0
      /\ \A e \in Frames : e # f => frames'[e] = frames[e]
  BY <1>1 DEF EmptyFrame
<1>3. \A e \in Frames : Holds(e)' <=> e # f /\ Holds(e)
  BY <1>2 DEF Holds
<1>4. FileTypeOK'
  BY DEF FileTypeOK
<1>5. PoolTypeOK'
  <2>1. open' \in BOOLEAN
    BY DEF IInv, PoolTypeOK
  <2>2. frames' \in [Frames -> [page : MemPage \cup {NoPage}, pin : Nat, dirty : BOOLEAN]]
    BY <1>1 DEF EmptyFrame
  <2>. QED BY <2>1, <2>2 DEF IInv, PoolTypeOK
<1>6. \A g \in Guards : guards[g].frame # f
  BY UnpinnedFacts
<1>7. PageTableExact'
  <2>1. ASSUME NEW q \in PageId, page_table'[q] # NoFrame
        PROVE  Holds(page_table[q])' /\ frames'[page_table'[q]].page.id = q
    <3>1. page_table'[q] = page_table[q] /\ page_table[q] # f /\ page_table[q] # NoFrame
      BY <2>1
    <3>2. page_table[q] \in Frames
      BY <3>1 DEF IInv, PoolTypeOK
    <3>3. Holds(page_table[q]) /\ frames[page_table[q]].page.id = q
      BY <3>1 DEF IInv, PageTableExact
    <3>4. Holds(page_table[q])'
      BY <3>1, <3>2, <3>3, <1>2 DEF Holds
    <3>. QED BY <3>1, <3>2, <3>3, <3>4, <1>2
  <2>3. ASSUME NEW e \in Frames, Holds(e)'
        PROVE  page_table'[frames'[e].page.id] = e
    <3>1. e # f /\ Holds(e) /\ frames'[e] = frames[e]
      BY <2>3, <1>2, <1>3
    <3>2. frames[e].page.id \in PageId /\ page_table[frames[e].page.id] = e
      BY <3>1, FrameFacts
    <3>. QED BY <3>1, <3>2
  <2>. QED BY <2>1, <2>3 DEF PageTableExact
<1>8. GuardsKeepTheirPage'
  BY <1>6 DEF IInv, GuardsKeepTheirPage, Live
<1>9. PinsAccounted'
  <2>1. ASSUME NEW e \in Frames
        PROVE  frames'[e].pin = Cardinality({g \in Guards : guards[g].frame = e})
    <3>1. frames'[e].pin = frames[e].pin
      BY <1>2
    <3>. QED BY <3>1 DEF IInv, PinsAccounted
  <2>. QED BY <2>1 DEF PinsAccounted
<1>10. ReplacerExact'
  <2>1. ASSUME NEW e \in Frames
        PROVE  e \in ToSet(lru') <=> Holds(e)' /\ frames'[e].pin = 0
    <3>1. CASE e = f
      BY <3>1, <1>3
    <3>2. CASE e # f
      BY <3>2, <1>2, <1>3
    <3>. QED BY <3>1, <3>2
  <2>. QED BY <2>1 DEF ReplacerExact
<1>11. CachedPagesExist'
  BY <1>2, <1>3 DEF CachedPagesExist
<1>12. NoLostUpdate'
  <2>1. SUFFICES ASSUME NEW e \in Frames, Holds(e)', ~frames'[e].dirty,
                        \A h \in Guards : guards[h].frame = e => ~guards[h].dirty
                 PROVE  disk'[frames'[e].page.id] = frames'[e].page.data
    BY DEF NoLostUpdate
  <2>2. e # f /\ Holds(e) /\ frames'[e] = frames[e]
    BY <2>1, <1>2, <1>3
  <2>3. disk[frames[e].page.id] = frames[e].page.data
    BY <2>1, <2>2 DEF IInv, NoLostUpdate
  <2>. QED BY <2>1, <2>2, <2>3
<1>. QED BY <1>4, <1>5, <1>7, <1>8, <1>9, <1>10, <1>11, <1>12 DEF IInv
-----------------------------------------------------------------------------
(* The actions that write pages back. *)

\* A failed or refused write leaves the old page or a spoiled one.
LEMMA FailedOverwriteProperties ==
    ASSUME IInv, NEW f \in Frames, Holds(f),
           NEW v \in FailedOverwrite(Finalize(frames[f].page))
    PROVE  v \in Data \cup {Corrupt} /\ v # Absent
<1>1. frames[f].page.id \in PageId /\ frames[f].page.id < size
  BY FrameFacts
<1>2. Finalize(frames[f].page).id = frames[f].page.id
  BY FrameFacts DEF Finalize, MemPage
<1>3. v = disk[frames[f].page.id] \/ v = Corrupt
  BY <1>2 DEF FailedOverwrite
<1>4. size \in 0 .. MaxPages
  BY DEF IInv, FileTypeOK
<1>5. disk[frames[f].page.id] \in Data \cup {Corrupt, Absent} /\ disk[frames[f].page.id] # Absent
  BY <1>1, <1>4, DiskConstants DEF IInv, FileTypeOK, PageId
<1>. QED BY <1>3, <1>5, DiskConstants

\* FlushFrame's checksum changes nothing of the frame but the checksum.
LEMMA FinalizeFacts ==
    ASSUME IInv, NEW f \in Frames, Holds(f)
    PROVE  /\ Finalized(f) \in [page : MemPage, pin : Nat, dirty : BOOLEAN]
           /\ Finalized(f).pin = frames[f].pin
           /\ Finalized(f).dirty = frames[f].dirty
           /\ Finalized(f).page.id = frames[f].page.id
           /\ Finalized(f).page.data = frames[f].page.data
           /\ Finalized(f).page # NoPage
<1>1. frames[f].page \in MemPage
  BY FrameFacts
<1>2. /\ Finalize(frames[f].page) \in MemPage
      /\ Finalize(frames[f].page).id = frames[f].page.id
      /\ Finalize(frames[f].page).data = frames[f].page.data
  BY <1>1 DEF Finalize, MemPage
<1>3. frames[f] \in [page : MemPage \cup {NoPage}, pin : Nat, dirty : BOOLEAN]
  BY FrameFacts
<1>4. /\ Finalized(f).page = Finalize(frames[f].page)
      /\ Finalized(f).pin = frames[f].pin
      /\ Finalized(f).dirty = frames[f].dirty
      /\ Finalized(f) \in [page : MemPage, pin : Nat, dirty : BOOLEAN]
  BY <1>2, <1>3 DEF Finalized
<1>5. Finalized(f).page # NoPage
  BY <1>2, <1>4, PoolConstants
<1>. QED BY <1>2, <1>4, <1>5

\* What a frame is after a successful flush.
LEMMA FlushedFacts ==
    ASSUME IInv, NEW f \in Frames
    PROVE  /\ Flushed(f) \in [page : MemPage \cup {NoPage}, pin : Nat, dirty : BOOLEAN]
           /\ Flushed(f).pin = frames[f].pin
           /\ Flushed(f).page = NoPage <=> frames[f].page = NoPage
           /\ Holds(f) => /\ Flushed(f).page.id = frames[f].page.id
                          /\ Flushed(f).page.data = frames[f].page.data
<1>1. CASE ~NeedsFlush(f)
  BY <1>1, FrameFacts DEF Flushed
<1>2. CASE NeedsFlush(f)
  <2>1. Holds(f)
    BY <1>2 DEF NeedsFlush
  <2>2. Flushed(f) = [Finalized(f) EXCEPT !.dirty = FALSE]
    BY <1>2 DEF Flushed
  <2>. QED BY <2>1, <2>2, FinalizeFacts DEF Holds
<1>. QED BY <1>1, <1>2

\* A flush whose write fails leaves the frame dirty.
LEMMA FlushFailsStep ==
    ASSUME IInv, NEW f \in Frames, NEW op, FlushFails(f, op)
    PROVE  IInv'
<1>1. Holds(f) /\ frames[f].dirty
  BY DEF FlushFails, FlushErrors, NeedsFlush
<1>2. /\ frames \in [Frames -> [page : MemPage \cup {NoPage}, pin : Nat, dirty : BOOLEAN]]
      /\ disk \in [PageId -> Data \cup {Corrupt, Absent}]
      /\ \A p \in PageId : disk[p] = Absent <=> p >= size
  BY DEF IInv, FileTypeOK, PoolTypeOK
<1>3. frames' = [frames EXCEPT ![f] = Finalized(f)]
  BY DEF FlushFails
<1>4. PICK v \in FailedOverwrite(Finalize(frames[f].page)) :
         disk' = [disk EXCEPT ![frames[f].page.id] = v]
  BY DEF FlushFails
<1>5. v \in Data \cup {Corrupt} /\ v # Absent
  BY <1>1, FailedOverwriteProperties
<1>6. frames' \in [Frames -> [page : MemPage \cup {NoPage}, pin : Nat, dirty : BOOLEAN]]
  BY <1>1, <1>2, <1>3, FinalizeFacts
<1>7. disk' \in [PageId -> Data \cup {Corrupt, Absent}]
  BY <1>2, <1>4, <1>5
<1>8. ASSUME NEW p \in PageId PROVE disk'[p] = Absent <=> p >= size
  <2>1. CASE p = frames[f].page.id
    <3>1. p < size /\ disk'[p] # Absent /\ size \in 0 .. MaxPages
      BY <2>1, <1>1, <1>2, <1>4, <1>5, FrameFacts DEF IInv, FileTypeOK
    <3>. QED BY <3>1, DiskConstants DEF PageId
  <2>2. CASE p # frames[f].page.id
    BY <2>2, <1>2, <1>4
  <2>. QED BY <2>1, <2>2
<1>9. ASSUME NEW e \in Frames
      PROVE  /\ frames'[e].pin = frames[e].pin
             /\ frames'[e].page = NoPage <=> frames[e].page = NoPage
             /\ Holds(e) => /\ frames'[e].page.id = frames[e].page.id
                            /\ frames'[e].page.data = frames[e].page.data
             /\ Holds(e) /\ ~frames'[e].dirty =>
                   \/ disk'[frames[e].page.id] = frames[e].page.data
                   \/ ~frames[e].dirty /\ disk'[frames[e].page.id] = disk[frames[e].page.id]
  <2>1. CASE e = f
    BY <2>1, <1>1, <1>2, <1>3, FinalizeFacts DEF Holds
  <2>2. CASE e # f
    <3>1. frames'[e] = frames[e]
      BY <2>2, <1>2, <1>3
    <3>2. Holds(e) => disk'[frames[e].page.id] = disk[frames[e].page.id]
      <4>1. Holds(e) => frames[e].page.id # frames[f].page.id /\ frames[e].page.id \in PageId
        BY <2>2, <1>1, FramesDisjoint, FrameFacts
      <4>. QED BY <4>1, <1>2, <1>4
    <3>. QED BY <3>1, <3>2
  <2>. QED BY <2>1, <2>2
<1>10. UNCHANGED <<size, tail, open, page_table, lru, guards>>
  BY DEF FlushFails
<1>. QED BY <1>6, <1>7, <1>8, <1>9, <1>10, WriteBackStep

\* Successful flushes of the frames in F, the others left alone.
LEMMA FlushStep ==
    ASSUME IInv, NEW F \in SUBSET Frames,
           frames' = [f \in Frames |-> IF f \in F THEN Flushed(f) ELSE frames[f]],
           disk' = DiskWith(F),
           UNCHANGED <<size, tail, open, page_table, lru, guards>>
    PROVE  IInv'
<1>1. frames' \in [Frames -> [page : MemPage \cup {NoPage}, pin : Nat, dirty : BOOLEAN]]
  BY FlushedFacts, FrameFacts
<1>2. ASSUME NEW f \in Frames
      PROVE  /\ frames'[f].pin = frames[f].pin
             /\ frames'[f].page = NoPage <=> frames[f].page = NoPage
             /\ Holds(f) => /\ frames'[f].page.id = frames[f].page.id
                            /\ frames'[f].page.data = frames[f].page.data
  BY FlushedFacts
<1>3. ASSUME NEW f \in Frames, Holds(f), ~frames'[f].dirty
      PROVE  \/ disk'[frames[f].page.id] = frames[f].page.data
             \/ ~frames[f].dirty /\ disk'[frames[f].page.id] = disk[frames[f].page.id]
  <2>1. CASE f \in F /\ frames[f].dirty
    BY <2>1, <1>3, DiskWithProperties
  <2>2. CASE f \in F /\ ~frames[f].dirty
    BY <2>2, <1>3, DiskWithProperties
  <2>3. CASE f \notin F
    BY <2>3, <1>3, DiskWithProperties
  <2>. QED BY <2>1, <2>2, <2>3
<1>4. /\ disk' \in [PageId -> Data \cup {Corrupt, Absent}]
      /\ \A p \in PageId : disk'[p] = Absent <=> p >= size
  BY DiskWithProperties
<1>. QED BY <1>1, <1>2, <1>3, <1>4, WriteBackStep
\* What the file is when the frames below k were flushed and the write of
\* frame k failed.
LEMMA DiskAfterFailureProperties ==
    ASSUME IInv, NEW k \in Frames, NeedsFlush(k), NEW d \in DiskAfterFailure(k)
    PROVE  /\ d \in [PageId -> Data \cup {Corrupt, Absent}]
           /\ \A p \in PageId : d[p] = Absent <=> p >= size
           /\ \A f \in Frames : Holds(f) /\ f # k =>
                 d[frames[f].page.id] =
                    IF f < k /\ frames[f].dirty THEN frames[f].page.data
                    ELSE disk[frames[f].page.id]
<1>1. Holds(k) /\ k \in Nat
  BY FrameFacts DEF NeedsFlush
<1>. DEFINE F == 0 .. (k - 1)
<1>2. F \in SUBSET Frames /\ \A f \in Frames : f \in F <=> f < k
  BY PoolConstants DEF Frames
<1>3. PICK v \in FailedOverwrite(Finalize(frames[k].page)) :
         d = [DiskWith(F) EXCEPT ![frames[k].page.id] = v]
  BY DEF DiskAfterFailure
<1>. HIDE DEF F
<1>4. v \in Data \cup {Corrupt} /\ v # Absent
  BY <1>1, FailedOverwriteProperties
<1>5. /\ DiskWith(F) \in [PageId -> Data \cup {Corrupt, Absent}]
      /\ \A p \in PageId : DiskWith(F)[p] = Absent <=> p >= size
      /\ \A f \in Frames : Holds(f) =>
            DiskWith(F)[frames[f].page.id] =
               IF f \in F /\ frames[f].dirty THEN frames[f].page.data
               ELSE disk[frames[f].page.id]
  BY <1>2, DiskWithProperties
<1>6. d \in [PageId -> Data \cup {Corrupt, Absent}]
  BY <1>3, <1>4, <1>5
<1>7. ASSUME NEW p \in PageId PROVE d[p] = Absent <=> p >= size
  <2>1. CASE p = frames[k].page.id
    <3>1. p < size /\ d[p] # Absent /\ size \in 0 .. MaxPages
      BY <2>1, <1>1, <1>3, <1>4, <1>5, FrameFacts DEF IInv, FileTypeOK
    <3>. QED BY <3>1, DiskConstants DEF PageId
  <2>2. CASE p # frames[k].page.id
    BY <2>2, <1>3, <1>5
  <2>. QED BY <2>1, <2>2
<1>8. ASSUME NEW f \in Frames, Holds(f), f # k
      PROVE  d[frames[f].page.id] =
                IF f < k /\ frames[f].dirty THEN frames[f].page.data
                ELSE disk[frames[f].page.id]
  <2>1. frames[f].page.id # frames[k].page.id /\ frames[f].page.id \in PageId
    BY <1>1, <1>8, FramesDisjoint, FrameFacts
  <2>2. d[frames[f].page.id] = DiskWith(F)[frames[f].page.id]
    BY <2>1, <1>3, <1>5
  <2>. QED BY <2>2, <1>2, <1>5, <1>8
<1>. QED BY <1>6, <1>7, <1>8

\* FlushAllPages that stops at frame k has written dirty frames before it.
LEMMA FlushAllPagesFailsStep ==
    ASSUME IInv, NEW k \in Frames, FlushAllPagesFails(k)
    PROVE  IInv'
<1>1. NeedsFlush(k) /\ Holds(k) /\ frames[k].dirty
  BY DEF FlushAllPagesFails, FlushErrors, NeedsFlush
<1>2. disk' \in DiskAfterFailure(k)
  BY DEF FlushAllPagesFails
<1>3. \A f \in Frames : frames'[f] =
         IF f < k THEN Flushed(f) ELSE IF f = k THEN Finalized(f) ELSE frames[f]
  BY DEF FlushAllPagesFails
<1>4. frames' \in [Frames -> [page : MemPage \cup {NoPage}, pin : Nat, dirty : BOOLEAN]]
  <2>1. frames' = [f \in Frames |-> frames'[f]]
    BY DEF FlushAllPagesFails
  <2>2. Finalized(k) \in [page : MemPage \cup {NoPage}, pin : Nat, dirty : BOOLEAN]
    BY <1>1, FinalizeFacts
  <2>3. ASSUME NEW f \in Frames
        PROVE  frames'[f] \in [page : MemPage \cup {NoPage}, pin : Nat, dirty : BOOLEAN]
    <3>1. CASE f < k
      <4>1. frames'[f] = Flushed(f)
        BY <3>1, <1>3
      <4>. QED BY <4>1, FlushedFacts
    <3>2. CASE f = k
      <4>0. f \in Nat
        BY DEF Frames
      <4>1. ~(f < k)
        BY <3>2, <4>0
      <4>2. frames'[f] = Finalized(k)
        BY <3>2, <4>1, <1>3
      <4>. QED BY <4>2, <2>2
    <3>3. CASE ~(f < k) /\ f # k
      <4>1. frames'[f] = frames[f]
        BY <3>3, <1>3
      <4>. QED BY <4>1, FrameFacts
    <3>. QED BY <3>1, <3>2, <3>3
  <2>. QED BY <2>1, <2>3
<1>5. ASSUME NEW f \in Frames
      PROVE  /\ frames'[f].pin = frames[f].pin
             /\ frames'[f].page = NoPage <=> frames[f].page = NoPage
             /\ Holds(f) => /\ frames'[f].page.id = frames[f].page.id
                            /\ frames'[f].page.data = frames[f].page.data
             /\ Holds(f) /\ ~frames'[f].dirty =>
                   \/ disk'[frames[f].page.id] = frames[f].page.data
                   \/ ~frames[f].dirty /\ disk'[frames[f].page.id] = disk[frames[f].page.id]
  <2>1. CASE f = k
    <3>0. f \in Nat
      BY FrameFacts
    <3>1. frames'[f] = Finalized(f)
      BY <2>1, <1>3, <3>0
    <3>. QED BY <2>1, <3>1, <1>1, FinalizeFacts DEF Holds
  <2>2. CASE f # k
    <3>1. Holds(f) => disk'[frames[f].page.id] =
                         IF f < k /\ frames[f].dirty THEN frames[f].page.data
                         ELSE disk[frames[f].page.id]
      BY <2>2, <1>1, <1>2, DiskAfterFailureProperties
    <3>2. CASE f < k
      BY <3>1, <3>2, <1>3, FlushedFacts
    <3>3. CASE ~(f < k)
      BY <3>1, <3>3, <2>2, <1>3
    <3>. QED BY <3>2, <3>3
  <2>. QED BY <2>1, <2>2
<1>6. /\ disk' \in [PageId -> Data \cup {Corrupt, Absent}]
      /\ \A p \in PageId : disk'[p] = Absent <=> p >= size
  BY <1>1, <1>2, DiskAfterFailureProperties
<1>7. UNCHANGED <<size, tail, open, page_table, lru, guards>>
  BY DEF FlushAllPagesFails
<1>. QED BY <1>4, <1>5, <1>6, <1>7, WriteBackStep

\* Every call that flushes preserves the invariant.
LEMMA FlushActions ==
    ASSUME IInv,
           \/ \E p \in AnyPageId : FlushPageFails(p) \/ FlushPage(p)
           \/ FlushAllPages
           \/ \E k \in Frames : FlushAllPagesFails(k)
    PROVE  IInv'
<1>1. page_table \in [PageId -> Frames \cup {NoFrame}] /\ frames = [f \in Frames |-> frames[f]]
  BY DEF IInv, PoolTypeOK
<1>2. ASSUME NEW p \in AnyPageId, Resident(p) PROVE page_table[p] \in Frames
  BY <1>1, <1>2 DEF Resident
<1>3. ASSUME NEW p \in AnyPageId, FlushPageFails(p) PROVE IInv'
  BY <1>2, <1>3, FlushFailsStep DEF FlushPageFails
<1>4. ASSUME NEW p \in AnyPageId, FlushPage(p) PROVE IInv'
  <2>1. Resident(p) /\ page_table[p] \in Frames
    BY <1>2, <1>4 DEF FlushPage
  <2>2. frames' = [f \in Frames |-> IF f \in {page_table[p]} THEN Flushed(f) ELSE frames[f]]
    BY <2>1, <1>1, <1>4 DEF FlushPage
  <2>3. /\ disk' = DiskWith({page_table[p]})
        /\ UNCHANGED <<size, tail, open, page_table, lru, guards>>
    BY <1>4 DEF FlushPage
  <2>. QED BY <2>1, <2>2, <2>3, FlushStep
<1>5. ASSUME FlushAllPages PROVE IInv'
  <2>1. frames' = [f \in Frames |-> IF f \in Frames THEN Flushed(f) ELSE frames[f]]
    BY <1>5 DEF FlushAllPages
  <2>2. disk' = DiskWith(Frames) /\ UNCHANGED <<size, tail, open, page_table, lru, guards>>
    BY <1>5 DEF FlushAllPages
  <2>. QED BY <2>1, <2>2, FlushStep
<1>. QED BY <1>3, <1>4, <1>5, FlushAllPagesFailsStep
-----------------------------------------------------------------------------
(* Pins and guards. *)
LEMMA GuardTypes ==
    ASSUME IInv
    PROVE  /\ frames \in [Frames -> [page : MemPage \cup {NoPage}, pin : Nat, dirty : BOOLEAN]]
           /\ guards \in [Guards -> [page : 0 .. MaxPages, frame : Frames \cup {NoFrame},
                                     dirty : BOOLEAN]]
           /\ lru \in Seq(Frames) /\ IsInjective(lru)
           /\ \A f \in Frames : f \in ToSet(lru) <=> Holds(f) /\ frames[f].pin = 0
           /\ \A f \in Frames : /\ IsFiniteSet({g \in Guards : guards[g].frame = f})
                                /\ frames[f].pin = Cardinality({g \in Guards : guards[g].frame = f})
           /\ Released \in [page : 0 .. MaxPages, frame : Frames \cup {NoFrame}, dirty : BOOLEAN]
           /\ NoFrame \notin Frames
<1>1. /\ frames \in [Frames -> [page : MemPage \cup {NoPage}, pin : Nat, dirty : BOOLEAN]]
      /\ guards \in [Guards -> [page : 0 .. MaxPages, frame : Frames \cup {NoFrame},
                                dirty : BOOLEAN]]
      /\ lru \in Seq(Frames)
  BY DEF IInv, PoolTypeOK
<1>2. /\ IsInjective(lru)
      /\ \A f \in Frames : f \in ToSet(lru) <=> Holds(f) /\ frames[f].pin = 0
  BY DEF IInv, ReplacerExact
<1>3. \A f \in Frames : /\ IsFiniteSet({g \in Guards : guards[g].frame = f})
                        /\ frames[f].pin = Cardinality({g \in Guards : guards[g].frame = f})
  BY PoolConstants, FS_Subset DEF IInv, PinsAccounted
<1>4. Released \in [page : 0 .. MaxPages, frame : Frames \cup {NoFrame}, dirty : BOOLEAN]
  <2>1. MaxPages \in 0 .. MaxPages
    BY DiskConstants
  <2>. QED BY <2>1 DEF Released, InvalidPageId
<1>5. NoFrame \notin Frames
  BY PoolConstants DEF Frames
<1>. QED BY <1>1, <1>2, <1>3, <1>4, <1>5

\* FetchPage of a cached page pins its frame and takes it out of the replacer.
LEMMA FetchHitStep ==
    ASSUME IInv, NEW g \in Guards, NEW p \in PageId, FetchHit(g, p)
    PROVE  IInv'
<1>. DEFINE f == page_table[p]
            on(e) == {h \in Guards : guards[h].frame = e}
<1>1. f \in Frames /\ Holds(f) /\ frames[f].page.id = p
  BY DEF FetchHit, Resident, IInv, PoolTypeOK, PageTableExact
<1>2. /\ ~Live(g)
      /\ frames' = [frames EXCEPT ![f].pin = @ + 1]
      /\ lru' = RemoveFirst(lru, f)
      /\ guards' = [guards EXCEPT ![g] = [page |-> p, frame |-> f, dirty |-> FALSE]]
      /\ UNCHANGED <<fileVars, open, page_table>>
  BY DEF FetchHit, PinFrame, RemoveFromReplacer
<1>. HIDE DEF f
<1>3. frames' \in [Frames -> [page : MemPage \cup {NoPage}, pin : Nat, dirty : BOOLEAN]]
  BY <1>1, <1>2, GuardTypes
<1>4. guards' \in [Guards -> [page : 0 .. MaxPages, frame : Frames \cup {NoFrame},
                            dirty : BOOLEAN]]
  BY <1>1, <1>2, GuardTypes, DiskConstants DEF PageId
<1>5. /\ lru' \in Seq(Frames) /\ IsInjective(lru')
      /\ ToSet(lru') = ToSet(lru) \ {f}
  BY <1>2, GuardTypes, RemoveFirstProperties
<1>6. guards[g].frame = NoFrame
  BY <1>2 DEF Live
<1>7. /\ frames'[f].page = frames[f].page /\ frames'[f].dirty = frames[f].dirty
      /\ frames'[f].pin = frames[f].pin + 1
      /\ \A e \in Frames : e # f => frames'[e] = frames[e]
  BY <1>1, <1>2, GuardTypes
<1>8. /\ guards'[g].frame = f /\ guards'[g].page = p
      /\ \A h \in Guards : h # g => guards'[h] = guards[h]
  BY <1>2, GuardTypes
<1>9. ASSUME NEW e \in Frames
      PROVE  /\ frames'[e].page = frames[e].page
             /\ frames'[e].pin = Cardinality({h \in Guards : guards'[h].frame = e})
             /\ e \in ToSet(lru') <=> Holds(e) /\ frames'[e].pin = 0
             /\ frames[e].dirty => frames'[e].dirty
  <2>1. CASE e = f
    <3>1. {h \in Guards : guards'[h].frame = f} = on(f) \cup {g}
      BY <1>8
    <3>2. g \notin on(f)
      BY <1>1, <1>6, GuardTypes
    <3>3. frames'[f].pin = Cardinality(on(f)) + 1 /\ frames[f].pin \in Nat
      BY <1>1, <1>7, GuardTypes
    <3>4. Cardinality(on(f) \cup {g}) = Cardinality(on(f)) + 1
      BY <1>1, <3>2, GuardTypes, FS_AddElement
    <3>5. frames'[f].pin # 0
      BY <3>3, <1>7
    <3>. QED BY <2>1, <3>1, <3>3, <3>4, <3>5, <1>5, <1>7
  <2>2. CASE e # f
    <3>1. {h \in Guards : guards'[h].frame = e} = on(e)
      BY <2>2, <1>6, <1>8, GuardTypes
    <3>. QED BY <2>2, <3>1, <1>5, <1>7, GuardTypes
  <2>. QED BY <2>1, <2>2
<1>10. ASSUME NEW h \in Guards, guards'[h].frame # NoFrame
       PROVE  guards'[h].page \in PageId /\ page_table[guards'[h].page] = guards'[h].frame
  <2>1. CASE h = g
    BY <2>1, <1>8 DEF f
  <2>2. CASE h # g
    BY <2>2, <1>8, <1>10 DEF IInv, GuardsKeepTheirPage, Live
  <2>. QED BY <2>1, <2>2
<1>11. ASSUME NEW h \in Guards, guards[h].dirty, guards[h].frame # NoFrame
       PROVE  \E k \in Guards : guards'[k].frame = guards[h].frame /\ guards'[k].dirty
  BY <1>6, <1>8, <1>11
<1>. QED BY <1>2, <1>3, <1>4, <1>5, <1>9, <1>10, <1>11, PinStep

\* A live guard can always be released: its page is cached and pinned.
LEMMA LiveGuardFacts ==
    ASSUME IInv, NEW g \in Guards, Live(g)
    PROVE  /\ guards[g].page \in PageId /\ guards[g].frame \in Frames
           /\ page_table[guards[g].page] = guards[g].frame
           /\ Resident(guards[g].page)
           /\ Holds(guards[g].frame)
           /\ frames[guards[g].frame].page.id = guards[g].page
           /\ frames[guards[g].frame].pin \in Nat \ {0}
           /\ UnpinCode(guards[g].page) = "ok"
<1>1. guards[g].page \in PageId /\ page_table[guards[g].page] = guards[g].frame
  BY DEF IInv, GuardsKeepTheirPage
<1>2. guards[g].frame \in Frames /\ guards[g].frame # NoFrame
  BY GuardTypes DEF Live
<1>3. Holds(guards[g].frame) /\ frames[guards[g].frame].page.id = guards[g].page
  BY <1>1, <1>2 DEF IInv, PageTableExact
<1>4. frames[guards[g].frame].pin \in Nat \ {0}
  BY <1>2, GuardTypes, UnpinnedFacts
<1>5. Resident(guards[g].page) /\ UnpinCode(guards[g].page) = "ok"
  BY <1>1, <1>2, <1>4 DEF Resident, UnpinCode
<1>. QED BY <1>1, <1>2, <1>3, <1>4, <1>5

\* One guard of frame f gives up its pin.
LEMMA UnpinStep ==
    ASSUME IInv, NEW g \in Guards, Live(g),
           UnpinPage(guards[g].page, guards[g].dirty),
           guards' \in [Guards -> [page : 0 .. MaxPages, frame : Frames \cup {NoFrame},
                                  dirty : BOOLEAN]],
           \A e \in Frames :
              Cardinality({h \in Guards : guards'[h].frame = e}) =
                 IF e = guards[g].frame THEN frames[e].pin - 1 ELSE frames[e].pin,
           \A h \in Guards : guards'[h].frame # NoFrame =>
              /\ guards'[h].page \in PageId
              /\ page_table[guards'[h].page] = guards'[h].frame,
           \A h \in Guards : h # g /\ guards[h].dirty /\ guards[h].frame # NoFrame =>
              \E k \in Guards : guards'[k].frame = guards[h].frame /\ guards'[k].dirty,
           UNCHANGED <<fileVars, open, page_table>>
    PROVE  IInv'
<1>. DEFINE f == guards[g].frame
<1>1. /\ f \in Frames /\ Holds(f) /\ frames[f].pin \in Nat \ {0}
      /\ page_table[guards[g].page] = f
      /\ UnpinCode(guards[g].page) = "ok"
  BY LiveGuardFacts
<1>2. /\ frames' = [frames EXCEPT ![f] =
            [frames[f] EXCEPT !.pin = @ - 1, !.dirty = IF guards[g].dirty THEN TRUE ELSE @]]
      /\ lru' = IF frames[f].pin = 1 THEN AddToReplacer(lru, f) ELSE lru
  BY <1>1 DEF UnpinPage
<1>3. \A e \in Frames : Cardinality({h \in Guards : guards'[h].frame = e}) =
                           IF e = f THEN frames[e].pin - 1 ELSE frames[e].pin
  OBVIOUS
<1>4. \A h \in Guards : guards[h].dirty /\ guards[h].frame # NoFrame =>
         \/ h = g /\ guards[h].frame = f
         \/ \E k \in Guards : guards'[k].frame = guards[h].frame /\ guards'[k].dirty
  OBVIOUS
<1>. HIDE DEF f
<1>. DEFINE d == IF guards[g].dirty THEN TRUE ELSE frames[f].dirty
<1>4a. d \in BOOLEAN /\ (guards[g].dirty => d) /\ (frames[f].dirty => d)
  BY <1>1, GuardTypes
<1>4b. frames' = [frames EXCEPT ![f] = [frames[f] EXCEPT !.pin = @ - 1, !.dirty = d]]
  BY <1>2
<1>. HIDE DEF d
<1>. DEFINE new == [frames[f] EXCEPT !.pin = @ - 1, !.dirty = d]
<1>5. frames' = [frames EXCEPT ![f] = new]
  BY <1>4b
<1>6. /\ new \in [page : MemPage \cup {NoPage}, pin : Nat, dirty : BOOLEAN]
      /\ new.page = frames[f].page /\ new.pin = frames[f].pin - 1 /\ new.dirty = d
  <2>. DEFINE r == frames[f]
  <2>1. r \in [page : MemPage \cup {NoPage}, pin : Nat, dirty : BOOLEAN] /\ r.pin - 1 \in Nat
    BY <1>1, GuardTypes
  <2>2. new = [r EXCEPT !.pin = r.pin - 1, !.dirty = d]
    OBVIOUS
  <2>. HIDE DEF r, new
  <2>. QED BY <2>1, <2>2, <1>4a DEF r
<1>. HIDE DEF new
<1>7. frames' \in [Frames -> [page : MemPage \cup {NoPage}, pin : Nat, dirty : BOOLEAN]]
  BY <1>1, <1>5, <1>6, GuardTypes
<1>8. /\ frames'[f] = new
      /\ \A e \in Frames : e # f => frames'[e] = frames[e]
  BY <1>1, <1>5, GuardTypes
<1>9. lru' \in Seq(Frames) /\ IsInjective(lru')
      /\ ToSet(lru') = IF frames[f].pin = 1 THEN ToSet(lru) \cup {f} ELSE ToSet(lru)
  <2>1. lru \in Seq(Frames) /\ IsInjective(lru)
    BY GuardTypes
  <2>2. /\ AddToReplacer(lru, f) \in Seq(Frames)
        /\ IsInjective(AddToReplacer(lru, f))
        /\ ToSet(AddToReplacer(lru, f)) = ToSet(lru) \cup {f}
    BY <1>1, <2>1, AddToReplacerProperties
  <2>. QED BY <1>2, <2>1, <2>2
<1>10. ASSUME NEW e \in Frames
       PROVE  /\ frames'[e].page = frames[e].page
              /\ frames'[e].pin = Cardinality({h \in Guards : guards'[h].frame = e})
              /\ e \in ToSet(lru') <=> Holds(e) /\ frames'[e].pin = 0
              /\ frames[e].dirty => frames'[e].dirty
  <2>1. e \in ToSet(lru) <=> Holds(e) /\ frames[e].pin = 0
    BY GuardTypes
  <2>2. CASE e = f
    <3>1. frames'[e].page = frames[e].page /\ frames'[e].pin = frames[e].pin - 1
      BY <2>2, <1>6, <1>8
    <3>2. e \in ToSet(lru') <=> Holds(e) /\ frames'[e].pin = 0
      BY <2>1, <2>2, <3>1, <1>1, <1>9
    <3>3. frames[e].dirty => frames'[e].dirty
      BY <2>2, <1>6, <1>8, <1>4a
    <3>. QED BY <2>2, <3>1, <3>2, <3>3, <1>3
  <2>3. CASE e # f
    <3>1. frames'[e] = frames[e]
      BY <2>3, <1>8
    <3>2. e \in ToSet(lru') <=> e \in ToSet(lru)
      BY <2>3, <1>9
    <3>. QED BY <2>1, <2>3, <3>1, <3>2, <1>3
  <2>. QED BY <2>2, <2>3
<1>11. \A h \in Guards : guards[h].dirty /\ guards[h].frame # NoFrame =>
          \/ frames'[guards[h].frame].dirty
          \/ \E k \in Guards : guards'[k].frame = guards[h].frame /\ guards'[k].dirty
  <2>1. guards[g].dirty => frames'[f].dirty
    BY <1>6, <1>8, <1>4a
  <2>. QED BY <2>1, <1>4
<1>. QED BY <1>7, <1>9, <1>10, <1>11, PinStep

\* Release unpins the guard's frame.
LEMMA ReleaseStep ==
    ASSUME IInv, NEW g \in Guards, Release(g)
    PROVE  IInv'
<1>1. /\ Live(g) /\ UnpinPage(guards[g].page, guards[g].dirty)
      /\ guards' = [guards EXCEPT ![g] = Released]
      /\ UNCHANGED <<fileVars, open, page_table>>
  BY DEF Release
<1>2. /\ guards' \in [Guards -> [page : 0 .. MaxPages, frame : Frames \cup {NoFrame},
                               dirty : BOOLEAN]]
      /\ guards'[g].frame = NoFrame
      /\ \A h \in Guards : h # g => guards'[h] = guards[h]
  BY <1>1, GuardTypes DEF Released
<1>3. ASSUME NEW e \in Frames
      PROVE  Cardinality({h \in Guards : guards'[h].frame = e}) =
                IF e = guards[g].frame THEN frames[e].pin - 1 ELSE frames[e].pin
  <2>. DEFINE on == {h \in Guards : guards[h].frame = e}
  <2>1. {h \in Guards : guards'[h].frame = e} = on \ {g}
    BY <1>2, GuardTypes
  <2>2. g \in on <=> e = guards[g].frame
    OBVIOUS
  <2>3. IsFiniteSet(on) /\ frames[e].pin = Cardinality(on)
    BY GuardTypes
  <2>. HIDE DEF on
  <2>. QED BY <2>1, <2>2, <2>3, FS_RemoveElement
<1>4. ASSUME NEW h \in Guards, guards'[h].frame # NoFrame
      PROVE  guards'[h].page \in PageId /\ page_table[guards'[h].page] = guards'[h].frame
  BY <1>2, <1>4 DEF IInv, GuardsKeepTheirPage, Live
<1>5. ASSUME NEW h \in Guards, h # g, guards[h].dirty, guards[h].frame # NoFrame
      PROVE  \E k \in Guards : guards'[k].frame = guards[h].frame /\ guards'[k].dirty
  BY <1>2, <1>5
<1>. QED BY <1>1, <1>2, <1>3, <1>4, <1>5, UnpinStep

\* Move assignment releases the target's frame and hands over the source's pin.
LEMMA MoveStep ==
    ASSUME IInv, NEW from \in Guards, NEW to \in Guards, Move(from, to)
    PROVE  IInv'
<1>1. /\ Live(from) /\ from # to
      /\ guards' = [guards EXCEPT ![to] = guards[from], ![from] = Released]
      /\ UNCHANGED <<fileVars, open, page_table>>
  BY DEF Move
<1>2. /\ guards' \in [Guards -> [page : 0 .. MaxPages, frame : Frames \cup {NoFrame},
                               dirty : BOOLEAN]]
      /\ guards'[from].frame = NoFrame /\ guards'[to] = guards[from]
      /\ \A h \in Guards : h # from /\ h # to => guards'[h] = guards[h]
  BY <1>1, GuardTypes DEF Released
<1>3. ASSUME NEW h \in Guards, guards'[h].frame # NoFrame
      PROVE  guards'[h].page \in PageId /\ page_table[guards'[h].page] = guards'[h].frame
  BY <1>1, <1>2, <1>3 DEF IInv, GuardsKeepTheirPage, Live
<1>4. ASSUME NEW h \in Guards, h # to, guards[h].dirty, guards[h].frame # NoFrame
      PROVE  \E k \in Guards : guards'[k].frame = guards[h].frame /\ guards'[k].dirty
  BY <1>2, <1>4
<1>5. ASSUME NEW e \in Frames
      PROVE  Cardinality({h \in Guards : guards'[h].frame = e}) =
                IF e = guards[to].frame THEN frames[e].pin - 1 ELSE frames[e].pin
  <2>. DEFINE on == {h \in Guards : guards[h].frame = e}
  <2>1. IsFiniteSet(on) /\ frames[e].pin = Cardinality(on) /\ e # NoFrame
    BY GuardTypes
  <2>2. /\ IsFiniteSet(on \ {to})
        /\ Cardinality(on \ {to}) = IF to \in on THEN Cardinality(on) - 1 ELSE Cardinality(on)
    BY <2>1, FS_RemoveElement
  <2>3. CASE from \in on
    <3>1. {h \in Guards : guards'[h].frame = e} = ((on \ {to}) \ {from}) \cup {to}
      BY <2>1, <2>3, <1>1, <1>2
    <3>2. from \in on \ {to} /\ to \notin (on \ {to}) \ {from}
      BY <2>3, <1>1
    <3>3. /\ IsFiniteSet((on \ {to}) \ {from})
          /\ Cardinality((on \ {to}) \ {from}) = Cardinality(on \ {to}) - 1
      BY <2>2, <3>2, FS_RemoveElement
    <3>4. Cardinality(((on \ {to}) \ {from}) \cup {to}) = Cardinality((on \ {to}) \ {from}) + 1
      BY <3>2, <3>3, FS_AddElement
    <3>5. to \in on <=> e = guards[to].frame
      OBVIOUS
    <3>6. Cardinality(on \ {to}) \in Nat /\ Cardinality(on) \in Nat
      BY <2>1, <2>2, FS_CardinalityType
    <3>7. Cardinality({h \in Guards : guards'[h].frame = e}) = Cardinality(on \ {to})
      <4>. DEFINE c == Cardinality(on \ {to})
      <4>1. Cardinality({h \in Guards : guards'[h].frame = e}) = (c - 1) + 1
        BY <3>1, <3>3, <3>4
      <4>2. c \in Nat
        BY <3>6
      <4>. HIDE DEF c
      <4>3. (c - 1) + 1 = c
        BY <4>2
      <4>. QED BY <4>1, <4>3 DEF c
    <3>. HIDE DEF on
    <3>. QED BY <3>5, <3>7, <2>1, <2>2
  <2>4. CASE from \notin on
    <3>1. {h \in Guards : guards'[h].frame = e} = on \ {to}
      BY <2>1, <2>4, <1>1, <1>2
    <3>2. to \in on <=> e = guards[to].frame
      OBVIOUS
    <3>. HIDE DEF on
    <3>. QED BY <3>1, <3>2, <2>1, <2>2
  <2>. QED BY <2>3, <2>4
<1>6. CASE Live(to)
  <2>1. UnpinPage(guards[to].page, guards[to].dirty)
    BY <1>6 DEF Move
  <2>. QED BY <2>1, <1>1, <1>2, <1>3, <1>4, <1>5, <1>6, UnpinStep
<1>7. CASE ~Live(to)
  <2>1. UNCHANGED <<frames, lru>>
    BY <1>7 DEF Move
  <2>2. guards[to].frame = NoFrame
    BY <1>7 DEF Live
  <2>3. ASSUME NEW e \in Frames
        PROVE  /\ frames'[e].page = frames[e].page
               /\ frames'[e].pin = Cardinality({h \in Guards : guards'[h].frame = e})
               /\ e \in ToSet(lru') <=> Holds(e) /\ frames'[e].pin = 0
               /\ frames[e].dirty => frames'[e].dirty
    <3>1. e # guards[to].frame
      BY <2>2, GuardTypes
    <3>2. frames[e].pin = Cardinality({h \in Guards : guards'[h].frame = e})
      BY <3>1, <1>5
    <3>. QED BY <2>1, <3>2, GuardTypes
  <2>4. \A h \in Guards : guards[h].dirty /\ guards[h].frame # NoFrame =>
           \E k \in Guards : guards'[k].frame = guards[h].frame /\ guards'[k].dirty
    BY <2>2, <1>4
  <2>5. /\ frames' \in [Frames -> [page : MemPage \cup {NoPage}, pin : Nat, dirty : BOOLEAN]]
        /\ lru' \in Seq(Frames) /\ IsInjective(lru')
    BY <2>1, GuardTypes
  <2>. QED BY <2>3, <2>4, <2>5, <1>1, <1>2, <1>3, PinStep
<1>. QED BY <1>6, <1>7

\* A write through a guard marks the guard, and only it, dirty.
LEMMA MutablePageStep ==
    ASSUME IInv, NEW g \in Guards, NEW d \in Data, MutablePage(g, d)
    PROVE  IInv'
<1>. DEFINE f == guards[g].frame
<1>1. /\ Live(g) /\ guards' = [guards EXCEPT ![g].dirty = TRUE]
      /\ UNCHANGED <<fileVars, open, page_table, lru>>
  BY DEF MutablePage
<1>2. f \in Frames /\ Holds(f) /\ f # NoFrame
  BY <1>1, LiveGuardFacts, GuardTypes
<1>3. /\ frames[f].page \in MemPage /\ frames[f].page.sum \in Data
      /\ frames[f].page.id \in PageId
  BY <1>2, FrameFacts DEF MemPage
<1>4. PICK s \in Data : frames' = [frames EXCEPT ![f].page = [@ EXCEPT !.data = d, !.sum = s]]
  BY <1>3 DEF MutablePage
<1>. HIDE DEF f
<1>. DEFINE new == [frames[f].page EXCEPT !.data = d, !.sum = s]
<1>5. new \in MemPage /\ new.id = frames[f].page.id /\ new # NoPage
  <2>1. new \in MemPage /\ new.id = frames[f].page.id
    BY <1>3 DEF MemPage
  <2>. QED BY <2>1, PoolConstants
<1>6. frames' = [frames EXCEPT ![f].page = new]
  BY <1>4
<1>. HIDE DEF new
<1>7. /\ frames' \in [Frames -> [page : MemPage \cup {NoPage}, pin : Nat, dirty : BOOLEAN]]
      /\ frames'[f].page = new /\ frames'[f].pin = frames[f].pin
      /\ frames'[f].dirty = frames[f].dirty
      /\ \A e \in Frames : e # f => frames'[e] = frames[e]
  BY <1>2, <1>5, <1>6, GuardTypes
<1>8. /\ guards' \in [Guards -> [page : 0 .. MaxPages, frame : Frames \cup {NoFrame},
                               dirty : BOOLEAN]]
      /\ \A h \in Guards : /\ guards'[h].frame = guards[h].frame
                            /\ guards'[h].page = guards[h].page
  BY <1>1, GuardTypes
<1>9. \A e \in Frames : /\ Holds(e)' <=> Holds(e)
                        /\ Holds(e) => frames'[e].page.id = frames[e].page.id
                        /\ frames'[e].pin = frames[e].pin
  BY <1>2, <1>5, <1>7 DEF Holds
<1>10. FileTypeOK' /\ PoolTypeOK'
  BY <1>1, <1>7, <1>8 DEF IInv, FileTypeOK, PoolTypeOK, fileVars
<1>11. PageTableExact'
  <2>1. ASSUME NEW p \in PageId, page_table[p] # NoFrame
        PROVE  Holds(page_table[p]) /\ frames[page_table[p]].page.id = p /\ page_table[p] \in Frames
    BY <2>1 DEF IInv, PoolTypeOK, PageTableExact
  <2>2. ASSUME NEW e \in Frames, Holds(e) PROVE page_table[frames[e].page.id] = e
    BY <2>2, FrameFacts
  <2>. QED BY <2>1, <2>2, <1>1, <1>9 DEF PageTableExact
<1>12. GuardsKeepTheirPage'
  BY <1>1, <1>8 DEF IInv, GuardsKeepTheirPage, Live
<1>13. PinsAccounted'
  <2>1. ASSUME NEW e \in Frames
        PROVE  frames'[e].pin = Cardinality({h \in Guards : guards'[h].frame = e})
    <3>1. {h \in Guards : guards'[h].frame = e} = {h \in Guards : guards[h].frame = e}
      BY <1>8
    <3>. QED BY <3>1, <1>9, GuardTypes
  <2>. QED BY <2>1 DEF PinsAccounted
<1>14. ReplacerExact'
  BY <1>1, <1>9 DEF IInv, ReplacerExact
<1>15. CachedPagesExist'
  BY <1>1, <1>9 DEF IInv, CachedPagesExist, fileVars
<1>16. NoLostUpdate'
  <2>1. SUFFICES ASSUME NEW e \in Frames, Holds(e)', ~frames'[e].dirty,
                        \A h \in Guards : guards'[h].frame = e => ~guards'[h].dirty
                 PROVE  disk[frames'[e].page.id] = frames'[e].page.data
    BY <1>1 DEF NoLostUpdate, fileVars
  <2>2. e # f
    <3>1. guards'[g].frame = f /\ guards'[g].dirty = TRUE
      BY <1>1, GuardTypes DEF f
    <3>. QED BY <3>1, <2>1
  <2>3. frames'[e] = frames[e] /\ Holds(e)
    BY <2>1, <2>2, <1>7, <1>9
  <2>4. ASSUME NEW h \in Guards, guards[h].frame = e PROVE ~guards[h].dirty
    <3>1. h # g
      BY <2>2, <2>4 DEF f
    <3>2. guards'[h] = guards[h]
      BY <3>1, <1>1, GuardTypes
    <3>. QED BY <3>2, <2>1, <2>4
  <2>. QED BY <2>1, <2>3, <2>4 DEF IInv, NoLostUpdate
<1>. QED BY <1>10, <1>11, <1>12, <1>13, <1>14, <1>15, <1>16 DEF IInv
-----------------------------------------------------------------------------
(* Fetching, allocating, deleting. *)

\* PrepareFrameForUse finds the chosen frame unpinned, so it fails only in the
\* flush.
LEMMA PrepareFailsStep ==
    ASSUME IInv, NEW f \in Frames, AcquireFrame(f), NEW op, PrepareFails(f, op)
    PROVE  IInv'
<1>1. frames[f].pin = 0
  BY EvictFacts
<1>2. FlushFails(f, op)
  BY <1>1 DEF PrepareFails, VictimPinned
<1>. QED BY <1>2, FlushFailsStep

\* The file after the victim has been flushed, seen from the frames that stay.
LEMMA EvictedFile ==
    ASSUME IInv, NEW f \in Frames
    PROVE  /\ DiskWith({f}) \in [PageId -> Data \cup {Corrupt, Absent}]
           /\ \A p \in PageId : DiskWith({f})[p] = Absent <=> p >= size
           /\ \A e \in Frames : Holds(e) /\ e # f =>
                 DiskWith({f})[frames[e].page.id] = disk[frames[e].page.id]
BY DiskWithProperties

\* The file's part of the invariant, as the steps that grow or read it use it.
LEMMA SizeFacts ==
    ASSUME IInv
    PROVE  /\ size \in 0 .. MaxPages /\ MaxPages \in Nat /\ size \in Nat
           /\ tail \in BOOLEAN
           /\ disk \in [PageId -> Data \cup {Corrupt, Absent}]
           /\ \A p \in PageId : p \in Nat /\ p < MaxPages
           /\ \A p \in PageId : disk[p] = Absent <=> p >= size
BY DiskConstants DEF IInv, FileTypeOK, PageId

\* A page that is not cached is in no frame, and is where the file has it.
LEMMA AbsentPage ==
    ASSUME IInv, NEW p \in PageId, page_table[p] = NoFrame, NEW f \in Frames
    PROVE  DiskWith({f})[p] = disk[p]
<1>1. ASSUME NEW e \in Writers({f}, p) PROVE FALSE
  <2>1. e \in Frames /\ Holds(e) /\ frames[e].page.id = p
    BY DEF Writers, NeedsFlush
  <2>. QED BY <2>1, FrameFacts
<1>. QED BY <1>1 DEF DiskWith

\* FetchPage that reads from the file after making room.
LEMMA FetchMissStep ==
    ASSUME IInv, NEW g \in Guards, NEW p \in PageId, FetchMiss(g, p)
    PROVE  IInv'
<1>1. ~Live(g) /\ page_table[p] = NoFrame /\ ReadOk(p) /\ UNCHANGED <<size, tail, open>>
  BY DEF FetchMiss, Resident
<1>. DEFINE image == [id |-> p, data |-> disk[p], sum |-> disk[p]]
<1>2. PICK f \in Frames :
          /\ AcquireFrame(f)
          /\ disk' = DiskWith({f})
          /\ frames' = [frames EXCEPT ![f] = [page |-> image, pin |-> 1, dirty |-> FALSE]]
          /\ page_table' = [TableWithout(f) EXCEPT ![p] = f]
          /\ lru' = LruWithout(f)
          /\ PinFrame(g, f, p)
  BY DEF FetchMiss
<1>3. p < size /\ disk[p] \in Data
  <2>1. ~(p >= size) /\ disk[p] # Corrupt
    BY <1>1 DEF ReadOk, ReadRefusal
  <2>. QED BY <2>1, SizeFacts
<1>4. image \in MemPage /\ image.id = p /\ image.data = disk[p]
  BY <1>3 DEF MemPage
<1>5. disk'[p] = disk[p]
  BY <1>1, <1>2, AbsentPage
<1>6. size' \in 0 .. MaxPages /\ size <= size' /\ p < size'
  BY <1>1, <1>3, SizeFacts
<1>7. /\ disk' \in [PageId -> Data \cup {Corrupt, Absent}]
      /\ \A q \in PageId : disk'[q] = Absent <=> q >= size'
      /\ \A e \in Frames : Holds(e) /\ e # f =>
            disk'[frames[e].page.id] = disk[frames[e].page.id]
  BY <1>1, <1>2, EvictedFile
<1>. HIDE DEF image
<1>. QED BY <1>1, <1>2, <1>4, <1>5, <1>6, <1>7, InstallStep

\* NewPage that evicts, appends a page and installs it.
LEMMA NewPageStep ==
    ASSUME IInv, NEW g \in Guards, NewPage(g)
    PROVE  IInv'
<1>1. /\ ~Live(g) /\ size # InvalidPageId
      /\ size' = size + 1 /\ UNCHANGED <<tail, open>>
  BY DEF NewPage
<1>2. PICK f \in Frames :
          /\ AcquireFrame(f)
          /\ disk' = [DiskWith({f}) EXCEPT ![size] = Blank]
          /\ frames' = [frames EXCEPT ![f] =
                [page |-> NewImage(size), pin |-> 1, dirty |-> FALSE]]
          /\ page_table' = [TableWithout(f) EXCEPT ![size] = f]
          /\ lru' = LruWithout(f)
          /\ PinFrame(g, f, size)
  BY DEF NewPage
<1>3. size \in PageId /\ size' \in 0 .. MaxPages /\ size <= size' /\ size < size'
  BY <1>1, SizeFacts DEF InvalidPageId, PageId
<1>4. page_table[size] = NoFrame
  <2>1. ASSUME page_table[size] # NoFrame PROVE FALSE
    <3>1. page_table[size] \in Frames /\ Holds(page_table[size])
          /\ frames[page_table[size]].page.id = size
      BY <2>1, <1>3 DEF IInv, PoolTypeOK, PageTableExact
    <3>2. size < size
      BY <3>1, FrameFacts
    <3>. QED BY <3>2, SizeFacts
  <2>. QED BY <2>1
<1>5. NewImage(size) \in MemPage /\ NewImage(size).id = size /\ NewImage(size).data = Blank
  BY <1>3, DiskConstants DEF NewImage, MemPage
<1>6. /\ disk' \in [PageId -> Data \cup {Corrupt, Absent}]
      /\ disk'[size] = Blank
      /\ \A q \in PageId : q # size => disk'[q] = DiskWith({f})[q]
  BY <1>2, <1>3, EvictedFile, DiskConstants
<1>7. ASSUME NEW q \in PageId PROVE disk'[q] = Absent <=> q >= size'
  <2>1. CASE q = size
    <3>1. disk'[q] # Absent
      BY <2>1, <1>6, DiskConstants
    <3>2. ~(q >= size')
      BY <2>1, <1>1, SizeFacts
    <3>. QED BY <3>1, <3>2
  <2>2. CASE q # size
    <3>1. q >= size' <=> q >= size
      BY <2>2, <1>1, SizeFacts
    <3>. QED BY <2>2, <3>1, <1>6, EvictedFile
  <2>. QED BY <2>1, <2>2
<1>8. ASSUME NEW e \in Frames, Holds(e), e # f
      PROVE  disk'[frames[e].page.id] = disk[frames[e].page.id]
  <2>1. frames[e].page.id \in PageId /\ frames[e].page.id < size
    BY <1>8, FrameFacts
  <2>2. frames[e].page.id # size
    BY <2>1, SizeFacts
  <2>. QED BY <2>1, <2>2, <1>6, <1>8, EvictedFile
<1>. DEFINE image == NewImage(size)
<1>9. /\ image \in MemPage /\ image.id = size /\ disk'[size] = image.data
      /\ frames' = [frames EXCEPT ![f] = [page |-> image, pin |-> 1, dirty |-> FALSE]]
  BY <1>2, <1>5, <1>6
<1>10. \A e \in Frames : Holds(e) /\ e # f /\ ~frames[e].dirty =>
          disk'[frames[e].page.id] = disk[frames[e].page.id]
  BY <1>8
<1>11. \A q \in PageId : disk'[q] = Absent <=> q >= size'
  BY <1>7
<1>12. /\ AcquireFrame(f) /\ PinFrame(g, f, size) /\ lru' = LruWithout(f)
       /\ page_table' = [TableWithout(f) EXCEPT ![size] = f]
  BY <1>2
<1>13. disk' \in [PageId -> Data \cup {Corrupt, Absent}]
  BY <1>6
<1>. HIDE DEF image
<1>. QED BY <1>1, <1>3, <1>4, <1>9, <1>10, <1>11, <1>12, <1>13, InstallStep

\* NewPage whose append fails has emptied a frame.
LEMMA NewPageWriteFailsStep ==
    ASSUME IInv, NewPageWriteFails
    PROVE  IInv'
<1>1. PICK f \in Frames :
          /\ AcquireFrame(f)
          /\ disk' = DiskWith({f})
          /\ frames' = [frames EXCEPT ![f] =
                [page |-> NoPage, pin |-> frames[f].pin, dirty |-> FALSE]]
          /\ page_table' = TableWithout(f)
          /\ lru' = LruWithout(f)
  BY DEF NewPageWriteFails
<1>2. tail' \in BOOLEAN /\ UNCHANGED <<size, open, guards>>
  BY DEF NewPageWriteFails, FailedAppendTail
<1>3. frames' = [frames EXCEPT ![f] = EmptyFrame]
  <2>1. frames[f].pin = 0
    BY <1>1, EvictFacts
  <2>. QED BY <2>1, <1>1 DEF EmptyFrame
<1>4. /\ frames[f].pin = 0
      /\ page_table' \in [PageId -> Frames \cup {NoFrame}]
      /\ \A q \in PageId : page_table'[q] =
            IF page_table[q] = f THEN NoFrame ELSE page_table[q]
      /\ lru' \in Seq(Frames) /\ IsInjective(lru')
      /\ \A e \in Frames : e \in ToSet(lru') <=> e # f /\ Holds(e) /\ frames[e].pin = 0
  <2>1. AcquireFrame(f)
    BY <1>1
  <2>2. lru' = LruWithout(f) /\ page_table' = TableWithout(f)
    BY <1>1
  <2>3. /\ LruWithout(f) \in Seq(Frames) /\ IsInjective(LruWithout(f))
        /\ \A e \in Frames :
              e \in ToSet(LruWithout(f)) <=> e # f /\ Holds(e) /\ frames[e].pin = 0
    BY <2>1, EvictFacts
  <2>4. /\ TableWithout(f) \in [PageId -> Frames \cup {NoFrame}]
        /\ \A q \in PageId : TableWithout(f)[q] =
              IF page_table[q] = f THEN NoFrame ELSE page_table[q]
    BY <2>1, EvictFacts
  <2>5. frames[f].pin = 0
    BY <2>1, EvictFacts
  <2>. QED BY <2>2, <2>3, <2>4, <2>5
<1>5. /\ disk' \in [PageId -> Data \cup {Corrupt, Absent}]
      /\ \A q \in PageId : disk'[q] = Absent <=> q >= size'
      /\ size' \in 0 .. MaxPages
  BY <1>1, <1>2, EvictedFile, SizeFacts
<1>6. ASSUME NEW e \in Frames, Holds(e), e # f
      PROVE  /\ frames[e].page.id < size'
             /\ disk'[frames[e].page.id] = disk[frames[e].page.id]
  <2>1. frames[e].page.id < size
    BY <1>6, FrameFacts
  <2>2. disk' = DiskWith({f}) /\ size' = size
    BY <1>1, <1>2
  <2>3. DiskWith({f})[frames[e].page.id] = disk[frames[e].page.id]
    BY <1>6, EvictedFile
  <2>. QED BY <2>1, <2>2, <2>3
<1>7. \A e \in Frames : Holds(e) /\ e # f =>
          /\ frames[e].page.id < size'
          /\ ~frames[e].dirty => disk'[frames[e].page.id] = disk[frames[e].page.id]
  BY <1>6
<1>. QED BY <1>2, <1>3, <1>4, <1>5, <1>7, EmptyStep

\* DeletePage drops the frame of the page and the page.
LEMMA DeletePageStep ==
    ASSUME IInv, NEW p \in AnyPageId, DeletePage(p)
    PROVE  IInv'
<1>1. /\ p \in PageId /\ p + 1 = size /\ size' = p
      /\ disk' = [disk EXCEPT ![p] = Absent]
      /\ UNCHANGED <<tail, open, guards>>
  BY DEF DeletePage, DeleteOk
<1>2. /\ disk' \in [PageId -> Data \cup {Corrupt, Absent}]
      /\ size' \in 0 .. MaxPages /\ tail' \in BOOLEAN
      /\ \A q \in PageId : q # p => disk'[q] = disk[q]
      /\ disk'[p] = Absent
  BY <1>1, SizeFacts
<1>3. ASSUME NEW q \in PageId PROVE disk'[q] = Absent <=> q >= size'
  <2>1. CASE q = p
    BY <2>1, <1>1, <1>2, SizeFacts
  <2>2. CASE q # p
    <3>1. q >= size' <=> q >= size
      BY <2>2, <1>1, SizeFacts
    <3>. QED BY <2>2, <3>1, <1>2, SizeFacts
  <2>. QED BY <2>1, <2>2
<1>4. ASSUME NEW e \in Frames, Holds(e), frames[e].page.id # p
      PROVE  /\ frames[e].page.id < size'
             /\ disk'[frames[e].page.id] = disk[frames[e].page.id]
  <2>1. frames[e].page.id \in PageId /\ frames[e].page.id < size
    BY <1>4, FrameFacts
  <2>2. frames[e].page.id \in Nat /\ p \in Nat
    BY <2>1, <1>1, SizeFacts
  <2>3. frames[e].page.id < p
    BY <2>1, <2>2, <1>1, <1>4
  <2>. QED BY <2>1, <2>3, <1>1, <1>2, <1>4
<1>5. CASE Resident(p)
  <2>. DEFINE f == page_table[p]
  <2>1. f \in Frames /\ Holds(f) /\ frames[f].page.id = p /\ f # NoFrame
    BY <1>1, <1>5 DEF Resident, IInv, PoolTypeOK, PageTableExact
  <2>2. /\ frames[f].pin = 0
        /\ frames' = [frames EXCEPT ![f] = EmptyFrame]
        /\ page_table' = [page_table EXCEPT ![p] = NoFrame]
        /\ lru' = RemoveFirst(lru, f)
    BY <1>5 DEF DeletePage, InUse, RemoveFromReplacer
  <2>3. /\ page_table' \in [PageId -> Frames \cup {NoFrame}]
        /\ page_table'[p] = NoFrame
        /\ \A q \in PageId : q # p => page_table'[q] = page_table[q]
    BY <2>2, <1>1 DEF IInv, PoolTypeOK
  <2>. HIDE DEF f
  <2>4. ASSUME NEW q \in PageId
        PROVE  page_table'[q] = IF page_table[q] = f THEN NoFrame ELSE page_table[q]
    <3>1. CASE q = p
      BY <3>1, <2>3 DEF f
    <3>2. CASE q # p
      <4>1. page_table[q] # f
        BY <3>2, <2>1 DEF IInv, PageTableExact
      <4>. QED BY <3>2, <4>1, <2>3
    <3>. QED BY <3>1, <3>2
  <2>5. /\ lru' \in Seq(Frames) /\ IsInjective(lru') /\ ToSet(lru') = ToSet(lru) \ {f}
    <3>1. lru \in Seq(Frames) /\ IsInjective(lru)
      BY GuardTypes
    <3>. QED BY <2>2, <3>1, RemoveFirstProperties
  <2>6. \A e \in Frames : e \in ToSet(lru') <=> e # f /\ Holds(e) /\ frames[e].pin = 0
    BY <2>5, GuardTypes
  <2>7. ASSUME NEW e \in Frames, Holds(e), e # f
        PROVE  /\ frames[e].page.id < size'
               /\ disk'[frames[e].page.id] = disk[frames[e].page.id]
    <3>1. frames[e].page.id # p
      BY <2>1, <2>7, FramesDisjoint
    <3>. QED BY <3>1, <2>7, <1>4
  <2>8. /\ f \in Frames /\ frames[f].pin = 0
        /\ frames' = [frames EXCEPT ![f] = EmptyFrame]
        /\ page_table' \in [PageId -> Frames \cup {NoFrame}]
        /\ lru' \in Seq(Frames) /\ IsInjective(lru')
        /\ UNCHANGED <<open, guards>>
    BY <2>1, <2>2, <2>3, <2>5, <1>1
  <2>9. \A e \in Frames : Holds(e) /\ e # f =>
            /\ frames[e].page.id < size'
            /\ ~frames[e].dirty => disk'[frames[e].page.id] = disk[frames[e].page.id]
    BY <2>7
  <2>. QED BY <2>4, <2>6, <2>8, <2>9, <1>2, <1>3, EmptyStep
<1>6. CASE ~Resident(p)
  <2>1. UNCHANGED <<frames, page_table, lru>>
    BY <1>6 DEF DeletePage
  <2>2. page_table[p] = NoFrame
    BY <1>1, <1>6 DEF Resident
  <2>3. ASSUME NEW e \in Frames, Holds(e)
        PROVE  /\ frames[e].page.id < size'
               /\ disk'[frames[e].page.id] = disk[frames[e].page.id]
    <3>0. page_table[frames[e].page.id] = e /\ e # NoFrame
      BY <2>3, FrameFacts
    <3>1. frames[e].page.id # p
      BY <2>2, <3>0
    <3>. QED BY <3>1, <2>3, <1>4
  <2>4. FileTypeOK'
    BY <1>2, <1>3 DEF FileTypeOK
  <2>5. PoolTypeOK' /\ PageTableExact'
    BY <2>1, <1>1 DEF IInv, PoolTypeOK, PageTableExact, Holds
  <2>5a. GuardsKeepTheirPage'
    BY <2>1, <1>1 DEF IInv, GuardsKeepTheirPage, Live
  <2>5b. PinsAccounted'
    BY <2>1, <1>1 DEF IInv, PinsAccounted
  <2>5c. ReplacerExact'
    BY <2>1 DEF IInv, ReplacerExact, Holds
  <2>6. CachedPagesExist' /\ NoLostUpdate'
    BY <2>1, <2>3, <1>1 DEF IInv, CachedPagesExist, NoLostUpdate, Holds
  <2>. QED BY <2>4, <2>5, <2>5a, <2>5b, <2>5c, <2>6 DEF IInv
<1>. QED BY <1>5, <1>6

\* The pool is destroyed, lost or opened.
LEMMA LifeSteps ==
    ASSUME IInv, Close \/ Crash \/ OpenPool \/ \E k \in Frames : CloseLosesPages(k)
    PROVE  IInv'
<1>1. ASSUME Close PROVE IInv'
  <2>1. disk' = DiskWith(Frames) /\ PoolGone /\ UNCHANGED <<size, tail>>
    BY <1>1 DEF Close
  <2>2. /\ disk' \in [PageId -> Data \cup {Corrupt, Absent}]
        /\ \A p \in PageId : disk'[p] = Absent <=> p >= size
    BY <2>1, DiskWithProperties
  <2>. QED BY <2>1, <2>2, PoolGoneStep
<1>2. ASSUME NEW k \in Frames, CloseLosesPages(k) PROVE IInv'
  <2>1. NeedsFlush(k) /\ disk' \in DiskAfterFailure(k) /\ PoolGone /\ UNCHANGED <<size, tail>>
    BY <1>2 DEF CloseLosesPages, FlushErrors
  <2>2. /\ disk' \in [PageId -> Data \cup {Corrupt, Absent}]
        /\ \A p \in PageId : disk'[p] = Absent <=> p >= size
    BY <2>1, DiskAfterFailureProperties
  <2>. QED BY <2>1, <2>2, PoolGoneStep
<1>3. ASSUME Crash PROVE IInv'
  <2>1. PoolGone /\ UNCHANGED <<disk, size, tail>>
    BY <1>3 DEF Crash, fileVars
  <2>. QED BY <2>1, SizeFacts, PoolGoneStep
<1>4. ASSUME OpenPool PROVE IInv'
  <2>1. open' = TRUE /\ UNCHANGED <<disk, size, tail, frames, page_table, lru, guards>>
    BY <1>4 DEF OpenPool, fileVars
  <2>2. (FileTypeOK /\ PoolTypeOK)'
    BY <2>1 DEF IInv, FileTypeOK, PoolTypeOK
  <2>3. (/\ PageTableExact /\ GuardsKeepTheirPage /\ PinsAccounted
         /\ ReplacerExact /\ CachedPagesExist /\ NoLostUpdate)'
    BY <2>1 DEF IInv, PageTableExact, GuardsKeepTheirPage, PinsAccounted,
       ReplacerExact, CachedPagesExist, NoLostUpdate, Holds, Live
  <2>. QED BY <2>2, <2>3 DEF IInv
<1>. QED BY <1>1, <1>2, <1>3, <1>4

-----------------------------------------------------------------------------
(* The invariant is inductive. *)
LEMMA NextIInv == IInv /\ [Next]_vars => IInv'
<1>. SUFFICES ASSUME IInv, [Next]_vars PROVE IInv'
  OBVIOUS
<1>1. CASE UNCHANGED vars
  <2>1. UNCHANGED <<fileVars, poolVars>>
    BY <1>1 DEF vars
  <2>. QED BY <2>1, RefusalStep
<1>2. ASSUME NEW p \in AnyPageId, FetchRefused(p) \/ FlushPageMissing(p) \/ DeletePageRefused(p)
      PROVE  IInv'
  <2>1. UNCHANGED <<fileVars, poolVars>>
    BY <1>2 DEF FetchRefused, FlushPageMissing, DeletePageRefused
  <2>. QED BY <2>1, RefusalStep
<1>3. ASSUME NewPageRefused \/ OpenPoolFails PROVE IInv'
  <2>1. UNCHANGED <<fileVars, poolVars>>
    BY <1>3 DEF NewPageRefused, OpenPoolFails
  <2>. QED BY <2>1, RefusalStep
<1>4. ASSUME NEW p \in AnyPageId, FetchEvictFails(p) PROVE IInv'
  BY <1>4, PrepareFailsStep DEF FetchEvictFails
<1>5. ASSUME NewPageEvictFails PROVE IInv'
  BY <1>5, PrepareFailsStep DEF NewPageEvictFails
<1>6. ASSUME NEW p \in AnyPageId, FlushPageFails(p) \/ FlushPage(p) PROVE IInv'
  BY <1>6, FlushActions
<1>7. ASSUME FlushAllPages \/ \E k \in Frames : FlushAllPagesFails(k) PROVE IInv'
  BY <1>7, FlushActions
<1>8. ASSUME NEW p \in AnyPageId, DeletePage(p) PROVE IInv'
  BY <1>8, DeletePageStep
<1>9. ASSUME NEW g \in Guards, NEW p \in PageId, FetchHit(g, p) \/ FetchMiss(g, p) PROVE IInv'
  BY <1>9, FetchHitStep, FetchMissStep
<1>10. ASSUME NEW g \in Guards, NewPage(g) \/ Release(g) PROVE IInv'
  BY <1>10, NewPageStep, ReleaseStep
<1>11. ASSUME NEW g \in Guards, NEW d \in Data, MutablePage(g, d) PROVE IInv'
  BY <1>11, MutablePageStep
<1>12. ASSUME NEW g \in Guards, NEW to \in Guards, Move(g, to) PROVE IInv'
  BY <1>12, MoveStep
<1>13. ASSUME NewPageWriteFails PROVE IInv'
  BY <1>13, NewPageWriteFailsStep
<1>14. ASSUME Close \/ Crash \/ OpenPool \/ \E k \in Frames : CloseLosesPages(k) PROVE IInv'
  BY <1>14, LifeSteps
<1>. QED BY <1>1, <1>2, <1>3, <1>4, <1>5, <1>6, <1>7, <1>8, <1>9, <1>10, <1>11, <1>12, <1>13,
        <1>14 DEF Next

\* The file and the pool keep the structure IInv describes.
THEOREM Invariant == Spec => []IInv
BY InitIInv, NextIInv, PTL DEF Spec
-----------------------------------------------------------------------------
(* What follows from the invariant. *)

\* Every call returns one of the listed codes.
LEMMA CodesReturned == ASSUME IInv, Next PROVE last' \in [op : Calls, code : Codes]
<1>. USE DEF Returns, Calls, Codes
<1>1. \A fault : CanFail(fault) \subseteq {"io"}
  BY DEF CanFail
<1>2. \A page : WriteErrors(page) \subseteq {"io", "corruption", "out_of_range"}
  BY <1>1 DEF WriteErrors, WriteRefusal
<1>3. \A f : FlushErrors(f) \subseteq {"io", "corruption", "out_of_range"}
  BY <1>2 DEF FlushErrors
<1>4. \A p : UnpinCode(p) \in {"ok", "internal"}
  BY DEF UnpinCode
<1>5. ASSUME NEW p \in AnyPageId, FetchRefused(p) \/ FlushPageMissing(p) \/ DeletePageRefused(p)
      PROVE  last' \in [op : Calls, code : Codes]
  <2>1. FetchErrors(p) \subseteq Codes
    BY <1>1 DEF FetchErrors, ReadErrors, ReadRefusal
  <2>2. DeleteRefusals(p) \subseteq Codes
    BY <1>1 DEF DeleteRefusals, DeleteErrors
  <2>. QED BY <1>5, <2>1, <2>2 DEF FetchRefused, FlushPageMissing, DeletePageRefused
<1>6. ASSUME NewPageRefused \/ OpenPoolFails \/ NewPageWriteFails
      PROVE  last' \in [op : Calls, code : Codes]
  BY <1>1, <1>2, <1>6 DEF NewPageRefused, NewPageErrors, OpenPoolFails, NewPageWriteFails
<1>7. ASSUME NEW f, NEW op \in Calls, PrepareFails(f, op) \/ FlushFails(f, op)
      PROVE  last' \in [op : Calls, code : Codes]
  BY <1>3, <1>7 DEF PrepareFails, FlushFails
<1>8. ASSUME NEW p \in AnyPageId, FetchEvictFails(p) \/ FlushPageFails(p)
      PROVE  last' \in [op : Calls, code : Codes]
  BY <1>7, <1>8 DEF FetchEvictFails, FlushPageFails
<1>9. ASSUME NewPageEvictFails PROVE last' \in [op : Calls, code : Codes]
  BY <1>7, <1>9 DEF NewPageEvictFails
<1>10. ASSUME NEW k \in Frames, FlushAllPagesFails(k) \/ CloseLosesPages(k)
       PROVE  last' \in [op : Calls, code : Codes]
  BY <1>3, <1>10 DEF FlushAllPagesFails, CloseLosesPages
<1>11. ASSUME NEW p \in AnyPageId, FlushPage(p) \/ DeletePage(p)
       PROVE  last' \in [op : Calls, code : Codes]
  BY <1>11 DEF FlushPage, DeletePage
<1>12. ASSUME FlushAllPages \/ Close \/ Crash \/ OpenPool
       PROVE  last' \in [op : Calls, code : Codes]
  BY <1>1, <1>12 DEF FlushAllPages, Close, Crash, OpenPool
<1>13. ASSUME NEW g \in Guards, NEW p \in PageId, FetchHit(g, p) \/ FetchMiss(g, p)
       PROVE  last' \in [op : Calls, code : Codes]
  BY <1>13 DEF FetchHit, FetchMiss
<1>14. ASSUME NEW g \in Guards, NewPage(g) \/ Release(g)
       PROVE  last' \in [op : Calls, code : Codes]
  BY <1>4, <1>14 DEF NewPage, Release
<1>15. ASSUME NEW g \in Guards, NEW d \in Data, MutablePage(g, d)
       PROVE  last' \in [op : Calls, code : Codes]
  BY <1>15 DEF MutablePage
<1>16. ASSUME NEW g \in Guards, NEW to \in Guards, Move(g, to)
       PROVE  last' \in [op : Calls, code : Codes]
  BY <1>4, <1>16 DEF Move
<1>. QED BY <1>5, <1>6, <1>8, <1>9, <1>10, <1>11, <1>12, <1>13, <1>14, <1>15, <1>16 DEF Next

\* Type correctness: files, frames, tables, guards and return codes are what
\* the declarations in buffer_pool.h say.
THEOREM TypeCorrect == Spec => []TypeOK
<1>1. Init => TypeOK
  <2>1. Init => last \in [op : Calls, code : Codes]
    BY DEF Init, Calls, Codes
  <2>. QED BY <2>1, InitIInv DEF TypeOK, IInv
<1>2. IInv /\ TypeOK /\ [Next]_vars => TypeOK'
  <2>1. ASSUME IInv, TypeOK, [Next]_vars PROVE last' \in [op : Calls, code : Codes]
    BY <2>1, CodesReturned DEF TypeOK, vars
  <2>. QED BY <2>1, NextIInv DEF TypeOK, IInv
<1>. QED BY <1>1, <1>2, Invariant, PTL DEF Spec

\* Page table, pin counts and replacer agree for any number of guards and frames:
\* no pinned frame is ever evictable and no unpinned one is forgotten.
THEOREM BookkeepingAlwaysExact == Spec => []BookkeepingExact
BY Invariant, PTL DEF IInv, BookkeepingExact

\* A live guard's frame pointer never dangles.
THEOREM GuardsAlwaysKeepTheirPage == Spec => []GuardsKeepTheirPage
BY Invariant, PTL DEF IInv

\* Eviction without a write never loses an update.
THEOREM NoUpdateEverLost == Spec => []NoLostUpdate
BY Invariant, PTL DEF IInv
\* The internal-error branches of the pool are unreachable.
LEMMA NoInternalStep == ASSUME IInv, Next PROVE last'.code # "internal"
<1>. USE DEF Returns
<1>1. \A fault : "internal" \notin CanFail(fault)
  BY DEF CanFail
<1>2. \A page : "internal" \notin WriteErrors(page)
  BY <1>1 DEF WriteErrors, WriteRefusal
<1>3. \A f : "internal" \notin FlushErrors(f)
  BY <1>2 DEF FlushErrors
<1>4. ASSUME NEW p \in AnyPageId, FetchRefused(p) PROVE last'.code # "internal"
  <2>1. Resident(p) => Holds(page_table[p])
    BY DEF Resident, IInv, PageTableExact
  <2>2. "internal" \notin FetchErrors(p)
    BY <2>1, <1>1 DEF FetchErrors, ReadErrors, ReadRefusal
  <2>. QED BY <2>2, <1>4 DEF FetchRefused
<1>5. ASSUME NEW p \in AnyPageId, DeletePageRefused(p) PROVE last'.code # "internal"
  <2>1. "internal" \notin DeleteRefusals(p)
    BY <1>1 DEF DeleteRefusals, DeleteErrors
  <2>. QED BY <2>1, <1>5 DEF DeletePageRefused
<1>6. ASSUME NewPageRefused \/ OpenPoolFails \/ NewPageWriteFails PROVE last'.code # "internal"
  BY <1>1, <1>2, <1>6 DEF NewPageRefused, NewPageErrors, OpenPoolFails, NewPageWriteFails
<1>7. ASSUME NEW f \in Frames, NEW op, AcquireFrame(f), PrepareFails(f, op)
      PROVE  last'.code # "internal"
  <2>1. ~VictimPinned(f)
    BY <1>7, EvictFacts DEF VictimPinned
  <2>. QED BY <2>1, <1>3, <1>7 DEF PrepareFails, FlushFails
<1>8. ASSUME NEW p \in AnyPageId, FetchEvictFails(p) PROVE last'.code # "internal"
  BY <1>7, <1>8 DEF FetchEvictFails
<1>9. ASSUME NewPageEvictFails PROVE last'.code # "internal"
  BY <1>7, <1>9 DEF NewPageEvictFails
<1>10. ASSUME NEW p \in AnyPageId, FlushPageFails(p) PROVE last'.code # "internal"
  BY <1>3, <1>10 DEF FlushPageFails, FlushFails
<1>11. ASSUME NEW k \in Frames, FlushAllPagesFails(k) \/ CloseLosesPages(k)
       PROVE  last'.code # "internal"
  BY <1>3, <1>11 DEF FlushAllPagesFails, CloseLosesPages
<1>12. ASSUME NEW p \in AnyPageId, FlushPageMissing(p) \/ FlushPage(p) \/ DeletePage(p)
       PROVE  last'.code # "internal"
  BY <1>12 DEF FlushPageMissing, FlushPage, DeletePage
<1>13. ASSUME FlushAllPages \/ Close \/ Crash \/ OpenPool PROVE last'.code # "internal"
  BY <1>1, <1>13 DEF FlushAllPages, Close, Crash, OpenPool
<1>14. ASSUME NEW g \in Guards, NEW p \in PageId, FetchHit(g, p) \/ FetchMiss(g, p)
       PROVE  last'.code # "internal"
  BY <1>14 DEF FetchHit, FetchMiss
<1>15. ASSUME NEW g \in Guards, Live(g) PROVE UnpinCode(guards[g].page) = "ok"
  BY <1>15, LiveGuardFacts
<1>16. ASSUME NEW g \in Guards, NewPage(g) \/ Release(g) PROVE last'.code # "internal"
  BY <1>15, <1>16 DEF NewPage, Release
<1>17. ASSUME NEW g \in Guards, NEW d \in Data, MutablePage(g, d) PROVE last'.code # "internal"
  BY <1>17 DEF MutablePage
<1>18. ASSUME NEW g \in Guards, NEW to \in Guards, Move(g, to) PROVE last'.code # "internal"
  BY <1>15, <1>18 DEF Move
<1>. QED BY <1>4, <1>5, <1>6, <1>8, <1>9, <1>10, <1>11, <1>12, <1>13, <1>14, <1>16, <1>17,
        <1>18 DEF Next

\* No sequence of calls, faults and restarts makes the pool report one of its
\* kInternal errors, whatever the number of pages, frames and guards.
THEOREM InternalErrorsUnreachable == Spec => NoInternalError
<1>1. IInv /\ [Next]_vars => [last'.code # "internal"]_vars
  BY NoInternalStep
<1>. QED BY <1>1, Invariant, PTL DEF Spec, NoInternalError

-----------------------------------------------------------------------------
(***************************************************************************)
(* BufferPool implements PageStore: every call of the pool is a step of    *)
(* the page store or leaves it alone, when the store is what a reader sees *)
(* (Visible) and the durable image is the file.  The step proofs follow    *)
(* the page's content through flush, eviction and failed writes; they rest *)
(* on the inductive invariant above.                                       *)
(***************************************************************************)

(***************************************************************************)
(* What a reader sees of one page.                                         *)
(***************************************************************************)
LEMMA Seen ==
    ASSUME IInv, NEW p \in PageId
    PROVE  /\ Visible[p] = IF page_table[p] # NoFrame THEN frames[page_table[p]].page.data
                           ELSE disk[p]
           /\ Visible[p] = Absent <=> p >= size
           /\ page_table[p] # NoFrame =>
                 /\ page_table[p] \in Frames /\ Holds(page_table[p])
                 /\ frames[page_table[p]].page.id = p
                 /\ Visible[p] \in Data
<1>1. Visible[p] = IF page_table[p] # NoFrame THEN frames[page_table[p]].page.data ELSE disk[p]
  BY DEF Visible, Resident
<1>2. ASSUME page_table[p] # NoFrame
      PROVE  /\ page_table[p] \in Frames /\ Holds(page_table[p])
             /\ frames[page_table[p]].page.id = p
             /\ frames[page_table[p]].page.data \in Data
             /\ p < size
  <2>1. page_table[p] \in Frames
    BY <1>2 DEF IInv, PoolTypeOK
  <2>2. Holds(page_table[p]) /\ frames[page_table[p]].page.id = p
    BY <1>2 DEF IInv, PageTableExact
  <2>. QED BY <2>1, <2>2, FrameFacts
<1>3. Visible[p] = Absent <=> p >= size
  <2>1. CASE page_table[p] # NoFrame
    <3>1. p < size /\ Visible[p] \in Data
      BY <1>1, <1>2, <2>1
    <3>2. ~(p >= size)
      BY <3>1, SizeFacts
    <3>. QED BY <3>1, <3>2, DiskConstants
  <2>2. CASE page_table[p] = NoFrame
    BY <1>1, <2>2 DEF IInv, FileTypeOK
  <2>. QED BY <2>1, <2>2
<1>. QED BY <1>1, <1>2, <1>3

\* A reader sees of a cached page what its frame holds.
LEMMA SeenInFrame ==
    ASSUME IInv, NEW f \in Frames, Holds(f)
    PROVE  /\ frames[f].page.id \in PageId
           /\ page_table[frames[f].page.id] = f /\ f # NoFrame
           /\ Visible[frames[f].page.id] = frames[f].page.data
           /\ frames[f].page.data \in Data
<1>1. /\ frames[f].page.id \in PageId /\ frames[f].page.data \in Data
      /\ page_table[frames[f].page.id] = f /\ f # NoFrame
  BY FrameFacts
<1>. QED BY <1>1, Seen

\* Flushing frames brings a page up to date or leaves it as it is in the file.
LEMMA FlushedSeen ==
    ASSUME IInv, NEW F \in SUBSET Frames, NEW p \in PageId
    PROVE  /\ DiskWith(F)[p] \in {disk[p], Visible[p]}
           /\ page_table[p] = NoFrame => DiskWith(F)[p] = disk[p]
<1>1. CASE page_table[p] # NoFrame
  <2>. DEFINE f == page_table[p]
  <2>1. f \in Frames /\ Holds(f) /\ frames[f].page.id = p /\ Visible[p] = frames[f].page.data
    BY <1>1, Seen
  <2>2. DiskWith(F)[p] = IF f \in F /\ frames[f].dirty THEN frames[f].page.data ELSE disk[p]
    BY <2>1, DiskWithProperties
  <2>. QED BY <1>1, <2>1, <2>2
<1>2. CASE page_table[p] = NoFrame
  <2>1. Writers(F, p) = {}
    <3>1. SUFFICES ASSUME NEW f \in Writers(F, p) PROVE FALSE
      OBVIOUS
    <3>2. f \in Frames /\ Holds(f) /\ frames[f].page.id = p
      BY <3>1 DEF Writers, NeedsFlush
    <3>. QED BY <1>2, <3>2, SeenInFrame
  <2>. QED BY <2>1 DEF DiskWith
<1>. QED BY <1>1, <1>2

\* So does a flush that fails part way, which may also spoil the page it was
\* writing.
LEMMA FailedFlushSeen ==
    ASSUME IInv, NEW k \in Frames, NeedsFlush(k), NEW d \in DiskAfterFailure(k), NEW p \in PageId
    PROVE  /\ d[p] \in {disk[p], Visible[p], Corrupt}
           /\ page_table[p] = NoFrame => d[p] = disk[p]
<1>. DEFINE F == 0 .. (k - 1)
            q == frames[k].page.id
<1>1. F \in SUBSET Frames
  BY PoolConstants DEF Frames
<1>2. Holds(k)
  BY DEF NeedsFlush
<1>3. q \in PageId /\ page_table[q] = k /\ k # NoFrame /\ frames[k].page \in MemPage
  BY <1>2, SeenInFrame, FrameFacts
<1>4. PICK v \in FailedOverwrite(Finalize(frames[k].page)) : d = [DiskWith(F) EXCEPT ![q] = v]
  BY DEF DiskAfterFailure
<1>5. v \in {disk[q], Corrupt}
  <2>1. Finalize(frames[k].page).id = q
    BY <1>3 DEF Finalize, MemPage
  <2>. QED BY <1>4, <2>1 DEF FailedOverwrite
<1>6. DiskWith(F) \in [PageId -> Data \cup {Corrupt, Absent}]
  BY <1>1, DiskWithProperties
<1>7. d[p] = IF p = q THEN v ELSE DiskWith(F)[p]
  BY <1>4, <1>6
<1>. HIDE DEF F, q
<1>8. /\ DiskWith(F)[p] \in {disk[p], Visible[p]}
      /\ page_table[p] = NoFrame => DiskWith(F)[p] = disk[p]
  BY <1>1, FlushedSeen
<1>. QED BY <1>3, <1>5, <1>7, <1>8

\* Evicting a frame leaves its page in the file as readers saw it.
LEMMA EvictedSeen ==
    ASSUME IInv, NEW f \in Frames, AcquireFrame(f), NEW p \in PageId
    PROVE  DiskWith({f})[p] = IF page_table[p] = f THEN Visible[p] ELSE disk[p]
<1>1. CASE page_table[p] = f
  <2>1. f # NoFrame
    BY FrameFacts
  <2>2. Holds(f) /\ frames[f].page.id = p /\ Visible[p] = frames[f].page.data
    BY <1>1, <2>1, Seen
  <2>3. DiskWith({f})[p] = IF frames[f].dirty THEN frames[f].page.data ELSE disk[p]
    BY <2>2, DiskWithProperties
  <2>4. \A g \in Guards : guards[g].frame # f
    BY EvictFacts
  <2>5. ~frames[f].dirty => disk[p] = frames[f].page.data
    BY <2>2, <2>4 DEF IInv, NoLostUpdate
  <2>. QED BY <1>1, <2>2, <2>3, <2>5
<1>2. CASE page_table[p] # f
  <2>1. Writers({f}, p) = {}
    <3>1. SUFFICES ASSUME NEW e \in Writers({f}, p) PROVE FALSE
      OBVIOUS
    <3>2. e = f /\ Holds(f) /\ frames[f].page.id = p
      BY <3>1 DEF Writers, NeedsFlush
    <3>. QED BY <1>2, <3>2, SeenInFrame
  <2>. QED BY <1>2, <2>1 DEF DiskWith
<1>. QED BY <1>1, <1>2

-----------------------------------------------------------------------------
(* Steps of the page store, one lemma per kind of step of the pool. *)

\* A step after which every page reads as before, while the file catches up
\* with what readers see or loses a page to a failed write.
LEMMA SyncStep ==
    ASSUME IInv, last'.op \in Calls,
           \A p \in PageId :
               (IF page_table'[p] # NoFrame THEN frames'[page_table'[p]].page.data
                ELSE disk'[p]) = Visible[p],
           \A p \in PageId : /\ disk'[p] \in {disk[p], Visible[p], Corrupt}
                             /\ page_table[p] = NoFrame => disk'[p] = disk[p]
    PROVE  PS!Sync
<1>1. Visible' = Visible
  BY DEF Visible, Resident
<1>2. ASSUME NEW p \in PageId
      PROVE  disk'[p] \in {disk[p]} \cup
                 (IF Visible[p] = Absent THEN {} ELSE {Visible[p], Corrupt})
  <2>1. Visible[p] = Absent => page_table[p] = NoFrame
    BY Seen, DiskConstants
  <2>. QED BY <2>1
<1>. QED BY <1>1, <1>2 DEF PS!Sync, PS!WriteBack, PS!StorePage, PS!Calls, Calls, PageId

\* A call that leaves the file and the cached contents alone.
LEMMA QuietStep ==
    ASSUME IInv, last'.op \in Calls, UNCHANGED <<disk, page_table>>,
           \A f \in Frames : Holds(f) => frames'[f].page.data = frames[f].page.data
    PROVE  PS!Sync
<1>1. ASSUME NEW p \in PageId
      PROVE  (IF page_table'[p] # NoFrame THEN frames'[page_table'[p]].page.data
              ELSE disk'[p]) = Visible[p]
  BY Seen
<1>. QED BY <1>1, SyncStep

\* A call that flushes, wholly or in part.
LEMMA FlushingStep ==
    ASSUME IInv, last'.op \in Calls, UNCHANGED page_table,
           \A f \in Frames : Holds(f) => frames'[f].page.data = frames[f].page.data,
           \A p \in PageId : /\ disk'[p] \in {disk[p], Visible[p], Corrupt}
                             /\ page_table[p] = NoFrame => disk'[p] = disk[p]
    PROVE  PS!Sync
<1>1. ASSUME NEW p \in PageId
      PROVE  (IF page_table'[p] # NoFrame THEN frames'[page_table'[p]].page.data
              ELSE disk'[p]) = Visible[p]
  BY Seen
<1>. QED BY <1>1, SyncStep

\* A flush of one frame whose write fails.
LEMMA FlushFailsSeen ==
    ASSUME IInv, NEW f \in Frames, NEW op \in Calls, FlushFails(f, op)
    PROVE  PS!Sync
<1>1. Holds(f) /\ UNCHANGED page_table /\ last'.op = op
  BY DEF FlushFails, FlushErrors, NeedsFlush, Returns
<1>2. \A e \in Frames : Holds(e) => frames'[e].page.data = frames[e].page.data
  <2>1. frames' = [frames EXCEPT ![f] = Finalized(f)]
    BY DEF FlushFails
  <2>2. Finalized(f).page.data = frames[f].page.data
    BY <1>1, FinalizeFacts
  <2>3. frames = [e \in Frames |-> frames[e]]
    BY DEF IInv, PoolTypeOK
  <2>. QED BY <2>1, <2>2, <2>3
<1>3. ASSUME NEW p \in PageId
      PROVE  /\ disk'[p] \in {disk[p], Visible[p], Corrupt}
             /\ page_table[p] = NoFrame => disk'[p] = disk[p]
  <2>. DEFINE q == frames[f].page.id
  <2>1. q \in PageId /\ page_table[q] = f /\ f # NoFrame /\ frames[f].page \in MemPage
    BY <1>1, SeenInFrame, FrameFacts
  <2>2. PICK v \in FailedOverwrite(Finalize(frames[f].page)) : disk' = [disk EXCEPT ![q] = v]
    BY DEF FlushFails
  <2>3. Finalize(frames[f].page).id = q
    BY <2>1 DEF Finalize, MemPage
  <2>4. v \in {disk[q], Corrupt}
    BY <2>2, <2>3 DEF FailedOverwrite
  <2>5. disk'[p] = IF p = q THEN v ELSE disk[p]
    BY <2>2, SizeFacts
  <2>. QED BY <2>1, <2>4, <2>5
<1>. QED BY <1>1, <1>2, <1>3, FlushingStep

\* A miss or a new page that cannot empty the frame it chose.
LEMMA PrepareFailsSeen ==
    ASSUME IInv, NEW f \in Frames, NEW op \in Calls, AcquireFrame(f), PrepareFails(f, op)
    PROVE  PS!Sync
<1>1. FlushFails(f, op)
  <2>1. ~VictimPinned(f)
    BY EvictFacts DEF VictimPinned
  <2>. QED BY <2>1 DEF PrepareFails
<1>. QED BY <1>1, FlushFailsSeen
-----------------------------------------------------------------------------
(* Fetches, new pages and deletions. *)

\* A page is found in its frame.
LEMMA FetchHitSeen ==
    ASSUME IInv, NEW g \in Guards, NEW p \in PageId, FetchHit(g, p)
    PROVE  PS!Sync
<1>1. UNCHANGED <<disk, page_table>> /\ last'.op \in Calls
  BY DEF FetchHit, fileVars, Returns, Calls
<1>2. frames' = [frames EXCEPT ![page_table[p]].pin = @ + 1]
  BY DEF FetchHit
<1>3. frames \in [Frames -> [page : MemPage \cup {NoPage}, pin : Nat, dirty : BOOLEAN]]
  BY DEF IInv, PoolTypeOK
<1>4. \A f \in Frames : frames'[f].page = frames[f].page
  BY <1>2, <1>3
<1>. QED BY <1>1, <1>4, QuietStep

\* A page is read from the file into an evicted frame.
LEMMA FetchMissSeen ==
    ASSUME IInv, NEW g \in Guards, NEW p \in PageId, FetchMiss(g, p)
    PROVE  PS!Sync
<1>1. page_table[p] = NoFrame /\ last'.op \in Calls
  BY DEF FetchMiss, Resident, Returns, Calls
<1>2. PICK f \in Frames :
         /\ AcquireFrame(f)
         /\ disk' = DiskWith({f})
         /\ frames' = [frames EXCEPT ![f] =
               [page |-> [id |-> p, data |-> disk[p], sum |-> disk[p]],
                pin |-> 1, dirty |-> FALSE]]
         /\ page_table' = [TableWithout(f) EXCEPT ![p] = f]
  BY DEF FetchMiss
<1>3. /\ TableWithout(f) \in [PageId -> Frames \cup {NoFrame}]
      /\ \A q \in PageId : TableWithout(f)[q] =
            IF page_table[q] = f THEN NoFrame ELSE page_table[q]
  BY <1>2, EvictFacts
<1>4. /\ frames'[f].page.data = disk[p]
      /\ \A e \in Frames : e # f => frames'[e] = frames[e]
  <2>1. frames \in [Frames -> [page : MemPage \cup {NoPage}, pin : Nat, dirty : BOOLEAN]]
    BY DEF IInv, PoolTypeOK
  <2>. QED BY <1>2, <2>1
<1>5. f # NoFrame
  BY FrameFacts
<1>6. ASSUME NEW q \in PageId
      PROVE  disk'[q] = IF page_table[q] = f THEN Visible[q] ELSE disk[q]
  BY <1>2, EvictedSeen
<1>7. ASSUME NEW q \in PageId
      PROVE  (IF page_table'[q] # NoFrame THEN frames'[page_table'[q]].page.data
              ELSE disk'[q]) = Visible[q]
  <2>1. CASE q = p
    <3>1. page_table'[q] = f
      BY <2>1, <1>2, <1>3
    <3>2. Visible[q] = disk[p]
      BY <2>1, <1>1, Seen
    <3>. QED BY <3>1, <3>2, <1>4, <1>5
  <2>2. CASE q # p /\ page_table[q] = f
    <3>1. page_table'[q] = NoFrame
      BY <2>2, <1>2, <1>3
    <3>. QED BY <3>1, <2>2, <1>6
  <2>3. CASE q # p /\ page_table[q] # f
    <3>1. page_table'[q] = page_table[q]
      BY <2>3, <1>2, <1>3
    <3>2. CASE page_table[q] = NoFrame
      BY <3>1, <3>2, <2>3, <1>6, Seen
    <3>3. CASE page_table[q] # NoFrame
      <4>1. page_table[q] \in Frames /\ Visible[q] = frames[page_table[q]].page.data
        BY <3>3, Seen
      <4>. QED BY <4>1, <3>1, <3>3, <2>3, <1>4
    <3>. QED BY <3>2, <3>3
  <2>. QED BY <2>1, <2>2, <2>3
<1>8. ASSUME NEW q \in PageId
      PROVE  /\ disk'[q] \in {disk[q], Visible[q], Corrupt}
             /\ page_table[q] = NoFrame => disk'[q] = disk[q]
  BY <1>5, <1>6
<1>. QED BY <1>1, <1>7, <1>8, SyncStep

\* A new page that cannot be appended has emptied a frame.
LEMMA NewPageWriteFailsSeen == ASSUME IInv, NewPageWriteFails PROVE PS!Sync
<1>1. PICK f \in Frames :
         /\ AcquireFrame(f)
         /\ disk' = DiskWith({f})
         /\ frames' = [frames EXCEPT ![f] =
               [page |-> NoPage, pin |-> frames[f].pin, dirty |-> FALSE]]
         /\ page_table' = TableWithout(f)
  BY DEF NewPageWriteFails
<1>2. last'.op \in Calls
  BY DEF NewPageWriteFails, Returns, Calls
<1>3. \A q \in PageId : page_table'[q] =
         IF page_table[q] = f THEN NoFrame ELSE page_table[q]
  BY <1>1, EvictFacts
<1>4. \A e \in Frames : e # f => frames'[e] = frames[e]
  <2>1. frames \in [Frames -> [page : MemPage \cup {NoPage}, pin : Nat, dirty : BOOLEAN]]
    BY DEF IInv, PoolTypeOK
  <2>. QED BY <1>1, <2>1
<1>5. f # NoFrame
  BY FrameFacts
<1>6. ASSUME NEW q \in PageId
      PROVE  disk'[q] = IF page_table[q] = f THEN Visible[q] ELSE disk[q]
  BY <1>1, EvictedSeen
<1>7. ASSUME NEW q \in PageId
      PROVE  (IF page_table'[q] # NoFrame THEN frames'[page_table'[q]].page.data
              ELSE disk'[q]) = Visible[q]
  <2>1. CASE page_table[q] = f
    BY <2>1, <1>3, <1>6
  <2>2. CASE page_table[q] = NoFrame
    BY <2>2, <1>3, <1>5, <1>6, Seen
  <2>3. CASE page_table[q] # NoFrame /\ page_table[q] # f
    <3>1. page_table[q] \in Frames /\ Visible[q] = frames[page_table[q]].page.data
      BY <2>3, Seen
    <3>. QED BY <3>1, <2>3, <1>3, <1>4
  <2>. QED BY <2>1, <2>2, <2>3
<1>8. ASSUME NEW q \in PageId
      PROVE  /\ disk'[q] \in {disk[q], Visible[q], Corrupt}
             /\ page_table[q] = NoFrame => disk'[q] = disk[q]
  BY <1>5, <1>6
<1>. QED BY <1>2, <1>7, <1>8, SyncStep

\* A new page is the page after the last, blank to readers and in the file.
LEMMA NewPageSeen ==
    ASSUME IInv, NEW g \in Guards, NewPage(g)
    PROVE  size \in PageId /\ PS!Alloc(size)
<1>1. PICK f \in Frames :
         /\ AcquireFrame(f)
         /\ disk' = [DiskWith({f}) EXCEPT ![size] = Blank]
         /\ frames' = [frames EXCEPT ![f] =
               [page |-> NewImage(size), pin |-> 1, dirty |-> FALSE]]
         /\ page_table' = [TableWithout(f) EXCEPT ![size] = f]
  BY DEF NewPage
<1>2. last'.op = "NewPage" /\ size # InvalidPageId
  BY DEF NewPage, Returns
<1>3. size \in PageId
  BY <1>2, SizeFacts DEF InvalidPageId, PageId
<1>4. /\ TableWithout(f) \in [PageId -> Frames \cup {NoFrame}]
      /\ \A q \in PageId : TableWithout(f)[q] =
            IF page_table[q] = f THEN NoFrame ELSE page_table[q]
  BY <1>1, EvictFacts
<1>5. /\ frames'[f].page.data = Blank
      /\ \A e \in Frames : e # f => frames'[e] = frames[e]
  <2>1. frames \in [Frames -> [page : MemPage \cup {NoPage}, pin : Nat, dirty : BOOLEAN]]
    BY DEF IInv, PoolTypeOK
  <2>. QED BY <1>1, <2>1 DEF NewImage
<1>6. f # NoFrame
  BY FrameFacts
<1>7. /\ disk'[size] = Blank
      /\ \A q \in PageId : q # size =>
            disk'[q] = IF page_table[q] = f THEN Visible[q] ELSE disk[q]
  <2>1. DiskWith({f}) \in [PageId -> Data \cup {Corrupt, Absent}]
    BY EvictedFile
  <2>2. \A q \in PageId : DiskWith({f})[q] = IF page_table[q] = f THEN Visible[q] ELSE disk[q]
    BY <1>1, EvictedSeen
  <2>. QED BY <1>1, <1>3, <2>1, <2>2
<1>8. ASSUME NEW q \in PageId
      PROVE  (IF page_table'[q] # NoFrame THEN frames'[page_table'[q]].page.data
              ELSE disk'[q]) = IF q = size THEN Blank ELSE Visible[q]
  <2>1. CASE q = size
    BY <2>1, <1>1, <1>4, <1>5, <1>6
  <2>2. CASE q # size /\ page_table[q] = f
    <3>1. page_table'[q] = NoFrame
      BY <2>2, <1>1, <1>4
    <3>. QED BY <3>1, <2>2, <1>7
  <2>3. CASE q # size /\ page_table[q] # f
    <3>1. page_table'[q] = page_table[q]
      BY <2>3, <1>1, <1>4
    <3>2. CASE page_table[q] = NoFrame
      BY <3>1, <3>2, <2>3, <1>7, Seen
    <3>3. CASE page_table[q] # NoFrame
      <4>1. page_table[q] \in Frames /\ Visible[q] = frames[page_table[q]].page.data
        BY <3>3, Seen
      <4>. QED BY <4>1, <3>1, <3>3, <2>3, <1>5
    <3>. QED BY <3>2, <3>3
  <2>. QED BY <2>1, <2>2, <2>3
<1>9. Visible' = [Visible EXCEPT ![size] = Blank]
  BY <1>8 DEF Visible, Resident
<1>10. ASSUME NEW q \in PageId, q # size
       PROVE  disk'[q] \in {disk[q]} \cup
                  (IF Visible[q] = Absent THEN {} ELSE {Visible[q], Corrupt})
  <2>1. Visible[q] = Absent => page_table[q] = NoFrame
    BY Seen, DiskConstants
  <2>. QED BY <2>1, <1>6, <1>7, <1>10
<1>11. Visible[size] = Absent
  BY <1>3, Seen, SizeFacts
<1>12. ASSUME NEW q \in PageId, q < size PROVE Visible[q] # Absent
  <2>1. ~(q >= size)
    BY <1>12, SizeFacts
  <2>. QED BY <2>1, Seen
<1>. QED BY <1>2, <1>3, <1>7, <1>9, <1>10, <1>11, <1>12
         DEF PS!Alloc, PS!WriteBack, PS!StorePage, PageId

\* The last page is gone, for readers and in the file.
LEMMA DeletePageSeen ==
    ASSUME IInv, NEW p \in AnyPageId, DeletePage(p)
    PROVE  p \in PageId /\ PS!DropLast(p)
<1>1. /\ p \in PageId /\ p + 1 = size /\ disk' = [disk EXCEPT ![p] = Absent]
      /\ last'.op = "DeletePage"
  BY DEF DeletePage, DeleteOk, Returns
<1>2. ASSUME NEW q \in PageId
      PROVE  (IF page_table'[q] # NoFrame THEN frames'[page_table'[q]].page.data
              ELSE disk'[q]) = IF q = p THEN Absent ELSE Visible[q]
  <2>1. disk'[q] = IF q = p THEN Absent ELSE disk[q]
    BY <1>1, SizeFacts
  <2>2. CASE page_table[p] # NoFrame
    <3>. DEFINE f == page_table[p]
    <3>1. /\ frames' = [frames EXCEPT ![f] = EmptyFrame]
          /\ page_table' = [page_table EXCEPT ![p] = NoFrame]
      BY <2>2, <1>1 DEF DeletePage, Resident
    <3>2. page_table \in [PageId -> Frames \cup {NoFrame}]
          /\ frames = [e \in Frames |-> frames[e]]
      BY DEF IInv, PoolTypeOK
    <3>3. CASE q = p
      BY <3>1, <3>2, <3>3, <2>1
    <3>4. CASE q # p
      <4>1. page_table'[q] = page_table[q]
        BY <3>1, <3>2, <3>4
      <4>2. CASE page_table[q] = NoFrame
        BY <4>1, <4>2, <3>4, <2>1, Seen
      <4>3. CASE page_table[q] # NoFrame
        <5>1. page_table[q] \in Frames /\ frames[page_table[q]].page.id = q
              /\ Visible[q] = frames[page_table[q]].page.data
          BY <4>3, Seen
        <5>2. frames[f].page.id = p
          BY <2>2, <1>1, Seen
        <5>3. page_table[q] # f
          BY <5>1, <5>2, <3>4
        <5>4. frames'[page_table[q]] = frames[page_table[q]]
          BY <5>1, <5>3, <3>1, <3>2
        <5>. QED BY <4>1, <4>3, <5>1, <5>4, <3>4
      <4>. QED BY <4>2, <4>3
    <3>. QED BY <3>3, <3>4
  <2>3. CASE page_table[p] = NoFrame
    <3>1. UNCHANGED <<frames, page_table>>
      BY <2>3, <1>1 DEF DeletePage, Resident
    <3>. QED BY <3>1, <2>1, <2>3, Seen
  <2>. QED BY <2>2, <2>3
<1>3. Visible' = [Visible EXCEPT ![p] = Absent]
  BY <1>2 DEF Visible, Resident
<1>4. Visible[p] # Absent
  <2>1. ~(p >= size)
    BY <1>1, SizeFacts
  <2>. QED BY <1>1, <2>1, Seen
<1>5. ASSUME NEW q \in PageId, q > p PROVE Visible[q] = Absent
  <2>1. q >= size
    BY <1>1, <1>5, SizeFacts
  <2>. QED BY <2>1, Seen
<1>. QED BY <1>1, <1>3, <1>4, <1>5 DEF PS!DropLast, PS!StorePage, PageId

-----------------------------------------------------------------------------
(* Guards. *)

\* A client writes through its guard: readers see it at once, the file later.
LEMMA MutablePageSeen ==
    ASSUME IInv, NEW g \in Guards, NEW d \in Data, MutablePage(g, d)
    PROVE  guards[g].page \in PageId /\ PS!Put(guards[g].page, d)
<1>. DEFINE p == guards[g].page
            f == guards[g].frame
<1>1. Live(g) /\ last'.op = "mutable_page" /\ UNCHANGED <<disk, page_table>>
  BY DEF MutablePage, Returns, fileVars
<1>2. p \in PageId /\ page_table[p] = f /\ f # NoFrame
  BY <1>1 DEF IInv, GuardsKeepTheirPage, Live
<1>3. f \in Frames /\ Holds(f) /\ frames[f].page.id = p /\ Visible[p] \in Data
  BY <1>2, Seen
<1>4. PICK s : frames' = [frames EXCEPT ![f].page = [@ EXCEPT !.data = d, !.sum = s]]
  BY DEF MutablePage
<1>5. frames \in [Frames -> [page : MemPage \cup {NoPage}, pin : Nat, dirty : BOOLEAN]]
  BY DEF IInv, PoolTypeOK
<1>6. frames'[f].page.data = d /\ \A e \in Frames : e # f => frames'[e] = frames[e]
  <2>1. frames[f].page \in MemPage
    BY <1>3, FrameFacts
  <2>2. frames'[f].page = [frames[f].page EXCEPT !.data = d, !.sum = s]
    BY <1>3, <1>4, <1>5
  <2>3. frames'[f].page.data = d
    BY <2>1, <2>2 DEF MemPage
  <2>. QED BY <2>3, <1>4, <1>5
<1>. HIDE DEF p, f
<1>7. ASSUME NEW q \in PageId
      PROVE  (IF page_table'[q] # NoFrame THEN frames'[page_table'[q]].page.data
              ELSE disk'[q]) = IF q = p THEN d ELSE Visible[q]
  <2>1. CASE q = p
    BY <2>1, <1>1, <1>2, <1>6
  <2>2. CASE q # p /\ page_table[q] = NoFrame
    BY <2>2, <1>1, Seen
  <2>3. CASE q # p /\ page_table[q] # NoFrame
    <3>1. /\ page_table[q] \in Frames /\ frames[page_table[q]].page.id = q
          /\ Visible[q] = frames[page_table[q]].page.data
      BY <2>3, Seen
    <3>2. page_table[q] # f
      BY <3>1, <1>3, <2>3
    <3>. QED BY <3>1, <3>2, <2>3, <1>1, <1>6
  <2>. QED BY <2>1, <2>2, <2>3
<1>8. Visible' = [Visible EXCEPT ![p] = d]
  BY <1>7 DEF Visible, Resident
<1>9. Visible[p] \notin {Absent, Corrupt}
  BY <1>3, DiskConstants
<1>. QED BY <1>1, <1>2, <1>8, <1>9 DEF PS!Put, p

\* Unpinning changes no page.
LEMMA UnpinSeen ==
    ASSUME IInv, NEW p, NEW dirty \in BOOLEAN, UnpinPage(p, dirty)
    PROVE  \A f \in Frames : frames'[f].page = frames[f].page
<1>1. frames \in [Frames -> [page : MemPage \cup {NoPage}, pin : Nat, dirty : BOOLEAN]]
  BY DEF IInv, PoolTypeOK
<1>2. CASE UnpinCode(p) # "ok"
  BY <1>2 DEF UnpinPage
<1>3. CASE UnpinCode(p) = "ok"
  <2>. DEFINE e == page_table[p]
              new == [frames[e] EXCEPT !.pin = @ - 1, !.dirty = IF dirty THEN TRUE ELSE @]
  <2>1. frames' = [frames EXCEPT ![e] = new]
    BY <1>3 DEF UnpinPage
  <2>2. e \in Frames => new.page = frames[e].page
    BY <1>1
  <2>. HIDE DEF new
  <2>. QED BY <1>1, <2>1, <2>2
<1>. QED BY <1>2, <1>3

LEMMA GuardMovesSeen ==
    ASSUME IInv, NEW g \in Guards, Release(g) \/ \E to \in Guards : Move(g, to)
    PROVE  PS!Sync
<1>1. \A h \in Guards : guards[h].dirty \in BOOLEAN
  BY DEF IInv, PoolTypeOK
<1>2. CASE Release(g)
  <2>1. UNCHANGED <<disk, page_table>> /\ last'.op \in Calls
    BY <1>2 DEF Release, Returns, fileVars, Calls
  <2>2. UnpinPage(guards[g].page, guards[g].dirty)
    BY <1>2 DEF Release
  <2>. QED BY <1>1, <2>1, <2>2, UnpinSeen, QuietStep
<1>3. ASSUME NEW to \in Guards, Move(g, to) PROVE PS!Sync
  <2>1. UNCHANGED <<disk, page_table>> /\ last'.op \in Calls
    BY <1>3 DEF Move, Returns, fileVars, Calls
  <2>2. UnpinPage(guards[to].page, guards[to].dirty) \/ UNCHANGED frames
    BY <1>3 DEF Move
  <2>3. \A f \in Frames : frames'[f].page = frames[f].page
    BY <1>1, <2>2, UnpinSeen
  <2>. QED BY <2>1, <2>3, QuietStep
<1>. QED BY <1>2, <1>3
-----------------------------------------------------------------------------
(* Flushes, and the life of the pool. *)

LEMMA FlushPageSeen ==
    ASSUME IInv, NEW p \in AnyPageId, FlushPage(p)
    PROVE  PS!Sync
<1>. DEFINE f == page_table[p]
<1>1. /\ p \in PageId /\ f # NoFrame /\ UNCHANGED page_table /\ disk' = DiskWith({f})
      /\ frames' = [frames EXCEPT ![f] = Flushed(f)] /\ last'.op \in Calls
  BY DEF FlushPage, Resident, Returns, Calls
<1>2. f \in Frames /\ Holds(f)
  BY <1>1, Seen
<1>3. frames = [e \in Frames |-> frames[e]]
  BY DEF IInv, PoolTypeOK
<1>4. Flushed(f).page.data = frames[f].page.data
  BY <1>2, FlushedFacts
<1>. HIDE DEF f
<1>5. \A e \in Frames : Holds(e) => frames'[e].page.data = frames[e].page.data
  BY <1>1, <1>3, <1>4
<1>6. ASSUME NEW q \in PageId
      PROVE  /\ disk'[q] \in {disk[q], Visible[q], Corrupt}
             /\ page_table[q] = NoFrame => disk'[q] = disk[q]
  BY <1>1, <1>2, FlushedSeen
<1>. QED BY <1>1, <1>5, <1>6, FlushingStep

LEMMA FlushAllPagesSeen == ASSUME IInv, FlushAllPages PROVE PS!Sync
<1>1. /\ UNCHANGED page_table /\ disk' = DiskWith(Frames)
      /\ frames' = [f \in Frames |-> Flushed(f)] /\ last'.op \in Calls
  BY DEF FlushAllPages, Returns, Calls
<1>2. \A e \in Frames : Holds(e) => frames'[e].page.data = frames[e].page.data
  BY <1>1, FlushedFacts
<1>3. ASSUME NEW q \in PageId
      PROVE  /\ disk'[q] \in {disk[q], Visible[q], Corrupt}
             /\ page_table[q] = NoFrame => disk'[q] = disk[q]
  BY <1>1, FlushedSeen
<1>. QED BY <1>1, <1>2, <1>3, FlushingStep

LEMMA FlushAllPagesFailsSeen ==
    ASSUME IInv, NEW k \in Frames, FlushAllPagesFails(k)
    PROVE  PS!Sync
<1>1. /\ NeedsFlush(k) /\ UNCHANGED page_table /\ disk' \in DiskAfterFailure(k)
      /\ frames' = [f \in Frames |-> IF f < k THEN Flushed(f)
                                     ELSE IF f = k THEN Finalized(f) ELSE frames[f]]
      /\ last'.op \in Calls
  BY DEF FlushAllPagesFails, FlushErrors, Returns, Calls
<1>2. ASSUME NEW e \in Frames, Holds(e) PROVE frames'[e].page.data = frames[e].page.data
  <2>1. Flushed(e).page.data = frames[e].page.data
    BY <1>2, FlushedFacts
  <2>2. Finalized(e).page.data = frames[e].page.data
    BY <1>2, FinalizeFacts
  <2>. QED BY <1>1, <2>1, <2>2
<1>3. ASSUME NEW q \in PageId
      PROVE  /\ disk'[q] \in {disk[q], Visible[q], Corrupt}
             /\ page_table[q] = NoFrame => disk'[q] = disk[q]
  BY <1>1, FailedFlushSeen
<1>. QED BY <1>1, <1>2, <1>3, FlushingStep

\* The pool goes away: readers are left with the file.
LEMMA PoolGoneSeen ==
    ASSUME IInv, PoolGone, last'.op \in {"Close", "Crash"},
           \A p \in PageId : /\ disk'[p] \in {disk[p], Visible[p], Corrupt}
                             /\ page_table[p] = NoFrame => disk'[p] = disk[p],
           disk' \in [PageId -> Data \cup {Corrupt, Absent}]
    PROVE  PS!Restart
<1>1. Visible' = disk'
  <2>1. \A p \in PageId : page_table'[p] = NoFrame
    BY DEF PoolGone
  <2>2. Visible' = [p \in PageId |-> disk'[p]]
    BY <2>1 DEF Visible, Resident
  <2>. QED BY <2>2
<1>2. ASSUME NEW p \in PageId
      PROVE  disk'[p] \in {disk[p]} \cup
                 (IF Visible[p] = Absent THEN {} ELSE {Visible[p], Corrupt})
  <2>1. Visible[p] = Absent => page_table[p] = NoFrame
    BY Seen, DiskConstants
  <2>. QED BY <2>1
<1>. QED BY <1>1, <1>2 DEF PS!Restart, PS!WriteBack, PS!StorePage, PageId

LEMMA LifeSeen ==
    ASSUME IInv, Close \/ Crash \/ \E k \in Frames : CloseLosesPages(k)
    PROVE  PS!Restart
<1>1. CASE Close
  <2>1. PoolGone /\ disk' = DiskWith(Frames) /\ last'.op = "Close"
    BY <1>1 DEF Close, Returns
  <2>2. disk' \in [PageId -> Data \cup {Corrupt, Absent}]
    BY <2>1, DiskWithProperties
  <2>3. ASSUME NEW p \in PageId
        PROVE  /\ disk'[p] \in {disk[p], Visible[p], Corrupt}
               /\ page_table[p] = NoFrame => disk'[p] = disk[p]
    BY <2>1, FlushedSeen
  <2>. QED BY <2>1, <2>2, <2>3, PoolGoneSeen
<1>2. CASE Crash
  <2>1. PoolGone /\ disk' = disk /\ last'.op = "Crash"
    BY <1>2 DEF Crash, Returns, fileVars
  <2>. QED BY <2>1, SizeFacts, PoolGoneSeen
<1>3. ASSUME NEW k \in Frames, CloseLosesPages(k) PROVE PS!Restart
  <2>1. PoolGone /\ NeedsFlush(k) /\ disk' \in DiskAfterFailure(k) /\ last'.op = "Close"
    BY <1>3 DEF CloseLosesPages, FlushErrors, Returns
  <2>2. disk' \in [PageId -> Data \cup {Corrupt, Absent}]
    BY <2>1, DiskAfterFailureProperties
  <2>3. ASSUME NEW p \in PageId
        PROVE  /\ disk'[p] \in {disk[p], Visible[p], Corrupt}
               /\ page_table[p] = NoFrame => disk'[p] = disk[p]
    BY <2>1, FailedFlushSeen
  <2>. QED BY <2>1, <2>2, <2>3, PoolGoneSeen
<1>. QED BY <1>1, <1>2, <1>3

-----------------------------------------------------------------------------
(* The refinement. *)

\* A fresh pool over an empty file is a fresh page store.
LEMMA InitSeen == Init => PS!Init
<1>. SUFFICES ASSUME Init PROVE PS!Init
  OBVIOUS
<1>1. Visible = [p \in PageId |-> Absent] /\ disk = [p \in PageId |-> Absent]
  BY DEF Init, FileInit, Visible, Resident
<1>2. last.op = "Open"
  BY DEF Init
<1>. QED BY <1>1, <1>2 DEF PS!Init, PS!StorePage, PageId

\* Every call is a step of the page store.
LEMMA NextSeen == ASSUME IInv, Next PROVE PS!Next
<1>1. ASSUME \/ \E p \in AnyPageId : FetchRefused(p) \/ FlushPageMissing(p) \/ DeletePageRefused(p)
             \/ NewPageRefused \/ OpenPool \/ OpenPoolFails
      PROVE  PS!Sync
  <2>1. UNCHANGED <<disk, frames, page_table>> /\ last'.op \in Calls
    BY <1>1 DEF FetchRefused, FlushPageMissing, DeletePageRefused, NewPageRefused, OpenPool,
       OpenPoolFails, Returns, Calls, fileVars, poolVars
  <2>. QED BY <2>1, QuietStep
<1>2. ASSUME NEW p \in AnyPageId, FetchEvictFails(p) PROVE PS!Sync
  <2>1. "FetchPage" \in Calls
    BY DEF Calls
  <2>. QED BY <1>2, <2>1, PrepareFailsSeen DEF FetchEvictFails
<1>3. ASSUME NewPageEvictFails PROVE PS!Sync
  <2>1. "NewPage" \in Calls
    BY DEF Calls
  <2>. QED BY <1>3, <2>1, PrepareFailsSeen DEF NewPageEvictFails
<1>4. ASSUME NEW p \in AnyPageId, FlushPageFails(p) PROVE PS!Sync
  <2>1. p \in PageId /\ page_table[p] # NoFrame /\ FlushFails(page_table[p], "FlushPage")
    BY <1>4 DEF FlushPageFails, Resident
  <2>2. page_table[p] \in Frames /\ "FlushPage" \in Calls
    BY <2>1, Seen DEF Calls
  <2>. QED BY <2>1, <2>2, FlushFailsSeen
<1>5. ASSUME NEW p \in AnyPageId, FlushPage(p) PROVE PS!Sync
  BY <1>5, FlushPageSeen
<1>6. ASSUME NEW p \in AnyPageId, DeletePage(p) PROVE \E q \in PS!StorePage : PS!DropLast(q)
  BY <1>6, DeletePageSeen DEF PS!StorePage, PageId
<1>7. ASSUME NEW g \in Guards, NEW p \in PageId, FetchHit(g, p) \/ FetchMiss(g, p) PROVE PS!Sync
  BY <1>7, FetchHitSeen, FetchMissSeen
<1>8. ASSUME NEW g \in Guards, NewPage(g) PROVE \E q \in PS!StorePage : PS!Alloc(q)
  BY <1>8, NewPageSeen DEF PS!StorePage, PageId
<1>9. ASSUME NEW g \in Guards, Release(g) \/ \E to \in Guards : Move(g, to) PROVE PS!Sync
  BY <1>9, GuardMovesSeen
<1>10. ASSUME NEW g \in Guards, NEW d \in Data, MutablePage(g, d)
       PROVE  \E q \in PS!StorePage : PS!Put(q, d)
  BY <1>10, MutablePageSeen DEF PS!StorePage, PageId
<1>11. ASSUME NewPageWriteFails PROVE PS!Sync
  BY <1>11, NewPageWriteFailsSeen
<1>12. ASSUME FlushAllPages \/ \E k \in Frames : FlushAllPagesFails(k) PROVE PS!Sync
  BY <1>12, FlushAllPagesSeen, FlushAllPagesFailsSeen
<1>13. ASSUME Close \/ Crash \/ \E k \in Frames : CloseLosesPages(k) PROVE PS!Restart
  BY <1>13, LifeSeen
<1>. QED BY <1>1, <1>2, <1>3, <1>4, <1>5, <1>6, <1>7, <1>8, <1>9, <1>10, <1>11, <1>12, <1>13
         DEF Next, PS!Next

\* The pool implements the page store, for any number of pages, frames and
\* guards: caching, eviction, flushing and calls that fail are invisible to
\* readers, and only a restart leaves them with what the file holds.
THEOREM PoolIsAPageStore == Spec => ImplementsPageStore
<1>1. IInv /\ [Next]_vars => [PS!Next]_(PS!storeVars)
  <2>1. UNCHANGED vars => UNCHANGED PS!storeVars
    BY DEF vars, poolVars, fileVars, PS!storeVars, Visible, Resident
  <2>. QED BY <2>1, NextSeen
<1>. QED BY <1>1, InitSeen, Invariant, PTL DEF Spec, ImplementsPageStore, PS!Spec
-----------------------------------------------------------------------------
(* What a call's answer tells its caller. *)

\* The calls that can end a flush successfully write every dirty frame.
LEMMA AllFlushedSeen ==
    ASSUME IInv, \A g \in Guards : ~guards[g].dirty
    PROVE  DiskWith(Frames) = Visible
<1>1. ASSUME NEW p \in PageId PROVE DiskWith(Frames)[p] = Visible[p]
  <2>1. CASE page_table[p] = NoFrame
    <3>1. Visible[p] = disk[p]
      BY <2>1, Seen
    <3>2. DiskWith(Frames)[p] = disk[p]
      BY <2>1, FlushedSeen
    <3>. QED BY <3>1, <3>2
  <2>2. CASE page_table[p] # NoFrame
    <3>. DEFINE f == page_table[p]
    <3>1. /\ f \in Frames /\ Holds(f) /\ frames[f].page.id = p
          /\ Visible[p] = frames[f].page.data
      BY <2>2, Seen
    <3>2. DiskWith(Frames)[p] = IF frames[f].dirty THEN frames[f].page.data ELSE disk[p]
      BY <3>1, DiskWithProperties
    <3>3. ~frames[f].dirty => disk[p] = frames[f].page.data
      BY <3>1 DEF IInv, NoLostUpdate
    <3>. QED BY <3>1, <3>2, <3>3
  <2>. QED BY <2>1, <2>2
<1>2. DiskWith(Frames) = [p \in PageId |-> DiskWith(Frames)[p]]
  BY DEF DiskWith
<1>3. Visible = [p \in PageId |-> Visible[p]]
  BY DEF Visible
<1>. QED BY <1>1, <1>2, <1>3

\* A flush answers for its own frames only; no other call answers for it.
LEMMA FlushedStep ==
    ASSUME IInv, Next, last'.op \in {"FlushAllPages", "Close"}, last'.code = "ok"
    PROVE  disk' = DiskWith(Frames)
<1>. USE DEF Returns
<1>1. \A f : "ok" \notin FlushErrors(f)
  BY DEF FlushErrors, WriteErrors, WriteRefusal, CanFail
<1>2. ASSUME NEW f, NEW op, PrepareFails(f, op) \/ FlushFails(f, op)
      PROVE  last'.op = op
  BY <1>2 DEF PrepareFails, FlushFails
<1>3. ASSUME NEW p \in AnyPageId,
             \/ FetchRefused(p) \/ FlushPageMissing(p) \/ DeletePageRefused(p)
             \/ FlushPage(p) \/ DeletePage(p)
      PROVE  FALSE
  BY <1>3 DEF FetchRefused, FlushPageMissing, DeletePageRefused, FlushPage, DeletePage
<1>4. ASSUME NEW p \in AnyPageId, FetchEvictFails(p) \/ FlushPageFails(p) PROVE FALSE
  BY <1>2, <1>4 DEF FetchEvictFails, FlushPageFails
<1>5. ASSUME \/ NewPageRefused \/ NewPageWriteFails \/ Crash \/ OpenPool \/ OpenPoolFails
      PROVE  FALSE
  BY <1>5 DEF NewPageRefused, NewPageWriteFails, Crash, OpenPool, OpenPoolFails
<1>6. ASSUME NewPageEvictFails PROVE FALSE
  BY <1>2, <1>6 DEF NewPageEvictFails
<1>7. ASSUME NEW g \in Guards, NEW p \in PageId, FetchHit(g, p) \/ FetchMiss(g, p) PROVE FALSE
  BY <1>7 DEF FetchHit, FetchMiss
<1>8. ASSUME NEW g \in Guards,
             \/ NewPage(g) \/ Release(g)
             \/ \E d \in Data : MutablePage(g, d)
             \/ \E to \in Guards : Move(g, to)
      PROVE  FALSE
  <2>1. CASE NewPage(g)
    BY <2>1 DEF NewPage
  <2>2. CASE Release(g)
    BY <2>2 DEF Release
  <2>3. ASSUME NEW d \in Data, MutablePage(g, d) PROVE FALSE
    BY <2>3 DEF MutablePage
  <2>4. ASSUME NEW to \in Guards, Move(g, to) PROVE FALSE
    BY <2>4 DEF Move
  <2>. QED BY <1>8, <2>1, <2>2, <2>3, <2>4
<1>9. ASSUME NEW k \in Frames, FlushAllPagesFails(k) \/ CloseLosesPages(k) PROVE FALSE
  BY <1>1, <1>9 DEF FlushAllPagesFails, CloseLosesPages
<1>10. ASSUME FlushAllPages \/ Close PROVE disk' = DiskWith(Frames)
  BY <1>10 DEF FlushAllPages, Close
<1>. QED BY <1>3, <1>4, <1>5, <1>6, <1>7, <1>8, <1>9, <1>10 DEF Next

\* When FlushAllPages or the destructor succeeds and no guard holds an unreleased
\* write, the file is what readers saw, whatever was evicted or failed before.
THEOREM FlushedIsDurable == Spec => FlushedMeansDurable
<1>1. ASSUME IInv, Next
      PROVE  /\ last'.op \in {"FlushAllPages", "Close"} /\ last'.code \in {"ok"}
             /\ \A g \in Guards : ~guards[g].dirty
             => disk' = Visible
  BY <1>1, AllFlushedSeen, FlushedStep
<1>2. IInv /\ [Next]_vars =>
         [/\ last'.op \in {"FlushAllPages", "Close"} /\ last'.code \in {"ok"}
          /\ \A g \in Guards : ~guards[g].dirty
          => disk' = Visible]_vars
  BY <1>1
<1>. QED BY <1>2, Invariant, PTL DEF Spec, FlushedMeansDurable

\* A flush finalizes the page first, so its write is refused only for a partial
\* page at the end of the file.
LEMMA CorruptFlush ==
    ASSUME IInv, NEW f \in Frames, "corruption" \in FlushErrors(f)
    PROVE  tail
<1>1. Holds(f) /\ "corruption" \in WriteErrors(Finalize(frames[f].page))
  BY DEF FlushErrors, NeedsFlush
<1>2. frames[f].page \in MemPage
  BY <1>1, FrameFacts
<1>3. Verifies(Finalize(frames[f].page))
  BY <1>2 DEF Verifies, Finalize, MemPage
<1>. QED BY <1>1, <1>3 DEF WriteErrors, WriteRefusal, CanFail, PageCountOk

LEMMA CorruptionStep ==
    ASSUME IInv, Next, last'.code = "corruption"
    PROVE  tail \/ \E p \in PageId : disk[p] = Corrupt
<1>. USE DEF Returns
<1>. DEFINE Damaged == tail \/ \E p \in PageId : disk[p] = Corrupt
<1>0. \A fault : "corruption" \notin CanFail(fault)
  BY DEF CanFail
<1>1. ASSUME NEW p \in AnyPageId, FetchRefused(p) PROVE Damaged
  <2>1. p # InvalidPageId /\ disk[p] = Corrupt
    BY <1>0, <1>1 DEF FetchRefused, FetchErrors, ReadErrors, ReadRefusal
  <2>2. p \in PageId
    BY <2>1, DiskConstants DEF AnyPageId, InvalidPageId, PageId
  <2>. QED BY <2>1, <2>2
<1>2. ASSUME NEW p \in AnyPageId, DeletePageRefused(p) PROVE Damaged
  BY <1>0, <1>2 DEF DeletePageRefused, DeleteRefusals, DeleteErrors, PageCountOk
<1>3. ASSUME NewPageRefused \/ OpenPoolFails PROVE Damaged
  BY <1>0, <1>3 DEF NewPageRefused, NewPageErrors, OpenPoolFails, PageCountOk
<1>4. ASSUME NewPageWriteFails PROVE Damaged
  BY <1>0, <1>4 DEF NewPageWriteFails, WriteErrors, WriteRefusal, Verifies, NewImage
<1>5. ASSUME NEW f \in Frames, NEW op, FlushFails(f, op) PROVE Damaged
  BY <1>5, CorruptFlush DEF FlushFails
<1>6. ASSUME NEW f \in Frames, NEW op, PrepareFails(f, op) PROVE Damaged
  BY <1>5, <1>6 DEF PrepareFails
<1>7. ASSUME NEW p \in AnyPageId, FetchEvictFails(p) PROVE Damaged
  BY <1>6, <1>7 DEF FetchEvictFails
<1>8. ASSUME NewPageEvictFails PROVE Damaged
  BY <1>6, <1>8 DEF NewPageEvictFails
<1>9. ASSUME NEW p \in AnyPageId, FlushPageFails(p) PROVE Damaged
  <2>1. page_table[p] \in Frames
    BY <1>9, Seen DEF FlushPageFails, Resident
  <2>. QED BY <1>5, <1>9, <2>1 DEF FlushPageFails
<1>10. ASSUME NEW k \in Frames, FlushAllPagesFails(k) \/ CloseLosesPages(k) PROVE Damaged
  BY <1>10, CorruptFlush DEF FlushAllPagesFails, CloseLosesPages
<1>11. ASSUME NEW p \in AnyPageId, FlushPageMissing(p) \/ FlushPage(p) \/ DeletePage(p)
       PROVE  Damaged
  BY <1>11 DEF FlushPageMissing, FlushPage, DeletePage
<1>12. ASSUME FlushAllPages \/ Close \/ Crash \/ OpenPool PROVE Damaged
  BY <1>0, <1>12 DEF FlushAllPages, Close, Crash, OpenPool
<1>13. ASSUME NEW g \in Guards, NEW p \in PageId, FetchHit(g, p) \/ FetchMiss(g, p) PROVE Damaged
  BY <1>13 DEF FetchHit, FetchMiss
<1>14. ASSUME NEW g \in Guards,
              \/ NewPage(g) \/ Release(g)
              \/ \E d \in Data : MutablePage(g, d)
              \/ \E to \in Guards : Move(g, to)
       PROVE  Damaged
  <2>0. \A p : UnpinCode(p) # "corruption"
    BY DEF UnpinCode
  <2>1. CASE NewPage(g)
    BY <2>1 DEF NewPage
  <2>2. CASE Release(g)
    BY <2>0, <2>2 DEF Release
  <2>3. ASSUME NEW d \in Data, MutablePage(g, d) PROVE FALSE
    BY <2>3 DEF MutablePage
  <2>4. ASSUME NEW to \in Guards, Move(g, to) PROVE FALSE
    BY <2>0, <2>4 DEF Move
  <2>. QED BY <1>14, <2>1, <2>2, <2>3, <2>4
<1>. QED BY <1>1, <1>2, <1>3, <1>4, <1>7, <1>8, <1>9, <1>10, <1>11, <1>12, <1>13, <1>14 DEF Next

\* Corruption is reported only of a damaged file: the stale checksums in memory
\* never reach a check.
THEOREM CorruptionAlwaysReal == Spec => CorruptionNeedsDamage
<1>1. IInv /\ [Next]_vars =>
         [last'.code = "corruption" => tail \/ \E p \in PageId : disk[p] = Corrupt]_vars
  BY CorruptionStep
<1>. QED BY <1>1, Invariant, PTL DEF Spec, CorruptionNeedsDamage

\* No frame is available only when every frame has a guard.
LEMMA NoFrameNeedsGuards ==
    ASSUME IInv, NoFrameAvailable
    PROVE  \A f \in Frames : \E g \in Guards : guards[g].frame = f
<1>1. ASSUME NEW f \in Frames PROVE \E g \in Guards : guards[g].frame = f
  <2>1. Holds(f) /\ f \notin ToSet(lru)
    <3>1. lru = << >> /\ ToSet(lru) = {}
      BY EmptySeq DEF NoFrameAvailable, ToSet
    <3>. QED BY <3>1 DEF NoFrameAvailable
  <2>2. frames[f].pin # 0
    BY <2>1 DEF IInv, ReplacerExact
  <2>. QED BY <2>2, UnpinnedFacts
<1>. QED BY <1>1

LEMMA ExhaustedStep ==
    ASSUME IInv, Next, last'.code = "resource_exhausted"
    PROVE  \/ \A f \in Frames : \E g \in Guards : guards[g].frame = f
           \/ last'.op = "NewPage" /\ size = MaxPages
           \/ last'.op = "DeletePage" /\ \E g \in Guards : Live(g)
<1>. USE DEF Returns
<1>. DEFINE Held == \/ \A f \in Frames : \E g \in Guards : guards[g].frame = f
                    \/ last'.op = "NewPage" /\ size = MaxPages
                    \/ last'.op = "DeletePage" /\ \E g \in Guards : Live(g)
<1>0. \A fault : "resource_exhausted" \notin CanFail(fault)
  BY DEF CanFail
<1>1. \A page : "resource_exhausted" \notin WriteErrors(page)
  BY <1>0 DEF WriteErrors, WriteRefusal
<1>2. \A f : "resource_exhausted" \notin FlushErrors(f)
  BY <1>1 DEF FlushErrors
<1>3. ASSUME NEW p \in AnyPageId, FetchRefused(p) PROVE Held
  <2>1. NoFrameAvailable
    BY <1>0, <1>3 DEF FetchRefused, FetchErrors, ReadErrors, ReadRefusal
  <2>. QED BY <2>1, NoFrameNeedsGuards
<1>4. ASSUME NEW p \in AnyPageId, DeletePageRefused(p) PROVE Held
  <2>1. InUse(p) /\ last'.op = "DeletePage"
    BY <1>0, <1>4 DEF DeletePageRefused, DeleteRefusals, DeleteErrors
  <2>2. page_table[p] \in Frames /\ frames[page_table[p]].pin # 0
    BY <2>1, Seen DEF InUse, Resident
  <2>3. PICK g \in Guards : guards[g].frame = page_table[p]
    BY <2>2, UnpinnedFacts
  <2>4. Live(g)
    BY <2>2, <2>3, FrameFacts DEF Live
  <2>. QED BY <2>1, <2>4
<1>5. ASSUME NewPageRefused PROVE Held
  <2>1. (size = InvalidPageId \/ NoFrameAvailable) /\ last'.op = "NewPage"
    BY <1>0, <1>5 DEF NewPageRefused, NewPageErrors
  <2>. QED BY <2>1, NoFrameNeedsGuards DEF InvalidPageId
<1>6. ASSUME OpenPoolFails \/ NewPageWriteFails PROVE Held
  BY <1>0, <1>1, <1>6 DEF OpenPoolFails, NewPageWriteFails
<1>7. ASSUME NEW f, NEW op, PrepareFails(f, op) \/ FlushFails(f, op) PROVE Held
  BY <1>2, <1>7 DEF PrepareFails, FlushFails
<1>8. ASSUME NEW p \in AnyPageId, FetchEvictFails(p) \/ FlushPageFails(p) PROVE Held
  BY <1>7, <1>8 DEF FetchEvictFails, FlushPageFails
<1>9. ASSUME NewPageEvictFails PROVE Held
  BY <1>7, <1>9 DEF NewPageEvictFails
<1>10. ASSUME NEW k \in Frames, FlushAllPagesFails(k) \/ CloseLosesPages(k) PROVE Held
  BY <1>2, <1>10 DEF FlushAllPagesFails, CloseLosesPages
<1>11. ASSUME NEW p \in AnyPageId, FlushPageMissing(p) \/ FlushPage(p) \/ DeletePage(p)
       PROVE  Held
  BY <1>11 DEF FlushPageMissing, FlushPage, DeletePage
<1>12. ASSUME FlushAllPages \/ Close \/ Crash \/ OpenPool PROVE Held
  BY <1>0, <1>12 DEF FlushAllPages, Close, Crash, OpenPool
<1>13. ASSUME NEW g \in Guards, NEW p \in PageId, FetchHit(g, p) \/ FetchMiss(g, p) PROVE Held
  BY <1>13 DEF FetchHit, FetchMiss
<1>14. ASSUME NEW g \in Guards,
              \/ NewPage(g) \/ Release(g)
              \/ \E d \in Data : MutablePage(g, d)
              \/ \E to \in Guards : Move(g, to)
       PROVE  Held
  <2>0. \A p : UnpinCode(p) # "resource_exhausted"
    BY DEF UnpinCode
  <2>1. CASE NewPage(g)
    BY <2>1 DEF NewPage
  <2>2. CASE Release(g)
    BY <2>0, <2>2 DEF Release
  <2>3. ASSUME NEW d \in Data, MutablePage(g, d) PROVE FALSE
    BY <2>3 DEF MutablePage
  <2>4. ASSUME NEW to \in Guards, Move(g, to) PROVE FALSE
    BY <2>0, <2>4 DEF Move
  <2>. QED BY <1>14, <2>1, <2>2, <2>3, <2>4
<1>. QED BY <1>3, <1>4, <1>5, <1>6, <1>8, <1>9, <1>10, <1>11, <1>12, <1>13, <1>14 DEF Next

\* A call is refused for want of a frame only while guards hold every frame:
\* failed calls leak none.
THEOREM ExhaustionAlwaysReal == Spec => ExhaustedNeedsPins
<1>1. IInv /\ [Next]_vars =>
         [last'.code = "resource_exhausted" =>
            \/ \A f \in Frames : \E g \in Guards : guards[g].frame = f
            \/ last'.op = "NewPage" /\ size = MaxPages
            \/ last'.op = "DeletePage" /\ \E g \in Guards : Live(g)]_vars
  BY ExhaustedStep
<1>. QED BY <1>1, Invariant, PTL DEF Spec, ExhaustedNeedsPins
=============================================================================
