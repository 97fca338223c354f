------------------------------ MODULE BPlusTree ------------------------------
(***************************************************************************)
(* BPlusTree (src/storage/bplus_tree.cpp): a unique index in the pages of  *)
(* one file.  An insert that splits is a sequence of page accesses, each   *)
(* of which can fail and end the call with what was written so far in      *)
(* place.  Here each write is a step; `task` holds the local variables of  *)
(* the call in progress, of Insert and of InsertIntoParent.                *)
(*                                                                         *)
(* Page p of the file is nodes[p], counted from 1; None is an invalid id.  *)
(***************************************************************************)
EXTENDS Integers, Sequences, FiniteSets, SequencesExt

CONSTANTS
    Keys,         \* indexed values
    Rids,         \* record ids
    MaxLeaf,      \* kBPlusTreeMaxLeafEntries
    MaxInternal,  \* kBPlusTreeMaxInternalKeys
    MaxPages,     \* pages the file can grow to
    MaxFaults     \* times a page may fail to be read, written or added

None == 0

ASSUME TreeConstants ==
    /\ Keys \subseteq Int /\ Keys # {}
    /\ MaxLeaf \in Nat \ {0} /\ MaxInternal \in Nat \ {0} /\ MaxPages \in Nat \ {0}
    /\ MaxFaults \in Nat

VARIABLES
    nodes,      \* the pages of the index file, as the pool shows them
    root,       \* root_page_id_
    task,       \* the call in progress
    faults,     \* page accesses that failed so far
    acked,      \* history: the entries whose insert returned ok
    last        \* the last call that returned: its key, record id and code

vars == <<nodes, root, task, faults, acked, last>>

PageIds == 0 .. MaxPages
Codes == {"ok", "already_exists", "resource_exhausted", "corruption", "io"}
Phases == {"idle", "write", "adopt", "grow"}

\* Entries of a leaf are a function from its keys to their record ids.
Leaf(parent, next, entries) ==
    [kind |-> "leaf", parent |-> parent, next |-> next, entries |-> entries]
Internal(parent, keys, children) ==
    [kind |-> "internal", parent |-> parent, keys |-> keys, children |-> children]

\* A page NewPage added whose node was then refused by EncodeNode.
BlankNode == [kind |-> "blank"]

Entries == UNION {[K -> Rids] : K \in SUBSET Keys}
Node ==
    [kind : {"leaf"}, parent : PageIds, next : PageIds, entries : Entries]
    \cup [kind : {"internal"}, parent : PageIds, keys : Seq(Keys), children : Seq(PageIds)]
    \cup {BlankNode}

Idle == [phase |-> "idle"]
Task ==
    {Idle} \cup
    [phase : Phases \ {"idle"},
     key : Keys, rid : Rids,     \* arguments of Insert
     page : PageIds,             \* the node that splits; in "grow", the new root
     node : Node,                \* what is left of it
     right : PageIds,            \* the node split off
     sep : Keys,                 \* the key that separates them
     up : PageIds,               \* their parent
     kids : Seq(PageIds)]        \* nodes that still have to learn their parent

TypeOK ==
    /\ nodes \in Seq(Node) /\ Len(nodes) <= MaxPages
    /\ root \in PageIds
    /\ task \in Task
    /\ faults \in 0 .. MaxFaults
    /\ acked \subseteq Keys \X Rids
    /\ last \in {[code |-> "none"]} \cup [key : Keys, rid : Rids, code : Codes]

\* BPlusTree::Create.
Init ==
    /\ nodes = << Leaf(None, None, << >>) >>
    /\ root = 1
    /\ task = Idle
    /\ faults = 0
    /\ acked = {}
    /\ last = [code |-> "none"]

-----------------------------------------------------------------------------
(* Nodes. *)

Sorted(s) == \A i \in 1 .. Len(s) - 1 : s[i] < s[i + 1]

\* ValidateNode, asked before a node is written and after it is read.
Valid(node) ==
    CASE node.kind = "leaf" -> Cardinality(DOMAIN node.entries) <= MaxLeaf
      [] node.kind = "internal" ->
            /\ Len(node.keys) <= MaxInternal
            /\ Len(node.children) = Len(node.keys) + 1
            /\ Sorted(node.keys)
            /\ \A i \in DOMAIN node.children : node.children[i] # None
      [] OTHER -> FALSE

\* A definition whose name says what is wrong with it is a faulty variant of the
\* one after it.

\* std::upper_bound over the separators.
Child(node, key) == node.children[Cardinality({i \in DOMAIN node.keys : node.keys[i] <= key}) + 1]

\* The descent from the root, given the page below each page; it cannot take more
\* steps than there are pages.
Descend(below) ==
    LET at[n \in 0 .. Len(nodes)] == IF n = 0 THEN root ELSE below[at[n - 1]]
    IN  at[Len(nodes)]

LeafFor(key) ==
    Descend([p \in DOMAIN nodes |->
               IF nodes[p].kind = "internal" THEN Child(nodes[p], key) ELSE p])

WithEntry(entries, key, rid) ==
    [k \in DOMAIN entries \cup {key} |-> IF k = key THEN rid ELSE entries[k]]

\* The n smallest members of a set of keys.
Smallest(n, K) == {k \in K : Cardinality({j \in K : j < k}) < n}
OnKeys(entries, K) == [k \in K |-> entries[k]]

-----------------------------------------------------------------------------
(* The steps of an insert. *)

Ends(key, rid, code) ==
    /\ task' = Idle
    /\ last' = [key |-> key, rid |-> rid, code |-> code]
    /\ acked' = IF code = "ok" THEN acked \cup {<<key, rid>>} ELSE acked
    /\ faults' = IF code = "io" THEN faults + 1 ELSE faults

CanFail == IF faults < MaxFaults THEN {"io"} ELSE {}

\* BufferPoolManager::NewPage has a page id left.
NewPageFits == Len(nodes) < MaxPages

\* Insert ends without writing anything.
InsertRefusals(key) ==
    LET node == nodes[LeafFor(key)]
    IN  CanFail
        \cup (IF key \in DOMAIN node.entries THEN {"already_exists"}
              ELSE IF Cardinality(DOMAIN node.entries) = MaxLeaf /\ ~NewPageFits
              THEN {"resource_exhausted"} ELSE {})

InsertRefused(key, rid) ==
    /\ task = Idle
    /\ \E code \in InsertRefusals(key) : Ends(key, rid, code)
    /\ UNCHANGED <<nodes, root>>

InsertOverExisting(key, rid) ==
    LET p == LeafFor(key)
        new == WithEntry(nodes[p].entries, key, rid)
    IN  /\ task = Idle
        /\ Cardinality(DOMAIN new) <= MaxLeaf
        /\ nodes' = [nodes EXCEPT ![p] = Leaf(nodes[p].parent, nodes[p].next, new)]
        /\ Ends(key, rid, "ok")
        /\ UNCHANGED root

InsertIntoLeaf(key, rid) ==
    LET p == LeafFor(key)
        new == WithEntry(nodes[p].entries, key, rid)
    IN  /\ task = Idle
        /\ key \notin DOMAIN nodes[p].entries
        /\ Cardinality(DOMAIN new) <= MaxLeaf
        /\ nodes' = [nodes EXCEPT ![p] = Leaf(nodes[p].parent, nodes[p].next, new)]
        /\ Ends(key, rid, "ok")
        /\ UNCHANGED root

\* The halves of a leaf that overflowed: the right one takes over its link, and
\* its first key separates them.
LeftHalf(entries) == Smallest(Cardinality(DOMAIN entries) \div 2, DOMAIN entries)

RightLeafUnlinked(node, entries) == Leaf(node.parent, None, entries)

RightLeaf(node, entries) == Leaf(node.parent, node.next, entries)

SeparatorFromLeft(low, high) == CHOOSE k \in low : \A j \in low : j <= k

Separator(low, high) == CHOOSE k \in high : \A j \in high : k <= j

\* CreateNode for the right half.
SplitLeaf(key, rid) ==
    LET p == LeafFor(key)
        node == nodes[p]
        new == WithEntry(node.entries, key, rid)
        low == LeftHalf(new)
        high == DOMAIN new \ low
        right == Len(nodes) + 1
    IN  /\ task = Idle
        /\ key \notin DOMAIN node.entries
        /\ Cardinality(DOMAIN new) > MaxLeaf
        /\ NewPageFits
        /\ nodes' = Append(nodes, RightLeaf(node, OnKeys(new, high)))
        /\ task' = [phase |-> "write", key |-> key, rid |-> rid,
                    page |-> p, node |-> Leaf(node.parent, right, OnKeys(new, low)),
                    right |-> right, sep |-> Separator(low, high),
                    up |-> node.parent, kids |-> << >>]
        /\ UNCHANGED <<root, faults, acked, last>>

\* WriteNode for the left half of a leaf or of an internal node.
WriteLeft ==
    /\ task.phase = "write" /\ Valid(task.node)
    /\ nodes' = [nodes EXCEPT ![task.page] = task.node]
    /\ task' = [task EXCEPT !.phase = "adopt"]
    /\ UNCHANGED <<root, faults, acked, last>>

AdoptWithoutWrite ==
    /\ task.phase = "adopt" /\ task.kids # << >>
    /\ task' = [task EXCEPT !.kids = Tail(@)]
    /\ UNCHANGED <<nodes, root, faults, acked, last>>

AdoptAgain ==
    /\ task.phase = "adopt" /\ task.kids # << >>
    /\ nodes' = [nodes EXCEPT ![Head(task.kids)].parent = task.right]
    /\ UNCHANGED <<root, task, faults, acked, last>>

\* SetParent for the next child of the right half.
Adopt ==
    /\ task.phase = "adopt" /\ task.kids # << >>
    /\ nodes' = [nodes EXCEPT ![Head(task.kids)].parent = task.right]
    /\ task' = [task EXCEPT !.kids = Tail(@)]
    /\ UNCHANGED <<root, faults, acked, last>>

(* InsertIntoParent, once the children know their parent. *)
Raising == task.phase = "adopt" /\ task.kids = << >>

GrowRootOverItself ==
    /\ Raising /\ task.up = None /\ NewPageFits
    /\ nodes' = Append(nodes, Internal(None, << task.sep >>, << Len(nodes) + 1, task.right >>))
    /\ task' = [task EXCEPT !.phase = "grow", !.page = Len(nodes) + 1,
                            !.kids = << task.page, task.right >>]
    /\ UNCHANGED <<root, faults, acked, last>>

\* The node that split was the root: CreateNode for the new one.
GrowRoot ==
    /\ Raising /\ task.up = None /\ NewPageFits
    /\ nodes' = Append(nodes, Internal(None, << task.sep >>, << task.page, task.right >>))
    /\ task' = [task EXCEPT !.phase = "grow", !.page = Len(nodes) + 1,
                            !.kids = << task.page, task.right >>]
    /\ UNCHANGED <<root, faults, acked, last>>

\* SetParent for the two halves of the old root; after both, the tree has its
\* new root.
LearnRoot ==
    /\ task.phase = "grow"
    /\ nodes' = [nodes EXCEPT ![Head(task.kids)].parent = task.page]
    /\ IF Len(task.kids) = 1
       THEN root' = task.page /\ Ends(task.key, task.rid, "ok")
       ELSE task' = [task EXCEPT !.kids = Tail(@)] /\ UNCHANGED <<root, faults, acked, last>>

\* The parent, with the separator and the right node after its left one.
References(parent) == \E i \in DOMAIN parent.children : parent.children[i] = task.page
PlaceOf(parent) ==
    CHOOSE i \in DOMAIN parent.children :
        /\ parent.children[i] = task.page
        /\ \A h \in 1 .. i - 1 : parent.children[h] # task.page

WidenedToTheLeft(parent) ==
    LET i == PlaceOf(parent)
    IN  Internal(parent.parent, InsertAt(parent.keys, i, task.sep),
                 InsertAt(parent.children, i, task.right))

Widened(parent) ==
    LET i == PlaceOf(parent)
    IN  Internal(parent.parent, InsertAt(parent.keys, i, task.sep),
                 InsertAt(parent.children, i + 1, task.right))

CanRaise ==
    /\ Raising /\ task.up # None
    /\ nodes[task.up].kind = "internal" /\ References(nodes[task.up])

RaiseIntoParent ==
    LET new == Widened(nodes[task.up])
    IN  /\ CanRaise /\ Len(new.keys) <= MaxInternal /\ Valid(new)
        /\ nodes' = [nodes EXCEPT ![task.up] = new]
        /\ Ends(task.key, task.rid, "ok")
        /\ UNCHANGED root

\* CreateNode for the right half of a parent that overflowed; its middle key goes
\* up.  A half EncodeNode refuses leaves a blank page.
SplitParent ==
    LET new == Widened(nodes[task.up])
        n == Len(new.keys)
        mid == n \div 2 + 1
        kids == SubSeq(new.children, mid + 1, n + 1)
        rightNode == Internal(new.parent, SubSeq(new.keys, mid + 1, n), kids)
        right == Len(nodes) + 1
    IN  /\ CanRaise /\ n > MaxInternal /\ NewPageFits
        /\ UNCHANGED root
        /\ IF Valid(rightNode)
           THEN /\ nodes' = Append(nodes, rightNode)
                /\ task' = [task EXCEPT !.phase = "write", !.page = task.up,
                       !.node = Internal(new.parent, SubSeq(new.keys, 1, mid - 1),
                                         SubSeq(new.children, 1, mid)),
                       !.right = right, !.sep = new.keys[mid], !.up = new.parent,
                       !.kids = kids]
                /\ UNCHANGED <<faults, acked, last>>
           ELSE nodes' = Append(nodes, BlankNode) /\ Ends(task.key, task.rid, "corruption")

\* The call gives up: a page access fails, a node does not validate, the parent
\* does not know the node that split, or the file is full.
Refusals ==
    CanFail
    \cup (IF \/ task.phase = "write" /\ ~Valid(task.node)
             \/ Raising /\ task.up # None /\ ~CanRaise
             \/ /\ CanRaise
                /\ LET new == Widened(nodes[task.up])
                   IN  Len(new.keys) <= MaxInternal /\ ~Valid(new)
          THEN {"corruption"} ELSE {})
    \cup (IF /\ Raising /\ ~NewPageFits
             /\ task.up = None \/ (CanRaise /\ Len(Widened(nodes[task.up]).keys) > MaxInternal)
          THEN {"resource_exhausted"} ELSE {})

GiveUp ==
    /\ task # Idle
    /\ \E code \in Refusals : Ends(task.key, task.rid, code)
    /\ UNCHANGED <<nodes, root>>

\* The next step of the call in progress.
Continue ==
    \/ WriteLeft \/ Adopt \/ GrowRoot \/ LearnRoot
    \/ RaiseIntoParent \/ SplitParent \/ GiveUp

Next ==
    \/ \E key \in Keys, rid \in Rids :
          InsertRefused(key, rid) \/ InsertIntoLeaf(key, rid) \/ SplitLeaf(key, rid)
    \/ Continue

Spec == Init /\ [][Next]_vars

\* A call runs on: nothing else in the process runs while it does.
FairSpec == Spec /\ WF_vars(Continue)
-----------------------------------------------------------------------------
(* Reading the tree. *)

\* Search returns this record id for the key.
SearchFinds(key, rid) ==
    LET node == nodes[LeafFor(key)]
    IN  key \in DOMAIN node.entries /\ node.entries[key] = rid

\* The pages ScanAll visits, in order: the leftmost leaf and then the links.
ScanOrder ==
    LET first == Descend([p \in DOMAIN nodes |->
                            IF nodes[p].kind = "internal" THEN Head(nodes[p].children) ELSE p])
        link == [p \in 0 .. Len(nodes) |->
                   IF p = None \/ nodes[p].kind # "leaf" THEN None ELSE nodes[p].next]
        at[n \in 1 .. Len(nodes) + 1] == IF n = 1 THEN first ELSE link[at[n - 1]]
    IN  at

\* ScanAll comes to the end of the links, over leaves only.
ScanEnds ==
    LET at == ScanOrder
    IN  /\ at[Len(nodes) + 1] = None
        /\ \A n \in DOMAIN at : at[n] # None => nodes[at[n]].kind = "leaf"

\* What ScanAll yields: the place of the page in the scan, key and record id.
Scan ==
    LET at == ScanOrder
        on(n) == IF at[n] = None THEN << >> ELSE nodes[at[n]].entries
    IN  UNION {{<<n, key, on(n)[key]>> : key \in DOMAIN on(n)} : n \in DOMAIN at}
Scanned == {<<e[2], e[3]>> : e \in Scan}

-----------------------------------------------------------------------------
(* Properties of an index whose page accesses succeed. *)

\* A node split off and not yet linked is the only page outside the tree, the
\* tree has one depth, every node but the root is at least half full, and the
\* parent each node names is the one that references it, once.
WellFormed ==
    task = Idle =>
        /\ nodes[root].parent = None
        /\ \A p \in DOMAIN nodes \ {root} :
              /\ nodes[p].parent # None
              /\ LET kids == nodes[nodes[p].parent].children
                 IN  Cardinality({i \in DOMAIN kids : kids[i] = p}) = 1
              /\ IF nodes[p].kind = "leaf"
                 THEN 2 * Cardinality(DOMAIN nodes[p].entries) >= MaxLeaf
                 ELSE 2 * Len(nodes[p].keys) >= MaxInternal - 1
        /\ \A p \in DOMAIN nodes : nodes[p].kind = "internal" =>
              /\ Valid(nodes[p])
              /\ \A i \in DOMAIN nodes[p].children :
                    LET kid == nodes[nodes[p].children[i]]
                    IN  kid.parent = p /\ kid.kind = nodes[nodes[p].children[1]].kind

\* A scan follows the leaf links to an end and yields the keys in ascending order.
ScanAscends ==
    /\ ScanEnds
    /\ \A d, e \in Scan : d[1] < e[1] => d[2] < e[2]

\* "ScanAll follows the leftmost leaf and then those links, so it also verifies
\* the ordered leaf chain" (docs/BPLUS_TREE_PHASE4.md), in the middle of a split
\* too; and between calls the descent from the root and the leaf links, which a
\* split changes in different steps, see the same index.
SearchMatchesScan ==
    /\ ScanAscends
    /\ task = Idle => Scanned = {e \in Keys \X Rids : SearchFinds(e[1], e[2])}

\* The tree is a unique index: a key takes effect when the leaf that holds it, or
\* the left half of the one that split, is written.
Index == INSTANCE UniqueIndex WITH
    map <- LET scanned == Scanned
           IN  [key \in {e[1] : e \in scanned} |-> (CHOOSE e \in scanned : e[1] = key)[2]],
    pending <- IF task = Idle THEN {} ELSE {e \in Scanned : e[1] = task.key}
ImplementsUniqueIndex == Index!Spec

\* A call returns: the walk to the root and the adoption of children end.
InsertReturns == task # Idle ~> task = Idle

-----------------------------------------------------------------------------
(* Properties that hold however page accesses fail. *)

\* Wherever inserts were broken off, ScanAll ends and still yields every entry
\* whose insert returned ok.
ScanKeepsAcked == ScanEnds /\ acked \subseteq Scanned

\* An entry a scan has shown is never lost, acknowledged or not.
ScanOnlyGrows == [][Scanned \subseteq Scanned']_vars

\* The nodes name only pages there are, and every descent along them ends at a
\* leaf, so that Search and Insert come to an answer.
DescentEnds == TypeOK /\ \A key \in Keys : nodes[LeafFor(key)].kind = "leaf"

=============================================================================
