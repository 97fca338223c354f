----------------------------- MODULE UniqueIndex -----------------------------
(***************************************************************************)
(* What a unique index promises: a map from keys to record ids, to which   *)
(* an insert adds one key that was absent.  The key takes effect at one    *)
(* moment between the call and its reply; until the reply it is pending.   *)
(***************************************************************************)
EXTENDS Integers

CONSTANTS Keys, Rids

VARIABLES
    map,        \* the indexed keys and their record ids
    pending,    \* the entry, if any, of a call that took effect and has not returned
    last        \* the last reply: its key, record id and code

indexVars == <<map, pending, last>>

Init ==
    /\ map = [k \in {} |-> 0]
    /\ pending = {}
    /\ last = [code |-> "none"]

Added(k, r) == [j \in DOMAIN map \cup {k} |-> IF j = k THEN r ELSE map[j]]

\* The key takes effect, before its call returns or as it does.
Add(k, r) ==
    /\ k \notin DOMAIN map /\ pending = {}
    /\ map' = Added(k, r)
    /\ \/ pending' = {<<k, r>>} /\ UNCHANGED last
       \/ UNCHANGED pending /\ last' = [key |-> k, rid |-> r, code |-> "ok"]

ReplyOk(k, r) ==
    /\ pending = {<<k, r>>} /\ pending' = {}
    /\ last' = [key |-> k, rid |-> r, code |-> "ok"]
    /\ UNCHANGED map

\* A refused call has no effect; it is refused as a duplicate just when it is one.
Refuse(k, r, code) ==
    /\ pending = {}
    /\ code = "already_exists" <=> k \in DOMAIN map
    /\ last' = [key |-> k, rid |-> r, code |-> code]
    /\ UNCHANGED <<map, pending>>

Next ==
    \E k \in Keys, r \in Rids :
        \/ Add(k, r)
        \/ ReplyOk(k, r)
        \/ \E code \in {"already_exists", "resource_exhausted"} : Refuse(k, r, code)

Spec == Init /\ [][Next]_indexVars
=============================================================================
