----------------------------- MODULE MCBPlusTree -----------------------------
(* Small instances of BPlusTree for TLC. *)
EXTENDS BPlusTree

\* No step reads `last`: without the properties that do, states that differ in it
\* are the same.
WithoutLast == <<nodes, root, task, faults, acked>>
=============================================================================
