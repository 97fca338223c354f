----------------------------- MODULE MCDatabase -----------------------------
(* Small instances of Database for TLC. *)
EXTENDS Database, TLC

AnyNames == Permutations(TableNames) \cup Permutations(IndexNames) \cup Permutations(Keys)
=============================================================================
