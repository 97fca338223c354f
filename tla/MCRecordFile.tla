---------------------------- MODULE MCRecordFile ----------------------------
(* Small instances of RecordFile for TLC. *)
EXTENDS RecordFile, TLC

CONSTANTS short, long, wide, huge

\* A page has 20 bytes for records and entries of 4: `short` takes 8 of them
\* with its entry, `long` 12, `wide` is larger than a page and `huge` larger
\* than an offset can say.
MCSize == [r \in Records |-> (short :> 4 @@ long :> 8 @@ wide :> 20 @@ huge :> 40)[r]]
\* `last` reports on the step that set it and no action reads it.
StateView == <<pages, stored, ragged, acked>>
=============================================================================
