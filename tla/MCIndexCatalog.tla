--------------------------- MODULE MCIndexCatalog ---------------------------
(* Small instances of IndexCatalog for TLC. *)
EXTENDS IndexCatalog

CONSTANTS plain, longer

MCRecords == [id : IndexIds, root : Roots]

\* The name of `longer` makes its record as long as half a page's room and one
\* byte more, so that a `plain` version fits where a `longer` one did not.
MCSize == [r \in Records |-> IF r.id = plain THEN 4 ELSE 8]

\* `last` reports on the step that set it and no action reads it.
StateView == <<pages, stored, ragged, acked, unusable>>
=============================================================================
