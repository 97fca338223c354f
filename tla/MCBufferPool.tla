---------------------------- MODULE MCBufferPool ----------------------------
(* Small instances of BufferPool for TLC. *)
EXTENDS BufferPool

CONSTANTS g1, g2, d1

\* The two guards are interchangeable: no definition names one of them.
GuardSymmetry == Permutations(Guards)

\* `last` only reports on the step that set it and no action reads it, so two
\* states that differ in it alone are explored once.  The properties that read
\* it are action properties, which TLC evaluates on every step it generates.
StateView == <<fileVars, poolVars>>
=============================================================================
