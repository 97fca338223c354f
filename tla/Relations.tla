------------------------------ MODULE Relations ------------------------------
(***************************************************************************)
(* What the statements of the database promise: relations that grow by one *)
(* row at a time, some of whose columns are unique.                        *)
(***************************************************************************)
EXTENDS Sequences, Functions

CONSTANTS TableNames, Columns, Rows

VARIABLES
    rel,        \* the rows of each table in the order of their insertion
    uniq        \* the unique columns, as pairs of a table and a column

relVars == <<rel, uniq>>

Init == rel = [n \in {} |-> << >>] /\ uniq = {}

IsUnique(rows, c) == \A i, j \in DOMAIN rows : rows[i][c] = rows[j][c] => i = j

CreateTable(n) ==
    /\ n \notin DOMAIN rel
    /\ rel' = [m \in DOMAIN rel \cup {n} |-> IF m = n THEN << >> ELSE rel[m]]
    /\ UNCHANGED uniq

CreateIndex(n, c) ==
    /\ n \in DOMAIN rel /\ <<n, c>> \notin uniq
    /\ IsUnique(rel[n], c)
    /\ uniq' = uniq \cup {<<n, c>>}
    /\ UNCHANGED rel

Insert(n, row) ==
    /\ n \in DOMAIN rel
    /\ \A c \in Columns : <<n, c>> \in uniq => IsUnique(Append(rel[n], row), c)
    /\ rel' = [rel EXCEPT ![n] = Append(@, row)]
    /\ UNCHANGED uniq

Next ==
    \E n \in TableNames :
        \/ CreateTable(n)
        \/ \E c \in Columns : CreateIndex(n, c)
        \/ \E row \in Rows : Insert(n, row)

Spec == Init /\ [][Next]_relVars
=============================================================================
