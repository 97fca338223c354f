-------------------------------- MODULE MCSession ------------------------------
(* Bytes 0 and 1 are the letters a and b, 2 and 3 their capitals. *)
EXTENDS Session

Letters == [byte \in Bytes |-> byte % 2]
Names == {<<0>>, <<1>>, <<2>>, <<1, 1>>}
Literals ==
    {[type |-> "INT", value |-> n] : n \in {-8, 7}}
    \cup {[type |-> "TEXT", value |-> text] : text \in {<<>>, <<3, 2, 1>>, <<0, 0, 0, 0>>}}
ColumnLists == {<<<<0>>>>, <<<<1>>, <<2>>>>}
===============================================================================
