------------------------------- MODULE MCFrontend ------------------------------
(* An alphabet for the front end: every keyword is one capital letter, and
   lower-cased as the others are. *)
EXTENDS Frontend

MCLowerCase ==
    LET letters == <<"c", "t", "i", "o", "s", "n", "v", "q", "f", "w", "d", "g", "x">>
        capitals == <<"C", "T", "I", "O", "S", "N", "V", "Q", "F", "W", "D", "G", "X">>
    IN [l \in Range(letters) \cup Range(capitals) |->
          IF l \in Range(letters) THEN l
          ELSE letters[CHOOSE i \in DOMAIN capitals : capitals[i] = l]]

MCDigitValue == [d \in {"0", "3", "4"} |-> CASE d = "0" -> 0 [] d = "3" -> 3 [] d = "4" -> 4]

MCKeywords ==
    LET kinds == <<"CREATE", "TABLE", "INDEX", "ON", "INSERT", "INTO", "VALUES", "SELECT", "FROM",
                   "WHERE", "INT", "TEXT">>
        words == <<"c", "t", "i", "o", "s", "n", "v", "q", "f", "w", "d", "g">>
    IN [word \in {<<l>> : l \in Range(words)} |->
          kinds[CHOOSE i \in DOMAIN words : words[i] = word[1]]]

MCWords ==
    {<<l>> : l \in {"C", "T", "I", "O", "S", "N", "V", "Q", "F", "W", "D", "G", "3", "4"} \cup Symbols}
    \cup {<<"X", "t">>, <<"x">>, <<Quote, Quote, Quote, Quote>>, <<"0", "3">>}
===============================================================================
