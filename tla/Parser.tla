--------------------------------- MODULE Parser --------------------------------
(***************************************************************************)
(* The recursive-descent parser of src/src/parser/parser.cpp as operators  *)
(* over a token sequence.  A parse from token p either succeeds with a     *)
(* node and the token it goes on at, or fails with the token and the       *)
(* offset it reports.  The spans inside a tree and the wording of errors   *)
(* are left out.                                                           *)
(***************************************************************************)
EXTENDS Lexer

CONSTANT IntBits   \* the width of the std::int64_t a literal becomes

MaxInt == 2 ^ (IntBits - 1) - 1
MinInt == -(2 ^ (IntBits - 1))

Success(next, node) == [ok |-> TRUE, next |-> next, node |-> node]
Failure(tokens, p) == [ok |-> FALSE, at |-> tokens[p].begin]

Kind(tokens, p) == tokens[p].kind
Text(tokens, p) == tokens[p].lexeme

\* Variant: the place reported is where the phrase began.
ExpectOrBlameStart(tokens, p, kinds) ==
    LET differ == {i \in DOMAIN kinds :
                     p + i - 1 > Len(tokens) \/ Kind(tokens, p + i - 1) # kinds[i]}
    IN IF differ = {} THEN Success(p + Len(kinds), <<>>) ELSE Failure(tokens, p)

\* Expect, once for each of the kinds: fails at the first token that differs.
\* The end token differs from every expected kind, so that no access is beyond it.
Expect(tokens, p, kinds) ==
    LET differ == {i \in DOMAIN kinds :
                     p + i - 1 > Len(tokens) \/ Kind(tokens, p + i - 1) # kinds[i]}
    IN IF differ = {} THEN Success(p + Len(kinds), <<>>)
       ELSE Failure(tokens, p + Min(differ) - 1)

\* Variant: the sign is applied to a magnitude that had to fit by itself.
InRangeByMagnitude(sign, magnitude) == magnitude \in 0 .. MaxInt

\* std::from_chars over the sign and the digits.
InRange(sign, magnitude) == sign * magnitude \in MinInt .. MaxInt

NumberOf(digits) ==
    LET number[n \in 0 .. Len(digits)] ==
            IF n = 0 THEN 0 ELSE 10 * number[n - 1] + DigitValue[digits[n]]
    IN number[Len(digits)]

\* [ "-" ] integer | string: an integer out of range is reported at its sign.
ParseLiteral(tokens, p) ==
    LET negative == Kind(tokens, p) = "-"
        q == IF negative THEN p + 1 ELSE p
        sign == IF negative THEN -1 ELSE 1
        magnitude == NumberOf(Text(tokens, q))
    IN CASE Kind(tokens, q) = "string" /\ ~negative ->
              Success(q + 1, [type |-> "TEXT", value |-> Text(tokens, q)])
         [] Kind(tokens, q) = "integer" ->
              IF InRange(sign, magnitude)
              THEN Success(q + 1, [type |-> "INT", value |-> sign * magnitude])
              ELSE Failure(tokens, p)
         [] OTHER -> Failure(tokens, q)

ParseIdentifier(tokens, p) ==
    IF Kind(tokens, p) = "identifier" THEN Success(p + 1, Text(tokens, p)) ELSE Failure(tokens, p)

ParseColumn(tokens, p) ==
    IF Kind(tokens, p) # "identifier" THEN Failure(tokens, p)
    ELSE IF Kind(tokens, p + 1) \notin {"INT", "TEXT"} THEN Failure(tokens, p + 1)
    ELSE Success(p + 2, [name |-> Text(tokens, p), type |-> Kind(tokens, p + 1)])

ParseItem(what, tokens, p) ==
    CASE what = "column" -> ParseColumn(tokens, p)
      [] what = "literal" -> ParseLiteral(tokens, p)
      [] what = "identifier" -> ParseIdentifier(tokens, p)

\* The while (true) loops: items as long as a comma follows.
ParseList(what, tokens, from) ==
    LET list[p \in 1 .. Len(tokens)] ==
            Then(ParseItem(what, tokens, p), LAMBDA item :
                IF Kind(tokens, item.next) # "," THEN Success(item.next, <<item.node>>)
                ELSE Then(list[item.next + 1], LAMBDA rest :
                        Success(rest.next, <<item.node>> \o rest.node)))
    IN list[from]

ParseCreateTable(tokens, p) ==
    Then(Expect(tokens, p, <<"identifier", "(">>), LAMBDA name :
    Then(ParseList("column", tokens, name.next), LAMBDA columns :
    Then(Expect(tokens, columns.next, <<")">>), LAMBDA close :
        Success(close.next, [statement |-> "create_table", table |-> Text(tokens, p),
                             columns |-> columns.node]))))

\* Variant: the index is put on a column with the name of the table.
ParseCreateIndexOnTable(tokens, p) ==
    Then(Expect(tokens, p, <<"identifier", "ON", "identifier", "(", "identifier", ")">>), LAMBDA all :
        Success(all.next, [statement |-> "create_index", index |-> Text(tokens, p),
                           table |-> Text(tokens, p + 2), column |-> Text(tokens, p + 2)]))

ParseCreateIndex(tokens, p) ==
    Then(Expect(tokens, p, <<"identifier", "ON", "identifier", "(", "identifier", ")">>), LAMBDA all :
        Success(all.next, [statement |-> "create_index", index |-> Text(tokens, p),
                           table |-> Text(tokens, p + 2), column |-> Text(tokens, p + 4)]))

ParseInsert(tokens, p) ==
    Then(Expect(tokens, p, <<"INTO", "identifier", "VALUES", "(">>), LAMBDA into :
    Then(ParseList("literal", tokens, into.next), LAMBDA literals :
    Then(Expect(tokens, literals.next, <<")">>), LAMBDA close :
        Success(close.next, [statement |-> "insert", table |-> Text(tokens, p + 1),
                             values |-> literals.node]))))

\* The predicate is a sequence of at most one column and literal.
ParsePredicate(tokens, p) ==
    IF Kind(tokens, p) # "WHERE" THEN Success(p, <<>>)
    ELSE Then(Expect(tokens, p, <<"WHERE", "identifier", "=">>), LAMBDA column :
         Then(ParseLiteral(tokens, column.next), LAMBDA literal :
            Success(literal.next, <<[column |-> Text(tokens, p + 1), literal |-> literal.node]>>)))

ParseSelect(tokens, p) ==
    Then(ParseList("identifier", tokens, p), LAMBDA projections :
    Then(Expect(tokens, projections.next, <<"FROM", "identifier">>), LAMBDA from :
    Then(ParsePredicate(tokens, from.next), LAMBDA predicate :
        Success(predicate.next, [statement |-> "select", projections |-> projections.node,
                                 table |-> Text(tokens, projections.next + 1),
                                 predicate |-> predicate.node]))))

ParseStatement(tokens) ==
    CASE Kind(tokens, 1) = "INSERT" -> ParseInsert(tokens, 2)
      [] Kind(tokens, 1) = "SELECT" -> ParseSelect(tokens, 2)
      [] Kind(tokens, 1) = "CREATE" /\ Kind(tokens, 2) = "TABLE" -> ParseCreateTable(tokens, 3)
      [] Kind(tokens, 1) = "CREATE" /\ Kind(tokens, 2) = "INDEX" -> ParseCreateIndex(tokens, 3)
      [] Kind(tokens, 1) = "CREATE" /\ Kind(tokens, 2) \notin {"TABLE", "INDEX"} -> Failure(tokens, 2)
      [] OTHER -> Failure(tokens, 1)

\* One semicolon may follow the statement, and nothing else.
Ends(tokens, p) ==
    Kind(tokens, p) = "end" \/ (Kind(tokens, p) = ";" /\ Kind(tokens, p + 1) = "end")

Parse(tokens) ==
    Then(ParseStatement(tokens), LAMBDA statement :
        LET p == statement.next
        IN IF Ends(tokens, p) THEN statement
           ELSE Failure(tokens, IF Kind(tokens, p) = ";" THEN p + 1 ELSE p))

ParseSql(text) == Then(LexSql(text), LAMBDA lexed : Parse(lexed.tokens))
================================================================================
