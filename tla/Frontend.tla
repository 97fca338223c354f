-------------------------------- MODULE Frontend -------------------------------
(***************************************************************************)
(* The line of the shell (src/apps/kerndb_shell/shell.cpp) as it is typed, *)
(* or a statement after --execute, and what Database::Execute's parser     *)
(* makes of it.  Characters are typed freely up to MaxFree; whole words as *)
(* long as a sentence of the grammar can still begin like this, so that an *)
(* error is met at any word.                                               *)
(***************************************************************************)
EXTENDS Parser, SequencesExt

CONSTANTS
    FreeCharacters,   \* what is typed character by character
    Blank,            \* typed before a word and never freely
    Words,            \* set of texts, each one token
    MaxFree,          \* characters typed freely
    MaxList           \* items of a list that is typed

ASSUME BlankAssumption == Blank \in Spaces \ (FreeCharacters \cup {NewLine})

VARIABLE line

Init == line = <<>>

-------------------------------------------------------------------------------
\* The grammar of src/docs/SQL_PHASE1.md and src/docs/BPLUS_TREE_PHASE4.md, as
\* the set of its sentences of token kinds with lists of at most n items.

Literals == {<<"integer">>, <<"-", "integer">>, <<"string">>}
Columns == {<<"identifier", "INT">>, <<"identifier", "TEXT">>}

Lists(items, n) ==
    LET lists[k \in 1 .. n] ==
            IF k = 1 THEN items
            ELSE items \cup {item \o <<",">> \o list : item \in items, list \in lists[k - 1]}
    IN lists[n]

Statements(n) ==
    {<<"CREATE", "TABLE", "identifier", "(">> \o columns \o <<")">> : columns \in Lists(Columns, n)}
    \cup {<<"CREATE", "INDEX", "identifier", "ON", "identifier", "(", "identifier", ")">>}
    \cup {<<"INSERT", "INTO", "identifier", "VALUES", "(">> \o literals \o <<")">> :
            literals \in Lists(Literals, n)}
    \cup {<<"SELECT">> \o names \o <<"FROM", "identifier">> \o where :
            names \in Lists({<<"identifier">>}, n),
            where \in {<<>>} \cup {<<"WHERE", "identifier", "=">> \o literal : literal \in Literals}}

Sentences(n) == {statement \o end : statement \in Statements(n), end \in {<<"end">>, <<";", "end">>}}

\* The sentences that are typed, and those a line is judged by: one more item,
\* since a line may end in the comma after the last one.
TypedBeginnings == UNION {Prefixes(s) : s \in Sentences(MaxList)}
Grammar == Sentences(MaxList + 1)
Beginnings == UNION {Prefixes(s) : s \in Grammar}

Kinds(tokens) == [i \in DOMAIN tokens |-> tokens[i].kind]

-------------------------------------------------------------------------------
Free == Range(line) \subseteq FreeCharacters

TypeCharacter(c) ==
    /\ Free /\ Len(line) < MaxFree
    /\ line' = Append(line, c)

TypeWord ==
    /\ Free => line = <<>>
    /\ Front(Kinds(LexSql(line).tokens)) \in TypedBeginnings
    /\ \E word \in Words : line' = line \o <<Blank>> \o word

\* The line is given to Database::Execute and the next one is read.
Enter == line' = <<>>

Next == (\E c \in FreeCharacters : TypeCharacter(c)) \/ TypeWord \/ Enter

Spec == Init /\ [][Next]_line

-------------------------------------------------------------------------------
(* Properties *)

\* The text a token stands for; a quote inside a string is written twice.
Printed(token) ==
    IF token.kind # "string" THEN token.lexeme
    ELSE LET written == [i \in DOMAIN token.lexeme |->
                           IF token.lexeme[i] = Quote THEN <<Quote, Quote>> ELSE <<token.lexeme[i]>>]
         IN <<Quote>> \o FlattenSeq(written) \o <<Quote>>

\* Blanks, and comments: from two minus signs to the end of their line.
IsTrivia(gap) ==
    \A i \in DOMAIN gap :
        \/ gap[i] \in Spaces
        \/ \E m \in 1 .. i : /\ \A k \in m .. i : gap[k] # NewLine
                            /\ m < Len(gap) /\ gap[m] = "-" /\ gap[m + 1] = "-"

\* Two tokens that touch and would have been one.
Split(a, b) ==
    /\ a.end = b.begin
    /\ \/ a.kind = "-" /\ b.kind = "-"
       \/ a.kind = "string" /\ b.kind = "string"
       \/ Printed(b) # <<>> /\ Printed(b)[1] \in Digits /\ Last(Printed(a)) \in IdentifierPart
       \/ Printed(b) # <<>> /\ Printed(b)[1] \in IdentifierStart /\ Last(Printed(a)) \in IdentifierStart

EndOf(tokens, i) == IF i = 0 THEN 1 ELSE tokens[i].end

Tile(tokens) ==
    /\ \A i \in DOMAIN tokens :
         /\ Printed(tokens[i]) = SubSeq(line, tokens[i].begin, tokens[i].end - 1)
         /\ EndOf(tokens, i - 1) <= tokens[i].begin
         /\ IsTrivia(SubSeq(line, EndOf(tokens, i - 1), tokens[i].begin - 1))
         /\ i > 1 => ~Split(tokens[i - 1], tokens[i])
    /\ EndOf(tokens, Len(tokens)) = Len(line) + 1

\* A character that begins no token, or a quote that is never closed.
NoTokenAt(p) ==
    IF line[p] = Quote THEN Cardinality({i \in p .. Len(line) : line[i] = Quote}) % 2 = 1
    ELSE line[p] \notin IdentifierPart \cup Symbols \cup Spaces

\* Every character of a text is in one token, or in trivia between two; a token
\* stands for exactly the characters of its span and is as long as it can be.  A
\* text is refused at a character that begins no token or at a quote that is
\* never closed, and what is before it is in order (Lexer::Lex).
TokensTileText ==
    LET lexed == LexSql(line)
    IN IF lexed.ok THEN Tile(lexed.tokens)
       ELSE LexSql(SubSeq(line, 1, lexed.at - 1)).ok /\ NoTokenAt(lexed.at)

WordFor(kind) == CHOOSE word \in DOMAIN Keywords : Keywords[word] = kind

\* The shortest numeral of a number.
Numeral(number) ==
    LET numeral[n \in 0 .. number] ==
            IF n < 10 THEN <<CHOOSE d \in Digits : DigitValue[d] = n>>
            ELSE numeral[n \div 10] \o numeral[n % 10]
    IN numeral[number]

\* A statement as SQL text, to be read back.
LiteralText(literal) ==
    IF literal.type = "TEXT" THEN Printed([kind |-> "string", lexeme |-> literal.value])
    ELSE IF literal.value < 0 THEN <<"-">> \o Numeral(-literal.value)
    ELSE Numeral(literal.value)

ListText(texts) ==
    FlattenSeq([i \in DOMAIN texts |-> IF i = 1 THEN texts[i] ELSE <<",">> \o texts[i]])

Spaced(texts) ==
    FlattenSeq([i \in DOMAIN texts |-> Append(texts[i], Blank)])

StatementText(node) ==
    CASE node.statement = "create_table" ->
           Spaced(<<WordFor("CREATE"), WordFor("TABLE"), node.table, <<"(">>,
                    ListText([i \in DOMAIN node.columns |->
                                Spaced(<<node.columns[i].name, WordFor(node.columns[i].type)>>)]), <<")">>>>)
      [] node.statement = "create_index" ->
           Spaced(<<WordFor("CREATE"), WordFor("INDEX"), node.index, WordFor("ON"), node.table,
                    <<"(">>, node.column, <<")">>>>)
      [] node.statement = "insert" ->
           Spaced(<<WordFor("INSERT"), WordFor("INTO"), node.table, WordFor("VALUES"), <<"(">>,
                    ListText([i \in DOMAIN node.values |-> LiteralText(node.values[i])]), <<")">>>>)
      [] node.statement = "select" ->
           Spaced(<<WordFor("SELECT"), ListText(node.projections), WordFor("FROM"), node.table>>)
           \o IF node.predicate = <<>> THEN <<>>
              ELSE Spaced(<<WordFor("WHERE"), node.predicate[1].column, <<"=">>,
                            LiteralText(node.predicate[1].literal)>>)

Signed(tokens, k) == k > 1 /\ tokens[k - 1].kind = "-"

\* What the tokens of a statement say: words and marks in their order, with the
\* text of names and strings and the numbers, signs applied.
Said(tokens) ==
    LET says == [k \in DOMAIN tokens |->
            [kind   |-> tokens[k].kind,
             text   |-> IF tokens[k].kind \in {"identifier", "string"}
                        THEN tokens[k].lexeme ELSE <<>>,
             number |-> IF tokens[k].kind # "integer" THEN 0
                        ELSE (IF Signed(tokens, k) THEN -1 ELSE 1) * NumberOf(tokens[k].lexeme)]]
    IN SelectSeq(says, LAMBDA said : said.kind \notin {"-", ";", "end"})

\* Nothing a line says is lost, doubled or put in another's place: what was
\* understood of it, written down, says what the line says, word by word, name by
\* name and item by item, and is read as the same statement (ParseSql).
StatementsReadBack ==
    LET parsed == ParseSql(line)
        written == StatementText(parsed.node)
    IN parsed.ok =>
          /\ Said(LexSql(written).tokens) = Said(LexSql(line).tokens)
          /\ ParseSql(written).node = parsed.node

\* The tokens no sentence continues with, and the integers out of range.
Unexpected(tokens) == {k \in DOMAIN tokens : Kinds(SubSeq(tokens, 1, k)) \notin Beginnings}
OutOfRange(tokens) ==
    {k \in DOMAIN tokens :
        /\ tokens[k].kind = "integer"
        /\ (IF Signed(tokens, k) THEN -1 ELSE 1) * NumberOf(tokens[k].lexeme) \notin MinInt .. MaxInt}

\* A line is a statement exactly when its tokens are a sentence of the documented
\* grammar, a semicolon allowed, and its integers are in the range of INT.
AcceptsTheGrammar ==
    LET lexed == LexSql(line)
    IN ParseSql(line).ok <=>
         lexed.ok /\ Kinds(lexed.tokens) \in Grammar /\ OutOfRange(lexed.tokens) = {}

\* The first token no sentence continues with, or the first integer out of range
\* with its sign.
WrongPlace(tokens) ==
    LET wrong == Min(Unexpected(tokens) \cup OutOfRange(tokens))
    IN IF wrong \notin Unexpected(tokens) /\ Signed(tokens, wrong) THEN wrong - 1 ELSE wrong

\* A refused line is refused at the first place that is wrong (the spans Parse
\* reports).
RefusedWhereItGoesWrong ==
    LET lexed == LexSql(line)
        parsed == ParseSql(line)
    IN lexed.ok /\ ~parsed.ok => parsed.at = lexed.tokens[WrongPlace(lexed.tokens)].begin
===============================================================================
