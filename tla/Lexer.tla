--------------------------------- MODULE Lexer ---------------------------------
(***************************************************************************)
(* The lexer of src/src/parser/lexer.cpp as operators over a text, which   *)
(* is a sequence of characters.  A position is an offset counted from 1; a *)
(* token spans the positions begin .. end - 1.  Line and column, which are *)
(* functions of the offset, and the wording of errors are left out.        *)
(***************************************************************************)
EXTENDS Integers, Sequences, FiniteSetsExt

CONSTANTS
    LowerCase,   \* function: every letter, and the underscore, to its lower case
    DigitValue,  \* function: every digit to its value
    Spaces,      \* characters isspace accepts, NewLine among them
    NewLine,
    Keywords     \* function: a word in lower case to the kind of its token

Quote == "'"
Symbols == {",", "(", ")", ";", "=", "-"}

IdentifierStart == DOMAIN LowerCase
Digits == DOMAIN DigitValue
IdentifierPart == IdentifierStart \cup Digits

Lowered(word) == [i \in DOMAIN word |-> IF word[i] \in Digits THEN word[i] ELSE LowerCase[word[i]]]

KeywordKind(word) ==
    IF Lowered(word) \in DOMAIN Keywords THEN Keywords[Lowered(word)] ELSE "identifier"

Token(kind, lexeme, begin, end) == [kind |-> kind, lexeme |-> lexeme, begin |-> begin, end |-> end]

AtEnd(text, p) == p > Len(text)
Holds(text, p, c) == ~AtEnd(text, p) /\ text[p] = c

\* The first position from p on that is outside chars.
RunEnd(text, p, chars) ==
    Min({q \in p .. Len(text) + 1 : AtEnd(text, q) \/ text[q] \notin chars})

LineEnd(text, p) == Min({q \in p .. Len(text) + 1 : AtEnd(text, q) \/ text[q] = NewLine})

\* Variant: a single minus starts a comment.
StartsCommentAtMinus(text, p) == Holds(text, p, "-")

StartsComment(text, p) == Holds(text, p, "-") /\ Holds(text, p + 1, "-")

SkipTrivia(text, from) ==
    LET skip[p \in 1 .. Len(text) + 1] ==
            IF AtEnd(text, p) THEN p
            ELSE IF text[p] \in Spaces THEN skip[p + 1]
            ELSE IF StartsComment(text, p) THEN skip[LineEnd(text, p)]
            ELSE p
    IN skip[from]

\* A step that fails returns at once; otherwise the next one takes its result.
Then(result, Continue(_)) == IF result.ok THEN Continue(result) ELSE result

\* A scan that fails reports where the offending token starts.
LexError(p) == [ok |-> FALSE, at |-> p]

QuoteInString == <<Quote>>

\* The body of a string from its first character on: two quotes stand for one.
StringBody(text, from) ==
    LET body[p \in from .. Len(text) + 1] ==
            IF AtEnd(text, p) THEN LexError(from - 1)
            ELSE IF text[p] = Quote /\ ~Holds(text, p + 1, Quote)
                 THEN [ok |-> TRUE, value |-> <<>>, end |-> p + 1]
            ELSE LET doubled == text[p] = Quote
                     here == IF doubled THEN QuoteInString ELSE <<text[p]>>
                 IN Then(body[IF doubled THEN p + 2 ELSE p + 1],
                         LAMBDA rest : [rest EXCEPT !.value = here \o @])
    IN body[from]

LexWord(text, p) ==
    LET end == RunEnd(text, p, IdentifierPart)
        word == SubSeq(text, p, end - 1)
    IN Token(KeywordKind(word), word, p, end)

LexInteger(text, p) ==
    LET end == RunEnd(text, p, Digits) IN Token("integer", SubSeq(text, p, end - 1), p, end)

Found(token) == [ok |-> TRUE, token |-> token]

\* The token that starts at p, where no trivia starts.
TokenAt(text, p) ==
    LET c == text[p]
    IN CASE c \in IdentifierStart -> Found(LexWord(text, p))
         [] c \in Digits -> Found(LexInteger(text, p))
         [] c = Quote -> Then(StringBody(text, p + 1),
                              LAMBDA body : Found(Token("string", body.value, p, body.end)))
         [] c \in Symbols -> Found(Token(c, <<c>>, p, p + 1))
         [] OTHER -> LexError(p)

\* Lexer::Lex: token after token from a position where no trivia starts.
LexSql(text) ==
    LET lex[p \in 1 .. Len(text) + 1] ==
            IF AtEnd(text, p) THEN [ok |-> TRUE, tokens |-> <<Token("end", <<>>, p, p)>>]
            ELSE Then(TokenAt(text, p),
                      LAMBDA first : Then(lex[SkipTrivia(text, first.token.end)],
                                          LAMBDA rest : [rest EXCEPT !.tokens = <<first.token>> \o @]))
    IN lex[SkipTrivia(text, 1)]
================================================================================
