\* Five characters of any kind, and words as far as a sentence with lists of two
\* items can begin; INT is the range of three bits.
CONSTANTS
    LowerCase <- MCLowerCase
    DigitValue <- MCDigitValue
    Spaces = {" ", "newline"}
    NewLine = "newline"
    Keywords <- MCKeywords
    IntBits = 3
    FreeCharacters = {"x", "Q", "4", "'", "-", "newline", ",", "#"}
    Blank = " "
    Words <- MCWords
    MaxFree = 5
    MaxList = 2
SPECIFICATION Spec
INVARIANTS
    TokensTileText
    StatementsReadBack
    AcceptsTheGrammar
    RefusedWhereItGoesWrong
