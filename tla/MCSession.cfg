\* One table of two columns and two rows, three ids for indexes, names in both cases
\* and of one and two bytes, texts of up to one byte more than the limit, and the
\* least and the greatest INT of two bytes.  A page holds a record of 11 bytes, which
\* those of a row of two texts at the limit, of a table of two columns with a longer
\* name among them and of an index with a longer name exceed.
CONSTANTS
    ByteBase = 4
    WordBytes = 2
    LengthBytes = 2
    CountBytes = 1
    MaxInlineText = 3
    PageCapacity = 11
    LowerByte <- Letters
    Identifiers <- Names
    Values <- Literals
    Projections <- ColumnLists
    MaxColumns = 2
    MaxTableId = 1
    MaxRows = 2
    MaxIndexId = 3
SPECIFICATION Spec
INVARIANTS
    PlansAnswerAlike
    DatabasesAgree
    RecordsDelimited
