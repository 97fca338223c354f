------------------------------ MODULE RecordCodec ------------------------------
(***************************************************************************)
(* The binary records of KernDB: rows (src/src/storage/record.cpp), tables *)
(* (catalog_store.cpp) and indexes (index_catalog_store.cpp), written and  *)
(* read with the little-endian ByteWriter and ByteReader of                *)
(* src/src/common/byte_codec.cpp.  A byte is a number below ByteBase; the  *)
(* widths are constants.  A record that cannot be read is refused; the     *)
(* error it is refused with is left out.                                   *)
(***************************************************************************)
EXTENDS Integers, SequencesExt

CONSTANTS
    ByteBase,       \* values of a byte, an even number
    WordBytes,      \* bytes of the std::uint64_t and std::int64_t
    LengthBytes,    \* bytes of the std::uint32_t
    CountBytes,     \* bytes of the std::uint16_t
    MaxInlineText   \* kMaxInlineTextBytes

Bytes == 0 .. ByteBase - 1
FormatVersion == 1

\* The numbers of n bytes are those below Power[n].
Power[n \in Nat] == IF n = 0 THEN 1 ELSE ByteBase * Power[n - 1]
WordLimit == Power[WordBytes]
InvalidId == WordLimit - 1

ASSUME CodecConstants ==
    /\ ByteBase \in Nat /\ ByteBase > 1 /\ ByteBase % 2 = 0
    /\ LengthBytes \in Nat \ {0} /\ CountBytes \in Nat \ {0}
    /\ WordBytes \in Nat /\ CountBytes <= WordBytes
    /\ MaxInlineText \in Nat /\ MaxInlineText < Power[LengthBytes]

-------------------------------------------------------------------------------
\* ByteWriter

WriteLittleEndian(width, value) == [i \in 1 .. width |-> (value \div Power[i - 1]) % ByteBase]

WriteText(width, text) == WriteLittleEndian(width, Len(text)) \o text

\* std::bit_cast between the signed and the unsigned 64-bit integer.
AsUnsigned(value) == value % WordLimit

\* Variant: the sign is lost on the way back.
AsSignedUnchanged(word) == word

AsSigned(word) == IF word < WordLimit \div 2 THEN word ELSE word - WordLimit

-------------------------------------------------------------------------------
\* ByteReader, reading one field after another.  A field is a word or a text
\* with its length in front.

Word(width) == [text |-> FALSE, width |-> width]
Prefixed(width) == [text |-> TRUE, width |-> width]

\* Each byte is shifted to its place.
ReadLittleEndian(bytes) ==
    LET word[n \in 0 .. Len(bytes)] ==
            IF n = 0 THEN 0 ELSE word[n - 1] + Power[n - 1] * bytes[n]
    IN word[Len(bytes)]

Remaining(bytes, at) == Len(bytes) - at

FailRead(reader) == [reader EXCEPT !.ok = FALSE]

\* ReadString after its length: the text starts behind position at.
ReadText(bytes, reader, at, length) ==
    IF length > Remaining(bytes, at) THEN FailRead(reader)
    ELSE [reader EXCEPT !.at = at + length, !.values = Append(@, SubSeq(bytes, at + 1, at + length))]

ReadField(bytes, reader, field) ==
    LET after == reader.at + field.width
        word == ReadLittleEndian(SubSeq(bytes, reader.at + 1, after))
    IN IF ~reader.ok \/ field.width > Remaining(bytes, reader.at) THEN FailRead(reader)
       ELSE IF field.text THEN ReadText(bytes, reader, after, word)
       ELSE [reader EXCEPT !.at = after, !.values = Append(@, word)]

ReadFields(bytes, at, fields) ==
    LET read[n \in 0 .. Len(fields)] ==
            IF n = 0 THEN [ok |-> TRUE, at |-> at, values |-> <<>>]
            ELSE ReadField(bytes, read[n - 1], fields[n])
    IN read[Len(fields)]

\* Variant: what follows the last field is ignored.
ConsumedIgnoring(bytes, reader) == reader.ok

\* Every byte was read, and no more.
Consumed(bytes, reader) == reader.ok /\ Remaining(bytes, reader.at) = 0

Refused == [ok |-> FALSE]

-------------------------------------------------------------------------------
\* Rows.  A value is [type, value] with type INT or TEXT, as in Parser.

Encodable(schema, tuple) ==
    /\ Len(schema) = Len(tuple)
    /\ \A i \in DOMAIN schema :
         /\ tuple[i].type = schema[i].type
         /\ tuple[i].type = "TEXT" => Len(tuple[i].value) <= MaxInlineText

EncodeValue(value) ==
    IF value.type = "INT" THEN WriteLittleEndian(WordBytes, AsUnsigned(value.value))
    ELSE WriteText(LengthBytes, value.value)

EncodeRecord(schema, tuple) ==
    WriteLittleEndian(CountBytes, FormatVersion)
    \o WriteLittleEndian(CountBytes, Len(schema))
    \o FlattenSeq([i \in DOMAIN schema |-> EncodeValue(tuple[i])])

ValueField(type) == IF type = "INT" THEN Word(WordBytes) ELSE Prefixed(LengthBytes)

Tuple(schema, raw) ==
    [i \in DOMAIN schema |->
       [type |-> schema[i].type, value |-> IF schema[i].type = "INT" THEN AsSigned(raw[i]) ELSE raw[i]]]

\* The row of the fields a reader has read: the version, the count and the values.
ReadTuple(schema, bytes, reader) ==
    LET raw == SubSeq(reader.values, 3, Len(reader.values))
    IN IF /\ Consumed(bytes, reader)
          /\ reader.values[1] = FormatVersion
          /\ reader.values[2] = Len(schema)
          /\ \A i \in DOMAIN schema : schema[i].type = "TEXT" => Len(raw[i]) <= MaxInlineText
       THEN [ok |-> TRUE, tuple |-> Tuple(schema, raw)]
       ELSE Refused

DecodeRecord(schema, bytes) ==
    ReadTuple(schema, bytes,
              ReadFields(bytes, 0, <<Word(CountBytes), Word(CountBytes)>>
                                   \o [i \in DOMAIN schema |-> ValueField(schema[i].type)]))

-------------------------------------------------------------------------------
\* Tables of the catalog file.

ColumnTypes == <<"INT", "TEXT">>
TypeCode(type) == IF type = "INT" THEN 0 ELSE 1

EncodeCatalogRecord(table) ==
    WriteLittleEndian(WordBytes, table.id)
    \o WriteText(CountBytes, table.name)
    \o WriteLittleEndian(CountBytes, Len(table.schema))
    \o FlattenSeq([i \in DOMAIN table.schema |->
                     WriteText(CountBytes, table.schema[i].name)
                     \o WriteLittleEndian(1, TypeCode(table.schema[i].type))])

\* The columns are read as pairs of a name and a type.
ReadColumns(bytes, header, reader) ==
    LET count == header.values[3]
        name(i) == reader.values[2 * i - 1]
        type(i) == reader.values[2 * i]
    IN IF /\ Consumed(bytes, reader)
          /\ \A i \in 1 .. count : name(i) # <<>> /\ type(i) \in {0, 1}
       THEN [ok |-> TRUE,
             table |-> [id |-> header.values[1], name |-> header.values[2],
                        schema |-> [i \in 1 .. count |->
                                      [name |-> name(i), type |-> ColumnTypes[type(i) + 1]]]]]
       ELSE Refused

ReadTable(bytes, header) ==
    IF /\ header.ok
       /\ header.values[1] \notin {0, InvalidId}
       /\ header.values[2] # <<>> /\ header.values[3] # 0
    THEN ReadColumns(bytes, header,
                     ReadFields(bytes, header.at, [i \in 1 .. 2 * header.values[3] |->
                                                     IF i % 2 = 1 THEN Prefixed(CountBytes) ELSE Word(1)]))
    ELSE Refused

DecodeCatalogRecord(bytes) ==
    ReadTable(bytes, ReadFields(bytes, 0, <<Word(WordBytes), Prefixed(CountBytes), Word(CountBytes)>>))

-------------------------------------------------------------------------------
\* Indexes of the index catalog file.

EncodeIndexRecord(index) ==
    WriteLittleEndian(CountBytes, FormatVersion)
    \o WriteLittleEndian(WordBytes, index.id)
    \o WriteLittleEndian(WordBytes, index.table)
    \o WriteLittleEndian(WordBytes, index.column)
    \o WriteLittleEndian(WordBytes, index.root)
    \o WriteText(CountBytes, index.name)

ReadIndex(bytes, reader) ==
    LET values == reader.values
    IN IF /\ Consumed(bytes, reader)
          /\ values[1] = FormatVersion
          /\ values[2] \notin {0, InvalidId}
          /\ InvalidId \notin {values[3], values[5]}
          /\ values[6] # <<>>
       THEN [ok |-> TRUE, index |-> [id |-> values[2], table |-> values[3], column |-> values[4],
                                     root |-> values[5], name |-> values[6]]]
       ELSE Refused

DecodeIndexRecord(bytes) ==
    LET word == Word(WordBytes)
    IN ReadIndex(bytes, ReadFields(bytes, 0, <<Word(CountBytes), word, word, word, word, Prefixed(CountBytes)>>))
================================================================================
