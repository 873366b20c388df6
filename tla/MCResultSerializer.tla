---- MODULE MCResultSerializer ----
(* Small instances of ResultSerializer for TLC. *)
EXTENDS ResultSerializer

MCDecimal == [Type("DECIMAL") EXCEPT !.params = TRUE]
MCDecimals == [MCDecimal EXCEPT !.list = TRUE]
MCVarchars == [Type("VARCHAR") EXCEPT !.list = TRUE]
MCTypes == {Type(b) : b \in {"BOOLEAN", "BIGINT", "HUGEINT", "DOUBLE", "VARCHAR", "DATE", "BLOB", "BIT", "INTERVAL"}}
           \cup {MCDecimal, MCDecimals, MCVarchars}

\* Texts with every kind of escape, a two-byte character, and JSON's own
\* separators.
MCTextCharacters == {"\"", "\\", "newline", "unit", "0xc3", "u", ",", "}"}
MCCharacters ==
    MCTextCharacters \cup ToSet(tbl)
    \cup {"null", "true", "false", "{", ":", "[", "]", "-", ".", "=", " ", "'", "(", ")", "+", "/", "%",
          "backspace", "formfeed", "return", "tab", "bell"}
MCTexts == {<<>>} \cup {<<a>> : a \in MCTextCharacters} \cup {<<a, b>> : a, b \in MCTextCharacters}

\* Zero to four bytes, printable ones, ones that are escaped, and the bytes of
\* an escape; numbers that round to zero, up, and to nothing to cut.
MCBlobs == {Blob(b) : b \in {<<>>, <<0>>, <<255>>, <<65, 66>>, <<19, 200>>, <<34, 92, 126>>, <<255, 254, 253>>,
                            <<1, 2, 3, 128>>, <<92, 120, 52, 49>>}}
MCNumbers == {Number(n) : n \in {0, 3, -3, 7, 15000000, -100, 10000000, 99999996, 1234567}} \cup {NotFinite}

MCValuesOf(t) ==
    CASE t.list -> {Text(<<"[", "1", ",", "2", "]">>)}
      [] t.base = "BOOLEAN" -> {Boolean(TRUE), Boolean(FALSE)}
      [] t.base = "DOUBLE" -> MCNumbers
      [] t.base = "BLOB" -> MCBlobs
      [] t.base \in {"BIGINT", "HUGEINT"} -> {Text(<<"0">>), Text(<<"-", "4", "2">>)}
      [] t.base = "DECIMAL" -> {Text(<<"1", ".", "5", "0">>)}
      [] t.base = "BIT" -> {Text(<<"1", "0", "1">>)}
      [] t.base = "VARCHAR" -> {Text(s) : s \in MCTexts}
      [] OTHER -> {Text(<<"1", "-", "2">>)}
MCValues == [t \in MCTypes |-> MCValuesOf(t)]

MCColumn(name, type, nullable) == [name |-> name, type |-> type, nullable |-> nullable]

\* Every type by itself, and two columns with names that need escapes.
MCTables ==
    {<<MCColumn(<<"a">>, t, n)>> : t \in MCTypes, n \in BOOLEAN}
    \cup {<<MCColumn(<<"a", "\"">>, Type("BLOB"), TRUE), MCColumn(<<"\\">>, Type("DOUBLE"), FALSE)>>}
====
