-------------------------- MODULE ResultSerializer --------------------------
(***************************************************************************)
(* The JSON document of a query result, and the types $metadata announces  *)
(* for it.  DuckDB hands the result over in chunks of rows; a collection   *)
(* is written from all of them, a single entity from the first row.  The   *)
(* document is a sequence of symbols: characters and bytes of strings are  *)
(* one symbol each, and so are the words null, true and false.             *)
(***************************************************************************)
EXTENDS StringUtil

CONSTANTS
    Tables,     \* the results' columns: sequences of [name, type, nullable]
    Values,     \* the values of each type, without NULL
    MaxRows,    \* bound on the rows of a result
    MaxChunk    \* bound on the rows of a chunk

VARIABLES
    table,      \* the columns of the result
    single,     \* whether one entity is written, or a collection
    pc,         \* "fetch" until the document is complete
    rows,       \* the rows fetched so far
    body,       \* what has been written of them
    rows_out    \* the number of rows written

vars == <<table, single, pc, rows, body, rows_out>>

NULL == [form |-> "null"]

\* A value of type BOOLEAN; of FLOAT and DOUBLE, in units of 10^-7, or not a
\* finite number; of BLOB; and of the other types, by its ToString.
Boolean(b) == [form |-> "boolean", boolean |-> b]
Number(n) == [form |-> "number", number |-> n]
NotFinite == [form |-> "notfinite"]
Blob(bytes) == [form |-> "blob", bytes |-> bytes]
Text(text) == [form |-> "text", text |-> text]

ValueSet ==
    {NotFinite} \cup [form : {"boolean"}, boolean : BOOLEAN] \cup [form : {"number"}, number : Int]
    \cup [form : {"blob"}, bytes : Seq(0 .. 255)] \cup [form : {"text"}, text : Seq(Characters)]

\* A type name of the catalog: BASE, BASE(...), BASE[] or BASE(...)[].
Type(base) == [base |-> base, params |-> FALSE, list |-> FALSE]

-----------------------------------------------------------------------------
(* Metadata.                                                               *)

Unsupported == "unsupported"

Integral == {"TINYINT", "SMALLINT", "INTEGER", "BIGINT"}
Wide == {"HUGEINT", "UTINYINT", "USMALLINT", "UINTEGER", "UBIGINT", "UHUGEINT"}
Floating == {"FLOAT", "DOUBLE"}
Quoted ==
    [name \in {"VARCHAR", "DATE", "TIME", "UUID", "TIMESTAMP", "TIMESTAMP WITH TIME ZONE"} |->
        CASE name = "VARCHAR" -> "String" [] name = "DATE" -> "Date" [] name = "TIME" -> "TimeOfDay"
          [] name = "UUID" -> "Guid" [] OTHER -> "DateTimeOffset"]

EdmOf(name) ==
    CASE name = "BOOLEAN" -> "Boolean"
      [] name \in Integral -> "Int"
      [] name \in Wide \cup {"DECIMAL"} -> "Decimal"
      [] name \in Floating -> "Double"
      [] name \in DOMAIN Quoted -> Quoted[name]
      [] name \in {"BLOB", "BIT"} -> "Binary"
      [] OTHER -> Unsupported

\* Mutant of DuckDBTypeToEdm: integers beyond Int64 are announced as strings.
DuckDBTypeWideAsString(type) ==
    IF type.base \in Wide THEN "String"
    ELSE IF type.list /\ ~type.params THEN Unsupported ELSE EdmOf(type.base)

\* The name is cut at its first parenthesis, with whatever follows it.
DuckDBTypeToEdm(type) ==
    IF type.list /\ ~type.params THEN Unsupported ELSE EdmOf(type.base)

-----------------------------------------------------------------------------
(* Strings, numbers and binary data.                                       *)

JsonString(value) == <<"\"">> \o JsonEscape(value) \o <<"\"">>

Digit == <<"0", "1", "2", "3", "4", "5", "6", "7", "8", "9">>

MaxDigits == 10   \* bound on the digits of a number

\* n in decimal, with at least so many digits: the last one is written first.
DigitStep ==
    [at \in [n : Nat, width : Nat, text : Seq(Characters)] |->
        IF at.n = 0 /\ at.width = 0 THEN at
        ELSE [n |-> at.n \div 10, width |-> IF at.width = 0 THEN 0 ELSE at.width - 1,
              text |-> <<Digit[(at.n % 10) + 1]>> \o at.text]]

Decimal(n, width) == Iterate(DigitStep, [n |-> n, width |-> width, text |-> <<>>], MaxDigits).text

\* std::to_string(double): six decimals, rounded.
to_string(n) ==
    LET magnitude == IF n < 0 THEN -n ELSE n
        millionths == (magnitude + 5) \div 10
    IN  (IF n < 0 THEN <<"-">> ELSE <<>>)
        \o Decimal(millionths \div 1000000, 1) \o <<".">> \o Decimal(millionths % 1000000, 6)

\* Trailing zeros are cut, but the first decimal stays.
CutStep(s, dot) == [end \in 0 .. Len(s) |-> IF end > dot /\ s[end] = "0" THEN end - 1 ELSE end]

FormatDouble(n) ==
    LET s == to_string(n)
        dot == SelectInSeq(s, LAMBDA c : c = ".")
        end == Iterate(CutStep(s, dot), Len(s), Len(s))
    IN  SubSeq(s, 1, IF end = dot THEN end + 1 ELSE end)

tbl ==
    <<"A", "B", "C", "D", "E", "F", "G", "H", "I", "J", "K", "L", "M", "N", "O", "P", "Q", "R", "S", "T", "U", "V",
      "W", "X", "Y", "Z", "a", "b", "c", "d", "e", "f", "g", "h", "i", "j", "k", "l", "m", "n", "o", "p", "q", "r",
      "s", "t", "u", "v", "w", "x", "y", "z", "0", "1", "2", "3", "4", "5", "6", "7", "8", "9", "+", "/">>

\* Three bytes are four characters; what is left over is padded.
Base64Encode(data) ==
    LET byte(i) == IF i <= Len(data) THEN data[i] ELSE 0
        group(i) == byte(i) * 65536 + byte(i + 1) * 256 + byte(i + 2)
        used(i) == IF Len(data) - i >= 2 THEN 4 ELSE Len(data) - i + 2
    IN  FlattenSeq([g \in 1 .. (Len(data) + 2) \div 3 |->
            [k \in 1 .. 4 |-> IF k > used(3 * g - 2) THEN "="
                              ELSE tbl[((group(3 * g - 2) \div <<262144, 4096, 64, 1>>[k]) % 64) + 1]]])

\* The bytes of GetValue<std::string> of a BLOB, which is how DuckDB prints it:
\* a printable byte is itself and every other one, the quotes and the backslash
\* among them, is \xHH.
BlobToString(bytes) ==
    LET hex(d) == d + IF d < 10 THEN 48 ELSE 55
    IN  FlattenSeq([i \in 1 .. Len(bytes) |->
            IF bytes[i] \in (32 .. 126) \ {34, 39, 92} THEN <<bytes[i]>>
            ELSE <<92, 120, hex(bytes[i] \div 16), hex(bytes[i] % 16)>>])

\* The text types, and types without a case of their own, are quoted.
ValueToJson(value, type) ==
    CASE value = NULL \/ value = NotFinite -> <<"null">>
      [] value.form = "boolean" -> IF value.boolean THEN <<"true">> ELSE <<"false">>
      [] value.form = "number" -> FormatDouble(value.number)
      [] value.form = "blob" -> <<"\"">> \o Base64Encode(BlobToString(value.bytes)) \o <<"\"">>
      [] value.form = "text" -> IF type.base \in Integral \cup Wide \cup {"DECIMAL"} /\ ~type.list
                                THEN value.text ELSE JsonString(value.text)

-----------------------------------------------------------------------------
(* Rows.                                                                   *)

ASSUME SerializerAssumption ==
    /\ MaxRows \in Nat /\ MaxChunk \in Nat \ {0}
    /\ {"null", "true", "false", ",", "{", "}", ":", "-", ".", "="} \cup ToSet(Digit) \cup ToSet(tbl) \subseteq Characters
    /\ \A columns \in Tables :
          columns \in Seq([name : Seq(Characters), type : DOMAIN Values, nullable : BOOLEAN]) \ {<<>>}
    /\ \A type \in DOMAIN Values : Values[type] \subseteq ValueSet

\* The members of a row, without braces.
Members(columns, row) ==
    FlattenSeq([c \in 1 .. Len(columns) |->
        (IF c > 1 THEN <<",">> ELSE <<>>) \o JsonString(columns[c].name) \o <<":">>
        \o ValueToJson(row[c], columns[c].type)])

\* The r-th row of a collection, with its braces.
Object(columns, r, row) == (IF r > 1 THEN <<",">> ELSE <<>>) \o <<"{">> \o Members(columns, row) \o <<"}">>

\* The rows of a chunk, behind so many others.
Objects(columns, before, chunk) == FlattenSeq([r \in 1 .. Len(chunk) |-> Object(columns, before + r, chunk[r])])

RowSet(columns) ==
    {row \in [DOMAIN columns -> UNION {Values[columns[c].type] : c \in DOMAIN columns} \cup {NULL}] :
        \A c \in DOMAIN columns :
            row[c] \in Values[columns[c].type] \cup IF columns[c].nullable THEN {NULL} ELSE {}}

Init ==
    /\ table \in Tables /\ single \in BOOLEAN
    /\ pc = "fetch" /\ rows = <<>> /\ body = <<>> /\ rows_out = 0

\* Mutant of SerializeChunk: the comma is left out before a chunk's first row.
SerializeChunkBare(chunk) ==
    /\ pc = "fetch" /\ ~single
    /\ rows' = rows \o chunk /\ rows_out' = rows_out + Len(chunk)
    /\ body' = body \o Objects(table, 0, chunk)
    /\ UNCHANGED <<table, single, pc>>

\* SerializeRows, for one chunk.
SerializeChunk(chunk) ==
    /\ pc = "fetch" /\ ~single
    /\ rows' = rows \o chunk /\ rows_out' = rows_out + Len(chunk)
    /\ body' = body \o Objects(table, rows_out, chunk)
    /\ UNCHANGED <<table, single, pc>>

\* Mutant of SerializeFirstRowMembers: `out` is passed by value.
SerializeFirstRowLost(chunk) ==
    /\ pc = "fetch" /\ single
    /\ rows' = <<chunk[1]>> /\ UNCHANGED body
    /\ pc' = "done" /\ UNCHANGED <<table, single, rows_out>>

SerializeFirstRowMembers(chunk) ==
    /\ pc = "fetch" /\ single
    /\ rows' = <<chunk[1]>> /\ body' = Members(table, chunk[1])
    /\ pc' = "done" /\ UNCHANGED <<table, single, rows_out>>

\* Fetch returns nothing: the end of the rows, or no entity (404).
FetchEnds ==
    /\ pc = "fetch" /\ pc' = IF single THEN "notfound" ELSE "done"
    /\ UNCHANGED <<table, single, rows, body, rows_out>>

Next ==
    \/ \E n \in 1 .. MaxChunk : Len(rows) + n <= MaxRows /\ \E chunk \in [1 .. n -> RowSet(table)] :
           SerializeChunk(chunk) \/ SerializeFirstRowMembers(chunk)
    \/ FetchEnds

Spec == Init /\ [][Next]_vars

-----------------------------------------------------------------------------
(* Reference: what a JSON reader makes of the document.  A reader returns  *)
(* the set of its results, each with the position behind it: one, or none  *)
(* if the text is not JSON.                                                *)

\* One round of reading a string, at i, until its quote.
StringStep(s) ==
    LET Shorts(i) == {c \in DOMAIN Short : i < Len(s) /\ Short[c] = s[i + 1]}
        Controls(i) == {c \in DOMAIN Control : /\ i + 5 <= Len(s) /\ s[i + 1] = "u" /\ s[i + 2] = "0" /\ s[i + 3] = "0"
                                               /\ SubSeq(s, i + 4, i + 5) = Control[c]}
    IN  [at \in [i : Nat, text : Seq(Characters), closed : BOOLEAN] |->
            IF at.closed \/ at.i > Len(s) THEN at
            ELSE IF s[at.i] = "\"" THEN [at EXCEPT !.i = at.i + 1, !.closed = TRUE]
            ELSE IF s[at.i] = "\\" /\ Shorts(at.i) # {}
            THEN [at EXCEPT !.i = at.i + 2, !.text = Append(at.text, CHOOSE c \in Shorts(at.i) : TRUE)]
            ELSE IF s[at.i] = "\\" /\ Controls(at.i) # {}
            THEN [at EXCEPT !.i = at.i + 6, !.text = Append(at.text, CHOOSE c \in Controls(at.i) : TRUE)]
            ELSE IF s[at.i] \in DOMAIN Control \cup DOMAIN Short THEN [at EXCEPT !.i = Len(s) + 1]
            ELSE [at EXCEPT !.i = at.i + 1, !.text = Append(at.text, s[at.i])]]

\* The characters of a string from i, which is behind its quote, on.
ReadString(s, i) ==
    LET end == Iterate(StringStep(s), [i |-> i, text |-> <<>>, closed |-> FALSE], Len(s)) IN
    IF end.closed THEN {[next |-> end.i, quoted |-> TRUE, text |-> end.text]} ELSE {}

DigitsOnly(s) == s # <<>> /\ ToSet(s) \subseteq ToSet(Digit)

\* A number: an optional sign, digits, and optionally a dot and digits.
IsNumber(s) ==
    \E sign, dot \in 0 .. Len(s) :
        /\ sign \in 0 .. 1 /\ (sign = 1 => s[1] = "-")
        /\ IF dot = 0 THEN DigitsOnly(SubSeq(s, sign + 1, Len(s)))
           ELSE /\ s[dot] = "." /\ DigitsOnly(SubSeq(s, sign + 1, dot - 1))
                /\ DigitsOnly(SubSeq(s, dot + 1, Len(s)))

ReadValue(s, i) ==
    IF i <= Len(s) /\ s[i] = "\"" THEN ReadString(s, i + 1)
    ELSE {v \in {[next |-> j, quoted |-> FALSE, text |-> SubSeq(s, i, j - 1)] : j \in i .. Len(s)} :
             /\ v.text \in {<<"null">>, <<"true">>, <<"false">>} \/ IsNumber(v.text)
             /\ s[v.next] \in {",", "}"}}

\* An object's members [name, quoted, text] from i on, behind its brace.
ReadMembers(s, i) ==
    LET from[k \in 1 .. Len(s)] ==
            UNION {UNION {
                LET member == [name |-> name.text, quoted |-> value.quoted, text |-> value.text] IN
                CASE s[value.next] = "," ->
                        {[more EXCEPT !.members = <<member>> \o more.members] : more \in from[value.next + 1]}
                  [] s[value.next] = "}" -> {[next |-> value.next + 1, members |-> <<member>>]}
                  [] OTHER -> {}
                : value \in ReadValue(s, name.next + 1)}
                : name \in {n \in ReadValue(s, k) : n.quoted /\ s[n.next] = ":"}}
    IN  from[i]

\* The objects of an array from i, where one begins, on.
ReadObjects(s, i) ==
    LET from[k \in 1 .. Len(s)] ==
            UNION {
                CASE s[object.next] = "," ->
                        {[more EXCEPT !.objects = <<object.members>> \o more.objects] : more \in from[object.next + 1]}
                  [] s[object.next] = "]" -> {[next |-> object.next + 1, objects |-> <<object.members>>]}
                  [] OTHER -> {}
                : object \in IF s[k] = "{" THEN ReadMembers(s, k + 1) ELSE {}}
    IN  from[i]

\* The document around the rows, and around a single entity's members.
Document == IF single THEN <<"{">> \o body \o <<"}">> ELSE <<"[">> \o body \o <<"]">>

\* The rows that the whole document tells its reader.
Read ==
    LET objects == {[next |-> o.next, objects |-> <<o.members>>] : o \in ReadMembers(Document, 2)}
        all == IF single THEN objects
               ELSE IF Document = <<"[", "]">> THEN {[next |-> 3, objects |-> <<>>]}
               ELSE ReadObjects(Document, 2)
    IN  {read.objects : read \in {r \in all : r.next = Len(Document) + 1}}

\* The value of digits, and of a number in units of 10^-7.
Numeral(s) ==
    LET value[k \in 0 .. Len(s)] ==
            IF k = 0 THEN 0 ELSE 10 * value[k - 1] + (CHOOSE d \in 0 .. 9 : Digit[d + 1] = s[k])
    IN  value[Len(s)]

NumberOf(s) ==
    LET t == IF s[1] = "-" THEN Tail(s) ELSE s
        dot == SelectInSeq(t, LAMBDA c : c = ".")
        fraction == SubSeq(t, dot + 1, Len(t))
        magnitude == Numeral(SubSeq(t, 1, dot - 1)) * 10000000 + Numeral(fraction) * 10 ^ (7 - Len(fraction))
    IN  IF s[1] = "-" THEN -magnitude ELSE magnitude

\* The bytes that a padded Base64 text stands for.
Base64Decode(s) ==
    LET sextet(c) == IF c = "=" THEN 0 ELSE (CHOOSE k \in 1 .. 64 : tbl[k] = c) - 1
        group(g) == 262144 * sextet(s[4 * g - 3]) + 4096 * sextet(s[4 * g - 2])
                    + 64 * sextet(s[4 * g - 1]) + sextet(s[4 * g])
        padding == Len(SelectSeq(s, LAMBDA c : c = "="))
        all == FlattenSeq([g \in 1 .. Len(s) \div 4 |->
                   <<group(g) \div 65536, (group(g) \div 256) % 256, group(g) % 256>>])
    IN  SubSeq(all, 1, Len(all) - padding)

\* The bytes that printed ones stand for: an escape begins at each backslash.
Unprinted(s) ==
    LET nibble(code) == code - IF code < 65 THEN 48 ELSE 55
        from[i \in 1 .. Len(s) + 4] ==
            IF i > Len(s) THEN <<>>
            ELSE IF s[i] = 92 /\ i + 3 <= Len(s) THEN <<16 * nibble(s[i + 2]) + nibble(s[i + 3])>> \o from[i + 4]
            ELSE <<s[i]>> \o from[i + 1]
    IN  from[1]

\* Whether a member tells its reader the value.
Tells(member, value) ==
    CASE value = NULL \/ value = NotFinite -> ~member.quoted /\ member.text = <<"null">>
      [] value.form = "boolean" -> member.text = IF value.boolean THEN <<"true">> ELSE <<"false">>
      [] value.form = "number" ->
             /\ ~member.quoted /\ IsNumber(member.text)
             /\ NumberOf(member.text) - value.number \in -5 .. 5
      [] value.form = "blob" -> /\ member.quoted /\ Len(member.text) % 4 = 0
                                /\ Unprinted(Base64Decode(member.text)) = value.bytes
      [] value.form = "text" -> member.text = value.text

-----------------------------------------------------------------------------
(* Properties.                                                             *)

TypeOK ==
    /\ table \in Tables /\ single \in BOOLEAN /\ pc \in {"fetch", "done", "notfound"}
    /\ rows \in Seq(RowSet(table)) /\ Len(rows) <= MaxRows /\ rows_out \in 0 .. MaxRows
    /\ body # <<>> <=> rows # <<>>

(* SerializeRows: the chunks do not show.  What has been written is what   *)
(* one chunk with all the rows would have been written as, with a comma    *)
(* between any two of them and nowhere else, and the rows are counted over *)
(* all chunks; a single entity has the members of the first row alone.     *)
ChunksDoNotShow ==
    IF single THEN rows = <<>> \/ body = Members(table, rows[1])
    ELSE body = Objects(table, 0, rows) /\ rows_out = Len(rows)

(* SerializeRows, SerializeFirstRowMembers: however DuckDB cuts the result  *)
(* into chunks and whatever characters, bytes and numbers are in it, what  *)
(* has been written is JSON, and its reader gets the rows fetched so far,  *)
(* in order, under the columns' names: strings exactly, binary data in the *)
(* form DuckDB prints it in, from which every byte can be had back, and    *)
(* floating-point numbers to half a millionth.  The number of rows, from   *)
(* which the next link is made, is the number the reader sees.             *)
DocumentTellsRows ==
    rows # <<>> \/ ~single =>
        \E objects \in Read :
            /\ Len(objects) = Len(rows) /\ (~single => rows_out = Len(rows))
            /\ \A r \in DOMAIN rows :
                   /\ DOMAIN objects[r] = DOMAIN table
                   /\ \A c \in DOMAIN table :
                          /\ objects[r][c].name = table[c].name
                          /\ Tells(objects[r][c], rows[r][c])

\* The types that the two tables of types treat alike.  BIT is announced as
\* binary data but written as a text of digits; a list of a type with
\* parameters is announced as its elements but written as one text.
Alike(type) == type.base # "BIT" /\ ~(type.list /\ type.params)

\* Whether a member has the form that $metadata announces for its column.
FormAnnounced(member, column, value) ==
    IF member.text = <<"null">> /\ ~member.quoted THEN column.nullable \/ value = NotFinite
    ELSE LET edm == DuckDBTypeToEdm(column.type) IN
         CASE edm = "Boolean" -> ~member.quoted /\ member.text[1] \in {"true", "false"}
           [] edm \in {"Int", "Decimal", "Double"} -> ~member.quoted /\ IsNumber(member.text)
           [] edm = "Binary" -> member.quoted /\ Len(member.text) % 4 = 0
           [] edm = Unsupported -> TRUE
           [] OTHER -> member.quoted

(* DuckDBTypeToEdm and ValueToJson are separate tables of the same types.  *)
(* What $metadata announces for a column is what a reader finds in it:     *)
(* words for Edm.Boolean, numbers for the numeric types, Base64 text for   *)
(* Edm.Binary, text otherwise, and null only where it is allowed or the    *)
(* number is not finite; lists are not announced at all.                   *)
ValuesAsAnnounced ==
    \A objects \in Read : \A r \in DOMAIN objects, c \in DOMAIN table :
        Alike(table[c].type) => FormAnnounced(objects[r][c], table[c], rows[r][c])
=============================================================================
