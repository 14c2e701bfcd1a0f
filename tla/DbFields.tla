------------------------------ MODULE DbFields ------------------------------
(***************************************************************************)
(* The values of p2_dbapi.cpp and mysqldrv.cpp: how DBBind hands a value   *)
(* to a statement, and what the getters of the four kinds of result make   *)
(* of the text in which MySQL gives every field back.                      *)
(*                                                                         *)
(* A character is its code, a text is a sequence of characters.  A number  *)
(* in memory is its bits, a number from 0 to 2^width - 1: a width is given *)
(* by how many numbers there are of it.                                    *)
(***************************************************************************)
EXTENDS Integers, Sequences

CONSTANTS
    Narrow,  \* 2^32: INT32, UINT32 and long
    Wide     \* 2^64: INT64, UINT64 and long long

\* A power of two is even, which is all that matters here.
ASSUME WidthAssumption ==
    /\ Narrow \in Nat \ {0} /\ Narrow % 2 = 0
    /\ Wide \in Nat /\ Wide % 2 = 0 /\ Narrow < Wide

\* 2^8, for a byte.
Octet == 256

Signed(bits, width) == IF bits >= width \div 2 THEN bits - width ELSE bits
Bits(n, width) == n % width

\* How many bytes a character, and a text, takes in UTF-8.
Utf8Size(c) == IF c < 128 THEN 1 ELSE IF c < 2048 THEN 2 ELSE 3

Utf8Length(text) ==
    LET bytes[n \in 0 .. Len(text)] ==
            IF n = 0 THEN 0 ELSE bytes[n - 1] + Utf8Size(text[n])
    IN  bytes[Len(text)]

-----------------------------------------------------------------------------
(* Hexadecimal text                                                        *)

bin2hex(x) == IF x < 10 THEN x + 48 ELSE x + 55

\* Letters may be small; whatever is no digit counts as 0.
hex2bin(c) == CASE c \in 48 .. 57  -> c - 48
                [] c \in 65 .. 70  -> c - 55
                [] c \in 97 .. 102 -> c - 87
                [] OTHER           -> 0

bin_to_str(data) ==
    [i \in 1 .. 2 * Len(data) |->
        LET byte == data[(i + 1) \div 2]
        IN  bin2hex(IF i % 2 = 1 THEN byte \div 16 ELSE byte % 16)]

Digit(text, i) == IF i <= Len(text) THEN hex2bin(text[i]) ELSE 0

\* At most size bytes; an odd digit at the end is the high half of a byte.
str_to_bin(text, size) ==
    LET count == (Len(text) + 1) \div 2
    IN  [i \in 1 .. IF count < size THEN count ELSE size |->
            16 * Digit(text, 2 * i - 1) + Digit(text, 2 * i)]

-----------------------------------------------------------------------------
(* Parameters                                                              *)

\* A parameter of a statement that was just prepared.
Unbound == [type |-> "none", is_unsigned |-> FALSE, buffer |-> << >>]

\* The type of C under which DBBind passes on a value: an unsigned number of 32
\* bits as a signed one.
CType(kind) ==
    CASE kind \in {"string", "bytes"} -> "STRING"
      [] kind \in {"int32", "uint32"} -> "INT32"
      [] kind = "int64"               -> "INT64"
      [] kind = "uint64"              -> "UINT64"

\* DrvBind.  The flag is never taken back.
DrvBind(b, cType, value) ==
    [type |-> CASE cType = "STRING"              -> "STRING"
                [] cType \in {"INT32", "UINT32"} -> "LONG"
                [] cType \in {"INT64", "UINT64"} -> "LONGLONG",
     is_unsigned |-> b.is_unsigned \/ cType \in {"UINT32", "UINT64"},
     buffer |-> value]

DBBind(b, kind, value) == DrvBind(b, CType(kind), value)

-----------------------------------------------------------------------------
(* The server: what it is sent for a parameter, and what a column takes    *)

\* In strict mode a column refuses what does not fit.
Column(width, unsigned) ==
    IF unsigned THEN 0 .. width - 1 ELSE -(width \div 2) .. (width \div 2) - 1

NumberSent(b) ==
    LET width == IF b.type = "LONG" THEN Narrow ELSE Wide
        bits == Bits(b.buffer[1], width)
    IN  IF b.is_unsigned THEN bits ELSE Signed(bits, width)

\* What a field can hold.
Null == [is |-> "null"]
Number(n) == [is |-> "number", n |-> n]
Text(t) == [is |-> "text", t |-> t]

-----------------------------------------------------------------------------
(* Results                                                                 *)

\* currentRow is what the driver believes, position where the cursor of the
\* connector is; -1 is before the first row.
Result(prepared, unbuffered, rows) ==
    [prepared |-> prepared, unbuffered |-> unbuffered, rows |-> rows,
     currentRow |-> -1, position |-> -1, noMoreRows |-> FALSE]

\* Mutant: the row is noted, but the cursor is not moved there.
SeekForgotten(r, iRow) ==
    IF r.unbuffered THEN r
    ELSE IF r.prepared /\ r.position >= 0 THEN [r EXCEPT !.currentRow = iRow]
    ELSE [r EXCEPT !.position = iRow, !.currentRow = iRow]

\* A prepared result moves only if the row is another one than last time, an
\* unbuffered one not at all.
Seek(r, iRow) ==
    IF r.unbuffered \/ (r.prepared /\ r.currentRow = iRow) THEN r
    ELSE [r EXCEPT !.position = iRow, !.currentRow = iRow]

\* DrvFetch.
DBFetch(r) ==
    IF r.noMoreRows THEN r
    ELSE [r EXCEPT !.position = @ + 1, !.noMoreRows = r.position + 1 >= Len(r.rows)]

\* Is there a row to take a field from?
OnRow(r, iRow) ==
    IF r.unbuffered THEN r.position >= 0 /\ ~r.noMoreRows
                    ELSE iRow \in 0 .. Len(r.rows) - 1

FieldHere(r, iColumn) == r.rows[r.position + 1][iColumn]

\* A buffer of wide characters has what was there before where nothing is
\* written, and ends at the first 0.
Unset == -1

\* What MultiByteToWideChar makes of the first n bytes of a text: a character
\* that is cut becomes the replacement character.
Decoded(text, n) ==
    LET whole == {k \in 0 .. Len(text) : Utf8Length(SubSeq(text, 1, k)) <= n}
        k == CHOOSE k \in whole : \A j \in whole : j <= k
        cut == k < Len(text) /\ Utf8Length(SubSeq(text, 1, k)) < n
    IN  SubSeq(text, 1, k) \o IF cut THEN <<65533>> ELSE << >>

\* The buffer that DBGetField takes for itself if the caller has none: as many
\* characters as the text has bytes, and the 0.
NoBuffer == 0
OwnBuffer(text) == Utf8Length(text) + 1

\* GetFieldInternal and DrvGetFieldUnbuffered.  The plain unbuffered result
\* takes the number of bytes for the number of characters.  The others give
\* MultiByteToWideChar a buffer that can be too small: then it fails, and what
\* is in the buffer, up to the 0 at its end, is not documented.
TextInto(r, text, size) ==
    CASE r.unbuffered /\ ~r.prepared ->
            LET iLen == IF Utf8Length(text) < size THEN Utf8Length(text) ELSE size - 1
                chars == Decoded(text, iLen)
            IN  [i \in 1 .. iLen |-> IF i <= Len(chars) THEN chars[i] ELSE Unset]
      [] ~(r.unbuffered /\ ~r.prepared) ->
            IF Len(text) < size THEN text ELSE [i \in 1 .. size - 1 |-> Unset]

\* DBGetField: the NULL of a plain buffered result is a null pointer, that of
\* the others an empty text.
DBGetField(r, iRow, iColumn, size) ==
    IF ~OnRow(r, iRow) THEN Null
    ELSE LET f == FieldHere(Seek(r, iRow), iColumn)
         IN  CASE f.is = "null"   -> IF r.prepared \/ r.unbuffered THEN Text(<< >>) ELSE Null
               [] f.is = "number" -> f
               [] f.is = "text"   -> Text(TextInto(r, f.t, IF size = NoBuffer THEN OwnBuffer(f.t)
                                                                              ELSE size))

-----------------------------------------------------------------------------
(* Getters: what they make of the field that DBGetField gives them         *)

\* A null pointer and an empty text count as 0.
NumberIn(f) == IF f.is = "number" THEN f.n ELSE 0

\* strtol and strtoul stop at the ends of their range.
Strtol(n, width) ==
    CASE n < -(width \div 2)     -> -(width \div 2)
      [] n > (width \div 2) - 1  -> (width \div 2) - 1
      [] OTHER                   -> n
Strtoul(n, width) == IF n > width - 1 THEN width - 1 ELSE n

\* The bits of a negative number are taken as they are.
GetUnsigned(f, width) ==
    IF NumberIn(f) < 0 THEN Bits(Strtol(NumberIn(f), width), width)
                       ELSE Strtoul(NumberIn(f), width)

DBGetFieldLong(f) == Strtol(NumberIn(f), Narrow)
DBGetFieldULong(f) == GetUnsigned(f, Narrow)
DBGetFieldInt64(f) == Strtol(NumberIn(f), Wide)
DBGetFieldUInt64(f) == GetUnsigned(f, Wide)

Filled(data, size, fill) ==
    [i \in 1 .. size |-> IF i <= Len(data) THEN data[i] ELSE fill]

\* Whole bytes only, each as a char, which has a sign.
DBGetFieldByteArray(f, nSize, nDefault) ==
    LET bytes == IF f.is = "text" THEN str_to_bin(SubSeq(f.t, 1, 2 * (Len(f.t) \div 2)), 128)
                                  ELSE << >>
    IN  Filled([i \in DOMAIN bytes |-> Signed(bytes[i], Octet)], nSize, nDefault)

DBGetFieldByteArray2(f, nSize, nDefault) ==
    IF f.is = "text" THEN Filled(str_to_bin(f.t, nSize), nSize, 0)
                     ELSE Filled(<< >>, nSize, nDefault)

=============================================================================
