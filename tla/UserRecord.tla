----------------------------- MODULE UserRecord -----------------------------
(***************************************************************************)
(* The way of a value from a form of P2ChatClient to a row of user_info    *)
(* and back: SetAttr, CreateMessage, the constructor of the server's       *)
(* Message, GetAttrAs..., DBBind, the INSERT, a SELECT in one of the four  *)
(* kinds of result, and DBGetField....                                     *)
(*                                                                         *)
(* user_registration_info stores the numbers and texts of one message in   *)
(* one row and reads one number back.  The model has an attribute, and a   *)
(* column, of each kind of value that both libraries know, and reads every *)
(* field of every row in any order.                                        *)
(***************************************************************************)
EXTENDS Message, DbFields

CONSTANTS
    Kind,            \* Kind[a] is the kind of value of attribute code a
    Form,            \* what users fill in: form[a] is the value of attribute a
    UnsignedColumn,  \* the attributes whose columns are UNSIGNED
    Capacity,        \* the characters that a VARCHAR takes
    BufferSize,      \* sizes of the buffers for texts
    MaxUDPPacket,    \* kMaxUDPPacket, the bytes of a datagram that the server has room for
    ByteCount,       \* how many bytes the caller of a byte getter wants
    None,            \* no form, no message, no result, no reading
    MaxRows,         \* bound: rows of the table
    MaxChanges,      \* bound: attributes that are set again
    MaxSelects       \* bound: SELECTs

Attr == DOMAIN Kind
UnsetColumn == Len(Kind) + 1   \* a column that no message has a value for

\* What an attribute of a kind can hold: numbers of its width, as bits, and
\* characters and bytes as many as there are.  A text of a dialog has no 0, at
\* which the server would end it.
Holdable(kind, v) ==
    CASE kind \in {"int32", "uint32"} -> Len(v) = 1 /\ v[1] < Narrow
      [] kind \in {"int64", "uint64"} -> Len(v) = 1 /\ v[1] < Wide
      [] kind = "float"               -> Len(v) = 1
      [] kind = "bytes"               -> \A i \in DOMAIN v : v[i] < Octet
      [] kind = "string"              -> \A i \in DOMAIN v : v[i] > 0

ASSUME RecordAssumption ==
    /\ Kind \in Seq({"int32", "uint32", "int64", "uint64", "string", "bytes", "float"})
    /\ Kind # << >>
    /\ \A f \in Form : f \in [Attr -> Seq(Nat)] /\ \A a \in Attr : Holdable(Kind[a], f[a])
    /\ Capacity \in Nat
    /\ BufferSize \subseteq Nat \ {0}
    /\ MaxUDPPacket \in Nat
    /\ ByteCount \in 0 .. 127   \* as DBGetFieldByteArray can give
    /\ MaxRows \in Nat /\ MaxChanges \in Nat /\ MaxSelects \in Nat

VARIABLES
    message,    \* the client's message
    form,       \* history: what each attribute was set to last
    network,    \* the datagrams on their way, at most one
    received,   \* what the server made of the last datagram: a message, or None
    user_info,  \* the table
    written,    \* history: the form of every row
    result,     \* the result of a SELECT, or None
    reading,    \* history: what was read last, or None
    changes, selects  \* counters for the bounds

clientVars == <<message, form, changes>>
tableVars == <<user_info, written>>
readerVars == <<result, reading, selects>>
vars == <<clientVars, network, received, tableVars, readerVars>>

-----------------------------------------------------------------------------
(* The client                                                              *)

\* The overloads of SetAttr: a type and a sign for each kind of value.
TypeFor == [int32 |-> "dt_int32", uint32 |-> "dt_int32", int64 |-> "dt_int64",
            uint64 |-> "dt_int64", string |-> "dt_string", bytes |-> "dt_binary",
            float |-> "dt_float32"]
SignFor(kind) ==
    CASE kind \in {"int32", "int64"}   -> "af_signed"
      [] kind \in {"uint32", "uint64"} -> "af_unsigned"
      [] OTHER                         -> "af_none"

AttrValue(a, v) == Value(TypeFor[Kind[a]], SignFor(Kind[a]), v)

\* All attributes are set, in the order of the dialog.
FilledIn(f) ==
    LET set[a \in 0 .. Len(Kind)] ==
            IF a = 0 THEN NewMessage({}, Len(user_info))
            ELSE SetAttr(set[a - 1], a, AttrValue(a, f[a]))
    IN  set[Len(Kind)]

\* One message is under way at a time.
dealRegister(f) ==
    /\ message.fAttrs = << >> /\ network = << >> /\ Len(user_info) < MaxRows
    /\ message' = FilledIn(f)
    /\ form' = f
    /\ UNCHANGED <<changes, network, received, tableVars, readerVars>>

\* An attribute is set again.
Change(a, v) ==
    /\ message.fAttrs # << >> /\ v # form[a] /\ changes < MaxChanges
    /\ message' = SetAttr(message, a, AttrValue(a, v))
    /\ form' = [form EXCEPT ![a] = v]
    /\ changes' = changes + 1
    /\ UNCHANGED <<network, received, tableVars, readerVars>>

SendMessage ==
    /\ message.fAttrs # << >>
    /\ network' = Append(network, CreateMessage(message))
    /\ message' = NewMessage({}, 0)
    /\ UNCHANGED <<form, changes, received, tableVars, readerVars>>

-----------------------------------------------------------------------------
(* The server                                                              *)

Parameter(a, value) ==
    DBBind(Unbound, Kind[a], IF Kind[a] = "bytes" THEN bin_to_str(value) ELSE value)

\* What the column of a is sent.  Floating point numbers are not stored.
Sent(a, value) ==
    LET b == Parameter(a, value)
    IN  IF Kind[a] = "float" THEN Null
        ELSE IF b.type = "STRING" THEN Text(b.buffer) ELSE Number(NumberSent(b))

Takes(a, f) ==
    CASE f.is = "null"   -> TRUE
      [] f.is = "text"   -> Len(f.t) <= Capacity
      [] f.is = "number" ->
            f.n \in Column(IF Kind[a] \in {"int32", "uint32"} THEN Narrow ELSE Wide,
                           a \in UnsignedColumn)

Row(m) ==
    [a \in Attr \cup {UnsetColumn} |-> IF a = UnsetColumn THEN Null ELSE Sent(a, GetAttr(m, a))]

\* The bytes that the client sends are those that the message says it has.
DatagramSize(raw) == Val(Swap(raw.size))

\* The message is read, its values are bound, and the row is inserted, unless
\* a column refuses its value.
HandleMessage ==
    /\ network # << >> /\ DatagramSize(Head(network)) <= MaxUDPPacket
    /\ network' = Tail(network)
    /\ received' = Message(Head(network))
    /\ IF \A a \in Attr : Takes(a, Sent(a, GetAttr(received', a)))
       THEN /\ user_info' = Append(user_info, Row(received'))
            /\ written' = Append(written, form)
       ELSE UNCHANGED tableVars
    /\ UNCHANGED <<clientVars, readerVars>>

\* ReadMessage has a buffer of kMaxUDPPacket bytes.  With more recvfrom fails,
\* the datagram is gone, and there is no message; the answer, which says so, is
\* left out.
RefuseMessage ==
    /\ network # << >> /\ DatagramSize(Head(network)) > MaxUDPPacket
    /\ network' = Tail(network)
    /\ received' = None
    /\ UNCHANGED <<clientVars, tableVars, readerVars>>

-----------------------------------------------------------------------------
(* The readers of the table                                                *)

Select(prepared, unbuffered) ==
    /\ result = None /\ user_info # << >> /\ selects < MaxSelects
    /\ result' = Result(prepared, unbuffered, user_info)
    /\ selects' = selects + 1
    /\ UNCHANGED <<reading, clientVars, network, received, tableVars>>

Fetch ==
    /\ result # None /\ result.unbuffered /\ ~result.noMoreRows
    /\ result' = DBFetch(result)
    /\ reading' = None
    /\ UNCHANGED <<selects, clientVars, network, received, tableVars>>

\* The getter for a kind of value; the buffer of the number and byte getters is
\* large enough for both.
Get(kind, f) ==
    CASE kind = "int32"  -> DBGetFieldLong(f)
      [] kind = "uint32" -> DBGetFieldULong(f)
      [] kind = "int64"  -> DBGetFieldInt64(f)
      [] kind = "uint64" -> DBGetFieldUInt64(f)
      [] kind = "string" -> f
      [] kind = "bytes"  -> <<DBGetFieldByteArray2(f, ByteCount, 255),
                              DBGetFieldByteArray(f, ByteCount, 255)>>

GetterBuffer == 256

Read(iRow, a, kind, size) ==
    /\ result # None
    /\ OnRow(result, iRow)
    /\ result' = Seek(result, iRow)
    /\ reading' = [row |-> IF result.unbuffered THEN result.position ELSE iRow,
                   column |-> a, kind |-> kind, size |-> size,
                   plain |-> result.unbuffered /\ ~result.prepared,
                   value |-> Get(kind, DBGetField(result, iRow, a, size))]
    /\ UNCHANGED <<selects, clientVars, network, received, tableVars>>

\* A text is read into a buffer of the caller, or one that DBGetField takes for
\* it, and a column that is NULL by every getter for numbers.
ReadField(iRow, a) ==
    \/ /\ a \in Attr /\ Kind[a] \notin {"string", "float"}
       /\ Read(iRow, a, Kind[a], GetterBuffer)
    \/ /\ a \in Attr /\ Kind[a] = "string"
       /\ \E size \in BufferSize \cup {NoBuffer} : Read(iRow, a, "string", size)
    \/ /\ a = UnsetColumn
       /\ \E kind \in {"int32", "uint32", "int64", "uint64"} :
             Read(iRow, a, kind, GetterBuffer)

FreeResult ==
    /\ result # None
    /\ result' = None
    /\ reading' = None
    /\ UNCHANGED <<selects, clientVars, network, received, tableVars>>

-----------------------------------------------------------------------------

Init ==
    /\ message = NewMessage({}, 0)
    /\ form = None /\ network = << >> /\ received = None
    /\ user_info = << >> /\ written = << >>
    /\ result = None /\ reading = None
    /\ changes = 0 /\ selects = 0

Next ==
    \/ \E f \in Form : dealRegister(f)
    \/ \E a \in Attr, f \in Form : Change(a, f[a])
    \/ SendMessage
    \/ HandleMessage
    \/ RefuseMessage
    \/ \E prepared, unbuffered \in BOOLEAN : Select(prepared, unbuffered)
    \/ Fetch
    \/ \E iRow \in 0 .. MaxRows - 1, a \in Attr \cup {UnsetColumn} : ReadField(iRow, a)
    \/ FreeResult

Spec == Init /\ [][Next]_vars

-----------------------------------------------------------------------------

\* Once the client has sent a form, whatever was set again on the way, the
\* server has a message with the attributes, and no others, with the values that
\* they were set to last; only of a floating point number that is not 0 the bits
\* are lost.  It has none if and only if a message that is filled in with these
\* values at once has more bytes than the server has room for (CreateMessage,
\* Message::set, Message::Message, ReadMessage).
Delivered ==
    form # None /\ message.fAttrs = << >> /\ network = << >> =>
        IF GetSize(FilledIn(form)) > MaxUDPPacket
        THEN received = None
        ELSE /\ received.fAttrNum = Len(received.fAttrs)
             /\ Len(received.fAttrs) = Len(Kind)
             /\ \A a \in Attr :
                   /\ IsAttrExist(received, a)
                   /\ \/ Kind[a] = "float" /\ form[a] # <<0>>
                      \/ GetAttr(received, a) = form[a]

\* What a field was given, as the getter of its kind should return it.
Wanted(kind, v, size) ==
    CASE kind = "int32"              -> Signed(v[1], Narrow)
      [] kind = "int64"              -> Signed(v[1], Wide)
      [] kind \in {"uint32", "uint64"} -> v[1]
      [] kind = "string"             -> Text(SubSeq(v, 1, IF size = NoBuffer \/ Len(v) < size
                                                          THEN Len(v) ELSE size - 1))
      [] kind = "bytes"              -> <<Filled(v, ByteCount, 0),
                                          Filled([i \in DOMAIN v |-> Signed(v[i], Octet)], ByteCount, 255)>>

\* The characters of the field that a getter reads.
TextLength(kind, v) ==
    CASE kind = "string" -> Len(v)
      [] kind = "bytes"  -> 2 * Len(v)
      [] OTHER           -> 0

\* Every field of every row that was accepted is read back as it was set in the
\* form, in each kind of result and in any order; a column that is NULL is read
\* as 0.  Two texts are not: one that is longer than the caller's buffer, and,
\* in a plain unbuffered result, which cuts the first kind, one with characters
\* of more than one byte (DBBind, DBGetField and its kin, Seek in
\* GetFieldInternal).
ReadBack ==
    LET v == written[reading.row + 1][reading.column]
        wide == reading.plain /\ \E i \in DOMAIN v : v[i] > 127
        long == /\ ~reading.plain /\ reading.size # NoBuffer
                /\ TextLength(reading.kind, v) >= reading.size
    IN  reading # None =>
            IF reading.column = UnsetColumn THEN reading.value = 0
            ELSE \/ reading.kind = "string" /\ wide
                 \/ long
                 \/ reading.value = Wanted(reading.kind, v, reading.size)

=============================================================================
