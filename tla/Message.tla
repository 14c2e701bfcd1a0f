------------------------------- MODULE Message -------------------------------
(***************************************************************************)
(* A Message of p2_cpapi.cpp and the datagram it becomes: the table of     *)
(* attributes, their sizes, and the order of the bytes.                    *)
(*                                                                         *)
(* What an attribute holds is a sequence of units: a number is one unit, a *)
(* string one for each character, binary data one for each byte.  A unit   *)
(* or a size is a field, which knows whether its bytes are swapped.        *)
(***************************************************************************)
EXTENDS Naturals, Sequences, SequencesExt

-----------------------------------------------------------------------------
(* The order of the bytes                                                  *)

Field(v) == [v |-> v, swapped |-> FALSE]

\* htons, htonl, htonll, and their inverses.
Swap(f) == [f EXCEPT !.swapped = ~@]

\* What the program reads: a small number with its bytes swapped is large.
Far == 65536
Val(f) == IF f.swapped THEN f.v * Far ELSE f.v

\* htonf and htond return an integer, which the assignment to f32 or f64
\* converts to a floating point number: other bits, unless all are 0.
AssignInteger(f) == Field(Val(Swap(f)) + IF f.v = 0 THEN 0 ELSE 1)

\* The flags of a message are 16 bits.
mf_binary == 0
mf_end_of_file == 1
SwapFlags(flags) == {(b + 8) % 16 : b \in flags}

-----------------------------------------------------------------------------
(* Attributes                                                              *)

MESSAGE_HEADER_SIZE == 16
ATTR_HEADER_SIZE == 6

Integers16To64 == {"dt_int16", "dt_int32", "dt_int64"}
Floats == {"dt_float32", "dt_float64"}
Sized == {"dt_binary", "dt_string"}

Bytes == [dt_int16 |-> 2, dt_int32 |-> 4, dt_int64 |-> 8,
          dt_float32 |-> 4, dt_float64 |-> 8]

\* What an attribute is made from: its type, af_signed or af_unsigned for an
\* integer, and what it holds.
Value(dataType, flags, data) == [dataType |-> dataType, flags |-> flags, data |-> data]

NewAttr(attrCode, value) ==
    [code |-> Field(attrCode), dataType |-> value.dataType, flags |-> value.flags,
     size |-> Field(CASE value.dataType = "dt_binary" -> Len(value.data)
                      [] value.dataType = "dt_string" -> 2 * Len(value.data)
                      [] OTHER -> 0),
     units |-> [i \in DOMAIN value.data |-> Field(value.data[i])]]

CalculateAttrSize(attr, networkByteOrder) ==
    LET size == IF networkByteOrder THEN Swap(attr.size) ELSE attr.size
    IN  ATTR_HEADER_SIZE + IF attr.dataType \in Sized THEN 4 + Val(size)
                                                      ELSE Bytes[attr.dataType]

\* The sizes added up: where each attribute ends, and so the next one begins.
AttrEnds(attrs) ==
    LET end[n \in 0 .. Len(attrs)] ==
            IF n = 0 THEN 0 ELSE end[n - 1] + CalculateAttrSize(attrs[n], FALSE)
    IN  end

CalculateTotalAttrSize(attrs) == AttrEnds(attrs)[Len(attrs)]

SwapFirst(units, n) == [i \in DOMAIN units |-> IF i <= n THEN Swap(units[i]) ELSE units[i]]

\* CreateMessage swaps the characters of a string while it can read the size.
ToNetwork(attr) ==
    [attr EXCEPT !.code = Swap(@),
                 !.size = Swap(@),
                 !.units = CASE attr.dataType \in Integers16To64 -> SwapFirst(@, 1)
                             [] attr.dataType \in Floats -> <<AssignInteger(@[1])>>
                             [] attr.dataType = "dt_string" -> SwapFirst(@, Val(attr.size) \div 2)
                             [] OTHER -> @]

\* The constructor swaps the size first.
ToHost(attr) ==
    LET size == Swap(attr.size)
    IN  [attr EXCEPT !.code = Swap(@),
                     !.size = size,
                     !.units = CASE attr.dataType \in Integers16To64 \cup Floats -> SwapFirst(@, 1)
                                 [] attr.dataType = "dt_string" -> SwapFirst(@, Val(size) \div 2)
                                 [] OTHER -> @]

-----------------------------------------------------------------------------
(* The object                                                              *)

\* The flags are set before the attributes, as every caller does.
NewMessage(flags, msgID) ==
    [fFlags |-> flags, fMsgID |-> msgID, fAttrNum |-> 0, fAttrs |-> << >>]

IsBinary(m) == mf_binary \in m.fFlags
IsAttrExist(m, attrCode) == \E i \in DOMAIN m.fAttrs : Val(m.fAttrs[i].code) = attrCode

\* Where the attribute with a code is in the table, which has no code twice.
PlaceOf(m, attrCode) == CHOOSE i \in DOMAIN m.fAttrs : Val(m.fAttrs[i].code) = attrCode

findAttr(m, attrCode) == m.fAttrs[PlaceOf(m, attrCode)]

\* The table after HASH_DEL of what findAttr returns, if it returns anything.
Without(m, attrCode) ==
    IF IsAttrExist(m, attrCode) THEN RemoveAt(m.fAttrs, PlaceOf(m, attrCode)) ELSE m.fAttrs

\* Mutant: an attribute that takes the place of another is counted.
SetAttrCounted(m, attrCode, value) ==
    [m EXCEPT !.fAttrNum = @ + 1,
              !.fAttrs = Append(Without(m, attrCode), NewAttr(attrCode, value))]

\* set: a message with binary data takes no attributes; one that is there is
\* replaced, and goes to the end of the table.
SetAttr(m, attrCode, value) ==
    IF IsBinary(m) THEN m
    ELSE [m EXCEPT !.fAttrNum = IF IsAttrExist(m, attrCode) THEN @ ELSE @ + 1,
                   !.fAttrs = Append(Without(m, attrCode), NewAttr(attrCode, value))]

GetSize(m) == MESSAGE_HEADER_SIZE + CalculateTotalAttrSize(m.fAttrs)

\* The attributes one after the other, each with the place where it begins.
Laid(attrs) ==
    [i \in DOMAIN attrs |-> [at |-> AttrEnds(attrs)[i - 1], attr |-> ToNetwork(attrs[i])]]

\* A message with binary data has none to copy: no caller gives it any.
CreateMessage(m) ==
    [flags |-> SwapFlags(m.fFlags), size |-> Swap(Field(GetSize(m))),
     msgID |-> Swap(Field(m.fMsgID)), attrNum |-> Swap(Field(m.fAttrNum)),
     attrs |-> IF IsBinary(m) THEN << >> ELSE Laid(m.fAttrs)]

\* The attribute that begins at p, if one does; what follows the datagram in
\* the buffer of the receiver is 0, which reads as an empty dt_int16.
At(raw, p) ==
    IF \E i \in DOMAIN raw.attrs : raw.attrs[i].at = p
    THEN raw.attrs[CHOOSE i \in DOMAIN raw.attrs : raw.attrs[i].at = p].attr
    ELSE ToNetwork(NewAttr(0, Value("dt_int16", "af_none", <<0>>)))

\* The constructor.  It looks for mf_binary before the flags are swapped, where
\* no sender can have set it, and reads attributes.
Message(raw) ==
    LET count == Val(Swap(raw.attrNum))
        parsed[n \in 0 .. count] ==
            IF n = 0 THEN [next |-> 0, attrs |-> << >>]
            ELSE LET before == parsed[n - 1]
                     attr == At(raw, before.next)
                 IN  [next |-> before.next + CalculateAttrSize(attr, TRUE),
                      attrs |-> Append(before.attrs, ToHost(attr))]
    IN  [fFlags |-> SwapFlags(raw.flags), fMsgID |-> Val(Swap(raw.msgID)),
         fAttrNum |-> count,
         fAttrs |-> IF mf_binary \in raw.flags THEN << >>
                    ELSE parsed[count].attrs]

\* get, for a number, and for a string into memory of its own.
GetAttr(m, attrCode) ==
    LET attr == findAttr(m, attrCode)
        length == IF attr.dataType = "dt_string" THEN Val(attr.size) \div 2
                                                 ELSE Len(attr.units)
    IN  [i \in 1 .. length |-> Val(attr.units[i])]

=============================================================================
