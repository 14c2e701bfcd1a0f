-------------------------- MODULE UserRecordProofs --------------------------
(***************************************************************************)
(* Proofs about UserRecord: what the server makes of a datagram has the    *)
(* values that the form had (Delivered), and the fields of the table are   *)
(* read back as they were filled in (ReadBack).                            *)
(*                                                                         *)
(* The loops of the code are recursive functions of the model.  Each one   *)
(* is what satisfies its equation, so a lemma shows first that something   *)
(* does, and then by induction what it is; InductionTo is induction over   *)
(* the elements of a set.                                                  *)
(***************************************************************************)
EXTENDS UserRecord, NaturalsInduction, WellFoundedInduction, SequenceTheorems, TLAPS

\* A set that has 0, and with each number the next one, has all up to n.
LEMMA InductionTo ==
    ASSUME NEW n \in Nat, NEW S, 0 \in S, \A k \in 1 .. n : k - 1 \in S => k \in S
    PROVE  0 .. n \subseteq S
<1> DEFINE bad == {k \in Nat : k \in 0 .. n /\ k \notin S}
<1> SUFFICES ASSUME bad # {} PROVE FALSE
  OBVIOUS
<1>1. PICK m \in bad : \A k \in bad : <<k, m>> \notin OpToRel(<, Nat)
  BY WFMin, NatLessThanWellFounded, Zenon
<1>2. \A k \in bad : ~(k < m)
  BY <1>1, Zenon DEF OpToRel
<1>3. m \in 1 .. n
  OBVIOUS
<1>4. m - 1 \in 0 .. n /\ m - 1 \notin bad
  BY <1>2, <1>3
<1> QED
  BY <1>3, <1>4

-----------------------------------------------------------------------------
(* The constants                                                           *)

N == Len(Kind)

LEMMA Constants ==
    /\ N \in Nat \ {0} /\ Attr = 1 .. N
    /\ \A a \in Attr : Kind[a] \in {"int32", "uint32", "int64", "uint64", "string", "bytes", "float"}
    /\ \A f \in Form : f \in [Attr -> Seq(Nat)] /\ \A a \in Attr : Holdable(Kind[a], f[a])
  BY RecordAssumption DEF N, Attr

\* What a form can have after attributes are set again.
Forms == {f \in [Attr -> Seq(Nat)] : \A a \in Attr : Holdable(Kind[a], f[a])}

LEMMA SetAgain ==
    ASSUME NEW f \in Forms, NEW g \in Form, NEW a \in Attr
    PROVE  /\ g \in Forms
           /\ [f EXCEPT ![a] = g[a]] \in Forms
<1>1. g \in Forms
  BY Constants DEF Forms
<1>2. [f EXCEPT ![a] = g[a]] \in Forms
  BY <1>1 DEF Forms
<1> QED
  BY <1>1, <1>2

-----------------------------------------------------------------------------
(* A message                                                               *)

\* What an attribute is that was set to what the form has.
Entry(a, f) == NewAttr(a, AttrValue(a, f[a]))

MessageOf(id, num, attrs) ==
    [fFlags |-> {}, fMsgID |-> id, fAttrNum |-> num, fAttrs |-> attrs]

\* The attributes up to n, each once, in any order.
Table(attrs, f, n) ==
    /\ attrs \in Seq({Entry(a, f) : a \in 1 .. n})
    /\ Len(attrs) = n
    /\ \A a \in 1 .. n : \E i \in 1 .. n : attrs[i] = Entry(a, f)
    /\ \A i, j \in 1 .. n : attrs[i].code = attrs[j].code => i = j

LEMMA EntryFields ==
    ASSUME NEW a, NEW f
    PROVE  /\ Entry(a, f).code = [v |-> a, swapped |-> FALSE]
           /\ Val(Entry(a, f).code) = a
  BY DEF Entry, NewAttr, Field, Val

LEMMA TableFields ==
    ASSUME NEW n \in Nat, NEW f, NEW attrs, Table(attrs, f, n)
    PROVE  /\ DOMAIN attrs = 1 .. n
           /\ \A i \in 1 .. n : \E a \in 1 .. n : attrs[i] = Entry(a, f)
           /\ \A i \in 1 .. n : Val(attrs[i].code) \in 1 .. n /\ attrs[i] = Entry(Val(attrs[i].code), f)
<1>1. DOMAIN attrs = 1 .. n /\ \A i \in 1 .. n : attrs[i] \in {Entry(a, f) : a \in 1 .. n}
  BY DEF Table
<1>2. \A i \in 1 .. n : \E a \in 1 .. n : attrs[i] = Entry(a, f)
  BY <1>1
<1>3. ASSUME NEW i \in 1 .. n
      PROVE  Val(attrs[i].code) \in 1 .. n /\ attrs[i] = Entry(Val(attrs[i].code), f)
  <2>1. PICK a \in 1 .. n : attrs[i] = Entry(a, f)
    BY <1>2
  <2>2. Val(attrs[i].code) = a
    BY <2>1, EntryFields
  <2> QED
    BY <2>1, <2>2
<1> QED
  BY <1>1, <1>2, <1>3

\* The attributes in the order of the dialog.
InOrder(f, n) == [i \in 1 .. n |-> Entry(i, f)]

LEMMA InOrderIsTable ==
    ASSUME NEW n \in Nat, NEW f
    PROVE  Table(InOrder(f, n), f, n)
<1>1. InOrder(f, n) \in Seq({Entry(a, f) : a \in 1 .. n}) /\ Len(InOrder(f, n)) = n
  BY DEF InOrder
<1>2. \A i \in 1 .. n : InOrder(f, n)[i] = Entry(i, f)
  BY DEF InOrder
<1>3. ASSUME NEW i \in 1 .. n, NEW j \in 1 .. n, InOrder(f, n)[i].code = InOrder(f, n)[j].code
      PROVE  i = j
  <2>1. Entry(i, f).code = Entry(j, f).code
    BY <1>2, <1>3
  <2>2. Val(Entry(i, f).code) = i /\ Val(Entry(j, f).code) = j
    BY EntryFields
  <2> QED
    BY <2>1, <2>2
<1> QED
  BY <1>1, <1>2, <1>3 DEF Table

\* An attribute that is not there goes to the end.
LEMMA SetNew ==
    ASSUME NEW id, NEW f, NEW n \in Nat
    PROVE  SetAttr(MessageOf(id, n, InOrder(f, n)), n + 1, AttrValue(n + 1, f[n + 1]))
               = MessageOf(id, n + 1, InOrder(f, n + 1))
<1> DEFINE m == MessageOf(id, n, InOrder(f, n))
           a == n + 1
<1>1. DOMAIN InOrder(f, n) = 1 .. n /\ \A i \in 1 .. n : InOrder(f, n)[i] = Entry(i, f)
  BY DEF InOrder
<1>2. m.fAttrs = InOrder(f, n) /\ m.fAttrNum = n /\ m.fFlags = {} /\ m.fMsgID = id
  BY DEF MessageOf
<1>3. ~IsBinary(m)
  BY <1>2 DEF IsBinary
<1>4. ~IsAttrExist(m, a)
  <2> HIDE DEF m
  <2>1. \A i \in 1 .. n : Val(m.fAttrs[i].code) = i
    BY <1>1, <1>2, EntryFields
  <2> QED
    BY <1>1, <1>2, <2>1 DEF IsAttrExist
<1>5. Append(InOrder(f, n), Entry(a, f)) = InOrder(f, n + 1)
  BY DEF InOrder
<1>6. SetAttr(m, a, AttrValue(a, f[a]))
        = [m EXCEPT !.fAttrNum = n + 1, !.fAttrs = Append(InOrder(f, n), Entry(a, f))]
  <2> HIDE DEF m, a
  <2> QED
    BY <1>2, <1>3, <1>4 DEF SetAttr, Without, Entry
<1> QED
  BY <1>5, <1>6 DEF MessageOf

\* The dialog's message has all attributes.
LEMMA FilledInHasAll ==
    ASSUME NEW f
    PROVE  FilledIn(f) = MessageOf(Len(user_info), N, InOrder(f, N))
<1> DEFINE id == Len(user_info)
           Step(s) == [a \in 0 .. N |-> IF a = 0 THEN NewMessage({}, id)
                                        ELSE SetAttr(s[a - 1], a, AttrValue(a, f[a]))]
           set == CHOOSE s : s = Step(s)
           all == [a \in 0 .. N |-> MessageOf(id, a, InOrder(f, a))]
<1>1. NewMessage({}, id) = MessageOf(id, 0, InOrder(f, 0))
  BY DEF NewMessage, MessageOf, InOrder
<1>2. \A a \in 1 .. N : SetAttr(MessageOf(id, a - 1, InOrder(f, a - 1)), a, AttrValue(a, f[a]))
                          = MessageOf(id, a, InOrder(f, a))
  <2> SUFFICES ASSUME NEW a \in 1 .. N
               PROVE  SetAttr(MessageOf(id, a - 1, InOrder(f, a - 1)), a, AttrValue(a, f[a]))
                        = MessageOf(id, a, InOrder(f, a))
    OBVIOUS
  <2>1. a - 1 \in Nat /\ (a - 1) + 1 = a
    BY Constants
  <2> QED
    BY <2>1, SetNew
<1>3. all = Step(all)
  BY <1>1, <1>2, Constants
<1>4. set = Step(set)
  BY <1>3
<1>5. FilledIn(f) = set[N]
  BY DEF FilledIn, N
<1> HIDE DEF set
<1> DEFINE same == {a \in 0 .. N : set[a] = MessageOf(id, a, InOrder(f, a))}
<1>6. 0 \in same
  BY <1>1, <1>4, Constants
<1>7. \A a \in 1 .. N : a - 1 \in same => a \in same
  BY <1>2, <1>4, Constants
<1>8. 0 .. N \subseteq same
  BY <1>6, <1>7, InductionTo, Constants
<1> QED
  BY <1>5, <1>8, Constants

\* What RemoveAt leaves.
LEMMA Removal ==
    ASSUME NEW S, NEW s \in Seq(S), NEW p \in 1 .. Len(s)
    PROVE  /\ RemoveAt(s, p) \in Seq(S)
           /\ Len(RemoveAt(s, p)) = Len(s) - 1
           /\ \A i \in 1 .. Len(s) - 1 : RemoveAt(s, p)[i] = s[IF i < p THEN i ELSE i + 1]
<1> DEFINE left == SubSeq(s, 1, p - 1)
           right == SubSeq(s, p + 1, Len(s))
<1>1. /\ left \in Seq(S) /\ Len(left) = p - 1 /\ \A i \in 1 .. p - 1 : left[i] = s[i]
      /\ right \in Seq(S) /\ Len(right) = Len(s) - p
      /\ \A i \in 1 .. Len(s) - p : right[i] = s[p + i]
  OBVIOUS
<1>2. RemoveAt(s, p) = left \o right
  BY DEF RemoveAt
<1> HIDE DEF left, right
<1>3. /\ left \o right \in Seq(S) /\ Len(left \o right) = Len(s) - 1
      /\ \A i \in 1 .. Len(s) - 1 :
            (left \o right)[i] = IF i <= p - 1 THEN left[i] ELSE right[i - (p - 1)]
  <2>1. left \o right \in Seq(S) /\ Len(left \o right) = Len(left) + Len(right)
    BY <1>1, ConcatProperties
  <2>2. ASSUME NEW i \in 1 .. Len(s) - 1
        PROVE  (left \o right)[i] = IF i <= Len(left) THEN left[i] ELSE right[i - Len(left)]
    <3>1. i \in 1 .. Len(left) + Len(right)
      BY <1>1
    <3> QED
      BY <1>1, <3>1
  <2> QED
    BY <1>1, <2>1, <2>2
<1>4. ASSUME NEW i \in 1 .. Len(s) - 1
      PROVE  RemoveAt(s, p)[i] = s[IF i < p THEN i ELSE i + 1]
  <2>1. CASE i < p
    BY <1>1, <1>2, <1>3, <2>1
  <2>2. CASE p <= i
    <3>1. i - (p - 1) \in 1 .. Len(s) - p /\ p + (i - (p - 1)) = i + 1
      BY <2>2
    <3> QED
      BY <1>1, <1>2, <1>3, <2>2, <3>1
  <2> QED
    BY <2>1, <2>2
<1> QED
  BY <1>2, <1>3, <1>4

\* An attribute that is set again is taken out and goes to the end.
ToTheEnd(id, attrs, f, g, a, v) ==
    \E p \in 1 .. N : \E new :
       /\ attrs[p] = Entry(a, f) /\ new = Append(RemoveAt(attrs, p), Entry(a, g))
       /\ SetAttr(MessageOf(id, N, attrs), a, AttrValue(a, v)) = MessageOf(id, N, new)
       /\ Table(new, g, N)

LEMMA SetSame ==
    ASSUME NEW id, NEW f \in Forms, NEW attrs, Table(attrs, f, N), NEW a \in Attr, NEW v
    PROVE  ToTheEnd(id, attrs, f, [f EXCEPT ![a] = v], a, v)
<1> DEFINE m == MessageOf(id, N, attrs)
           g == [f EXCEPT ![a] = v]
           p == PlaceOf(m, a)
           rest == RemoveAt(attrs, p)
           new == Append(rest, Entry(a, g))
           S == {Entry(b, g) : b \in 1 .. N}
<1>1. m.fAttrs = attrs /\ m.fAttrNum = N /\ m.fFlags = {} /\ m.fMsgID = id
  BY DEF MessageOf
<1>2. /\ N \in Nat \ {0} /\ a \in 1 .. N /\ Len(attrs) = N /\ DOMAIN attrs = 1 .. N
      /\ \A i \in 1 .. N : Val(attrs[i].code) \in 1 .. N /\ attrs[i] = Entry(Val(attrs[i].code), f)
  <2>1. N \in Nat \ {0} /\ a \in 1 .. N
    BY Constants
  <2>2. Len(attrs) = N
    BY DEF Table
  <2> QED
    BY <2>1, <2>2, TableFields
<1>3. PICK q \in 1 .. N : attrs[q] = Entry(a, f)
  BY <1>2 DEF Table
<1>4. Val(attrs[q].code) = a
  BY <1>3, EntryFields
<1>5. ~IsBinary(m) /\ IsAttrExist(m, a)
  BY <1>1, <1>2, <1>4 DEF IsBinary, IsAttrExist
<1>6. p \in 1 .. N /\ Val(attrs[p].code) = a
  BY <1>1, <1>2, <1>4 DEF PlaceOf
<1>7. SetAttr(m, a, AttrValue(a, v)) = MessageOf(id, N, new)
  <2>1. g[a] = v
    BY <1>2, Constants DEF Forms
  <2>2. NewAttr(a, AttrValue(a, v)) = Entry(a, g)
    BY <2>1 DEF Entry
  <2>3. SetAttr(m, a, AttrValue(a, v)) = [m EXCEPT !.fAttrNum = N, !.fAttrs = new]
    <3> HIDE DEF m, g
    <3> QED
      BY <1>1, <1>5, <2>2 DEF SetAttr, Without
  <2> QED
    BY <2>3 DEF MessageOf
<1> HIDE DEF m, p
\* Another place has another code, and what it was.
<1>8. ASSUME NEW i \in 1 .. N, i # p
      PROVE  /\ Val(attrs[i].code) # a
             /\ attrs[i] = Entry(Val(attrs[i].code), g)
  <2>1. Val(attrs[i].code) # a
    <3> SUFFICES ASSUME Val(attrs[i].code) = a PROVE FALSE
      OBVIOUS
    <3>1. attrs[i] = Entry(a, f) /\ attrs[p] = Entry(a, f)
      BY <1>2, <1>6
    <3> QED
      BY <1>6, <1>8, <3>1 DEF Table
  <2> DEFINE b == Val(attrs[i].code)
  <2>2. b \in Attr /\ g[b] = f[b]
    BY <1>2, <2>1, Constants DEF Forms
  <2>3. Entry(b, g) = Entry(b, f)
    BY <2>2 DEF Entry
  <2> QED
    BY <1>2, <2>1, <2>3
<1>9. /\ rest \in Seq({Entry(b, f) : b \in 1 .. N}) /\ Len(rest) = N - 1
      /\ \A i \in 1 .. N - 1 : rest[i] = attrs[IF i < p THEN i ELSE i + 1]
  <2>1. attrs \in Seq({Entry(b, f) : b \in 1 .. N})
    BY DEF Table
  <2> QED
    BY <1>2, <1>6, <2>1, Removal
<1>10. \A i \in 1 .. N - 1 : (IF i < p THEN i ELSE i + 1) \in 1 .. N /\ (IF i < p THEN i ELSE i + 1) # p
  BY <1>2, <1>6
<1>11. \A i \in 1 .. N - 1 : rest[i] \in S
  <2> SUFFICES ASSUME NEW i \in 1 .. N - 1 PROVE rest[i] \in S
    OBVIOUS
  <2> DEFINE k == IF i < p THEN i ELSE i + 1
  <2>1. k \in 1 .. N /\ k # p /\ rest[i] = attrs[k]
    BY <1>9, <1>10
  <2> HIDE DEF k
  <2>2. attrs[k] = Entry(Val(attrs[k].code), g) /\ Val(attrs[k].code) \in 1 .. N
    BY <1>2, <1>8, <2>1
  <2> QED
    BY <2>1, <2>2
<1> HIDE DEF g, rest, S
<1>12. rest \in Seq(S)
  BY <1>2, <1>9, <1>11
<1>13. Entry(a, g) \in S
  BY <1>2 DEF S
<1>14. /\ new \in Seq(S) /\ Len(new) = N /\ new[N] = Entry(a, g)
       /\ \A i \in 1 .. N - 1 : new[i] = rest[i]
  BY <1>2, <1>9, <1>12, <1>13
<1> HIDE DEF new
<1>15. ASSUME NEW b \in 1 .. N
       PROVE  \E i \in 1 .. N : new[i] = Entry(b, g)
  <2>1. CASE b = a
    BY <1>2, <1>14, <2>1
  <2>2. CASE b # a
    <3>1. PICK k \in 1 .. N : attrs[k] = Entry(b, f)
      BY <1>2 DEF Table
    <3>2. Val(attrs[k].code) = b
      BY <3>1, EntryFields
    <3>3. k # p
      BY <1>6, <2>2, <3>2
    <3>4. attrs[k] = Entry(b, g)
      BY <1>8, <3>2, <3>3
    <3> DEFINE i == IF k < p THEN k ELSE k - 1
    <3>5. i \in 1 .. N - 1 /\ (IF i < p THEN i ELSE i + 1) = k
      BY <1>2, <1>6, <3>3
    <3>6. new[i] = Entry(b, g)
      BY <1>9, <1>14, <3>4, <3>5
    <3>7. i \in 1 .. N
      BY <1>2, <3>5
    <3> HIDE DEF i
    <3> QED
      BY <3>6, <3>7
  <2> QED
    BY <2>1, <2>2
<1>16. ASSUME NEW i \in 1 .. N, NEW j \in 1 .. N, new[i].code = new[j].code
       PROVE  i = j
  <2> DEFINE At1(k) == IF k < p THEN k ELSE k + 1
  <2>1. \A k \in 1 .. N - 1 : At1(k) \in 1 .. N /\ At1(k) # p /\ new[k] = attrs[At1(k)]
    BY <1>9, <1>10, <1>14
  <2>2. Val(new[N].code) = a
    BY <1>14, EntryFields
  <2>3. \A k \in 1 .. N - 1 : Val(new[k].code) # a
    <3> SUFFICES ASSUME NEW k \in 1 .. N - 1 PROVE Val(new[k].code) # a
      OBVIOUS
    <3> HIDE DEF At1
    <3> QED
      BY <1>8, <2>1
  <2>4. CASE i = N \/ j = N
    <3>1. ASSUME NEW k \in 1 .. N, k # N PROVE new[k].code # new[N].code
      <4>1. k \in 1 .. N - 1
        BY <1>2, <3>1
      <4> QED
        BY <2>2, <2>3, <4>1
    <3> QED
      BY <1>16, <2>4, <3>1
  <2>5. CASE i # N /\ j # N
    <3>1. i \in 1 .. N - 1 /\ j \in 1 .. N - 1
      BY <1>2, <2>5
    <3>2. At1(i) = At1(j)
      <4> HIDE DEF At1
      <4>1. /\ At1(i) \in 1 .. N /\ new[i] = attrs[At1(i)]
            /\ At1(j) \in 1 .. N /\ new[j] = attrs[At1(j)]
        BY <2>1, <3>1
      <4>2. attrs[At1(i)].code = attrs[At1(j)].code
        BY <1>16, <4>1
      <4>3. \A k, l \in 1 .. N : attrs[k].code = attrs[l].code => k = l
        BY DEF Table
      <4> QED
        BY <4>1, <4>2, <4>3
    <3>3. i \in Int /\ j \in Int /\ p \in Int
      BY <1>6, <3>1
    <3> QED
      BY <3>2, <3>3
  <2> QED
    BY <2>4, <2>5
<1>17. Table(new, g, N)
  BY <1>14, <1>15, <1>16 DEF Table, S
<1>18. attrs[p] = Entry(a, f)
  BY <1>2, <1>6
<1>19. new = Append(RemoveAt(attrs, p), Entry(a, g))
  BY DEF new, rest
<1> QED
  BY <1>6, <1>7, <1>17, <1>18, <1>19 DEF g, m, ToTheEnd

-----------------------------------------------------------------------------
(* An attribute on its way                                                 *)

LEMMA SwapBack ==
    ASSUME NEW v
    PROVE  /\ Swap(Swap(Field(v))) = Field(v)
           /\ Swap(Field(v)) = [v |-> v, swapped |-> TRUE]
           /\ Val(Field(v)) = v
           /\ Field(v).v = v
<1>1. Field(v).v = v /\ Field(v).swapped = FALSE /\ Val(Field(v)) = v
  BY DEF Field, Val
<1>2. Field(v) \in [v : {v}, swapped : BOOLEAN]
  BY DEF Field
<1>3. ASSUME NEW f \in [v : {v}, swapped : BOOLEAN]
      PROVE  Swap(f) = [v |-> f.v, swapped |-> ~f.swapped] /\ Swap(Swap(f)) = f
  <2>1. Swap(f) = [v |-> f.v, swapped |-> ~f.swapped]
    BY DEF Swap
  <2>2. Swap(Swap(f)) = f
    BY DEF Swap
  <2> QED
    BY <2>1, <2>2
<1> QED
  BY <1>1, <1>2, <1>3

\* What an attribute of the form is.
LEMMA EntryIs ==
    ASSUME NEW a \in Attr, NEW f \in Forms
    PROVE  /\ f[a] \in Seq(Nat)
           /\ Entry(a, f) = [code |-> Field(a), dataType |-> TypeFor[Kind[a]],
                             flags |-> SignFor(Kind[a]), size |-> Entry(a, f).size,
                             units |-> [i \in DOMAIN f[a] |-> Field(f[a][i])]]
           /\ Entry(a, f).size
                = Field(IF Kind[a] = "bytes" THEN Len(f[a])
                        ELSE IF Kind[a] = "string" THEN 2 * Len(f[a]) ELSE 0)
           /\ Kind[a] \notin {"string", "bytes"} => Len(f[a]) = 1
<1>1. f[a] \in Seq(Nat) /\ Holdable(Kind[a], f[a])
  BY DEF Forms
<1>2. Kind[a] \in {"int32", "uint32", "int64", "uint64", "string", "bytes", "float"}
  BY Constants
<1>3. Kind[a] \notin {"string", "bytes"} => Len(f[a]) = 1
  BY <1>1, <1>2 DEF Holdable
<1>4. /\ Kind[a] = "string" <=> TypeFor[Kind[a]] = "dt_string"
      /\ Kind[a] = "bytes" <=> TypeFor[Kind[a]] = "dt_binary"
  BY <1>2 DEF TypeFor
<1> HIDE DEF TypeFor
<1>5. Entry(a, f) = [code |-> Field(a), dataType |-> TypeFor[Kind[a]],
                     flags |-> SignFor(Kind[a]),
                     size |-> Field(CASE TypeFor[Kind[a]] = "dt_binary" -> Len(f[a])
                                      [] TypeFor[Kind[a]] = "dt_string" -> 2 * Len(f[a])
                                      [] OTHER -> 0),
                     units |-> [i \in DOMAIN f[a] |-> Field(f[a][i])]]
  BY DEF Entry, NewAttr, AttrValue, Value
<1>6. (CASE TypeFor[Kind[a]] = "dt_binary" -> Len(f[a])
         [] TypeFor[Kind[a]] = "dt_string" -> 2 * Len(f[a])
         [] OTHER -> 0) = IF Kind[a] = "bytes" THEN Len(f[a])
                          ELSE IF Kind[a] = "string" THEN 2 * Len(f[a]) ELSE 0
  BY <1>2, <1>4
<1> QED
  BY <1>1, <1>3, <1>5, <1>6

\* Both sides agree on how long an attribute is: each reads the size, and what
\* depends on it, while its bytes are in order.
LEMMA SameSize ==
    ASSUME NEW a \in Attr, NEW f \in Forms
    PROVE  /\ CalculateAttrSize(Entry(a, f), FALSE) \in Nat \ {0}
           /\ CalculateAttrSize(ToNetwork(Entry(a, f)), TRUE)
                = CalculateAttrSize(Entry(a, f), FALSE)
<1> DEFINE attr == Entry(a, f)
           n == IF Kind[a] = "bytes" THEN Len(f[a])
                ELSE IF Kind[a] = "string" THEN 2 * Len(f[a]) ELSE 0
<1>1. attr.size = Field(n) /\ n \in Nat /\ attr.dataType = TypeFor[Kind[a]]
  BY EntryIs
<1>2. /\ ToNetwork(attr).size = Swap(attr.size)
      /\ ToNetwork(attr).dataType = attr.dataType
  <2>1. attr = [code |-> attr.code, dataType |-> attr.dataType, flags |-> attr.flags,
                size |-> attr.size, units |-> attr.units]
    BY EntryIs
  <2> HIDE DEF attr
  <2> QED
    BY <2>1 DEF ToNetwork
<1>3. TypeFor[Kind[a]] \in Sized \cup DOMAIN Bytes /\ \A t \in DOMAIN Bytes : Bytes[t] \in Nat
  BY Constants DEF TypeFor, Sized, Bytes
<1> HIDE DEF attr, n
<1>4. Val(attr.size) = n /\ Val(Swap(ToNetwork(attr).size)) = n
  BY <1>1, <1>2, SwapBack
<1>5. CalculateAttrSize(attr, FALSE) = ATTR_HEADER_SIZE +
          IF attr.dataType \in Sized THEN 4 + n ELSE Bytes[attr.dataType]
  BY <1>4 DEF CalculateAttrSize
<1>6. CalculateAttrSize(ToNetwork(attr), TRUE) = ATTR_HEADER_SIZE +
          IF attr.dataType \in Sized THEN 4 + n ELSE Bytes[attr.dataType]
  BY <1>2, <1>4 DEF CalculateAttrSize
<1>7. (IF attr.dataType \in Sized THEN 4 + n ELSE Bytes[attr.dataType]) \in Nat
  BY <1>1, <1>3
<1> DEFINE rest == IF attr.dataType \in Sized THEN 4 + n ELSE Bytes[attr.dataType]
<1>8. ATTR_HEADER_SIZE + rest \in Nat \ {0}
  <2> HIDE DEF rest
  <2> SUFFICES rest \in Nat
    BY DEF ATTR_HEADER_SIZE
  <2> QED
    BY <1>7 DEF rest
<1> QED
  BY <1>5, <1>6, <1>8 DEF attr

LEMMA UnitsBack ==
    ASSUME NEW data \in Seq(Nat), NEW k \in Int
    PROVE  LET units == [i \in DOMAIN data |-> Field(data[i])]
           IN  SwapFirst(SwapFirst(units, k), k) = units
<1> DEFINE units == [i \in DOMAIN data |-> Field(data[i])]
<1>1. \A i \in DOMAIN data : units[i] = Field(data[i]) /\ Swap(Swap(units[i])) = units[i]
  BY SwapBack
<1>2. DOMAIN units = DOMAIN data
  OBVIOUS
<1>3. units = [i \in DOMAIN data |-> units[i]]
  OBVIOUS
<1> HIDE DEF units
<1>4. SwapFirst(units, k) = [i \in DOMAIN data |-> IF i <= k THEN Swap(units[i]) ELSE units[i]]
  BY <1>2 DEF SwapFirst
<1>5. SwapFirst(SwapFirst(units, k), k)
        = [i \in DOMAIN data |-> IF i <= k THEN Swap(SwapFirst(units, k)[i])
                                          ELSE SwapFirst(units, k)[i]]
  BY <1>4 DEF SwapFirst
<1>6. \A i \in DOMAIN data : (IF i <= k THEN Swap(SwapFirst(units, k)[i])
                                       ELSE SwapFirst(units, k)[i]) = units[i]
  BY <1>1, <1>4
<1>7. SwapFirst(SwapFirst(units, k), k) = [i \in DOMAIN data |-> units[i]]
  BY <1>5, <1>6
<1> QED
  BY <1>3, <1>7 DEF units

\* What an attribute is after it was sent: the same, unless it is a floating
\* point number, of which only 0 keeps its bits.
LEMMA AttrBack ==
    ASSUME NEW a \in Attr, NEW f \in Forms
    PROVE  LET back == ToHost(ToNetwork(Entry(a, f)))
           IN  /\ back.code = Field(a) /\ back.dataType = TypeFor[Kind[a]]
               /\ Kind[a] # "float" => back = Entry(a, f)
               /\ Kind[a] = "float" /\ f[a] = << 0 >> =>
                     /\ Len(back.units) = 1 /\ Val(back.units[1]) = 0
<1> DEFINE attr == Entry(a, f)
           sent == ToNetwork(attr)
           back == ToHost(sent)
           type == TypeFor[Kind[a]]
           n == IF Kind[a] = "bytes" THEN Len(f[a])
                ELSE IF Kind[a] = "string" THEN 2 * Len(f[a]) ELSE 0
           Out == CASE type \in Integers16To64 -> SwapFirst(attr.units, 1)
                    [] type \in Floats -> <<AssignInteger(attr.units[1])>>
                    [] type = "dt_string" -> SwapFirst(attr.units, n \div 2)
                    [] OTHER -> attr.units
           In == CASE type \in Integers16To64 \cup Floats -> SwapFirst(Out, 1)
                   [] type = "dt_string" -> SwapFirst(Out, n \div 2)
                   [] OTHER -> Out
<1>1. /\ f[a] \in Seq(Nat) /\ n \in Nat
      /\ attr.code = Field(a) /\ attr.dataType = type /\ attr.size = Field(n)
      /\ attr.units = [i \in DOMAIN f[a] |-> Field(f[a][i])]
      /\ attr = [code |-> attr.code, dataType |-> attr.dataType, flags |-> attr.flags,
                 size |-> attr.size, units |-> attr.units]
  BY EntryIs
<1>2. Swap(Swap(Field(a))) = Field(a) /\ Swap(Swap(Field(n))) = Field(n) /\ Val(Field(n)) = n
  BY SwapBack
<1> HIDE DEF attr, type, n
<1>3. sent = [code |-> Swap(attr.code), dataType |-> type, flags |-> attr.flags,
              size |-> Swap(attr.size), units |-> Out]
  <2> DEFINE U == CASE attr.dataType \in Integers16To64 -> SwapFirst(attr.units, 1)
                    [] attr.dataType \in Floats -> <<AssignInteger(attr.units[1])>>
                    [] attr.dataType = "dt_string" -> SwapFirst(attr.units, Val(attr.size) \div 2)
                    [] OTHER -> attr.units
  <2>1. U = Out
    BY <1>1, <1>2
  <2>2. sent = [attr EXCEPT !.code = Swap(attr.code), !.size = Swap(attr.size), !.units = U]
    BY DEF ToNetwork
  <2> HIDE DEF U, Out, sent
  <2> QED
    BY <1>1, <2>1, <2>2
<1> HIDE DEF sent, Out
<1>4. back = [code |-> Field(a), dataType |-> type, flags |-> attr.flags,
              size |-> attr.size, units |-> In]
  <2> DEFINE size == Swap(sent.size)
             U == CASE sent.dataType \in Integers16To64 \cup Floats -> SwapFirst(sent.units, 1)
                    [] sent.dataType = "dt_string" -> SwapFirst(sent.units, Val(size) \div 2)
                    [] OTHER -> sent.units
  <2>1. size = Field(n) /\ Swap(sent.code) = Field(a) /\ sent.dataType = type /\ sent.units = Out
    BY <1>1, <1>2, <1>3
  <2>2. U = In
    BY <1>2, <2>1
  <2>3. back = [sent EXCEPT !.code = Swap(sent.code), !.size = size, !.units = U]
    BY DEF ToHost
  <2> HIDE DEF U, In, back, size
  <2> QED
    BY <1>1, <1>3, <2>1, <2>2, <2>3
<1> HIDE DEF back
<1>5. /\ Kind[a] \in {"int32", "uint32", "int64", "uint64"} =>
            type \in {"dt_int32", "dt_int64"}
      /\ Kind[a] = "string" <=> type = "dt_string"
      /\ Kind[a] = "bytes" <=> type = "dt_binary"
      /\ Kind[a] = "float" <=> type = "dt_float32"
      /\ type \in {"dt_int32", "dt_int64", "dt_string", "dt_binary", "dt_float32"}
  BY Constants DEF type, TypeFor
<1>6. \A k \in Int : SwapFirst(SwapFirst(attr.units, k), k) = attr.units
  BY <1>1, UnitsBack
<1>7. ASSUME Kind[a] # "float"
      PROVE  back = attr
  <2>1. In = attr.units
    <3>1. n \div 2 \in Int
      BY <1>1
    <3>2. CASE type \in {"dt_int32", "dt_int64"}
      BY <1>6, <3>2 DEF Out, Integers16To64, Floats
    <3>3. CASE type = "dt_string"
      BY <1>6, <3>1, <3>3 DEF Out, Integers16To64, Floats
    <3>4. CASE type = "dt_binary"
      BY <3>4 DEF Out, Integers16To64, Floats
    <3> QED
      BY <1>5, <1>7, <3>2, <3>3, <3>4
  <2> QED
    BY <1>1, <1>4, <2>1
<1>8. ASSUME Kind[a] = "float", f[a] = << 0 >>
      PROVE  Len(back.units) = 1 /\ Val(back.units[1]) = 0
  <2>1. attr.units[1] = Field(0)
    BY <1>1, <1>8
  <2>2. AssignInteger(attr.units[1]) = Field(0)
    <3>1. Val(Swap(Field(0))) = 0
      <4>1. Swap(Field(0)) = [v |-> 0, swapped |-> TRUE]
        BY SwapBack
      <4> QED
        BY <4>1 DEF Val, Far
    <3>2. AssignInteger(Field(0)) = Field(Val(Swap(Field(0))) + IF Field(0).v = 0 THEN 0 ELSE 1)
      BY DEF AssignInteger
    <3>3. Field(0).v = 0
      BY SwapBack
    <3> QED
      BY <2>1, <3>1, <3>2, <3>3
  <2>3. Out = <<Field(0)>>
    BY <1>5, <1>8, <2>2 DEF Out, Integers16To64, Floats
  <2>4. In = SwapFirst(<<Field(0)>>, 1)
    BY <1>5, <1>8, <2>3 DEF Integers16To64, Floats
  <2>5. Len(In) = 1 /\ In[1] = Swap(Field(0))
    BY <2>4 DEF SwapFirst
  <2>6. Swap(Field(0)) = [v |-> 0, swapped |-> TRUE]
    BY SwapBack
  <2>7. Val(In[1]) = 0
    BY <2>5, <2>6 DEF Val, Far
  <2> QED
    BY <1>4, <2>5, <2>7
<1> QED
  BY <1>4, <1>7, <1>8 DEF attr, back, sent, type

-----------------------------------------------------------------------------
(* A datagram                                                              *)

\* Each attribute begins where the one before it ends, after all before it.
LEMMA EndsGrow ==
    ASSUME NEW n \in Nat, NEW attrs, Len(attrs) = n,
           \A i \in 1 .. n : CalculateAttrSize(attrs[i], FALSE) \in Nat \ {0}
    PROVE  LET end == AttrEnds(attrs)
           IN  /\ end \in [0 .. n -> Nat] /\ end[0] = 0
               /\ \A i \in 1 .. n : end[i] = end[i - 1] + CalculateAttrSize(attrs[i], FALSE)
               /\ \A j \in 0 .. n : \A i \in 0 .. n : i < j => end[i] < end[j]
<1> DEFINE Size(i) == CalculateAttrSize(attrs[i], FALSE)
           Step(e) == [i \in 0 .. n |-> IF i = 0 THEN 0 ELSE e[i - 1] + Size(i)]
           end == CHOOSE e : e = Step(e)
           Partial(k, g) == g[0] = 0 /\ \A i \in 1 .. k : g[i] = g[i - 1] + Size(i)
           some == {k \in 0 .. n : \E g \in [0 .. k -> Nat] : Partial(k, g)}
<1> HIDE DEF Size
<1>1. \A i \in 1 .. n : Size(i) \in Nat \ {0}
  BY DEF Size
<1>2. 0 \in some
  <2> DEFINE g == [i \in 0 .. 0 |-> 0]
  <2>1. g \in [0 .. 0 -> Nat] /\ Partial(0, g)
    OBVIOUS
  <2>2. \E e \in [0 .. 0 -> Nat] : Partial(0, e)
    <3> HIDE DEF g, Partial
    <3> QED
      BY <2>1
  <2> QED
    BY <2>2
<1>3. ASSUME NEW k \in 1 .. n, k - 1 \in some
      PROVE  k \in some
  <2>1. PICK g \in [0 .. k - 1 -> Nat] : Partial(k - 1, g)
    BY <1>3
  <2> DEFINE h == [i \in 0 .. k |-> IF i = k THEN g[k - 1] + Size(k) ELSE g[i]]
  <2>2. h \in [0 .. k -> Nat]
    BY <1>1
  <2>3. h[0] = 0
    BY <2>1
  <2>4. ASSUME NEW i \in 1 .. k PROVE h[i] = h[i - 1] + Size(i)
    <3>1. h[i - 1] = g[i - 1]
      OBVIOUS
    <3>2. CASE i = k
      BY <3>1, <3>2
    <3>3. CASE i # k
      BY <2>1, <3>1, <3>3
    <3> QED
      BY <3>2, <3>3
  <2> HIDE DEF h
  <2>5. Partial(k, h)
    BY <2>3, <2>4
  <2>6. \E e \in [0 .. k -> Nat] : Partial(k, e)
    <3> HIDE DEF Partial
    <3> QED
      BY <2>2, <2>5
  <2>7. k \in 0 .. n
    OBVIOUS
  <2> HIDE DEF Partial
  <2> QED
    BY <2>6, <2>7
<1>4. n \in some
  <2> HIDE DEF some
  <2>1. \A k \in 1 .. n : k - 1 \in some => k \in some
    BY <1>3
  <2> QED
    BY <1>2, <2>1, InductionTo
<1>5. PICK g \in [0 .. n -> Nat] : Partial(n, g)
  BY <1>4
<1>6. g = Step(g)
  BY <1>5
<1>7. end = Step(end)
  BY <1>6
<1>8. AttrEnds(attrs) = end
  BY DEF AttrEnds, Size
<1> HIDE DEF end
<1>9. end[0] = 0 /\ \A i \in 1 .. n : end[i] = end[i - 1] + Size(i)
  BY <1>7
<1>10. end \in [0 .. n -> Nat]
  <2> DEFINE typed == {i \in 0 .. n : end[i] \in Nat}
  <2>1. 0 \in typed /\ \A k \in 1 .. n : k - 1 \in typed => k \in typed
    BY <1>1, <1>9
  <2>2. 0 .. n \subseteq typed
    <3> HIDE DEF typed
    <3> QED
      BY <2>1, InductionTo
  <2>3. end = [i \in 0 .. n |-> end[i]]
    BY <1>7
  <2> QED
    BY <2>2, <2>3
<1>11. \A j \in 0 .. n : \A i \in 0 .. n : i < j => end[i] < end[j]
  <2> DEFINE above == {j \in 0 .. n : \A i \in 0 .. n : i < j => end[i] < end[j]}
  <2>1. 0 \in above
    OBVIOUS
  <2>2. ASSUME NEW k \in 1 .. n, k - 1 \in above
        PROVE  k \in above
    <3> SUFFICES ASSUME NEW i \in 0 .. n, i < k PROVE end[i] < end[k]
      OBVIOUS
    <3>1. end[k] = end[k - 1] + Size(k) /\ Size(k) \in Nat \ {0} /\ end[k - 1] \in Nat /\ end[i] \in Nat
      BY <1>1, <1>9, <1>10
    <3>2. CASE i = k - 1
      BY <3>1, <3>2
    <3>3. CASE i # k - 1
      <4>1. i < k - 1
        BY <3>3
      <4>2. end[i] < end[k - 1]
        BY <2>2, <4>1
      <4> HIDE DEF end
      <4> QED
        BY <3>1, <4>2
    <3> QED
      BY <3>2, <3>3
  <2>3. 0 .. n \subseteq above
    <3> HIDE DEF above
    <3> QED
      BY <2>1, <2>2, InductionTo
  <2> QED
    BY <2>3
<1> QED
  BY <1>8, <1>9, <1>10, <1>11 DEF Size

\* The size of all attributes does not depend on their order: if one is taken
\* out and another goes to the end, only their two sizes matter,
LEMMA TotalMoved ==
    ASSUME NEW S, NEW attrs \in Seq(S), NEW p \in 1 .. Len(attrs), NEW e \in S,
           \A i \in 1 .. Len(attrs) : CalculateAttrSize(attrs[i], FALSE) \in Nat \ {0},
           CalculateAttrSize(e, FALSE) \in Nat \ {0}
    PROVE  CalculateTotalAttrSize(Append(RemoveAt(attrs, p), e))
             = CalculateTotalAttrSize(attrs) - CalculateAttrSize(attrs[p], FALSE)
                 + CalculateAttrSize(e, FALSE)
<1> DEFINE n == Len(attrs)
           rest == RemoveAt(attrs, p)
           new == Append(rest, e)
           Size(attr) == CalculateAttrSize(attr, FALSE)
           was == AttrEnds(attrs)
           is == AttrEnds(new)
<1>1. n \in Nat \ {0} /\ p \in 1 .. n
  OBVIOUS
<1>2. /\ rest \in Seq(S) /\ Len(rest) = n - 1
      /\ \A i \in 1 .. n - 1 : rest[i] = attrs[IF i < p THEN i ELSE i + 1]
  BY Removal
<1> HIDE DEF rest
<1>3. /\ Len(new) = n /\ new[n] = e
      /\ \A i \in 1 .. n - 1 : new[i] = attrs[IF i < p THEN i ELSE i + 1]
  BY <1>1, <1>2
<1> HIDE DEF new, n
<1>4. \A i \in 1 .. n : Size(attrs[i]) \in Nat \ {0} /\ Size(new[i]) \in Nat \ {0}
  <2> SUFFICES ASSUME NEW i \in 1 .. n
               PROVE  Size(attrs[i]) \in Nat \ {0} /\ Size(new[i]) \in Nat \ {0}
    OBVIOUS
  <2>1. \A j \in 1 .. n : Size(attrs[j]) \in Nat \ {0}
    BY DEF n
  <2>2. CASE i = n
    BY <1>3, <2>1, <2>2
  <2>3. CASE i # n
    <3>1. i \in 1 .. n - 1 /\ (IF i < p THEN i ELSE i + 1) \in 1 .. n
      BY <1>1, <2>3
    <3> HIDE DEF Size
    <3> QED
      BY <1>3, <2>1, <3>1
  <2> QED
    BY <2>2, <2>3
<1>5. /\ was \in [0 .. n -> Nat] /\ was[0] = 0
      /\ \A i \in 1 .. n : was[i] = was[i - 1] + Size(attrs[i])
  BY <1>1, <1>4, EndsGrow DEF n
<1>6. /\ is \in [0 .. n -> Nat] /\ is[0] = 0
      /\ \A i \in 1 .. n : is[i] = is[i - 1] + Size(new[i])
  BY <1>1, <1>3, <1>4, EndsGrow
<1> HIDE DEF was, is, Size
<1> DEFINE same == {k \in 0 .. n - 1 : is[k] = IF k < p THEN was[k] ELSE was[k + 1] - Size(attrs[p])}
<1>7. 0 \in same
  BY <1>1, <1>5, <1>6
<1>8. ASSUME NEW k \in 1 .. n - 1, k - 1 \in same
      PROVE  k \in same
  <2>1. k \in 1 .. n /\ k + 1 \in 1 .. n /\ k - 1 \in 0 .. n /\ (k + 1) - 1 = k
    BY <1>1
  <2>2. is[k] = is[k - 1] + Size(new[k])
    BY <1>6, <2>1
  <2>3. was[k] = was[k - 1] + Size(attrs[k]) /\ was[k + 1] = was[k] + Size(attrs[k + 1])
    BY <1>5, <2>1
  <2>4. /\ was[k - 1] \in Nat /\ was[k] \in Nat /\ was[k + 1] \in Nat
        /\ Size(attrs[k]) \in Nat /\ Size(attrs[k + 1]) \in Nat /\ Size(attrs[p]) \in Nat
    <3>1. k \in 0 .. n /\ k + 1 \in 0 .. n
      BY <2>1
    <3>2. was[k - 1] \in Nat /\ was[k] \in Nat /\ was[k + 1] \in Nat
      BY <1>5, <2>1, <3>1
    <3>3. Size(attrs[k]) \in Nat /\ Size(attrs[k + 1]) \in Nat /\ Size(attrs[p]) \in Nat
      BY <1>1, <1>4, <2>1
    <3> QED
      BY <3>2, <3>3
  <2>5. CASE k < p
    <3>1. is[k - 1] = was[k - 1] /\ new[k] = attrs[k]
      BY <1>1, <1>3, <1>8, <2>5
    <3> QED
      BY <2>2, <2>3, <2>5, <3>1
  <2>6. CASE k = p
    <3>1. is[k - 1] = was[k - 1] /\ new[k] = attrs[k + 1]
      BY <1>1, <1>3, <1>8, <2>6
    <3> QED
      BY <2>2, <2>3, <2>4, <2>6, <3>1
  <2>7. CASE k > p
    <3>1. is[k - 1] = was[(k - 1) + 1] - Size(attrs[p]) /\ new[k] = attrs[k + 1] /\ (k - 1) + 1 = k
      BY <1>1, <1>3, <1>8, <2>7
    <3> QED
      BY <2>2, <2>3, <2>4, <2>7, <3>1
  <2> QED
    BY <1>1, <2>5, <2>6, <2>7
<1>9. n - 1 \in same
  <2>1. n - 1 \in Nat /\ n - 1 \in 0 .. n - 1
    BY <1>1
  <2> HIDE DEF same
  <2>2. 0 .. n - 1 \subseteq same
    BY <1>7, <1>8, <2>1, InductionTo
  <2> QED
    BY <2>1, <2>2
<1>10. is[n - 1] = was[n] - Size(attrs[p])
  <2>1. n \in 1 .. n /\ n - 1 \in 0 .. n /\ (n - 1) + 1 = n
    BY <1>1
  <2>2. was[n] = was[n - 1] + Size(attrs[n]) /\ was[n - 1] \in Nat /\ Size(attrs[n]) \in Nat
    BY <1>4, <1>5, <2>1
  <2>3. CASE p = n
    BY <1>1, <1>9, <2>2, <2>3
  <2>4. CASE p # n
    <3>1. ~(n - 1 < p)
      BY <1>1, <2>4
    <3> QED
      BY <1>9, <2>1, <3>1
  <2> QED
    BY <2>3, <2>4
<1>11. is[n] = was[n] - Size(attrs[p]) + Size(e)
  <2>1. is[n] = is[n - 1] + Size(new[n]) /\ new[n] = e
    BY <1>1, <1>3, <1>6
  <2> QED
    BY <1>10, <2>1
<1> QED
  BY <1>3, <1>11 DEF CalculateTotalAttrSize, was, is, Size, n, new, rest

\* as if it took the other's place.
Instead(s, t, p) ==
    CalculateTotalAttrSize(t)
      = CalculateTotalAttrSize(s) - CalculateAttrSize(s[p], FALSE) + CalculateAttrSize(t[p], FALSE)

LEMMA TotalReplaced ==
    ASSUME NEW S, NEW n \in Nat, NEW s \in Seq(S), NEW t \in Seq(S), Len(s) = n, Len(t) = n,
           NEW p \in 1 .. n,
           \A i \in 1 .. n : CalculateAttrSize(s[i], FALSE) \in Nat \ {0},
           \A i \in 1 .. n : CalculateAttrSize(t[i], FALSE) \in Nat \ {0},
           \A i \in 1 .. n : i # p => t[i] = s[i]
    PROVE  Instead(s, t, p)
<1> DEFINE Size(attr) == CalculateAttrSize(attr, FALSE)
           was == AttrEnds(s)
           is == AttrEnds(t)
<1>1. /\ was \in [0 .. n -> Nat] /\ was[0] = 0
      /\ \A i \in 1 .. n : was[i] = was[i - 1] + Size(s[i])
  BY EndsGrow
<1>2. /\ is \in [0 .. n -> Nat] /\ is[0] = 0
      /\ \A i \in 1 .. n : is[i] = is[i - 1] + Size(t[i])
  BY EndsGrow
<1>3. \A i \in 1 .. n : Size(s[i]) \in Nat /\ Size(t[i]) \in Nat
  OBVIOUS
<1> HIDE DEF was, is, Size
<1> DEFINE same == {k \in 0 .. n : is[k] = IF k < p THEN was[k] ELSE was[k] - Size(s[p]) + Size(t[p])}
<1>4. 0 \in same
  BY <1>1, <1>2
<1>5. ASSUME NEW k \in 1 .. n, k - 1 \in same
      PROVE  k \in same
  <2>1. /\ is[k] = is[k - 1] + Size(t[k]) /\ was[k] = was[k - 1] + Size(s[k])
        /\ was[k - 1] \in Nat /\ is[k - 1] \in Nat /\ k \in 0 .. n
    BY <1>1, <1>2
  <2>2. Size(s[k]) \in Nat /\ Size(t[k]) \in Nat /\ Size(s[p]) \in Nat /\ Size(t[p]) \in Nat
    BY <1>3
  <2>3. is[k - 1] = IF k - 1 < p THEN was[k - 1] ELSE was[k - 1] - Size(s[p]) + Size(t[p])
    BY <1>5
  <2>4. CASE k = p
    BY <2>1, <2>2, <2>3, <2>4
  <2>5. CASE k # p
    <3>1. t[k] = s[k]
      BY <2>5
    <3> QED
      BY <2>1, <2>2, <2>3, <2>5, <3>1
  <2> QED
    BY <2>4, <2>5
<1>6. 0 .. n \subseteq same
  <2> HIDE DEF same
  <2> QED
    BY <1>4, <1>5, InductionTo
<1>7. n \in same /\ ~(n < p)
  BY <1>6
<1>8. is[n] = was[n] - Size(s[p]) + Size(t[p])
  BY <1>7
<1> QED
  BY <1>8 DEF Instead, CalculateTotalAttrSize, was, is, Size

\* A message has the size that it would have if it were filled in at once.
SizedAs(attrs, f) == CalculateTotalAttrSize(attrs) = CalculateTotalAttrSize(InOrder(f, N))

LEMMA TableSizes ==
    ASSUME NEW f \in Forms, NEW attrs, Table(attrs, f, N)
    PROVE  \A i \in 1 .. N : CalculateAttrSize(attrs[i], FALSE) \in Nat \ {0}
<1> SUFFICES ASSUME NEW i \in 1 .. N
             PROVE  CalculateAttrSize(attrs[i], FALSE) \in Nat \ {0}
  OBVIOUS
<1>1. PICK a \in 1 .. N : attrs[i] = Entry(a, f)
  <2>1. N \in Nat
    BY Constants
  <2>2. \A k \in 1 .. N : \E b \in 1 .. N : attrs[k] = Entry(b, f)
    BY <2>1, TableFields
  <2> QED
    BY <2>2
<1>2. a \in Attr
  BY Constants
<1> QED
  BY <1>1, <1>2, SameSize

LEMMA TotalIsNumber ==
    ASSUME NEW f \in Forms, NEW attrs, Table(attrs, f, N)
    PROVE  CalculateTotalAttrSize(attrs) \in Nat
<1>1. N \in Nat /\ Len(attrs) = N
  BY Constants DEF Table
<1>2. \A i \in 1 .. N : CalculateAttrSize(attrs[i], FALSE) \in Nat \ {0}
  BY TableSizes
<1>3. AttrEnds(attrs) \in [0 .. N -> Nat]
  BY <1>1, <1>2, EndsGrow
<1> QED
  BY <1>1, <1>3 DEF CalculateTotalAttrSize

LEMMA SizedAgain ==
    ASSUME NEW f \in Forms, NEW a \in Attr, NEW v, [f EXCEPT ![a] = v] \in Forms,
           NEW attrs, Table(attrs, f, N), SizedAs(attrs, f),
           NEW p \in 1 .. N, attrs[p] = Entry(a, f)
    PROVE  SizedAs(Append(RemoveAt(attrs, p), Entry(a, [f EXCEPT ![a] = v])), [f EXCEPT ![a] = v])
<1> DEFINE g == [f EXCEPT ![a] = v]
           new == Append(RemoveAt(attrs, p), Entry(a, g))
           S == {Entry(b, f) : b \in 1 .. N} \cup {Entry(a, g)}
           was == InOrder(f, N)
           is == InOrder(g, N)
           Total(s) == CalculateTotalAttrSize(s)
           Size(attr) == CalculateAttrSize(attr, FALSE)
<1>1. N \in Nat /\ a \in 1 .. N /\ Attr = 1 .. N
  BY Constants
<1>2. \A b \in Attr : b # a => Entry(b, g) = Entry(b, f)
  BY DEF Entry, Forms
<1> HIDE DEF g
<1>3. /\ Table(was, f, N) /\ Table(is, g, N) /\ Len(was) = N /\ Len(is) = N
      /\ \A i \in 1 .. N : was[i] = Entry(i, f) /\ is[i] = Entry(i, g)
  <2>1. Table(was, f, N) /\ Table(is, g, N)
    BY <1>1, InOrderIsTable
  <2>2. \A i \in 1 .. N : was[i] = Entry(i, f) /\ is[i] = Entry(i, g)
    BY DEF InOrder
  <2>3. Len(was) = N /\ Len(is) = N
    BY <2>1 DEF Table
  <2> QED
    BY <2>1, <2>2, <2>3
<1>4. attrs \in Seq(S) /\ Len(attrs) = N /\ Entry(a, g) \in S
  <2>1. attrs \in Seq({Entry(b, f) : b \in 1 .. N}) /\ Len(attrs) = N
    BY DEF Table
  <2> QED
    BY <2>1
<1> HIDE DEF was, is, S
<1>5. /\ \A i \in 1 .. N : Size(attrs[i]) \in Nat \ {0}
      /\ \A i \in 1 .. N : Size(was[i]) \in Nat \ {0}
      /\ \A i \in 1 .. N : Size(is[i]) \in Nat \ {0}
      /\ Size(Entry(a, g)) \in Nat \ {0}
  <2>1. \A i \in 1 .. N : Size(attrs[i]) \in Nat \ {0}
    BY TableSizes
  <2>2. \A i \in 1 .. N : Size(was[i]) \in Nat \ {0}
    BY <1>3, TableSizes
  <2>3. g \in Forms
    BY DEF g
  <2>4. \A i \in 1 .. N : Size(is[i]) \in Nat \ {0}
    BY <1>3, <2>3, TableSizes
  <2>5. Size(Entry(a, g)) \in Nat \ {0}
    BY <2>3, SameSize
  <2> QED
    BY <2>1, <2>2, <2>4, <2>5
<1>6. Total(new) = Total(attrs) - Size(attrs[p]) + Size(Entry(a, g))
  <2> HIDE DEF Size
  <2>1. p \in 1 .. Len(attrs) /\ \A i \in 1 .. Len(attrs) : Size(attrs[i]) \in Nat \ {0}
    BY <1>4, <1>5
  <2> QED
    BY <1>4, <1>5, <2>1, TotalMoved DEF Size
<1>7. Total(is) = Total(was) - Size(was[a]) + Size(is[a])
  <2>1. \A i \in 1 .. N : i # a => is[i] = was[i]
    BY <1>1, <1>2, <1>3
  <2>2. /\ \A i \in 1 .. N : CalculateAttrSize(was[i], FALSE) \in Nat \ {0}
        /\ \A i \in 1 .. N : CalculateAttrSize(is[i], FALSE) \in Nat \ {0}
    BY <1>5
  <2>3. Len(was) = N /\ Len(is) = N
    BY <1>3
  <2> DEFINE T == {Entry(b, f) : b \in 1 .. N} \cup {Entry(b, g) : b \in 1 .. N}
  <2>4. was \in Seq(T) /\ is \in Seq(T)
    <3>1. was \in Seq({Entry(b, f) : b \in 1 .. N}) /\ is \in Seq({Entry(b, g) : b \in 1 .. N})
      BY <1>3 DEF Table
    <3> QED
      BY <3>1
  <2> HIDE DEF T
  <2>5. Instead(was, is, a)
    BY <1>1, <2>1, <2>2, <2>3, <2>4, TotalReplaced
  <2> QED
    BY <2>5 DEF Instead
<1>8. was[a] = Entry(a, f) /\ is[a] = Entry(a, g)
  BY <1>1, <1>3
<1>9. Total(new) = Total(is)
  <2>1. Total(attrs) = Total(was)
    BY DEF SizedAs, was
  <2> HIDE DEF Total, Size, new
  <2> QED
    BY <1>6, <1>7, <1>8, <2>1
<1> QED
  BY <1>9 DEF SizedAs, is, g

\* What the receiver makes of a message: each attribute, where the sender laid
\* it, as it is after its bytes were swapped twice.
LEMMA RoundTrip ==
    ASSUME NEW id, NEW f \in Forms, NEW attrs, Table(attrs, f, N)
    PROVE  LET m == Message(CreateMessage(MessageOf(id, N, attrs)))
           IN  /\ m.fAttrNum = N
               /\ m.fAttrs = [i \in 1 .. N |-> ToHost(ToNetwork(attrs[i]))]
<1> DEFINE raw == CreateMessage(MessageOf(id, N, attrs))
           end == AttrEnds(attrs)
           Back(i) == ToHost(ToNetwork(attrs[i]))
           Next1(before) ==
               LET attr == At(raw, before.next)
               IN  [next |-> before.next + CalculateAttrSize(attr, TRUE),
                    attrs |-> Append(before.attrs, ToHost(attr))]
           Step(p) == [n \in 0 .. N |-> IF n = 0 THEN [next |-> 0, attrs |-> << >>]
                                                ELSE Next1(p[n - 1])]
           parsed == CHOOSE p : p = Step(p)
           all == [n \in 0 .. N |-> [next |-> end[n], attrs |-> [i \in 1 .. n |-> Back(i)]]]
<1>1. N \in Nat \ {0} /\ Len(attrs) = N /\ DOMAIN attrs = 1 .. N
  BY Constants, TableFields DEF Table
<1>2. raw.flags = {} /\ raw.attrNum = Swap(Field(N)) /\ raw.attrs = Laid(attrs)
  BY DEF CreateMessage, MessageOf, SwapFlags, IsBinary
<1>3. ASSUME NEW i \in 1 .. N
      PROVE  /\ CalculateAttrSize(attrs[i], FALSE) \in Nat \ {0}
             /\ CalculateAttrSize(ToNetwork(attrs[i]), TRUE) = CalculateAttrSize(attrs[i], FALSE)
  <2>1. PICK a \in 1 .. N : attrs[i] = Entry(a, f)
    BY <1>1, TableFields
  <2>2. a \in Attr
    BY Constants
  <2> QED
    BY <2>1, <2>2, SameSize
<1>4. /\ end \in [0 .. N -> Nat] /\ end[0] = 0
      /\ \A i \in 1 .. N : end[i] = end[i - 1] + CalculateAttrSize(attrs[i], FALSE)
      /\ \A j \in 0 .. N : \A i \in 0 .. N : i < j => end[i] < end[j]
  BY <1>1, <1>3, EndsGrow
<1>5. /\ DOMAIN raw.attrs = 1 .. N
      /\ \A i \in 1 .. N : raw.attrs[i].at = end[i - 1] /\ raw.attrs[i].attr = ToNetwork(attrs[i])
  BY <1>1, <1>2 DEF Laid
<1> HIDE DEF raw, end
<1>6. ASSUME NEW i \in 1 .. N
      PROVE  At(raw, end[i - 1]) = ToNetwork(attrs[i])
  <2>1. \A j \in 1 .. N : raw.attrs[j].at = end[i - 1] <=> j = i
    <3> SUFFICES ASSUME NEW j \in 1 .. N, end[j - 1] = end[i - 1] PROVE j = i
      BY <1>5
    <3>1. j - 1 \in 0 .. N /\ i - 1 \in 0 .. N
      BY <1>1
    <3>2. ~(j - 1 < i - 1) /\ ~(i - 1 < j - 1)
      BY <1>4, <3>1
    <3> QED
      BY <1>1, <3>1, <3>2
  <2> QED
    BY <1>5, <2>1 DEF At
<1>7. ASSUME NEW n \in 1 .. N
      PROVE  Next1([next |-> end[n - 1], attrs |-> [i \in 1 .. n - 1 |-> Back(i)]])
                = [next |-> end[n], attrs |-> [i \in 1 .. n |-> Back(i)]]
  <2>1. Append([i \in 1 .. n - 1 |-> Back(i)], Back(n)) = [i \in 1 .. n |-> Back(i)]
    <3> HIDE DEF Back
    <3> QED
      OBVIOUS
  <2>2. end[n] = end[n - 1] + CalculateAttrSize(ToNetwork(attrs[n]), TRUE)
    BY <1>3, <1>4
  <2> QED
    BY <1>6, <2>1, <2>2
<1> HIDE DEF Next1, Back
<1>8. all = Step(all)
  <2>1. end[0] = 0 /\ [i \in 1 .. 0 |-> Back(i)] = << >>
    BY <1>4
  <2>2. ASSUME NEW n \in 1 .. N PROVE all[n] = Next1(all[n - 1])
    <3>1. n \in 0 .. N /\ n - 1 \in 0 .. N
      BY <1>1
    <3>2. all[n - 1] = [next |-> end[n - 1], attrs |-> [i \in 1 .. n - 1 |-> Back(i)]]
      BY <3>1
    <3>3. all[n] = [next |-> end[n], attrs |-> [i \in 1 .. n |-> Back(i)]]
      BY <3>1
    <3> HIDE DEF all
    <3> QED
      BY <1>7, <3>2, <3>3
  <2>3. 0 \in 0 .. N /\ \A n \in 0 .. N : n = 0 \/ n \in 1 .. N
    BY <1>1
  <2>4. all[0] = [next |-> 0, attrs |-> << >>]
    BY <2>1, <2>3
  <2>5. all = [n \in 0 .. N |-> all[n]]
    OBVIOUS
  <2> HIDE DEF all
  <2>6. \A n \in 0 .. N : all[n] = IF n = 0 THEN [next |-> 0, attrs |-> << >>] ELSE Next1(all[n - 1])
    BY <2>2, <2>3, <2>4
  <2> QED
    BY <2>5, <2>6
<1>9. parsed = Step(parsed)
  BY <1>8
<1>10. /\ Message(raw).fAttrNum = N
       /\ Message(raw).fAttrs = parsed[N].attrs
  <2>1. Val(Swap(raw.attrNum)) = N
    BY <1>2, SwapBack
  <2>2. mf_binary \notin raw.flags
    BY <1>2
  <2> QED
    BY <2>1, <2>2 DEF Message, Next1
<1> HIDE DEF parsed
<1> DEFINE same == {n \in 0 .. N : parsed[n] = [next |-> end[n], attrs |-> [i \in 1 .. n |-> Back(i)]]}
<1>11. 0 \in same
  BY <1>1, <1>4, <1>9
<1>12. ASSUME NEW n \in 1 .. N, n - 1 \in same
       PROVE  n \in same
  <2>1. n \in 0 .. N /\ n # 0
    BY <1>1
  <2>2. parsed[n] = Next1(parsed[n - 1])
    BY <1>9, <2>1
  <2>3. parsed[n - 1] = [next |-> end[n - 1], attrs |-> [i \in 1 .. n - 1 |-> Back(i)]]
    BY <1>12
  <2>4. parsed[n] = [next |-> end[n], attrs |-> [i \in 1 .. n |-> Back(i)]]
    BY <1>7, <2>2, <2>3
  <2> QED
    BY <2>1, <2>4
<1>13. 0 .. N \subseteq same
  <2> HIDE DEF same
  <2> QED
    BY <1>1, <1>11, <1>12, InductionTo
<1>14. parsed[N] = [next |-> end[N], attrs |-> [i \in 1 .. N |-> Back(i)]]
  BY <1>1, <1>13
<1> QED
  BY <1>10, <1>14 DEF raw, Back

\* What a message holds for an attribute that was set to what the form has.
LEMMA GetEntry ==
    ASSUME NEW m, NEW a \in Attr, NEW f \in Forms, findAttr(m, a) = Entry(a, f)
    PROVE  GetAttr(m, a) = f[a]
<1> DEFINE attr == Entry(a, f)
           length == IF attr.dataType = "dt_string" THEN Val(attr.size) \div 2
                                                    ELSE Len(attr.units)
<1>1. /\ f[a] \in Seq(Nat)
      /\ attr.dataType = TypeFor[Kind[a]]
      /\ attr.units = [i \in DOMAIN f[a] |-> Field(f[a][i])]
      /\ Kind[a] = "string" => attr.size = Field(2 * Len(f[a]))
  BY EntryIs
<1>2. Kind[a] = "string" <=> TypeFor[Kind[a]] = "dt_string"
  BY Constants DEF TypeFor
<1>3. GetAttr(m, a) = [i \in 1 .. length |-> Val(attr.units[i])]
  BY DEF GetAttr
<1> HIDE DEF attr
<1>4. Len(attr.units) = Len(f[a])
  BY <1>1
<1>5. length = Len(f[a])
  <2>1. CASE Kind[a] = "string"
    <3>1. attr.size = Field(2 * Len(f[a]))
      BY <1>1, <2>1
    <3>2. Val(attr.size) = 2 * Len(f[a])
      BY <3>1, SwapBack
    <3>3. length = Val(attr.size) \div 2
      BY <1>1, <1>2, <2>1
    <3>4. Len(f[a]) \in Nat
      BY <1>1
    <3>5. \A n \in Nat : (2 * n) \div 2 = n
      OBVIOUS
    <3> HIDE DEF length
    <3> QED
      BY <3>2, <3>3, <3>4, <3>5
  <2>2. CASE Kind[a] # "string"
    BY <1>1, <1>2, <1>4, <2>2
  <2> QED
    BY <2>1, <2>2
<1> HIDE DEF length
<1>6. \A i \in 1 .. Len(f[a]) : Val(attr.units[i]) = f[a][i]
  BY <1>1, SwapBack
<1>7. f[a] = [i \in 1 .. Len(f[a]) |-> f[a][i]]
  BY <1>1
<1> QED
  BY <1>3, <1>5, <1>6, <1>7

\* A datagram has as many bytes as the message that it was made of.
LEMMA SizeOfMessage ==
    ASSUME NEW id, NEW attrs
    PROVE  /\ GetSize(MessageOf(id, N, attrs)) = MESSAGE_HEADER_SIZE + CalculateTotalAttrSize(attrs)
           /\ DatagramSize(CreateMessage(MessageOf(id, N, attrs)))
                = MESSAGE_HEADER_SIZE + CalculateTotalAttrSize(attrs)
<1> DEFINE m == MessageOf(id, N, attrs)
<1>1. GetSize(m) = MESSAGE_HEADER_SIZE + CalculateTotalAttrSize(attrs)
  BY DEF GetSize, MessageOf
<1>2. CreateMessage(m).size = Swap(Field(GetSize(m)))
  BY DEF CreateMessage
<1>3. DatagramSize(CreateMessage(m)) = GetSize(m)
  BY <1>2, SwapBack DEF DatagramSize
<1> QED
  BY <1>1, <1>3

\* The message of the server, as Delivered says.
Arrived(m, f) ==
    /\ m.fAttrNum = Len(m.fAttrs)
    /\ Len(m.fAttrs) = N
    /\ \A a \in Attr :
          /\ IsAttrExist(m, a)
          /\ \/ Kind[a] = "float" /\ f[a] # << 0 >>
             \/ GetAttr(m, a) = f[a]

LEMMA Arrives ==
    ASSUME NEW id, NEW f \in Forms, NEW attrs, Table(attrs, f, N)
    PROVE  Arrived(Message(CreateMessage(MessageOf(id, N, attrs))), f)
<1> DEFINE m == Message(CreateMessage(MessageOf(id, N, attrs)))
           Back(i) == ToHost(ToNetwork(attrs[i]))
<1>1. m.fAttrNum = N /\ m.fAttrs = [i \in 1 .. N |-> Back(i)]
  BY RoundTrip
<1>2. /\ N \in Nat \ {0} /\ Attr = 1 .. N /\ DOMAIN attrs = 1 .. N
      /\ \A i \in 1 .. N : Val(attrs[i].code) \in 1 .. N /\ attrs[i] = Entry(Val(attrs[i].code), f)
  BY Constants, TableFields
<1> HIDE DEF m
<1>3. Len(m.fAttrs) = N /\ DOMAIN m.fAttrs = 1 .. N /\ \A i \in 1 .. N : m.fAttrs[i] = Back(i)
  <2> HIDE DEF Back
  <2> QED
    BY <1>1, <1>2
<1>4. ASSUME NEW i \in 1 .. N
      PROVE  Val(m.fAttrs[i].code) = Val(attrs[i].code)
  <2> DEFINE a == Val(attrs[i].code)
  <2>1. a \in Attr /\ attrs[i] = Entry(a, f)
    BY <1>2
  <2> HIDE DEF a
  <2>2. m.fAttrs[i].code = Field(a)
    BY <1>3, <2>1, AttrBack
  <2>3. Val(m.fAttrs[i].code) = a
    BY <2>2, SwapBack
  <2> QED
    BY <2>3 DEF a
<1>5. ASSUME NEW a \in Attr
      PROVE  /\ IsAttrExist(m, a)
             /\ findAttr(m, a) = ToHost(ToNetwork(Entry(a, f)))
  <2>1. PICK q \in 1 .. N : attrs[q] = Entry(a, f)
    BY <1>2 DEF Table
  <2>2. Val(attrs[q].code) = a
    BY <2>1, EntryFields
  <2>3. q \in DOMAIN m.fAttrs /\ Val(m.fAttrs[q].code) = a
    BY <1>3, <1>4, <2>2
  <2>4. \A i \in DOMAIN m.fAttrs : Val(m.fAttrs[i].code) = a => m.fAttrs[i] = ToHost(ToNetwork(Entry(a, f)))
    <3> SUFFICES ASSUME NEW i \in 1 .. N, Val(m.fAttrs[i].code) = a
                 PROVE  m.fAttrs[i] = ToHost(ToNetwork(Entry(a, f)))
      BY <1>3
    <3>1. Val(attrs[i].code) = a
      BY <1>4
    <3>2. attrs[i] = Entry(a, f)
      BY <1>2, <3>1
    <3>3. m.fAttrs[i] = Back(i)
      BY <1>3
    <3> QED
      BY <3>2, <3>3
  <2>5. IsAttrExist(m, a)
    BY <2>3 DEF IsAttrExist
  <2>6. PlaceOf(m, a) \in DOMAIN m.fAttrs /\ Val(m.fAttrs[PlaceOf(m, a)].code) = a
    BY <2>3 DEF PlaceOf
  <2> QED
    BY <2>4, <2>5, <2>6 DEF findAttr
<1>6. ASSUME NEW a \in Attr, Kind[a] # "float"
      PROVE  GetAttr(m, a) = f[a]
  <2>1. findAttr(m, a) = Entry(a, f)
    BY <1>5, <1>6, AttrBack
  <2> QED
    BY <2>1, GetEntry
<1>7. ASSUME NEW a \in Attr, Kind[a] = "float", f[a] = << 0 >>
      PROVE  GetAttr(m, a) = f[a]
  <2> DEFINE attr == findAttr(m, a)
  <2>1. attr.dataType = TypeFor[Kind[a]] /\ Len(attr.units) = 1 /\ Val(attr.units[1]) = 0
    BY <1>5, <1>7, AttrBack
  <2>2. attr.dataType # "dt_string"
    BY <1>7, <2>1 DEF TypeFor
  <2>3. GetAttr(m, a) = [i \in 1 .. 1 |-> Val(attr.units[i])]
    BY <2>1, <2>2 DEF GetAttr
  <2> HIDE DEF attr
  <2> QED
    BY <1>7, <2>1, <2>3
<1>8. m.fAttrNum = Len(m.fAttrs) /\ Len(m.fAttrs) = N
  BY <1>1, <1>3
<1> QED
  BY <1>5, <1>6, <1>7, <1>8 DEF Arrived, m

-----------------------------------------------------------------------------
(* Numbers in the table                                                    *)

\* A number of a width w fits in it as it is, with a sign or without, and
\* strtol and strtoul leave it alone.
LEMMA NumberBack ==
    ASSUME NEW w \in Nat \ {0}, w % 2 = 0, NEW v \in 0 .. w - 1
    PROVE  /\ Bits(v, w) = v
           /\ Strtol(Signed(v, w), w) = Signed(v, w)
           /\ GetUnsigned(Number(Signed(v, w)), w) = v
           /\ GetUnsigned(Number(v), w) = v
<1> DEFINE h == w \div 2
<1>1. h \in Nat \ {0} /\ w = 2 * h
  OBVIOUS
<1>2. v % w = v /\ (v >= h => (v - w) % w = v)
  <2>1. v % w = v
    OBVIOUS
  <2>2. ASSUME v >= h PROVE (v - w) % w = v
    <3>1. -w <= v - w /\ v - w < 0 /\ v - w \in Int
      OBVIOUS
    <3>2. \A x \in Int : -w <= x /\ x < 0 => x % w = x + w
      OBVIOUS
    <3> QED
      BY <3>1, <3>2
  <2> QED
    BY <2>1, <2>2
<1>3. Bits(v, w) = v
  BY <1>2 DEF Bits
<1> HIDE DEF h
<1>4. Signed(v, w) = (IF v >= h THEN v - w ELSE v) /\ Signed(v, w) \in -h .. h - 1
  BY <1>1 DEF Signed, h
<1>5. \A n \in -h .. h - 1 : Strtol(n, w) = n
  BY <1>1 DEF Strtol, h
<1>6. \A n \in 0 .. w - 1 : Strtoul(n, w) = n
  BY DEF Strtoul
<1>7. \A n : NumberIn(Number(n)) = n
  BY DEF NumberIn, Number
<1>8. GetUnsigned(Number(Signed(v, w)), w) = v
  <2>1. CASE v >= h
    <3>1. Signed(v, w) = v - w /\ v - w < 0 /\ Strtol(v - w, w) = v - w
      BY <1>4, <1>5, <2>1
    <3>2. GetUnsigned(Number(v - w), w) = Bits(v - w, w)
      BY <1>7, <3>1 DEF GetUnsigned
    <3> QED
      BY <1>2, <2>1, <3>1, <3>2 DEF Bits
  <2>2. CASE v < h
    <3>1. Signed(v, w) = v /\ ~(v < 0) /\ Strtoul(v, w) = v
      BY <1>4, <1>6, <1>1, <2>2
    <3> QED
      BY <1>7, <3>1 DEF GetUnsigned
  <2> QED
    BY <1>1, <2>1, <2>2
<1>9. GetUnsigned(Number(v), w) = v
  <2>1. ~(v < 0) /\ Strtoul(v, w) = v
    BY <1>6
  <2> QED
    BY <1>7, <2>1 DEF GetUnsigned
<1> QED
  BY <1>3, <1>4, <1>5, <1>8, <1>9

\* NULL, and the empty text that some results make of it, is read as 0.
LEMMA NullIsZero ==
    ASSUME NEW f \in {Null, Text(<< >>)}
    PROVE  /\ DBGetFieldLong(f) = 0 /\ DBGetFieldULong(f) = 0
           /\ DBGetFieldInt64(f) = 0 /\ DBGetFieldUInt64(f) = 0
<1>1. NumberIn(f) = 0
  BY DEF NumberIn, Null, Text
<1>2. ASSUME NEW w \in Nat \ {0}, w % 2 = 0
      PROVE  Strtol(0, w) = 0 /\ GetUnsigned(f, w) = 0
  <2>1. w \div 2 \in Nat \ {0}
    BY <1>2
  <2>2. Strtol(0, w) = 0
    BY <2>1 DEF Strtol
  <2>3. Strtoul(0, w) = 0
    BY DEF Strtoul
  <2> QED
    BY <1>1, <2>2, <2>3 DEF GetUnsigned
<1>3. Narrow \in Nat \ {0} /\ Narrow % 2 = 0 /\ Wide \in Nat \ {0} /\ Wide % 2 = 0
  BY WidthAssumption
<1> QED
  BY <1>1, <1>2, <1>3 DEF DBGetFieldLong, DBGetFieldULong, DBGetFieldInt64, DBGetFieldUInt64

\* What a column is sent for a value that its attribute can hold.
LEMMA SentIs ==
    ASSUME NEW a \in Attr, NEW v \in Seq(Nat), Holdable(Kind[a], v)
    PROVE  /\ Kind[a] = "float" => Sent(a, v) = Null
           /\ Kind[a] = "string" => Sent(a, v) = Text(v)
           /\ Kind[a] = "bytes" => Sent(a, v) = Text(bin_to_str(v))
           /\ Kind[a] \in {"int32", "uint32"} =>
                 v[1] \in 0 .. Narrow - 1 /\ Sent(a, v) = Number(Signed(v[1], Narrow))
           /\ Kind[a] = "int64" =>
                 v[1] \in 0 .. Wide - 1 /\ Sent(a, v) = Number(Signed(v[1], Wide))
           /\ Kind[a] = "uint64" =>
                 v[1] \in 0 .. Wide - 1 /\ Sent(a, v) = Number(v[1])
<1> DEFINE b == Parameter(a, v)
<1>1. Narrow \in Nat \ {0} /\ Narrow % 2 = 0 /\ Wide \in Nat \ {0} /\ Wide % 2 = 0
  BY WidthAssumption
<1>2. ASSUME Kind[a] = "string" PROVE b.type = "STRING" /\ b.buffer = v
  BY <1>2 DEF Parameter, DBBind, DrvBind, CType
<1>3. ASSUME Kind[a] = "bytes" PROVE b.type = "STRING" /\ b.buffer = bin_to_str(v)
  BY <1>3 DEF Parameter, DBBind, DrvBind, CType
<1>4. ASSUME Kind[a] \in {"int32", "uint32"}
      PROVE  b.type = "LONG" /\ ~b.is_unsigned /\ b.buffer = v
  BY <1>4 DEF Parameter, DBBind, DrvBind, CType, Unbound
<1>5. ASSUME Kind[a] \in {"int64", "uint64"}
      PROVE  b.type = "LONGLONG" /\ (b.is_unsigned <=> Kind[a] = "uint64") /\ b.buffer = v
  BY <1>5 DEF Parameter, DBBind, DrvBind, CType, Unbound
<1>6. ASSUME Kind[a] \in {"int32", "uint32"}
      PROVE  v[1] \in 0 .. Narrow - 1 /\ Sent(a, v) = Number(Signed(v[1], Narrow))
  <2>1. v[1] \in 0 .. Narrow - 1
    <3>1. Len(v) = 1 /\ v[1] < Narrow
      BY <1>6 DEF Holdable
    <3>2. v[1] \in Nat
      BY <3>1
    <3> QED
      BY <1>1, <3>1, <3>2
  <2>2. Bits(v[1], Narrow) = v[1]
    BY <1>1, <2>1, NumberBack
  <2>3. NumberSent(b) = Signed(v[1], Narrow)
    <3> HIDE DEF b
    <3> QED
      BY <1>4, <1>6, <2>2 DEF NumberSent
  <2>4. Sent(a, v) = Number(NumberSent(b))
    BY <1>4, <1>6 DEF Sent
  <2> QED
    BY <2>1, <2>3, <2>4
<1>7. ASSUME Kind[a] \in {"int64", "uint64"}
      PROVE  /\ v[1] \in 0 .. Wide - 1
             /\ Sent(a, v) = Number(IF Kind[a] = "uint64" THEN v[1] ELSE Signed(v[1], Wide))
  <2>1. v[1] \in 0 .. Wide - 1
    <3>1. Len(v) = 1 /\ v[1] < Wide
      BY <1>7 DEF Holdable
    <3>2. v[1] \in Nat
      BY <3>1
    <3> QED
      BY <1>1, <3>1, <3>2
  <2>2. Bits(v[1], Wide) = v[1]
    BY <1>1, <2>1, NumberBack
  <2>3. NumberSent(b) = IF Kind[a] = "uint64" THEN v[1] ELSE Signed(v[1], Wide)
    <3> HIDE DEF b
    <3> QED
      BY <1>5, <1>7, <2>2 DEF NumberSent
  <2>4. Sent(a, v) = Number(NumberSent(b))
    BY <1>5, <1>7 DEF Sent
  <2> QED
    BY <2>1, <2>3, <2>4
<1>8. /\ Kind[a] = "float" => Sent(a, v) = Null
      /\ Kind[a] = "string" => Sent(a, v) = Text(v)
      /\ Kind[a] = "bytes" => Sent(a, v) = Text(bin_to_str(v))
  <2>1. ASSUME Kind[a] = "float" PROVE Sent(a, v) = Null
    BY <2>1 DEF Sent
  <2>2. ASSUME Kind[a] = "string" PROVE Sent(a, v) = Text(v)
    BY <1>2, <2>2 DEF Sent
  <2>3. ASSUME Kind[a] = "bytes" PROVE Sent(a, v) = Text(bin_to_str(v))
    BY <1>3, <2>3 DEF Sent
  <2> QED
    BY <2>1, <2>2, <2>3
<1> QED
  BY <1>6, <1>7, <1>8

-----------------------------------------------------------------------------
(* Texts in the table                                                      *)

\* Characters of one byte each are as many as their bytes.
LEMMA PlainLength ==
    ASSUME NEW text \in Seq(Nat), \A i \in 1 .. Len(text) : text[i] < 128
    PROVE  Utf8Length(text) = Len(text)
<1> DEFINE n == Len(text)
           Step(b) == [k \in 0 .. n |-> IF k = 0 THEN 0 ELSE b[k - 1] + Utf8Size(text[k])]
           bytes == CHOOSE b : b = Step(b)
           same == {k \in 0 .. n : bytes[k] = k}
           self == [k \in 0 .. n |-> k]
<1>1. n \in Nat /\ \A k \in 1 .. n : Utf8Size(text[k]) = 1
  BY DEF Utf8Size
<1>2. self = Step(self)
  BY <1>1
<1>3. bytes = Step(bytes)
  BY <1>2
<1>4. Utf8Length(text) = bytes[n]
  BY DEF Utf8Length
<1> HIDE DEF bytes, n
<1>5. 0 \in same
  BY <1>1, <1>3
<1>6. \A k \in 1 .. n : k - 1 \in same => k \in same
  BY <1>1, <1>3
<1>7. 0 .. n \subseteq same
  <2> HIDE DEF same
  <2> QED
    BY <1>1, <1>5, <1>6, InductionTo
<1> QED
  BY <1>1, <1>4, <1>7 DEF n

\* No character has less than a byte.
LEMMA LengthAtMost ==
    ASSUME NEW text \in Seq(Nat)
    PROVE  Utf8Length(text) \in Nat /\ Len(text) <= Utf8Length(text)
<1> DEFINE n == Len(text)
           W(k) == Utf8Size(text[k])
           Step(b) == [k \in 0 .. n |-> IF k = 0 THEN 0 ELSE b[k - 1] + W(k)]
           bytes == CHOOSE b : b = Step(b)
           enough == {k \in 0 .. n : bytes[k] \in Nat /\ k <= bytes[k]}
           Partial(k, g) == g[0] = 0 /\ \A i \in 1 .. k : g[i] = g[i - 1] + W(i)
           some == {k \in 0 .. n : \E g \in [0 .. k -> Nat] : Partial(k, g)}
<1>1. n \in Nat /\ \A k \in 1 .. n : W(k) \in Nat \ {0}
  BY DEF Utf8Size
<1> HIDE DEF n, W
<1>2. 0 \in some
  <2> DEFINE g == [i \in 0 .. 0 |-> 0]
  <2>1. g \in [0 .. 0 -> Nat] /\ Partial(0, g)
    OBVIOUS
  <2>2. \E e \in [0 .. 0 -> Nat] : Partial(0, e)
    <3> HIDE DEF g, Partial
    <3> QED
      BY <2>1
  <2> QED
    BY <1>1, <2>2
<1>3. ASSUME NEW k \in 1 .. n, k - 1 \in some
      PROVE  k \in some
  <2>1. PICK g \in [0 .. k - 1 -> Nat] : Partial(k - 1, g)
    BY <1>3
  <2> DEFINE h == [i \in 0 .. k |-> IF i = k THEN g[k - 1] + W(k) ELSE g[i]]
  <2>2. h \in [0 .. k -> Nat]
    BY <1>1
  <2>3. h[0] = 0
    BY <1>1, <2>1
  <2>4. ASSUME NEW i \in 1 .. k PROVE h[i] = h[i - 1] + W(i)
    <3>1. h[i - 1] = g[i - 1]
      BY <1>1
    <3>2. CASE i = k
      BY <3>1, <3>2
    <3>3. CASE i # k
      BY <1>1, <2>1, <3>1, <3>3
    <3> QED
      BY <3>2, <3>3
  <2> HIDE DEF h
  <2>5. Partial(k, h)
    BY <2>3, <2>4
  <2>6. \E e \in [0 .. k -> Nat] : Partial(k, e)
    <3> HIDE DEF Partial
    <3> QED
      BY <2>2, <2>5
  <2>7. k \in 0 .. n
    BY <1>1
  <2> HIDE DEF Partial
  <2> QED
    BY <2>6, <2>7
<1>4. n \in some
  <2> HIDE DEF some
  <2>1. 0 .. n \subseteq some
    BY <1>1, <1>2, <1>3, InductionTo
  <2> QED
    BY <1>1, <2>1
<1>5. PICK g \in [0 .. n -> Nat] : Partial(n, g)
  BY <1>4
<1>6. g = Step(g)
  BY <1>1, <1>5
<1>7. bytes = Step(bytes)
  BY <1>6
<1>8. Utf8Length(text) = bytes[n]
  BY DEF Utf8Length, n, W
<1> HIDE DEF bytes
<1>9. 0 \in enough
  BY <1>1, <1>7
<1>10. ASSUME NEW k \in 1 .. n, k - 1 \in enough
       PROVE  k \in enough
  <2>1. bytes[k] = bytes[k - 1] + W(k) /\ k \in 0 .. n
    BY <1>1, <1>7
  <2>2. bytes[k - 1] \in Nat /\ k - 1 <= bytes[k - 1] /\ W(k) \in Nat \ {0}
    BY <1>1, <1>10
  <2> QED
    BY <2>1, <2>2
<1>11. n \in enough
  <2> HIDE DEF enough
  <2>1. 0 .. n \subseteq enough
    BY <1>1, <1>9, <1>10, InductionTo
  <2> QED
    BY <1>1, <2>1
<1> QED
  BY <1>8, <1>11 DEF n

\* A text arrives up to the size of the buffer.  Where the number of bytes is
\* taken for the number of characters, its characters have to be of one byte.
LEMMA TextBack ==
    ASSUME NEW r, NEW text \in Seq(Nat), NEW size \in Nat \ {0},
           r.unbuffered /\ ~r.prepared => \A i \in 1 .. Len(text) : text[i] < 128,
           ~(r.unbuffered /\ ~r.prepared) => Len(text) < size
    PROVE  TextInto(r, text, size)
               = SubSeq(text, 1, IF Len(text) < size THEN Len(text) ELSE size - 1)
<1> DEFINE n == IF Len(text) < size THEN Len(text) ELSE size - 1
<1>1. Len(text) \in Nat /\ n \in 0 .. Len(text)
  OBVIOUS
<1>2. CASE ~(r.unbuffered /\ ~r.prepared)
  <2>1. TextInto(r, text, size) = text /\ n = Len(text)
    BY <1>2 DEF TextInto
  <2>2. SubSeq(text, 1, Len(text)) = text
    OBVIOUS
  <2> QED
    BY <2>1, <2>2
<1>3. CASE r.unbuffered /\ ~r.prepared
  <2>1. \A i \in 1 .. Len(text) : text[i] < 128
    BY <1>3
  <2>2. ASSUME NEW k \in 0 .. Len(text)
        PROVE  Utf8Length(SubSeq(text, 1, k)) = k
    <3>1. /\ SubSeq(text, 1, k) \in Seq(Nat) /\ Len(SubSeq(text, 1, k)) = k
          /\ \A i \in 1 .. k : SubSeq(text, 1, k)[i] = text[i]
      BY <1>1
    <3>2. \A i \in 1 .. Len(SubSeq(text, 1, k)) : SubSeq(text, 1, k)[i] < 128
      BY <1>1, <2>1, <3>1
    <3> QED
      BY <3>1, <3>2, PlainLength
  <2>3. Utf8Length(text) = Len(text)
    BY <2>1, PlainLength
  <2> DEFINE whole == {k \in 0 .. Len(text) : Utf8Length(SubSeq(text, 1, k)) <= n}
             last == CHOOSE k \in whole : \A j \in whole : j <= k
             chars == SubSeq(text, 1, n)
  <2>4. n \in whole /\ \A j \in whole : j \in Nat /\ j <= n
    BY <1>1, <2>2
  <2>5. last = n
    <3> HIDE DEF whole, n
    <3>1. last \in whole /\ \A j \in whole : j <= last
      BY <2>4
    <3> QED
      BY <2>4, <3>1
  <2>6. Utf8Length(SubSeq(text, 1, last)) = n
    BY <1>1, <2>2, <2>5
  <2>7. chars \in Seq(Nat) /\ Len(chars) = n
    BY <1>1
  <2>8. Decoded(text, n) = chars \o << >>
    <3> HIDE DEF n
    <3> DEFINE cut == last < Len(text) /\ Utf8Length(SubSeq(text, 1, last)) < n
    <3>1. ~cut
      BY <1>1, <2>6
    <3> DEFINE end == IF cut THEN <<65533>> ELSE << >>
    <3>2. Decoded(text, n) = SubSeq(text, 1, last) \o end
      BY SMT DEF Decoded
    <3> HIDE DEF last, cut
    <3>3. end = << >>
      BY <3>1
    <3> HIDE DEF end
    <3> QED
      BY <2>5, <3>2, <3>3
  <2>9. chars \o << >> = chars
    BY <2>7, ConcatEmptySeq
  <2>10. TextInto(r, text, size)
            = [i \in 1 .. n |-> IF i <= Len(Decoded(text, n)) THEN Decoded(text, n)[i] ELSE Unset]
    BY <1>3, <2>3 DEF TextInto
  <2> HIDE DEF n, chars
  <2>11. TextInto(r, text, size) = [i \in 1 .. n |-> chars[i]]
    BY <1>1, <2>7, <2>8, <2>9, <2>10
  <2>12. chars = [i \in 1 .. n |-> chars[i]]
    BY <2>7
  <2> QED
    BY <2>11, <2>12 DEF chars, n
<1> QED
  BY <1>2, <1>3

\* Bytes that are written as hexadecimal digits.
LEMMA HexBack ==
    ASSUME NEW data \in Seq(Nat), \A i \in 1 .. Len(data) : data[i] < Octet
    PROVE  LET text == bin_to_str(data)
           IN  /\ text \in Seq(Nat) /\ Len(text) = 2 * Len(data)
               /\ \A i \in 1 .. Len(text) : text[i] < 128
               /\ \A i \in 1 .. Len(data) :
                     16 * hex2bin(text[2 * i - 1]) + hex2bin(text[2 * i]) = data[i]
<1> DEFINE n == Len(data)
           text == bin_to_str(data)
           Char(i) == LET byte == data[(i + 1) \div 2]
                      IN  bin2hex(IF i % 2 = 1 THEN byte \div 16 ELSE byte % 16)
<1>1. n \in Nat /\ \A i \in 1 .. n : data[i] \in 0 .. 255
  <2> SUFFICES ASSUME NEW i \in 1 .. n PROVE data[i] \in 0 .. 255
    OBVIOUS
  <2>1. data[i] \in Nat
    OBVIOUS
  <2>2. data[i] < 256
    BY DEF Octet
  <2> DEFINE byte == data[i]
  <2> HIDE DEF byte
  <2>3. byte \in Nat /\ byte < 256
    BY <2>1, <2>2 DEF byte
  <2>4. byte \in 0 .. 255
    BY <2>3
  <2> QED
    BY <2>4 DEF byte
<1>2. text = [i \in 1 .. 2 * n |-> Char(i)]
  BY DEF bin_to_str
<1>3. ASSUME NEW x \in 0 .. 15
      PROVE  bin2hex(x) \in 48 .. 70 /\ hex2bin(bin2hex(x)) = x
  <2>1. CASE x < 10
    <3>1. bin2hex(x) = x + 48 /\ bin2hex(x) \in 48 .. 57
      BY <2>1 DEF bin2hex
    <3>2. ASSUME NEW c \in 48 .. 57 PROVE hex2bin(c) = c - 48
      <4>1. c \notin 65 .. 70 /\ c \notin 97 .. 102
        OBVIOUS
      <4> QED
        BY <4>1 DEF hex2bin
    <3> QED
      BY <3>1, <3>2
  <2>2. CASE x >= 10
    <3>1. bin2hex(x) = x + 55 /\ bin2hex(x) \in 65 .. 70
      BY <2>2 DEF bin2hex
    <3>2. hex2bin(bin2hex(x)) = bin2hex(x) - 55
      BY <3>1 DEF hex2bin
    <3> QED
      BY <3>1, <3>2
  <2> QED
    BY <2>1, <2>2
<1>4. \A b \in 0 .. 255 : b \div 16 \in 0 .. 15 /\ (b % 16) \in 0 .. 15 /\ 16 * (b \div 16) + (b % 16) = b
  OBVIOUS
<1>5. ASSUME NEW i \in 1 .. n
      PROVE  /\ Char(2 * i - 1) = bin2hex(data[i] \div 16)
             /\ Char(2 * i) = bin2hex(data[i] % 16)
  <2>1. ((2 * i - 1) + 1) \div 2 = i /\ (2 * i + 1) \div 2 = i
    BY <1>1
  <2>2. (2 * i - 1) % 2 = 1 /\ (2 * i) % 2 = 0
    BY <1>1
  <2> QED
    BY <2>1, <2>2
<1>6. ASSUME NEW i \in 1 .. 2 * n
      PROVE  Char(i) \in 48 .. 70
  <2> DEFINE k == (i + 1) \div 2
  <2>1. k \in 1 .. n
    BY <1>1
  <2>2. data[k] \in 0 .. 255
    BY <1>1, <2>1
  <2>3. (IF i % 2 = 1 THEN data[k] \div 16 ELSE data[k] % 16) \in 0 .. 15
    BY <1>4, <2>2
  <2> QED
    BY <1>3, <2>3
<1> HIDE DEF Char, n, text
<1>7. /\ text \in Seq(Nat) /\ Len(text) = 2 * n
      /\ \A i \in 1 .. 2 * n : text[i] = Char(i)
  <2>1. 2 * n \in Nat
    BY <1>1
  <2> DEFINE m == 2 * n
  <2> HIDE DEF m
  <2>2. m \in Nat
    BY <2>1 DEF m
  <2>3. ASSUME NEW i \in 1 .. m PROVE Char(i) \in Nat
    <3>1. i \in 1 .. 2 * n
      BY DEF m
    <3>2. Char(i) \in 48 .. 70
      BY <1>6, <3>1
    <3> QED
      BY <3>2
  <2>4. text = [i \in 1 .. m |-> Char(i)]
    BY <1>2 DEF m
  <2>5. text \in Seq(Nat) /\ Len(text) = m /\ \A i \in 1 .. m : text[i] = Char(i)
    BY <2>2, <2>3, <2>4
  <2> QED
    BY <2>5 DEF m
<1>8. ASSUME NEW i \in 1 .. Len(text) PROVE text[i] < 128
  <2>1. text[i] \in 48 .. 70
    BY <1>6, <1>7
  <2> QED
    BY <2>1
<1>9. ASSUME NEW i \in 1 .. n
      PROVE  16 * hex2bin(text[2 * i - 1]) + hex2bin(text[2 * i]) = data[i]
  <2>1. 2 * i - 1 \in 1 .. 2 * n /\ 2 * i \in 1 .. 2 * n
    BY <1>1
  <2>2. text[2 * i - 1] = bin2hex(data[i] \div 16) /\ text[2 * i] = bin2hex(data[i] % 16)
    BY <1>5, <1>7, <2>1
  <2>3. data[i] \div 16 \in 0 .. 15 /\ (data[i] % 16) \in 0 .. 15
        /\ 16 * (data[i] \div 16) + (data[i] % 16) = data[i]
    BY <1>1, <1>4
  <2> QED
    BY <1>3, <2>2, <2>3
<1> QED
  BY <1>7, <1>8, <1>9 DEF n, text

\* The digits of the first bytes give these bytes.
LEMMA HexPrefix ==
    ASSUME NEW data \in Seq(Nat), \A i \in 1 .. Len(data) : data[i] < Octet,
           NEW c \in 0 .. 2 * Len(data), NEW size \in Nat
    PROVE  LET text == SubSeq(bin_to_str(data), 1, c)
               count == IF (c + 1) \div 2 < size THEN (c + 1) \div 2 ELSE size
               bytes == str_to_bin(text, size)
           IN  /\ text \in Seq(Nat) /\ Len(text) = c
               /\ DOMAIN bytes = 1 .. count /\ Len(bytes) = count
               /\ \A i \in 1 .. count : 2 * i <= c => bytes[i] = data[i]
<1> DEFINE all == bin_to_str(data)
           text == SubSeq(all, 1, c)
           half == (c + 1) \div 2
           count == IF half < size THEN half ELSE size
           bytes == str_to_bin(text, size)
<1>1. /\ all \in Seq(Nat) /\ Len(all) = 2 * Len(data)
      /\ \A i \in 1 .. Len(data) : 16 * hex2bin(all[2 * i - 1]) + hex2bin(all[2 * i]) = data[i]
  BY HexBack
<1> HIDE DEF all
<1>2. /\ text \in Seq(Nat) /\ Len(text) = c
      /\ \A i \in 1 .. c : text[i] = all[i]
  BY <1>1
<1>3. half \in Nat /\ count \in Nat
  OBVIOUS
<1> HIDE DEF text
<1>4. bytes = [i \in 1 .. count |-> 16 * Digit(text, 2 * i - 1) + Digit(text, 2 * i)]
  BY <1>2 DEF str_to_bin
<1> HIDE DEF bytes, half, count
<1>5. DOMAIN bytes = 1 .. count /\ Len(bytes) = count
  BY <1>3, <1>4
<1>6. ASSUME NEW i \in 1 .. count, 2 * i <= c
      PROVE  bytes[i] = data[i]
  <2>1. i \in 1 .. Len(data) /\ 2 * i - 1 \in 1 .. c /\ 2 * i \in 1 .. c
    BY <1>3, <1>6
  <2>2. Digit(text, 2 * i - 1) = hex2bin(all[2 * i - 1]) /\ Digit(text, 2 * i) = hex2bin(all[2 * i])
    BY <1>2, <2>1 DEF Digit
  <2> QED
    BY <1>1, <1>4, <2>1, <2>2
<1> QED
  BY <1>2, <1>5, <1>6 DEF bytes, count, half, text, all

\* As many bytes as the buffer of a getter takes, each as it was.
LEMMA BytesBack ==
    ASSUME NEW data \in Seq(Nat), \A i \in 1 .. Len(data) : data[i] < Octet
    PROVE  LET text == bin_to_str(data)
               f == Text(SubSeq(text, 1, IF Len(text) < GetterBuffer THEN Len(text)
                                                                     ELSE GetterBuffer - 1))
           IN  /\ DBGetFieldByteArray2(f, ByteCount, 255) = Filled(data, ByteCount, 0)
               /\ DBGetFieldByteArray(f, ByteCount, 255)
                    = Filled([i \in DOMAIN data |-> Signed(data[i], Octet)], ByteCount, 255)
<1> DEFINE n == Len(data)
           all == bin_to_str(data)
           c == IF 2 * n < 256 THEN 2 * n ELSE 255
           text == SubSeq(all, 1, c)
           f == Text(text)
<1>1. n \in Nat /\ c \in 0 .. 2 * n /\ ByteCount \in 0 .. 127
  BY RecordAssumption
<1>2. all \in Seq(Nat) /\ Len(all) = 2 * n
  BY HexBack
<1>3. SubSeq(all, 1, IF Len(all) < GetterBuffer THEN Len(all) ELSE GetterBuffer - 1) = text
  <2> HIDE DEF all, n
  <2> QED
    BY <1>2 DEF GetterBuffer
<1>4. f.is = "text" /\ f.t = text
  BY DEF Text
<1>5. text \in Seq(Nat) /\ Len(text) = c
  BY <1>1, HexPrefix
<1>8. (c = 2 * n /\ n <= 127) \/ (c = 255 /\ n >= 128)
  BY <1>1
<1> HIDE DEF c
<1>6. DBGetFieldByteArray2(f, ByteCount, 255) = Filled(data, ByteCount, 0)
  <2> DEFINE bytes == str_to_bin(text, ByteCount)
             count == IF (c + 1) \div 2 < ByteCount THEN (c + 1) \div 2 ELSE ByteCount
  <2>1. /\ DOMAIN bytes = 1 .. count /\ Len(bytes) = count
        /\ \A i \in 1 .. count : 2 * i <= c => bytes[i] = data[i]
    <3>1. ByteCount \in Nat /\ c \in 0 .. 2 * Len(data)
      BY <1>1
    <3> QED
      BY <3>1, HexPrefix
  <2>2. DBGetFieldByteArray2(f, ByteCount, 255) = Filled(bytes, ByteCount, 0)
    BY <1>4 DEF DBGetFieldByteArray2
  <2>3. ASSUME NEW i \in 1 .. ByteCount
        PROVE  (i <= count <=> i <= n) /\ (i <= n => 2 * i <= c)
    <3> HIDE DEF n
    <3>1. CASE c = 2 * n /\ n <= 127
      <4>1. (c + 1) \div 2 = n
        BY <1>1, <3>1
      <4> QED
        BY <1>1, <3>1, <4>1
    <3>2. CASE c = 255 /\ n >= 128
      <4>1. (c + 1) \div 2 = 128
        BY <3>2
      <4> QED
        BY <1>1, <3>2, <4>1
    <3> QED
      BY <1>8, <3>1, <3>2
  <2> HIDE DEF bytes, count, n, c
  <2>4. ASSUME NEW i \in 1 .. ByteCount
        PROVE  (IF i <= Len(bytes) THEN bytes[i] ELSE 0) = (IF i <= n THEN data[i] ELSE 0)
    <3>1. i <= count => i \in 1 .. count
      BY <1>1, <2>3
    <3> QED
      BY <2>1, <2>3, <3>1
  <2> QED
    BY <2>2, <2>4 DEF Filled, n
<1>7. DBGetFieldByteArray(f, ByteCount, 255)
        = Filled([i \in DOMAIN data |-> Signed(data[i], Octet)], ByteCount, 255)
  <2> DEFINE e == 2 * (c \div 2)
             bytes == str_to_bin(SubSeq(all, 1, e), 128)
             count == IF (e + 1) \div 2 < 128 THEN (e + 1) \div 2 ELSE 128
             signs == [i \in DOMAIN data |-> Signed(data[i], Octet)]
             back == [i \in DOMAIN bytes |-> Signed(bytes[i], Octet)]
  <2>1. e \in 0 .. c /\ e \in 0 .. 2 * n
    <3> HIDE DEF n
    <3>1. c \in Nat /\ \A x \in Nat : 2 * (x \div 2) \in 0 .. x
      BY <1>1
    <3> QED
      BY <1>1, <3>1
  <2>2. /\ DOMAIN bytes = 1 .. count /\ Len(bytes) = count
        /\ \A i \in 1 .. count : 2 * i <= e => bytes[i] = data[i]
    <3> HIDE DEF e
    <3>1. 128 \in Nat /\ e \in 0 .. 2 * Len(data)
      BY <2>1
    <3> QED
      BY <3>1, HexPrefix
  <2>3. SubSeq(text, 1, 2 * (Len(text) \div 2)) = SubSeq(all, 1, e)
    <3>1. 2 * (Len(text) \div 2) = e
      BY <1>5
    <3> HIDE DEF all, c, e, n
    <3>2. SubSeq(text, 1, e) = SubSeq(all, 1, e)
      BY <1>1, <1>2, <2>1
    <3> QED
      BY <3>1, <3>2
  <2>4. DBGetFieldByteArray(f, ByteCount, 255) = Filled(back, ByteCount, 255)
    <3>1. str_to_bin(SubSeq(f.t, 1, 2 * (Len(f.t) \div 2)), 128) = bytes
      BY <1>4, <2>3
    <3> HIDE DEF bytes, f
    <3> QED
      BY <1>4, <3>1 DEF DBGetFieldByteArray
  <2>5. ASSUME NEW i \in 1 .. ByteCount
        PROVE  (i <= count <=> i <= n) /\ (i <= n => 2 * i <= e)
    <3> HIDE DEF n
    <3>1. CASE c = 2 * n /\ n <= 127
      <4>1. e = 2 * n
        BY <1>1, <3>1
      <4>2. (e + 1) \div 2 = n
        BY <1>1, <4>1
      <4> QED
        BY <1>1, <3>1, <4>1, <4>2
    <3>2. CASE c = 255 /\ n >= 128
      <4>1. e = 254 /\ (254 + 1) \div 2 = 127
        BY <3>2
      <4>2. count = 127
        BY <4>1
      <4> QED
        BY <1>1, <3>2, <4>1, <4>2
    <3> QED
      BY <1>8, <3>1, <3>2
  <2>6. count \in Nat
    <3> HIDE DEF e
    <3>1. (e + 1) \div 2 \in Nat
      BY <2>1
    <3> QED
      BY <3>1
  <2> HIDE DEF bytes, count, n, c, e
  <2>7. Len(back) = count /\ \A i \in 1 .. count : back[i] = Signed(bytes[i], Octet)
    BY <2>2, <2>6
  <2>8. Len(signs) = n /\ \A i \in 1 .. n : signs[i] = Signed(data[i], Octet)
    BY <1>1 DEF n
  <2>9. ASSUME NEW i \in 1 .. ByteCount
        PROVE  (IF i <= Len(back) THEN back[i] ELSE 255) = (IF i <= Len(signs) THEN signs[i] ELSE 255)
    <3>1. (i <= count => i \in 1 .. count) /\ (i <= n => i \in 1 .. n)
      BY <1>1, <2>5
    <3> HIDE DEF back, signs
    <3> QED
      BY <2>2, <2>5, <2>7, <2>8, <3>1
  <2> HIDE DEF back, signs
  <2>10. Filled(back, ByteCount, 255) = Filled(signs, ByteCount, 255)
    BY <2>9 DEF Filled
  <2> QED
    BY <2>4, <2>10 DEF signs
<1> QED
  BY <1>3, <1>6, <1>7

-----------------------------------------------------------------------------
(* A field of a result                                                     *)

\* The buffer that a text is read into.
Room(t, size) == IF size = NoBuffer THEN OwnBuffer(t) ELSE size

\* What DBGetField gives for each kind of field.
LEMMA FieldGiven ==
    ASSUME NEW r, NEW iRow, NEW c, NEW size, OnRow(r, iRow)
    PROVE  /\ FieldHere(Seek(r, iRow), c) = Null =>
                 DBGetField(r, iRow, c, size) \in {Null, Text(<< >>)}
           /\ \A n : FieldHere(Seek(r, iRow), c) = Number(n) =>
                 DBGetField(r, iRow, c, size) = Number(n)
           /\ \A t : FieldHere(Seek(r, iRow), c) = Text(t) =>
                 DBGetField(r, iRow, c, size) = Text(TextInto(r, t, Room(t, size)))
<1> DEFINE f == FieldHere(Seek(r, iRow), c)
<1>1. DBGetField(r, iRow, c, size) =
         CASE f.is = "null"   -> IF r.prepared \/ r.unbuffered THEN Text(<< >>) ELSE Null
           [] f.is = "number" -> f
           [] f.is = "text"   -> Text(TextInto(r, f.t, Room(f.t, size)))
  BY DEF DBGetField, Room
<1> HIDE DEF f
<1>2. ASSUME f = Null PROVE DBGetField(r, iRow, c, size) \in {Null, Text(<< >>)}
  <2>1. f.is = "null"
    BY <1>2 DEF Null
  <2> QED
    BY <1>1, <2>1
<1>3. ASSUME NEW n, f = Number(n) PROVE DBGetField(r, iRow, c, size) = Number(n)
  <2>1. f.is = "number"
    BY <1>3 DEF Number
  <2> QED
    BY <1>1, <1>3, <2>1
<1>4. ASSUME NEW t, f = Text(t) PROVE DBGetField(r, iRow, c, size) = Text(TextInto(r, t, Room(t, size)))
  <2>1. f.is = "text" /\ f.t = t
    BY <1>4 DEF Text
  <2> QED
    BY <1>1, <2>1
<1> QED
  BY <1>2, <1>3, <1>4 DEF f

\* The row that a form becomes.
RowOf(f) ==
    [a \in Attr \cup {UnsetColumn} |-> IF a = UnsetColumn THEN Null ELSE Sent(a, f[a])]

LEMMA RowFields ==
    ASSUME NEW f
    PROVE  /\ RowOf(f)[UnsetColumn] = Null
           /\ \A a \in Attr : a # UnsetColumn /\ RowOf(f)[a] = Sent(a, f[a])
<1>1. UnsetColumn = N + 1 /\ N \in Nat /\ Attr = 1 .. N
  BY Constants DEF UnsetColumn, N
<1> QED
  BY <1>1 DEF RowOf

\* The readers of the model: who reads which column, into which buffer.
Reads(c, kind, size) ==
    \/ c \in Attr /\ Kind[c] \notin {"string", "float"} /\ kind = Kind[c] /\ size = GetterBuffer
    \/ c \in Attr /\ Kind[c] = "string" /\ kind = "string" /\ size \in BufferSize \cup {NoBuffer}
    \/ c = UnsetColumn /\ kind \in {"int32", "uint32", "int64", "uint64"}

\* What ReadBack asks of what is read from a row that a form became.
AsFilledIn(f, c, kind, size, plain, value) ==
    IF c = UnsetColumn THEN value = 0
    ELSE \/ kind = "string" /\ plain /\ \E i \in DOMAIN f[c] : f[c][i] > 127
         \/ ~plain /\ size # NoBuffer /\ TextLength(kind, f[c]) >= size
         \/ value = Wanted(kind, f[c], size)

LEMMA ValueBack ==
    ASSUME NEW r, NEW iRow, NEW c, NEW kind, NEW size, NEW f \in Forms, Reads(c, kind, size),
           OnRow(r, iRow), FieldHere(Seek(r, iRow), c) = RowOf(f)[c]
    PROVE  AsFilledIn(f, c, kind, size, r.unbuffered /\ ~r.prepared,
                      Get(kind, DBGetField(r, iRow, c, size)))
<1> DEFINE field == DBGetField(r, iRow, c, size)
           v == f[c]
<1>1. CASE c = UnsetColumn
  <2>1. kind \in {"int32", "uint32", "int64", "uint64"}
    BY <1>1, RowFields DEF Reads
  <2>2. field \in {Null, Text(<< >>)}
    BY <1>1, RowFields, FieldGiven
  <2> HIDE DEF field
  <2>3. Get(kind, field) = 0
    BY <2>1, <2>2, NullIsZero DEF Get
  <2> QED
    BY <1>1, <2>3 DEF AsFilledIn, field
<1>2. CASE c \in Attr
  <2>1. c # UnsetColumn /\ RowOf(f)[c] = Sent(c, v)
    BY <1>2, RowFields
  <2>2. v \in Seq(Nat) /\ Holdable(Kind[c], v)
    BY <1>2 DEF Forms
  <2>3. kind = Kind[c] /\ kind # "float"
    BY <1>2, <2>1 DEF Reads
  <2>4. Narrow \in Nat \ {0} /\ Narrow % 2 = 0 /\ Wide \in Nat \ {0} /\ Wide % 2 = 0
    BY WidthAssumption
  <2> HIDE DEF v
  <2>5. \A n : Sent(c, v) = Number(n) => field = Number(n)
    BY <2>1, FieldGiven
  <2>6. \A t : Sent(c, v) = Text(t) => field = Text(TextInto(r, t, Room(t, size)))
    BY <2>1, FieldGiven
  <2> HIDE DEF field
  <2>7. \A n : NumberIn(Number(n)) = n
    BY DEF NumberIn, Number
  <2>8. ASSUME kind = "int32" PROVE Get(kind, field) = Wanted(kind, v, size)
    <3>1. v[1] \in 0 .. Narrow - 1 /\ field = Number(Signed(v[1], Narrow))
      BY <1>2, <2>2, <2>3, <2>5, <2>8, SentIs
    <3>2. DBGetFieldLong(field) = Signed(v[1], Narrow)
      BY <2>4, <2>7, <3>1, NumberBack DEF DBGetFieldLong
    <3> QED
      BY <2>8, <3>2 DEF Get, Wanted
  <2>9. ASSUME kind = "uint32" PROVE Get(kind, field) = Wanted(kind, v, size)
    <3>1. v[1] \in 0 .. Narrow - 1 /\ field = Number(Signed(v[1], Narrow))
      BY <1>2, <2>2, <2>3, <2>5, <2>9, SentIs
    <3>2. DBGetFieldULong(field) = v[1]
      BY <2>4, <3>1, NumberBack DEF DBGetFieldULong
    <3> QED
      BY <2>9, <3>2 DEF Get, Wanted
  <2>10. ASSUME kind = "int64" PROVE Get(kind, field) = Wanted(kind, v, size)
    <3>1. v[1] \in 0 .. Wide - 1 /\ field = Number(Signed(v[1], Wide))
      BY <1>2, <2>2, <2>3, <2>5, <2>10, SentIs
    <3>2. DBGetFieldInt64(field) = Signed(v[1], Wide)
      BY <2>4, <2>7, <3>1, NumberBack DEF DBGetFieldInt64
    <3> QED
      BY <2>10, <3>2 DEF Get, Wanted
  <2>11. ASSUME kind = "uint64" PROVE Get(kind, field) = Wanted(kind, v, size)
    <3>1. v[1] \in 0 .. Wide - 1 /\ field = Number(v[1])
      BY <1>2, <2>2, <2>3, <2>5, <2>11, SentIs
    <3>2. DBGetFieldUInt64(field) = v[1]
      BY <2>4, <3>1, NumberBack DEF DBGetFieldUInt64
    <3> QED
      BY <2>11, <3>2 DEF Get, Wanted
  <2> DEFINE plain == r.unbuffered /\ ~r.prepared
  <2>12. ASSUME kind = "string", ~(plain /\ \E i \in DOMAIN v : v[i] > 127),
                ~(~plain /\ size # NoBuffer /\ TextLength(kind, v) >= size)
         PROVE  Get(kind, field) = Wanted(kind, v, size)
    <3> DEFINE room == Room(v, size)
    <3>1. /\ room \in Nat \ {0} /\ Len(v) \in Nat
          /\ ~plain => Len(v) < room
          /\ (IF Len(v) < room THEN Len(v) ELSE room - 1)
                = IF size = NoBuffer \/ Len(v) < size THEN Len(v) ELSE size - 1
      <4>1. Utf8Length(v) \in Nat /\ Len(v) <= Utf8Length(v) /\ Len(v) \in Nat
        BY <2>2, LengthAtMost
      <4>2. CASE size = NoBuffer
        <5>1. room = Utf8Length(v) + 1
          BY <4>2 DEF Room, OwnBuffer
        <5> HIDE DEF room, plain
        <5> QED
          BY <4>1, <4>2, <5>1
      <4>3. CASE size # NoBuffer
        <5>1. size \in Nat \ {0} /\ room = size
          BY <2>1, <2>3, <2>12, <4>3, RecordAssumption DEF Reads, Room
        <5>2. ~plain => ~(Len(v) >= size)
          BY <2>12, <4>3 DEF TextLength
        <5> HIDE DEF room, plain
        <5> QED
          BY <4>1, <4>3, <5>1, <5>2
      <4> QED
        BY <4>2, <4>3
    <3>2. field = Text(TextInto(r, v, room))
      BY <1>2, <2>2, <2>3, <2>6, <2>12, SentIs
    <3>3. plain => \A i \in 1 .. Len(v) : v[i] < 128
      BY <2>2, <2>12
    <3> HIDE DEF room
    <3>4. TextInto(r, v, room) = SubSeq(v, 1, IF Len(v) < room THEN Len(v) ELSE room - 1)
      BY <2>2, <3>1, <3>3, TextBack
    <3>5. field = Text(SubSeq(v, 1, IF size = NoBuffer \/ Len(v) < size THEN Len(v) ELSE size - 1))
      BY <3>1, <3>2, <3>4
    <3> QED
      BY <2>12, <3>5 DEF Get, Wanted
  <2>13. ASSUME kind = "bytes", ~(~plain /\ size # NoBuffer /\ TextLength(kind, v) >= size)
         PROVE  Get(kind, field) = Wanted(kind, v, size)
    <3> DEFINE text == bin_to_str(v)
    <3>1. \A i \in 1 .. Len(v) : v[i] < Octet
      BY <2>2, <2>3, <2>13 DEF Holdable
    <3>2. /\ text \in Seq(Nat) /\ Len(text) = 2 * Len(v)
          /\ \A i \in 1 .. Len(text) : text[i] < 128
      BY <2>2, <3>1, HexBack
    <3>3. field = Text(TextInto(r, text, size)) /\ size = GetterBuffer /\ size # NoBuffer
      <4>1. Sent(c, v) = Text(text)
        BY <1>2, <2>2, <2>3, <2>13, SentIs
      <4>2. size = GetterBuffer
        BY <2>1, <2>3, <2>13 DEF Reads
      <4>3. size # NoBuffer /\ Room(text, size) = size
        BY <4>2 DEF Room, GetterBuffer, NoBuffer
      <4> HIDE DEF text
      <4> QED
        BY <2>6, <4>1, <4>2, <4>3
    <3>4. TextInto(r, text, GetterBuffer)
            = SubSeq(text, 1, IF Len(text) < GetterBuffer THEN Len(text) ELSE GetterBuffer - 1)
      <4>1. GetterBuffer \in Nat \ {0}
        BY DEF GetterBuffer
      <4>2. ~plain => Len(text) < GetterBuffer
        <5>1. ~plain => ~(2 * Len(v) >= GetterBuffer)
          BY <2>13, <3>3 DEF TextLength
        <5> HIDE DEF text, plain
        <5> QED
          BY <2>2, <3>2, <4>1, <5>1
      <4> HIDE DEF text
      <4> QED
        BY <3>2, <4>1, <4>2, TextBack
    <3> DEFINE f1 == Text(SubSeq(text, 1, IF Len(text) < GetterBuffer THEN Len(text)
                                                                     ELSE GetterBuffer - 1))
    <3>5. /\ DBGetFieldByteArray2(f1, ByteCount, 255) = Filled(v, ByteCount, 0)
          /\ DBGetFieldByteArray(f1, ByteCount, 255)
               = Filled([i \in DOMAIN v |-> Signed(v[i], Octet)], ByteCount, 255)
      BY <2>2, <3>1, BytesBack
    <3>6. field = f1
      BY <3>3, <3>4
    <3> HIDE DEF f1, text
    <3>7. Get(kind, field) = <<DBGetFieldByteArray2(f1, ByteCount, 255),
                               DBGetFieldByteArray(f1, ByteCount, 255)>>
      BY <2>13, <3>6 DEF Get
    <3>8. Wanted(kind, v, size) = <<Filled(v, ByteCount, 0),
                                    Filled([i \in DOMAIN v |-> Signed(v[i], Octet)], ByteCount, 255)>>
      BY <2>13 DEF Wanted
    <3> QED
      BY <3>5, <3>7, <3>8
  <2>14. kind \in {"int32", "uint32", "int64", "uint64", "string", "bytes"}
    BY <1>2, <2>3, Constants
  <2>15. \/ kind = "string" /\ plain /\ \E i \in DOMAIN v : v[i] > 127
         \/ ~plain /\ size # NoBuffer /\ TextLength(kind, v) >= size
         \/ Get(kind, field) = Wanted(kind, v, size)
    <3> HIDE DEF plain
    <3> QED
      BY <2>8, <2>9, <2>10, <2>11, <2>12, <2>13, <2>14, Zenon
  <2> QED
    BY <2>1, <2>15, Zenon DEF AsFilledIn, field, v
<1> QED
  BY <1>1, <1>2 DEF Reads

-----------------------------------------------------------------------------
(* The inductive invariant                                                 *)

Ready(m, f) ==
    \E id, attrs : m = MessageOf(id, N, attrs) /\ Table(attrs, f, N) /\ SizedAs(attrs, f)

\* The client's message is new or has every attribute of the form.
ClientInv ==
    \/ message = NewMessage({}, 0)
    \/ form \in Forms /\ Ready(message, form)

\* What is under way is the form; then the client has no other message.
NetworkInv ==
    \/ network = << >>
    \/ /\ message = NewMessage({}, 0) /\ form \in Forms
       /\ \E m : network = <<CreateMessage(m)>> /\ Ready(m, form)

\* Every row is what its form became.
TableInv ==
    /\ written \in Seq(Forms)
    /\ user_info = [i \in 1 .. Len(written) |-> RowOf(written[i])]

\* A result has the first k rows.  The row that the driver believes to be
\* current is where the cursor is, if it can be moved.
Cursor(r, rows, k) ==
    /\ r \in [prepared : BOOLEAN, unbuffered : BOOLEAN, rows : {rows},
              currentRow : Int, position : Int, noMoreRows : BOOLEAN]
    /\ Len(rows) = k
    /\ r.unbuffered => r.position \in -1 .. k /\ (r.noMoreRows <=> r.position = k)
    /\ ~r.unbuffered => r.position = r.currentRow

ResultInv ==
    result # None =>
        \E k \in 1 .. Len(written) : Cursor(result, [i \in 1 .. k |-> RowOf(written[i])], k)

ReadingInv ==
    reading # None =>
        /\ reading.row + 1 \in 1 .. Len(written)
        /\ AsFilledIn(written[reading.row + 1], reading.column, reading.kind, reading.size,
                      reading.plain, reading.value)

IInv == ClientInv /\ NetworkInv /\ TableInv /\ ResultInv /\ ReadingInv /\ Delivered

\* A new message has no attributes, one that is ready has some.
LEMMA Told ==
    /\ NewMessage({}, 0).fAttrs = << >>
    /\ \A m, f : Ready(m, f) => m.fAttrs # << >>
<1>1. NewMessage({}, 0).fAttrs = << >>
  BY DEF NewMessage
<1>2. ASSUME NEW m, NEW f, Ready(m, f) PROVE m.fAttrs # << >>
  <2>1. PICK id, attrs : m = MessageOf(id, N, attrs) /\ Table(attrs, f, N)
    BY <1>2 DEF Ready
  <2>2. m.fAttrs = attrs /\ Len(attrs) # 0
    BY <2>1, Constants DEF MessageOf, Table
  <2> QED
    BY <2>2
<1> QED
  BY <1>1, <1>2

\* What Delivered says, in the terms of these proofs.
TooLarge(f) == MESSAGE_HEADER_SIZE + CalculateTotalAttrSize(InOrder(f, N)) > MaxUDPPacket

Outcome ==
    form # None /\ message.fAttrs = << >> /\ network = << >> =>
        IF TooLarge(form) THEN received = None ELSE Arrived(received, form)

LEMMA DeliveredIs == Delivered <=> Outcome
<1>1. GetSize(FilledIn(form)) = MESSAGE_HEADER_SIZE + CalculateTotalAttrSize(InOrder(form, N))
  BY FilledInHasAll, SizeOfMessage
<1> QED
  BY <1>1, Zenon DEF Delivered, Outcome, TooLarge, Arrived, N

LEMMA DeliveredNext == Delivered' <=> Outcome'
  BY DeliveredIs, PTL

\* The size of the datagram decides as the size of the form does.
LEMMA ReadySize ==
    ASSUME NEW m, NEW f, Ready(m, f)
    PROVE  DatagramSize(CreateMessage(m)) > MaxUDPPacket <=> TooLarge(f)
<1>1. PICK id, attrs : m = MessageOf(id, N, attrs) /\ SizedAs(attrs, f)
  BY DEF Ready
<1> QED
  BY <1>1, SizeOfMessage DEF SizedAs, TooLarge

\* Where a result has a row, Seek is on it.
LEMMA SeekFinds ==
    ASSUME NEW r, NEW rows, NEW k \in Nat, Cursor(r, rows, k), NEW iRow \in Nat, OnRow(r, iRow)
    PROVE  LET p == IF r.unbuffered THEN r.position ELSE iRow
           IN  /\ p \in 0 .. k - 1
               /\ \A c : FieldHere(Seek(r, iRow), c) = rows[p + 1][c]
               /\ Cursor(Seek(r, iRow), rows, k)
<1>1. r \in [prepared : BOOLEAN, unbuffered : BOOLEAN, rows : {rows},
             currentRow : Int, position : Int, noMoreRows : BOOLEAN]
  BY DEF Cursor
<1>2. r.rows = rows /\ Len(rows) = k
  BY <1>1 DEF Cursor
<1>3. CASE r.unbuffered
  <2>1. Seek(r, iRow) = r
    BY <1>3 DEF Seek
  <2>2. r.position \in 0 .. k - 1
    BY <1>1, <1>3 DEF Cursor, OnRow
  <2> QED
    BY <1>2, <1>3, <2>1, <2>2 DEF FieldHere
<1>4. CASE ~r.unbuffered
  <2>1. iRow \in 0 .. k - 1
    BY <1>2, <1>4 DEF OnRow
  <2>2. CASE r.prepared /\ r.currentRow = iRow
    <3>1. Seek(r, iRow) = r /\ r.position = iRow
      BY <1>4, <2>2 DEF Seek, Cursor
    <3> QED
      BY <1>2, <1>4, <2>1, <3>1 DEF FieldHere
  <2>3. CASE ~(r.prepared /\ r.currentRow = iRow)
    <3> DEFINE s == [r EXCEPT !.position = iRow, !.currentRow = iRow]
    <3>1. Seek(r, iRow) = s
      BY <1>4, <2>3 DEF Seek
    <3>2. /\ s \in [prepared : BOOLEAN, unbuffered : BOOLEAN, rows : {rows},
                    currentRow : Int, position : Int, noMoreRows : BOOLEAN]
          /\ s.position = iRow /\ s.currentRow = iRow /\ s.rows = rows /\ ~s.unbuffered
      <4>1. iRow \in Int
        OBVIOUS
      <4>2. s \in [prepared : BOOLEAN, unbuffered : BOOLEAN, rows : {rows},
                   currentRow : Int, position : Int, noMoreRows : BOOLEAN]
        BY <1>1, <4>1
      <4>3. s.position = iRow /\ s.currentRow = iRow
        BY <1>1
      <4>4. s.rows = rows /\ s.unbuffered = r.unbuffered
        BY <1>1
      <4> HIDE DEF s
      <4> QED
        BY <1>4, <4>2, <4>3, <4>4
    <3> HIDE DEF s
    <3>3. Cursor(s, rows, k)
      BY <1>2, <3>2 DEF Cursor
    <3>4. \A c : FieldHere(s, c) = rows[iRow + 1][c]
      BY <3>2 DEF FieldHere
    <3> QED
      BY <1>4, <2>1, <3>1, <3>3, <3>4
  <2> QED
    BY <2>2, <2>3
<1> QED
  BY <1>3, <1>4

\* The next row of an unbuffered result, or none.
LEMMA FetchMoves ==
    ASSUME NEW r, NEW rows, NEW k \in Nat \ {0}, Cursor(r, rows, k), r.unbuffered, ~r.noMoreRows
    PROVE  Cursor(DBFetch(r), rows, k)
<1> DEFINE s == [r EXCEPT !.position = @ + 1, !.noMoreRows = r.position + 1 >= Len(r.rows)]
<1>1. r \in [prepared : BOOLEAN, unbuffered : BOOLEAN, rows : {rows},
             currentRow : Int, position : Int, noMoreRows : BOOLEAN]
  BY DEF Cursor
<1>2. r.rows = rows /\ Len(rows) = k /\ r.position \in -1 .. k - 1
  BY <1>1 DEF Cursor
<1>3. DBFetch(r) = s
  BY DEF DBFetch
<1>4. (r.position + 1 >= Len(r.rows)) \in BOOLEAN
  OBVIOUS
<1>5. /\ s \in [prepared : BOOLEAN, unbuffered : BOOLEAN, rows : {rows},
                currentRow : Int, position : Int, noMoreRows : BOOLEAN]
      /\ s.position = r.position + 1 /\ s.unbuffered
      /\ s.noMoreRows <=> r.position + 1 >= k
  <2>1. r.position + 1 \in Int
    BY <1>2
  <2>2. s \in [prepared : BOOLEAN, unbuffered : BOOLEAN, rows : {rows},
               currentRow : Int, position : Int, noMoreRows : BOOLEAN]
    BY <1>1, <1>4, <2>1
  <2>3. s.position = r.position + 1 /\ s.unbuffered = r.unbuffered
    BY <1>1
  <2>4. s.noMoreRows = (r.position + 1 >= Len(r.rows))
    BY <1>1
  <2> HIDE DEF s
  <2> QED
    BY <1>2, <2>2, <2>3, <2>4
<1> HIDE DEF s
<1>6. Cursor(s, rows, k)
  BY <1>2, <1>5 DEF Cursor
<1> QED
  BY <1>3, <1>6

LEMMA InitIInv == Init => IInv
<1> SUFFICES ASSUME Init PROVE IInv
  OBVIOUS
<1>1. ClientInv /\ NetworkInv /\ ResultInv /\ ReadingInv
  BY DEF Init, ClientInv, NetworkInv, ResultInv, ReadingInv
<1>2. TableInv
  <2>1. written = << >> /\ user_info = << >>
    BY DEF Init
  <2> QED
    BY <2>1 DEF TableInv
<1>3. Delivered
  BY DEF Init, Delivered
<1> QED
  BY <1>1, <1>2, <1>3 DEF IInv

\* The table only grows, so that what results and readings are of stays.
LEMMA TableKept ==
    ASSUME TableInv, ResultInv, ReadingInv, UNCHANGED <<tableVars, result, reading>>
    PROVE  TableInv' /\ ResultInv' /\ ReadingInv'
<1>1. written' = written /\ user_info' = user_info /\ result' = result /\ reading' = reading
  BY DEF tableVars
<1>2. TableInv'
  BY <1>1 DEF TableInv
<1>3. ResultInv'
  BY <1>1 DEF ResultInv
<1>4. ReadingInv'
  BY <1>1 DEF ReadingInv
<1> QED
  BY <1>2, <1>3, <1>4

LEMMA MessagesKept ==
    ASSUME ClientInv, NetworkInv, Delivered, UNCHANGED <<message, form, network, received>>
    PROVE  ClientInv' /\ NetworkInv' /\ Delivered'
<1>1. ClientInv'
  BY DEF ClientInv
<1>2. NetworkInv'
  BY DEF NetworkInv
<1>3. Delivered'
  <2>1. Outcome'
    BY DeliveredIs DEF Outcome, TooLarge
  <2> QED
    BY <2>1, DeliveredNext
<1> QED
  BY <1>1, <1>2, <1>3

\* The client has a message with every attribute: nothing is under way, and the
\* server has nothing that it has to agree with.
LEMMA ClientReady ==
    ASSUME form' \in Forms, Ready(message', form'), network' = << >>
    PROVE  ClientInv' /\ NetworkInv' /\ Delivered'
<1>1. ClientInv' /\ NetworkInv'
  BY DEF ClientInv, NetworkInv
<1>2. message'.fAttrs # << >>
  BY Told
<1>3. Delivered'
  BY <1>2 DEF Delivered
<1> QED
  BY <1>1, <1>3

LEMMA RegisterStep ==
    ASSUME IInv, NEW f \in Form, dealRegister(f)
    PROVE  IInv'
<1>1. /\ message' = FilledIn(f) /\ form' = f /\ network' = << >>
      /\ UNCHANGED <<tableVars, result, reading>>
  BY DEF dealRegister, readerVars
<1>2. f \in Forms
  BY Constants DEF Forms
<1>3. message' = MessageOf(Len(user_info), N, InOrder(f, N)) /\ Table(InOrder(f, N), f, N)
  BY <1>1, FilledInHasAll, InOrderIsTable, Constants
<1>4. Ready(message', form')
  BY <1>1, <1>3 DEF Ready, SizedAs
<1> QED
  BY <1>1, <1>2, <1>4, TableKept, ClientReady DEF IInv

LEMMA ChangeStep ==
    ASSUME IInv, NEW a \in Attr, NEW f \in Form, Change(a, f[a])
    PROVE  IInv'
<1>1. /\ message' = SetAttr(message, a, AttrValue(a, f[a]))
      /\ form' = [form EXCEPT ![a] = f[a]]
      /\ message.fAttrs # << >> /\ network' = network
      /\ UNCHANGED <<tableVars, result, reading>>
  BY DEF Change, readerVars
<1>2. form \in Forms /\ Ready(message, form) /\ network = << >>
  BY <1>1, Told DEF IInv, ClientInv, NetworkInv
<1>3. form' \in Forms
  BY <1>1, <1>2, SetAgain
<1>4. PICK id, attrs : /\ message = MessageOf(id, N, attrs)
                       /\ Table(attrs, form, N) /\ SizedAs(attrs, form)
  BY <1>2 DEF Ready
<1>5. \E new : message' = MessageOf(id, N, new) /\ Table(new, form', N) /\ SizedAs(new, form')
  <2>1. PICK p \in 1 .. N : \E new :
           /\ attrs[p] = Entry(a, form) /\ new = Append(RemoveAt(attrs, p), Entry(a, form'))
           /\ message' = MessageOf(id, N, new) /\ Table(new, form', N)
    <3> DEFINE g == [form EXCEPT ![a] = f[a]]
    <3>1. ToTheEnd(id, attrs, form, g, a, f[a])
      BY <1>2, <1>4, SetSame
    <3> QED
      BY <1>1, <1>4, <3>1 DEF ToTheEnd
  <2>2. PICK new :
           /\ attrs[p] = Entry(a, form) /\ new = Append(RemoveAt(attrs, p), Entry(a, form'))
           /\ message' = MessageOf(id, N, new) /\ Table(new, form', N)
    BY <2>1
  <2>3. SizedAs(new, form')
    BY <1>1, <1>2, <1>3, <1>4, <2>2, SizedAgain
  <2> QED
    BY <2>2, <2>3
<1>6. Ready(message', form')
  BY <1>5 DEF Ready
<1> QED
  BY <1>1, <1>2, <1>3, <1>6, TableKept, ClientReady DEF IInv

LEMMA SendStep ==
    ASSUME IInv, SendMessage
    PROVE  IInv'
<1>1. /\ message' = NewMessage({}, 0) /\ network' = Append(network, CreateMessage(message))
      /\ message.fAttrs # << >> /\ form' = form
      /\ UNCHANGED <<tableVars, result, reading>>
  BY DEF SendMessage, readerVars
<1>2. form \in Forms /\ Ready(message, form) /\ network = << >>
  BY <1>1, Told DEF IInv, ClientInv, NetworkInv
<1>3. network' = <<CreateMessage(message)>>
  BY <1>1, <1>2
<1>4. ClientInv'
  BY <1>1 DEF ClientInv
<1>5. NetworkInv'
  BY <1>1, <1>2, <1>3 DEF NetworkInv
<1>6. Delivered'
  BY <1>3 DEF Delivered
<1> QED
  BY <1>1, <1>4, <1>5, <1>6, TableKept DEF IInv

\* What the server makes of the datagram is what the form was; so is the row.
LEMMA HandleStep ==
    ASSUME IInv, HandleMessage
    PROVE  IInv'
<1>1. /\ network # << >> /\ network' = Tail(network) /\ received' = Message(Head(network))
      /\ DatagramSize(Head(network)) <= MaxUDPPacket
      /\ message' = message /\ form' = form /\ result' = result /\ reading' = reading
      /\ \/ user_info' = Append(user_info, Row(received')) /\ written' = Append(written, form)
         \/ UNCHANGED tableVars
  BY DEF HandleMessage, clientVars, readerVars
<1>2. PICK m : network = <<CreateMessage(m)>> /\ Ready(m, form)
  BY <1>1 DEF IInv, NetworkInv
<1>3. message = NewMessage({}, 0) /\ form \in Forms
  BY <1>1 DEF IInv, NetworkInv
<1>4. PICK id, attrs : m = MessageOf(id, N, attrs) /\ Table(attrs, form, N)
  BY <1>2 DEF Ready
<1>4a. ~TooLarge(form)
  <2>1. DatagramSize(CreateMessage(m)) <= MaxUDPPacket
    BY <1>1, <1>2
  <2>2. ~(DatagramSize(CreateMessage(m)) > MaxUDPPacket)
    <3>1. DatagramSize(CreateMessage(m)) = MESSAGE_HEADER_SIZE + CalculateTotalAttrSize(attrs)
      BY <1>4, SizeOfMessage
    <3>2. CalculateTotalAttrSize(attrs) \in Nat
      BY <1>3, <1>4, TotalIsNumber
    <3> QED
      BY <2>1, <3>1, <3>2, RecordAssumption DEF MESSAGE_HEADER_SIZE
  <2> QED
    BY <1>2, <2>2, ReadySize
<1>5. Arrived(received', form)
  <2>1. received' = Message(CreateMessage(MessageOf(id, N, attrs)))
    BY <1>1, <1>2, <1>4
  <2> QED
    BY <1>3, <1>4, <2>1, Arrives
<1>6. Row(received') = RowOf(form)
  <2>1. ASSUME NEW a \in Attr PROVE Sent(a, GetAttr(received', a)) = Sent(a, form[a])
    <3>1. CASE GetAttr(received', a) = form[a]
      BY <3>1
    <3>2. CASE Kind[a] = "float"
      BY <3>2 DEF Sent
    <3> QED
      BY <1>5, <3>1, <3>2 DEF Arrived
  <2> QED
    BY <2>1 DEF Row, RowOf
<1>7. ClientInv' /\ NetworkInv'
  <2>1. network' = << >>
    BY <1>1, <1>2
  <2> QED
    BY <1>1, <1>3, <2>1 DEF ClientInv, NetworkInv
<1>8. Delivered'
  <2>1. Outcome'
    BY <1>1, <1>5, <1>4a DEF Outcome, TooLarge
  <2> QED
    BY <2>1, DeliveredNext
<1>9. CASE UNCHANGED tableVars
  BY <1>1, <1>7, <1>8, <1>9, TableKept DEF IInv
<1>10. CASE user_info' = Append(user_info, Row(received')) /\ written' = Append(written, form)
  <2>1. /\ written \in Seq(Forms) /\ user_info = [i \in 1 .. Len(written) |-> RowOf(written[i])]
    BY DEF IInv, TableInv
  <2>2. /\ written' \in Seq(Forms) /\ Len(written') = Len(written) + 1
        /\ \A i \in 1 .. Len(written) : written'[i] = written[i]
        /\ written'[Len(written) + 1] = form
    BY <1>3, <1>10, <2>1
  <2>3. user_info' = [i \in 1 .. Len(written') |-> RowOf(written'[i])]
    <3>1. user_info' = Append(user_info, RowOf(form))
      BY <1>6, <1>10
    <3> DEFINE n == Len(written)
               S == {RowOf(g) : g \in Forms}
    <3>2. n \in Nat /\ \A i \in 1 .. n : RowOf(written[i]) \in S
      BY <2>1
    <3>3. RowOf(form) \in S
      BY <1>3
    <3> HIDE DEF S, n
    <3>4. user_info \in Seq(S) /\ Len(user_info) = n /\ \A i \in 1 .. n : user_info[i] = RowOf(written[i])
      BY <2>1, <3>2 DEF n
    <3>5. /\ user_info' \in Seq(S) /\ Len(user_info') = n + 1 /\ user_info'[n + 1] = RowOf(form)
          /\ \A i \in 1 .. n : user_info'[i] = RowOf(written[i])
      BY <3>1, <3>2, <3>3, <3>4
    <3>6. \A i \in 1 .. n + 1 : user_info'[i] = RowOf(written'[i])
      BY <2>2, <3>2, <3>5 DEF n
    <3> QED
      BY <2>2, <3>5, <3>6 DEF n
  <2>4. TableInv'
    BY <2>2, <2>3 DEF TableInv
  <2>5. ResultInv'
    <3> SUFFICES ASSUME result # None
                 PROVE  \E k \in 1 .. Len(written') :
                           Cursor(result, [i \in 1 .. k |-> RowOf(written'[i])], k)
      BY <1>1 DEF ResultInv
    <3>1. PICK k \in 1 .. Len(written) : Cursor(result, [i \in 1 .. k |-> RowOf(written[i])], k)
      BY DEF IInv, ResultInv
    <3>2. k \in 1 .. Len(written') /\ Len(written) \in Nat
      BY <2>1, <2>2
    <3>3. [i \in 1 .. k |-> RowOf(written[i])] = [i \in 1 .. k |-> RowOf(written'[i])]
      BY <2>2, <3>2
    <3> QED
      BY <3>1, <3>2, <3>3
  <2>6. ReadingInv'
    <3> SUFFICES ASSUME reading # None
                 PROVE  /\ reading.row + 1 \in 1 .. Len(written')
                        /\ AsFilledIn(written'[reading.row + 1], reading.column, reading.kind,
                                      reading.size, reading.plain, reading.value)
      BY <1>1 DEF ReadingInv
    <3>1. reading.row + 1 \in 1 .. Len(written) /\ Len(written) \in Nat
      BY <2>1 DEF IInv, ReadingInv
    <3>2. reading.row + 1 \in 1 .. Len(written')
      BY <2>2, <3>1
    <3> QED
      BY <2>2, <3>1, <3>2 DEF IInv, ReadingInv
  <2> QED
    BY <1>7, <1>8, <2>4, <2>5, <2>6 DEF IInv
<1> QED
  BY <1>1, <1>9, <1>10

\* A datagram for which there is no room leaves nothing behind.
LEMMA RefuseStep ==
    ASSUME IInv, RefuseMessage
    PROVE  IInv'
<1>1. /\ network # << >> /\ network' = Tail(network) /\ received' = None
      /\ DatagramSize(Head(network)) > MaxUDPPacket
      /\ message' = message /\ form' = form /\ UNCHANGED <<tableVars, result, reading>>
  BY DEF RefuseMessage, clientVars, readerVars
<1>2. PICK m : network = <<CreateMessage(m)>> /\ Ready(m, form)
  BY <1>1 DEF IInv, NetworkInv
<1>3. message = NewMessage({}, 0) /\ form \in Forms
  BY <1>1 DEF IInv, NetworkInv
<1>4. TooLarge(form)
  BY <1>1, <1>2, ReadySize
<1>5. ClientInv' /\ NetworkInv'
  <2>1. network' = << >>
    BY <1>1, <1>2
  <2> QED
    BY <1>1, <1>3, <2>1 DEF ClientInv, NetworkInv
<1>6. Delivered'
  <2>1. Outcome'
    BY <1>1, <1>4 DEF Outcome, TooLarge
  <2> QED
    BY <2>1, DeliveredNext
<1> QED
  BY <1>1, <1>5, <1>6, TableKept DEF IInv

LEMMA SelectStep ==
    ASSUME IInv, NEW prepared \in BOOLEAN, NEW unbuffered \in BOOLEAN,
           Select(prepared, unbuffered)
    PROVE  IInv'
<1>1. /\ user_info # << >> /\ result' = Result(prepared, unbuffered, user_info)
      /\ reading' = reading /\ written' = written /\ user_info' = user_info
      /\ UNCHANGED <<message, form, network, received>>
  BY DEF Select, clientVars, tableVars
<1>2. ClientInv' /\ NetworkInv' /\ Delivered'
  BY <1>1, MessagesKept DEF IInv
<1>3. TableInv' /\ ReadingInv'
  BY <1>1 DEF IInv, TableInv, ReadingInv
<1>4. ResultInv'
  <2> DEFINE k == Len(written)
  <2>1. k \in Nat /\ user_info = [i \in 1 .. k |-> RowOf(written[i])]
    BY DEF IInv, TableInv
  <2>2. k \in 1 .. k
    <3> HIDE DEF k
    <3>1. k # 0
      BY <1>1, <2>1
    <3> QED
      BY <2>1, <3>1
  <2>3. Len(user_info) = k
    <3> HIDE DEF k
    <3> QED
      BY <2>1
  <2>4. Cursor(result', user_info, k)
    <3>1. result' = [prepared |-> prepared, unbuffered |-> unbuffered, rows |-> user_info,
                     currentRow |-> -1, position |-> -1, noMoreRows |-> FALSE]
      BY <1>1 DEF Result
    <3> HIDE DEF k
    <3>2. result' \in [prepared : BOOLEAN, unbuffered : BOOLEAN, rows : {user_info},
                       currentRow : Int, position : Int, noMoreRows : BOOLEAN]
      BY <3>1
    <3>3. result'.position = -1 /\ result'.currentRow = -1 /\ result'.noMoreRows = FALSE
      BY <3>1
    <3>4. -1 \in -1 .. k /\ -1 # k
      BY <2>1
    <3> QED
      BY <2>3, <3>2, <3>3, <3>4 DEF Cursor
  <2> QED
    BY <1>1, <2>1, <2>2, <2>4 DEF ResultInv
<1> QED
  BY <1>2, <1>3, <1>4 DEF IInv

LEMMA FetchStep ==
    ASSUME IInv, Fetch
    PROVE  IInv'
<1>1. /\ result # None /\ result.unbuffered /\ ~result.noMoreRows
      /\ result' = DBFetch(result) /\ reading' = None
      /\ written' = written /\ user_info' = user_info
      /\ UNCHANGED <<message, form, network, received>>
  BY DEF Fetch, clientVars, tableVars
<1>2. ClientInv' /\ NetworkInv' /\ Delivered'
  BY <1>1, MessagesKept DEF IInv
<1>3. TableInv' /\ ReadingInv'
  BY <1>1 DEF IInv, TableInv, ReadingInv
<1>4. PICK k \in 1 .. Len(written) : Cursor(result, [i \in 1 .. k |-> RowOf(written[i])], k)
  BY <1>1 DEF IInv, ResultInv
<1>5. k \in Nat \ {0}
  BY DEF IInv, TableInv
<1>6. Cursor(result', [i \in 1 .. k |-> RowOf(written[i])], k)
  BY <1>1, <1>4, <1>5, FetchMoves
<1>7. ResultInv'
  BY <1>1, <1>6 DEF ResultInv
<1> QED
  BY <1>2, <1>3, <1>7 DEF IInv

\* The field that is read is that of the row the result is on.
LEMMA ReadStep ==
    ASSUME IInv, NEW iRow \in Nat, NEW c, ReadField(iRow, c)
    PROVE  IInv'
<1>1. PICK kind, size : Reads(c, kind, size) /\ Read(iRow, c, kind, size)
  BY DEF ReadField, Reads
<1> DEFINE p == IF result.unbuffered THEN result.position ELSE iRow
           plain == result.unbuffered /\ ~result.prepared
           value == Get(kind, DBGetField(result, iRow, c, size))
<1>2. /\ result # None /\ OnRow(result, iRow) /\ result' = Seek(result, iRow)
      /\ reading' = [row |-> p, column |-> c, kind |-> kind, size |-> size,
                     plain |-> plain, value |-> value]
      /\ written' = written /\ user_info' = user_info
      /\ UNCHANGED <<message, form, network, received>>
  BY <1>1 DEF Read, clientVars, tableVars
<1>3. ClientInv' /\ NetworkInv' /\ Delivered'
  BY <1>2, MessagesKept DEF IInv
<1>4. TableInv'
  BY <1>2 DEF IInv, TableInv
<1>5. PICK k \in 1 .. Len(written) : Cursor(result, [i \in 1 .. k |-> RowOf(written[i])], k)
  BY <1>2 DEF IInv, ResultInv
<1>6. written \in Seq(Forms) /\ k \in Nat
  BY DEF IInv, TableInv
<1> DEFINE rows == [i \in 1 .. k |-> RowOf(written[i])]
<1>7. /\ p \in 0 .. k - 1
      /\ FieldHere(Seek(result, iRow), c) = rows[p + 1][c]
      /\ Cursor(Seek(result, iRow), rows, k)
  <2> HIDE DEF rows
  <2>1. Cursor(result, rows, k)
    BY <1>5 DEF rows
  <2> QED
    BY <1>2, <1>6, <2>1, SeekFinds
<1>8. ResultInv'
  BY <1>2, <1>7 DEF ResultInv
<1> HIDE DEF p
<1>9. p + 1 \in 1 .. Len(written) /\ written[p + 1] \in Forms /\ rows[p + 1] = RowOf(written[p + 1])
  <2>1. p + 1 \in 1 .. k /\ p + 1 \in 1 .. Len(written)
    BY <1>6, <1>7
  <2> QED
    BY <1>6, <2>1
<1> HIDE DEF rows
<1>10. AsFilledIn(written[p + 1], c, kind, size, plain, value)
  <2>1. FieldHere(Seek(result, iRow), c) = RowOf(written[p + 1])[c]
    BY <1>7, <1>9
  <2> QED
    BY <1>1, <1>2, <1>9, <2>1, ValueBack
<1> HIDE DEF plain, value
<1>11. ReadingInv'
  <2>1. reading'.row = p /\ reading'.column = c /\ reading'.kind = kind /\ reading'.size = size
        /\ reading'.plain = plain /\ reading'.value = value
    BY <1>2
  <2> QED
    BY <1>2, <1>9, <1>10, <2>1 DEF ReadingInv
<1> QED
  BY <1>3, <1>4, <1>8, <1>11 DEF IInv

LEMMA FreeStep ==
    ASSUME IInv, FreeResult
    PROVE  IInv'
<1>1. /\ result' = None /\ reading' = None /\ written' = written /\ user_info' = user_info
      /\ UNCHANGED <<message, form, network, received>>
  BY DEF FreeResult, clientVars, tableVars
<1>2. ClientInv' /\ NetworkInv' /\ Delivered'
  BY <1>1, MessagesKept DEF IInv
<1>3. TableInv' /\ ResultInv' /\ ReadingInv'
  BY <1>1 DEF IInv, TableInv, ResultInv, ReadingInv
<1> QED
  BY <1>2, <1>3 DEF IInv

LEMMA NextIInv == IInv /\ [Next]_vars => IInv'
<1> SUFFICES ASSUME IInv, [Next]_vars PROVE IInv'
  OBVIOUS
<1>1. ASSUME NEW f \in Form, dealRegister(f) PROVE IInv'
  BY <1>1, RegisterStep
<1>2. ASSUME NEW a \in Attr, NEW f \in Form, Change(a, f[a]) PROVE IInv'
  BY <1>2, ChangeStep
<1>3. CASE SendMessage
  BY <1>3, SendStep
<1>4. CASE HandleMessage
  BY <1>4, HandleStep
<1>5. ASSUME NEW prepared \in BOOLEAN, NEW unbuffered \in BOOLEAN, Select(prepared, unbuffered)
      PROVE  IInv'
  BY <1>5, SelectStep
<1>6. CASE Fetch
  BY <1>6, FetchStep
<1>7. ASSUME NEW iRow \in 0 .. MaxRows - 1, NEW c \in Attr \cup {UnsetColumn}, ReadField(iRow, c)
      PROVE  IInv'
  <2>1. iRow \in Nat
    OBVIOUS
  <2> QED
    BY <1>7, <2>1, ReadStep
<1>8. CASE FreeResult
  BY <1>8, FreeStep
<1>9. CASE RefuseMessage
  BY <1>9, RefuseStep
<1>10. CASE UNCHANGED vars
  BY <1>10, MessagesKept, TableKept DEF IInv, vars, clientVars, readerVars
<1> QED
  BY <1>1, <1>2, <1>3, <1>4, <1>5, <1>6, <1>7, <1>8, <1>9, <1>10 DEF Next

-----------------------------------------------------------------------------
(* The theorems                                                            *)

\* Between the server and its clients, and between the table and its readers,
\* no step breaks the inductive invariant.
THEOREM AlwaysIInv == Spec => []IInv
<1>1. Init => IInv
  BY InitIInv
<1>2. IInv /\ [Next]_vars => IInv'
  BY NextIInv
<1> QED
  BY <1>1, <1>2, PTL DEF Spec

\* The server has a message if and only if there is room for the form, and then
\* with every attribute, and no other, and the value that the client gave it
\* last, for any attributes, any values, however often they are set again, and
\* any size of a datagram (Message::set, CreateMessage, Message::Message,
\* Message::get, ReadMessage).
THEOREM AlwaysDelivered == Spec => []Delivered
<1>1. IInv => Delivered
  BY DEF IInv
<1> QED
  BY <1>1, AlwaysIInv, PTL

\* Every field of every row is read back as it was filled in, by its getter, in
\* every kind of result, in any order, for any widths, buffers and texts but
\* those that ReadBack leaves out
\* (DBBind, DBGetField..., GetFieldInternal, DrvGetFieldUnbuffered).
THEOREM AlwaysReadBack == Spec => []ReadBack
<1>1. IInv => ReadBack
  BY DEF IInv, ReadingInv, AsFilledIn, ReadBack
<1> QED
  BY <1>1, AlwaysIInv, PTL

=============================================================================
