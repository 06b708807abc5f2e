---------------------------- MODULE CodecProofs ----------------------------
(***************************************************************************)
(* Reading undoes writing, for any commands, any number of them and any    *)
(* protocols that follow each other: what a reader has is the command that *)
(* was written at its place in the stream (InStep), it fails for nothing   *)
(* but the end of the stream (OnlyCutsFail), and a handler's copy stays    *)
(* whole (CopyIsWhole).                                                    *)
(*                                                                         *)
(* The argument goes from the bytes of a number (HeaderCodecProofs) to     *)
(* those of a frame, which its layout gives, to the fields that a reader's *)
(* table finds in them, to the frames on the wire.                         *)
(***************************************************************************)
EXTENDS Codec, HeaderCodecProofs, TLAPS

(* The names of a command's fields.                                         *)
FieldNames == DOMAIN Zero

(* A record with these fields.                                              *)
IsCommand(c) == c = [f \in FieldNames |-> c[f]]

(* The smaller of two numbers.                                              *)
LEMMA MinOfTwo ==
  ASSUME NEW a \in Nat, NEW b \in Nat
  PROVE  Min({a, b}) = IF a <= b THEN a ELSE b
<1> DEFINE c == IF a <= b THEN a ELSE b
<1>1. c \in {a, b} /\ \A y \in {a, b} : c <= y
  OBVIOUS
<1>2. \A x \in {a, b} : (\A y \in {a, b} : x <= y) => x = c
  OBVIOUS
<1> QED
  BY <1>1, <1>2 DEF Min

(* A new command, and its fields.                                           *)
LEMMA ZeroIsCommand ==
  /\ IsCommand(Zero)
  /\ {"proto", "ver1", "typ", "cmdcode", "ver2", "rid", "codec", "switc", "timeout", "status",
      "reserved", "connection", "class", "header", "content", "crc32", "headers"}
       \subseteq FieldNames
BY DEF IsCommand, FieldNames, Zero

(* Setting the fields that a read has found.                                *)
LEMMA WithIsCommand ==
  ASSUME NEW c, IsCommand(c), NEW f PROVE IsCommand(With(c, f))
<1>1. DOMAIN c = FieldNames
  BY DEF IsCommand
<1> QED
  BY <1>1 DEF IsCommand, With

(* A frame carries fields of a command, but neither its headers as such nor *)
(* the reserved byte.                                                       *)
LEMMA CarriedFields ==
  ASSUME NEW c
  PROVE  Carried(c) \ {"connection"} \subseteq FieldNames \ {"connection", "reserved", "headers"}
<1> DEFINE K == {"proto", "ver1", "typ", "cmdcode", "ver2", "rid", "codec", "switc", "timeout",
                 "status", "connection", "class", "content"}
<1>1. Carried(c) \subseteq K
  BY DEF Carried
<1>2. K \subseteq FieldNames
  BY ZeroIsCommand
<1>3. "reserved" \notin K /\ "headers" \notin K
  OBVIOUS
<1> HIDE DEF K
<1> QED
  BY <1>1, <1>2, <1>3

-----------------------------------------------------------------------------
(* Types.                                                                   *)

(* The fields that are numbers, and the largest value of each.              *)
Bytes   == {"proto", "ver1", "typ", "ver2", "codec", "switc", "reserved"}
Halves  == {"cmdcode", "status"}
Words   == {"rid", "timeout", "crc32"}
Numbers == Bytes \cup Halves \cup Words
Bound(k) == IF k \in Bytes THEN Base - 1 ELSE IF k \in Halves THEN Uint16Max ELSE Uint32Max

(* A command whose numbers have their types.                                *)
Typed(c) == IsCommand(c) /\ \A k \in Numbers : c[k] \in 0 .. Bound(k)

(* A table whose parts lie within n bytes and have the width of a number;   *)
(* a field of the command holds it.                                         *)
TableOf(table, n) ==
  \A k \in DOMAIN table :
     /\ table[k][1] \in Nat /\ table[k][2] \in Nat /\ table[k][2] <= n
     /\ table[k][2] - table[k][1] \in Widths
     /\ k \in Numbers => Limit(table[k][2] - table[k][1]) <= Bound(k)

LEMMA BoundFacts ==
  /\ \A k \in Numbers : Bound(k) \in Nat
  /\ \A k \in Bytes : Bound(k) = Base - 1
  /\ \A k \in Halves : Bound(k) = Uint16Max
  /\ \A k \in Words : Bound(k) = Uint32Max
  /\ Numbers \subseteq FieldNames
<1>1. Numbers \subseteq FieldNames
  BY ZeroIsCommand DEF Numbers, Bytes, Halves, Words
<1> QED
  BY <1>1, Limits DEF Bound, Numbers, Bytes, Halves, Words

(* Setting a field to a number of its type.                                 *)
LEMMA UpdateTyped ==
  ASSUME NEW c, Typed(c), NEW g, NEW x, g \in Numbers => x \in 0 .. Bound(g)
  PROVE  Typed([c EXCEPT ![g] = x])
<1>1. IsCommand(c) /\ \A k \in Numbers : c[k] \in 0 .. Bound(k)
  BY DEF Typed
<1> DEFINE d == [c EXCEPT ![g] = x]
<1>2. IsCommand(d) /\ \A k \in FieldNames : d[k] = IF k = g THEN x ELSE c[k]
  BY <1>1 DEF IsCommand
<1> HIDE DEF d
<1>3. \A k \in Numbers : d[k] \in 0 .. Bound(k)
  BY <1>1, <1>2, BoundFacts
<1> QED
  BY <1>2, <1>3 DEF Typed, d

(* Setting fields.                                                          *)
LEMMA WithTyped ==
  ASSUME NEW c, Typed(c), NEW f, \A k \in DOMAIN f : k \in Numbers => f[k] \in 0 .. Bound(k)
  PROVE  Typed(With(c, f))
<1>1. IsCommand(With(c, f)) /\ DOMAIN c = FieldNames
  BY WithIsCommand DEF Typed, IsCommand
<1>2. \A k \in Numbers : With(c, f)[k] = IF k \in DOMAIN f THEN f[k] ELSE c[k]
  BY <1>1, BoundFacts DEF With
<1> QED
  BY <1>1, <1>2 DEF Typed

(* What a table finds in the bytes has its type.                            *)
LEMMA FieldsTyped ==
  ASSUME NEW s \in Strings, NEW p \in Nat, NEW n \in Nat, NEW table, TableOf(table, n),
         p + n <= Len(s)
  PROVE  \A k \in DOMAIN table :
           /\ Fields(s, p, table)[k] \in Nat
           /\ k \in Numbers => Fields(s, p, table)[k] \in 0 .. Bound(k)
<1> SUFFICES ASSUME NEW k \in DOMAIN table
             PROVE  /\ Fields(s, p, table)[k] \in Nat
                    /\ k \in Numbers => Fields(s, p, table)[k] \in 0 .. Bound(k)
  OBVIOUS
<1>1. PICK a \in Nat, z \in Nat : a = table[k][1] /\ z = table[k][2]
  BY DEF TableOf
<1>2. z - a \in Widths /\ z <= n /\ (k \in Numbers => Limit(z - a) <= Bound(k))
  BY <1>1 DEF TableOf
<1>3. PICK w \in Widths : w = z - a
  BY <1>2
<1>4. PICK q \in Nat : q = p + a
  OBVIOUS
<1>5. q + w = p + z /\ q + w <= Len(s)
  <2>1. Len(s) \in Nat
    BY DEF Strings
  <2> QED
    BY <1>2, <1>3, <1>4, <2>1 DEF Widths
<1>6. Fields(s, p, table)[k] = Uint(SubSeq(s, p + a + 1, p + z))
  BY <1>1, Zenon DEF Fields
<1>7. Fields(s, p, table)[k] = Uint(SubSeq(s, q + 1, q + w))
  BY <1>4, <1>5, <1>6
<1>8. Uint(SubSeq(s, q + 1, q + w)) \in 0 .. Limit(w)
  BY <1>5, UintAt DEF Strings
<1>9. Limit(w) \in Nat
  BY Limits DEF Widths
<1>10. k \in Numbers => Bound(k) \in Nat /\ Limit(w) <= Bound(k)
  BY <1>2, <1>3, BoundFacts
<1> QED
  BY <1>7, <1>8, <1>9, <1>10

LEMMA Tables ==
  /\ TableOf(ResponseV1Table, 18)
  /\ TableOf(RequestV1Table, 20)
  /\ TableOf(RequestV2Table, 21)
  /\ TableOf(ResponseV2Table, 19)
  /\ TableOf(TBTable, 13)
<1>1. TableOf(ResponseV1Table, 18)
  BY Limits DEF TableOf, ResponseV1Table, Widths, Bound, Numbers, Bytes, Halves, Words
<1>2. TableOf(RequestV1Table, 20)
  BY Limits DEF TableOf, RequestV1Table, Widths, Bound, Numbers, Bytes, Halves, Words
<1>3. TableOf(RequestV2Table, 21)
  BY Limits DEF TableOf, RequestV2Table, Widths, Bound, Numbers, Bytes, Halves, Words
<1>4. TableOf(ResponseV2Table, 19)
  BY Limits DEF TableOf, ResponseV2Table, Widths, Bound, Numbers, Bytes, Halves, Words
<1>5. TableOf(TBTable, 13)
  BY Limits DEF TableOf, TBTable, Widths, Bound, Numbers, Bytes, Halves, Words
<1> QED
  BY <1>1, <1>2, <1>3, <1>4, <1>5
(* What a read returns.                                                     *)
Returned(r) ==
  /\ r.err \in {"none", "short", "proto", "type", "header"} /\ Typed(r.cmd) /\ r.used \in Nat

LEMMA FailedReturned ==
  /\ Typed(Zero)
  /\ \A e \in {"short", "proto", "type", "header"} : Returned(Failed(e))
<1>1. \A k \in Numbers : Zero[k] = 0
  BY DEF Numbers, Bytes, Halves, Words, Zero
<1>2. \A k \in Numbers : Zero[k] \in 0 .. Bound(k)
  BY <1>1, BoundFacts
<1>3. Typed(Zero)
  BY <1>2, ZeroIsCommand DEF Typed
<1> QED
  BY <1>3 DEF Failed, Returned

LEMMA ReadBOLTTyped ==
  ASSUME NEW s \in Strings, NEW p \in Nat, NEW c, Typed(c), NEW n \in Nat, NEW table,
         TableOf(table, n), {"classLen", "headerLen", "contentLen"} \subseteq DOMAIN table
  PROVE  Returned(ReadBOLT(s, p, c, n, table))
<1> DEFINE f       == Fields(s, p, table)
           class   == p + n
           header  == class + f.classLen
           content == header + f.headerLen
           crc     == content + f.contentLen
           end     == IF "switc" \in DOMAIN f /\ f.switc > 0 THEN crc + 4 ELSE crc
           decoded == Decode(c.headers, Ref(s, header, f.headerLen))
           g       == [class   |-> Ref(s, class, f.classLen),
                       header  |-> Ref(s, header, f.headerLen),
                       headers |-> decoded.map,
                       content |-> Ref(s, content, f.contentLen),
                       crc32   |-> IF end = crc THEN c.crc32 ELSE Uint(Ref(s, crc, 4))]
           read    == [err |-> "none", used |-> end, cmd |-> With(With(c, f), g)]
<1>1. \/ ReadBOLT(s, p, c, n, table) \in {Failed("short"), Failed("header")}
      \/ ReadBOLT(s, p, c, n, table) = read /\ ~(Len(s) < p + n) /\ ~(Len(s) < end)
  BY Zenon DEF ReadBOLT
<1>2. CASE ReadBOLT(s, p, c, n, table) \in {Failed("short"), Failed("header")}
  BY <1>2, FailedReturned
<1>3. CASE ~(Len(s) < p + n) /\ ~(Len(s) < end)
  <2>1. p + n <= Len(s)
    BY <1>3 DEF Strings
  <2>2. \A k \in DOMAIN table : f[k] \in Nat /\ (k \in Numbers => f[k] \in 0 .. Bound(k))
    BY <2>1, FieldsTyped
  <2>3. DOMAIN f = DOMAIN table
    BY DEF Fields
  <2>4. f.classLen \in Nat /\ f.headerLen \in Nat /\ f.contentLen \in Nat
    BY <2>2
  <2> HIDE DEF f
  <2>5. crc \in Nat /\ end \in Nat /\ (end = crc \/ end = crc + 4)
    BY <2>4
  <2>6. c.crc32 \in 0 .. Uint32Max
    BY BoundFacts DEF Typed, Numbers, Words
  <2>7. end = crc + 4 => Uint(Ref(s, crc, 4)) \in 0 .. Uint32Max
    <3> SUFFICES ASSUME end = crc + 4 PROVE Uint(Ref(s, crc, 4)) \in 0 .. Uint32Max
      OBVIOUS
    <3>1. PICK q \in Nat : q = crc
      BY <2>5
    <3>2. q + 4 <= Len(s)
      BY <1>3, <2>5, <3>1 DEF Strings
    <3>3. Uint(SubSeq(s, q + 1, q + 4)) \in 0 .. Limit(4)
      BY <3>2, UintAt DEF Strings, Widths
    <3> QED
      BY <3>1, <3>3, Limits DEF Ref
  <2> HIDE DEF decoded, crc, end
  <2>8. g.crc32 \in 0 .. Uint32Max
    BY <2>5, <2>6, <2>7
  <2>9. \A k \in DOMAIN g : k \in Numbers => k = "crc32"
    BY DEF Numbers, Bytes, Halves, Words
  <2>10. \A k \in DOMAIN g : k \in Numbers => g[k] \in 0 .. Bound(k)
    BY <2>8, <2>9, BoundFacts DEF Words
  <2> HIDE DEF g
  <2>11. Typed(With(c, f))
    BY <2>2, <2>3, WithTyped
  <2>12. Typed(With(With(c, f), g))
    BY <2>10, <2>11, WithTyped
  <2>13. Returned(read)
    BY <2>5, <2>12 DEF Returned
  <2> QED
    BY <1>1, <1>2, <2>13
<1> QED
  BY <1>1, <1>2, <1>3

LEMMA ReadTBTyped ==
  ASSUME NEW s \in Strings, NEW p \in Nat, NEW c, Typed(c)
  PROVE  Returned(readCommandTBRemoting(s, p, c))
<1> DEFINE f       == Fields(s, p, TBTable)
           class   == p + 13 + f.connLen
           content == class + f.classLen
           g       == [proto      |-> ProtoTBRemoting,
                       connection |-> Ref(s, p + 13, f.connLen),
                       class      |-> Ref(s, class, f.classLen),
                       content    |-> Ref(s, content, f.contentLen)]
           read    == [err |-> "none", used |-> content + f.contentLen, cmd |-> With(With(c, f), g)]
<1>1. \/ readCommandTBRemoting(s, p, c) = Failed("short")
      \/ readCommandTBRemoting(s, p, c) = read /\ ~(Len(s) < p + 13)
  BY Zenon DEF readCommandTBRemoting
<1>2. CASE readCommandTBRemoting(s, p, c) = Failed("short")
  BY <1>2, FailedReturned
<1>3. CASE readCommandTBRemoting(s, p, c) = read /\ ~(Len(s) < p + 13)
  <2>1. p + 13 <= Len(s)
    BY <1>3 DEF Strings
  <2>2. \A k \in DOMAIN TBTable : f[k] \in Nat /\ (k \in Numbers => f[k] \in 0 .. Bound(k))
    BY <2>1, FieldsTyped, Tables
  <2>3. DOMAIN f = DOMAIN TBTable
    BY DEF Fields
  <2>4. f.classLen \in Nat /\ f.connLen \in Nat /\ f.contentLen \in Nat
    BY <2>2 DEF TBTable
  <2> HIDE DEF f
  <2>5. content + f.contentLen \in Nat
    BY <2>4
  <2>6. \A k \in DOMAIN g : k \in Numbers => k = "proto"
    BY DEF Numbers, Bytes, Halves, Words
  <2>7. g.proto \in 0 .. Base - 1
    BY BaseAssumption DEF ProtoTBRemoting
  <2>8. \A k \in DOMAIN g : k \in Numbers => g[k] \in 0 .. Bound(k)
    BY <2>6, <2>7, BoundFacts DEF Bytes
  <2> HIDE DEF g
  <2>9. Typed(With(c, f))
    BY <2>2, <2>3, WithTyped
  <2>10. Typed(With(With(c, f), g))
    BY <2>8, <2>9, WithTyped
  <2>11. Returned(read)
    BY <2>5, <2>10 DEF Returned
  <2> QED
    BY <1>3, <2>11
<1> QED
  BY <1>1, <1>2, <1>3

(* A read leaves a command of the right type, whatever the bytes are.       *)
LEMMA ReadTyped ==
  ASSUME NEW s \in Strings, NEW c, Typed(c)
  PROVE  Returned(ReadCommand(s, c))
<1>1. Len(s) \in Nat /\ \A i \in 1 .. Len(s) : s[i] \in Byte
  BY DEF Strings
<1>2. ASSUME NEW x \in Byte, NEW d, Typed(d)
      PROVE  /\ Typed([d EXCEPT !.typ = x]) /\ Typed([d EXCEPT !.ver1 = x])
             /\ Typed([d EXCEPT !.proto = x])
  <2>1. x \in 0 .. Bound("typ") /\ x \in 0 .. Bound("ver1") /\ x \in 0 .. Bound("proto")
    BY BoundFacts DEF Bytes, Byte
  <2> QED
    BY <1>2, <2>1, UpdateTyped
<1>3. ASSUME NEW p \in Nat, NEW d, Typed(d)
      PROVE  /\ Returned(readResponseCommandBOLTV1(s, p, d))
             /\ Returned(readRequestCommandBOLTV1(s, p, d))
             /\ Returned(readResponseCommandBOLTV2(s, p, d))
             /\ Returned(readRequestCommandBOLTV2(s, p, d))
  <2>1. /\ {"classLen", "headerLen", "contentLen"} \subseteq DOMAIN ResponseV1Table
        /\ {"classLen", "headerLen", "contentLen"} \subseteq DOMAIN RequestV1Table
        /\ {"classLen", "headerLen", "contentLen"} \subseteq DOMAIN ResponseV2Table
        /\ {"classLen", "headerLen", "contentLen"} \subseteq DOMAIN RequestV2Table
    BY DEF ResponseV1Table, RequestV1Table, ResponseV2Table, RequestV2Table
  <2> QED
    BY <1>3, <2>1, Tables, ReadBOLTTyped DEF readResponseCommandBOLTV1, readRequestCommandBOLTV1,
       readResponseCommandBOLTV2, readRequestCommandBOLTV2
<1>4. ASSUME NEW d, Typed(d) PROVE Returned(readCommandBOLTV1(s, 1, d))
  <2> DEFINE t == [d EXCEPT !.typ = s[1 + 1]]
             r == readCommandBOLTV1(s, 1, d)
  <2>1. \/ r \in {Failed("short"), Failed("type")}
        \/ Len(s) >= 1 + 1 /\ r \in {readResponseCommandBOLTV1(s, 1 + 1, t),
                                     readRequestCommandBOLTV1(s, 1 + 1, t)}
    BY <1>1 DEF readCommandBOLTV1
  <2>2. CASE r \in {Failed("short"), Failed("type")}
    BY <2>2, FailedReturned
  <2>3. ASSUME Len(s) >= 1 + 1
        PROVE  /\ Returned(readResponseCommandBOLTV1(s, 1 + 1, t))
               /\ Returned(readRequestCommandBOLTV1(s, 1 + 1, t))
    <3>1. s[1 + 1] \in Byte
      BY <1>1, <2>3
    <3>2. Typed(t)
      BY <1>2, <1>4, <3>1
    <3> HIDE DEF t
    <3> QED
      BY <1>3, <3>2
  <2> QED
    BY <2>1, <2>2, <2>3
<1>5. ASSUME NEW d, Typed(d) PROVE Returned(readCommandBOLTV2(s, 1, d))
  <2> DEFINE u == [d EXCEPT !.ver1 = s[1 + 1]]
             t == [d EXCEPT !.ver1 = s[1 + 1], !.typ = s[1 + 2]]
             r == readCommandBOLTV2(s, 1, d)
  <2>1. \/ r \in {Failed("short"), Failed("type")}
        \/ Len(s) >= 1 + 2 /\ r \in {readResponseCommandBOLTV2(s, 1 + 2, t),
                                     readRequestCommandBOLTV2(s, 1 + 2, t)}
    BY <1>1 DEF readCommandBOLTV2
  <2>2. CASE r \in {Failed("short"), Failed("type")}
    BY <2>2, FailedReturned
  <2>3. ASSUME Len(s) >= 1 + 2
        PROVE  /\ Returned(readResponseCommandBOLTV2(s, 1 + 2, t))
               /\ Returned(readRequestCommandBOLTV2(s, 1 + 2, t))
    <3>0. s[1 + 1] \in Byte /\ s[1 + 2] \in Byte
      BY <1>1, <2>3
    <3>1. Typed(u)
      BY <1>2, <1>5, <3>0
    <3>2. t = [u EXCEPT !.typ = s[1 + 2]]
      OBVIOUS
    <3> HIDE DEF u
    <3>3. Typed(t)
      BY <1>2, <3>0, <3>1, <3>2
    <3> HIDE DEF t
    <3> QED
      BY <1>3, <3>3
  <2> QED
    BY <2>1, <2>2, <2>3
<1> DEFINE u == [c EXCEPT !.proto = s[1]]
           d == [c EXCEPT !.proto = s[1], !.reserved = 0]
           r == ReadCommand(s, c)
<1>6. \/ r \in {Failed("short"), Failed("proto")}
      \/ s # <<>> /\ r \in {readCommandBOLTV1(s, 1, d), readCommandBOLTV2(s, 1, d),
                            readCommandTBRemoting(s, 1, d)}
  BY DEF ReadCommand
<1>7. CASE r \in {Failed("short"), Failed("proto")}
  BY <1>7, FailedReturned
<1>8. ASSUME s # <<>>
      PROVE  /\ Returned(readCommandBOLTV1(s, 1, d)) /\ Returned(readCommandBOLTV2(s, 1, d))
             /\ Returned(readCommandTBRemoting(s, 1, d))
  <2>1. s[1] \in Byte
    <3>1. Len(s) > 0
      BY <1>8 DEF Strings
    <3> QED
      BY <1>1, <3>1
  <2>2. Typed(u)
    BY <1>2, <2>1
  <2>3. d = [u EXCEPT !.reserved = 0] /\ 0 \in 0 .. Bound("reserved")
    BY BoundFacts DEF Numbers, Bytes
  <2> HIDE DEF u
  <2>4. Typed(d)
    BY <2>2, <2>3, UpdateTyped
  <2> HIDE DEF d
  <2> QED
    BY <1>4, <1>5, <2>4, ReadTBTyped
<1> QED
  BY <1>6, <1>7, <1>8

-----------------------------------------------------------------------------
(* Frames.  Layouts are sequences of a name and a width.                    *)

Names == {"proto", "ver1", "typ", "cmdcode", "ver2", "rid", "codec", "switc", "timeout",
          "status", "classLen", "headerLen", "contentLen", "zero", "connLen"}

Slots == Seq(Names \X Widths)

LEMMA SlotsConcat ==
  ASSUME NEW a \in Slots, NEW b \in Slots
  PROVE  /\ a \o b \in Slots /\ Len(a \o b) = Len(a) + Len(b)
         /\ \A i \in 1 .. Len(a) : (a \o b)[i] = a[i]
         /\ \A i \in 1 .. Len(b) : (a \o b)[Len(a) + i] = b[i]
         /\ Len(a) \in Nat /\ Len(b) \in Nat
BY DEF Slots

LEMMA SlotsEqual ==
  ASSUME NEW a \in Slots, NEW b \in Slots, Len(a) = Len(b), \A i \in 1 .. Len(a) : a[i] = b[i]
  PROVE  a = b
BY DEF Slots

(* Sequence m has a, b and c, of these lengths, one behind the other.       *)
Joins(a, b, c, m, n, k, l) ==
  /\ Len(m) = n + k + l /\ n = Len(a) /\ k = Len(b) /\ l = Len(c)
  /\ \A i \in 1 .. n : m[i] = a[i]
  /\ \A i \in 1 .. k : m[n + i] = b[i]
  /\ \A i \in 1 .. l : m[n + k + i] = c[i]

LEMMA JoinIs ==
  ASSUME NEW a \in Slots, NEW b \in Slots, NEW c \in Slots, NEW m \in Slots,
         NEW n \in Nat, NEW k \in Nat, NEW l \in Nat, Joins(a, b, c, m, n, k, l)
  PROVE  a \o b \o c = m
<1> DEFINE x == a \o b
           y == x \o c
<1>1. n = Len(a) /\ k = Len(b) /\ l = Len(c)
  BY DEF Joins
<1>2. Joins(a, b, c, y, n, k, l) /\ y \in Slots
  <2>1. /\ x \in Slots /\ Len(x) = Len(a) + Len(b)
        /\ \A i \in 1 .. Len(a) : x[i] = a[i]
        /\ \A i \in 1 .. Len(b) : x[Len(a) + i] = b[i]
    BY SlotsConcat
  <2> HIDE DEF x
  <2>2. /\ y \in Slots /\ Len(y) = Len(x) + Len(c)
        /\ \A i \in 1 .. Len(x) : y[i] = x[i]
        /\ \A i \in 1 .. Len(c) : y[Len(x) + i] = c[i]
    BY <2>1, SlotsConcat
  <2> HIDE DEF y
  <2>3. \A i \in 1 .. n : y[i] = a[i]
    BY <1>1, <2>1, <2>2
  <2>4. \A i \in 1 .. k : y[n + i] = b[i]
    BY <1>1, <2>1, <2>2
  <2>5. \A i \in 1 .. l : y[n + k + i] = c[i]
    BY <1>1, <2>1, <2>2
  <2> QED
    BY <1>1, <2>1, <2>2, <2>3, <2>4, <2>5 DEF Joins
<1> HIDE DEF y
<1>3. ASSUME NEW i \in 1 .. n + k + l PROVE m[i] = y[i]
  <2>1. CASE i <= n
    BY <1>2, <2>1 DEF Joins
  <2>2. CASE i > n /\ i <= n + k
    <3>1. PICK j \in 1 .. k : i = n + j
      BY <2>2
    <3> QED
      BY <1>2, <3>1 DEF Joins
  <2>3. CASE i > n + k
    <3>1. PICK j \in 1 .. l : i = n + k + j
      BY <2>3
    <3> QED
      BY <1>2, <3>1 DEF Joins
  <2> QED
    BY <2>1, <2>2, <2>3
<1>4. Len(m) = n + k + l /\ Len(y) = n + k + l
  BY <1>2 DEF Joins
<1> QED
  BY <1>2, <1>3, <1>4, SlotsEqual DEF y

(* The layouts in one piece, and where each of their fields starts.         *)
RequestV1 ==
  << <<"proto", 1>>, <<"typ", 1>>, <<"cmdcode", 2>>, <<"ver2", 1>>, <<"rid", 4>>,
     <<"codec", 1>>, <<"timeout", 4>>, <<"classLen", 2>>, <<"headerLen", 2>>,
     <<"contentLen", 4>> >>
ResponseV1 ==
  << <<"proto", 1>>, <<"typ", 1>>, <<"cmdcode", 2>>, <<"ver2", 1>>, <<"rid", 4>>,
     <<"codec", 1>>, <<"status", 2>>, <<"classLen", 2>>, <<"headerLen", 2>>,
     <<"contentLen", 4>> >>
RequestV2 ==
  << <<"proto", 1>>, <<"ver1", 1>>, <<"typ", 1>>, <<"cmdcode", 2>>, <<"ver2", 1>>, <<"rid", 4>>,
     <<"codec", 1>>, <<"switc", 1>>, <<"timeout", 4>>, <<"classLen", 2>>, <<"headerLen", 2>>,
     <<"contentLen", 4>> >>
ResponseV2 ==
  << <<"proto", 1>>, <<"ver1", 1>>, <<"typ", 1>>, <<"cmdcode", 2>>, <<"ver2", 1>>, <<"rid", 4>>,
     <<"codec", 1>>, <<"switc", 1>>, <<"status", 2>>, <<"classLen", 2>>, <<"headerLen", 2>>,
     <<"contentLen", 4>> >>

RequestV1At  == [i \in 0 .. 10 |-> <<0, 1, 2, 4, 5, 9, 10, 14, 16, 18, 22>>[i + 1]]
ResponseV1At == [i \in 0 .. 10 |-> <<0, 1, 2, 4, 5, 9, 10, 12, 14, 16, 20>>[i + 1]]
RequestV2At  == [i \in 0 .. 12 |-> <<0, 1, 2, 3, 5, 6, 10, 11, 12, 16, 18, 20, 24>>[i + 1]]
ResponseV2At == [i \in 0 .. 12 |-> <<0, 1, 2, 3, 5, 6, 10, 11, 12, 14, 16, 18, 22>>[i + 1]]
TBAt         == [i \in 0 .. 8 |-> <<0, 1, 2, 3, 4, 5, 9, 10, 14>>[i + 1]]

LEMMA SlotsFacts ==
  /\ BOLTV1 \in Slots /\ BOLTV2 \in Slots /\ Timeout \in Slots /\ Status \in Slots
  /\ Lengths \in Slots /\ TBRemoting \in Slots
  /\ RequestV1 \in Slots /\ ResponseV1 \in Slots
  /\ RequestV2 \in Slots /\ ResponseV2 \in Slots
<1>1. BOLTV1 \in Slots /\ BOLTV2 \in Slots
  BY DEF BOLTV1, BOLTV2, Slots, Names, Widths
<1>2. Timeout \in Slots /\ Status \in Slots /\ Lengths \in Slots /\ TBRemoting \in Slots
  BY DEF Timeout, Status, Lengths, TBRemoting, Slots, Names, Widths
<1>3. RequestV1 \in Slots /\ ResponseV1 \in Slots
  BY DEF RequestV1, ResponseV1, Slots, Names, Widths
<1>4. RequestV2 \in Slots /\ ResponseV2 \in Slots
  BY DEF RequestV2, ResponseV2, Slots, Names, Widths
<1> QED
  BY <1>1, <1>2, <1>3, <1>4

LEMMA LayoutsAre ==
  /\ BOLTV1 \o Timeout \o Lengths = RequestV1 /\ BOLTV1 \o Status \o Lengths = ResponseV1
  /\ BOLTV2 \o Timeout \o Lengths = RequestV2 /\ BOLTV2 \o Status \o Lengths = ResponseV2
<1>1. Joins(BOLTV1, Timeout, Lengths, RequestV1, 6, 1, 3)
  BY DEF Joins, BOLTV1, Timeout, Lengths, RequestV1
<1>2. Joins(BOLTV1, Status, Lengths, ResponseV1, 6, 1, 3)
  BY DEF Joins, BOLTV1, Status, Lengths, ResponseV1
<1>3. Joins(BOLTV2, Timeout, Lengths, RequestV2, 8, 1, 3)
  BY DEF Joins, BOLTV2, Timeout, Lengths, RequestV2
<1>4. Joins(BOLTV2, Status, Lengths, ResponseV2, 8, 1, 3)
  BY DEF Joins, BOLTV2, Status, Lengths, ResponseV2
<1> QED
  BY <1>1, <1>2, <1>3, <1>4, SlotsFacts, JoinIs

(* Layout L has n fields, which start at the offsets o.                     *)
Laid(L, n, o) ==
  /\ L \in Slots /\ n \in Nat /\ Len(L) = n /\ o \in [0 .. n -> Nat] /\ o[0] = 0
  /\ \A i \in 1 .. n : o[i] = o[i - 1] + L[i][2]

LEMMA LaidOut ==
  /\ Laid(RequestV1, 10, RequestV1At) /\ Laid(ResponseV1, 10, ResponseV1At)
  /\ Laid(RequestV2, 12, RequestV2At) /\ Laid(ResponseV2, 12, ResponseV2At)
  /\ Laid(TBRemoting, 8, TBAt)
<1>1. Laid(RequestV1, 10, RequestV1At)
  BY SlotsFacts DEF Laid, RequestV1, RequestV1At
<1>2. Laid(ResponseV1, 10, ResponseV1At)
  BY SlotsFacts DEF Laid, ResponseV1, ResponseV1At
<1>3. Laid(RequestV2, 12, RequestV2At)
  BY SlotsFacts DEF Laid, RequestV2, RequestV2At
<1>4. Laid(ResponseV2, 12, ResponseV2At)
  BY SlotsFacts DEF Laid, ResponseV2, ResponseV2At
<1>5. Laid(TBRemoting, 8, TBAt)
  BY SlotsFacts DEF Laid, TBRemoting, TBAt
<1> QED
  BY <1>1, <1>2, <1>3, <1>4, <1>5

(* Sequence b has the number x in the w bytes behind q.                     *)
Put(b, q, x, w) == \A j \in 1 .. w : b[q + j] = PutUint(x, w)[j]

(* Sequence b starts with layout L of command c.                            *)
HeadAt(b, c, L, n, o) ==
  o[n] <= Len(b) /\ \A i \in 1 .. n : Put(b, o[i - 1], Value(c, L[i][1]), L[i][2])

LEMMA CommandFacts ==
  ASSUME NEW c, IsTyped(c)
  PROVE  /\ \A k \in Numbers : c[k] \in 0 .. Bound(k)
         /\ DOMAIN c = FieldNames /\ c.headers \in HeaderMaps
         /\ c.connection \in Strings /\ c.class \in Strings /\ c.content \in Strings
         /\ \A k \in Names : Value(c, k) \in Nat
         /\ \A k \in Names \cap Numbers : Value(c, k) \in 0 .. Bound(k)
         /\ Value(c, "zero") = 0 /\ Value(c, "connLen") = Len(c.connection)
         /\ Value(c, "classLen") = Len(c.class) /\ Value(c, "contentLen") = Len(c.content)
         /\ Value(c, "headerLen") = GetEncodeSize(c.headers)
<1>1. DOMAIN c = FieldNames
  BY DEF IsTyped, FieldNames, Zero
<1>2. /\ {c.proto, c.ver1, c.typ, c.ver2, c.codec, c.switc, c.reserved} \subseteq Byte
      /\ {c.cmdcode, c.status} \subseteq 0 .. Uint16Max
      /\ {c.rid, c.timeout, c.crc32} \subseteq 0 .. Uint32Max
  BY DEF IsTyped
<1>3. \A k \in Numbers : c[k] \in 0 .. Bound(k)
  <2>1. \A k \in Bytes : c[k] \in 0 .. Base - 1
    BY <1>2 DEF Bytes, Byte
  <2>2. \A k \in Halves : c[k] \in 0 .. Uint16Max
    BY <1>2 DEF Halves
  <2>3. \A k \in Words : c[k] \in 0 .. Uint32Max
    BY <1>2 DEF Words
  <2> QED
    BY <2>1, <2>2, <2>3, BoundFacts DEF Numbers
<1>5. /\ c.headers \in HeaderMaps
      /\ c.connection \in Strings /\ c.class \in Strings /\ c.content \in Strings
  BY DEF IsTyped, Strings
<1>6. /\ Value(c, "zero") = 0 /\ Value(c, "connLen") = Len(c.connection)
      /\ Value(c, "classLen") = Len(c.class) /\ Value(c, "contentLen") = Len(c.content)
      /\ Value(c, "headerLen") = GetEncodeSize(c.headers)
  BY <1>1 DEF Value, Measured, FieldNames, Zero
<1>7. \A k \in Names : k \in Numbers
                     \/ k \in {"zero", "connLen", "classLen", "contentLen", "headerLen"}
  BY DEF Names, Numbers, Bytes, Halves, Words
<1>8. \A k \in Names \cap Numbers : Value(c, k) \in 0 .. Bound(k)
  BY <1>1, <1>3, BoundFacts DEF Value
<1>9. \A k \in Names : Value(c, k) \in Nat
  <2>1. Len(c.connection) \in Nat /\ Len(c.class) \in Nat /\ Len(c.content) \in Nat
    BY <1>5 DEF Strings
  <2>2. GetEncodeSize(c.headers) \in Nat
    BY <1>5, EncodeFacts
  <2>3. \A k \in {"zero", "connLen", "classLen", "contentLen", "headerLen"} : Value(c, k) \in Nat
    BY <1>6, <2>1, <2>2
  <2> QED
    BY <1>7, <1>8, <2>3, BoundFacts
<1> QED
  BY <1>1, <1>3, <1>5, <1>6, <1>8, <1>9

LEMMA FixedAt ==
  ASSUME NEW c, IsTyped(c), NEW L, NEW n, NEW o, Laid(L, n, o)
  PROVE  /\ Fixed(c, L) \in Strings /\ Len(Fixed(c, L)) = o[n] /\ o[n] \in Nat
         /\ HeadAt(Fixed(c, L), c, L, n, o)
<1> DEFINE ss == [i \in 1 .. n |-> PutUint(Value(c, L[i][1]), L[i][2])]
<1>1. /\ n \in Nat /\ Len(L) = n /\ o \in [0 .. n -> Nat] /\ o[0] = 0
      /\ \A i \in 1 .. n : o[i] = o[i - 1] + L[i][2]
  BY DEF Laid
<1>2. \A i \in 1 .. n : L[i][1] \in Names /\ L[i][2] \in Widths
  BY <1>1 DEF Laid, Slots
<1>3. \A i \in 1 .. n : Value(c, L[i][1]) \in Nat
  BY <1>2, CommandFacts
<1>4. \A i \in 1 .. n : ss[i] \in Seq(Byte) /\ Len(ss[i]) = L[i][2]
  BY <1>2, <1>3, PutFacts
<1>5. Len(ss) = n /\ ss \in Seq(Seq(Byte))
  BY <1>1, <1>4
<1>6. Fixed(c, L) = FlattenSeq(ss)
  BY <1>1 DEF Fixed
<1>7. \A i \in 1 .. n : \A j \in 1 .. L[i][2] : ss[i][j] = PutUint(Value(c, L[i][1]), L[i][2])[j]
  OBVIOUS
<1> HIDE DEF ss
<1>8. Sizes(ss) = [i \in 1 .. n |-> Len(ss[i])]
  BY <1>5 DEF Sizes
<1>9. Len(Sizes(ss)) = n /\ \A i \in 1 .. n : Sizes(ss)[i] = L[i][2]
  BY <1>1, <1>4, <1>8
<1>10. Parts(Byte, ss, o)
  BY <1>1, <1>5, <1>9 DEF Parts, Offsets
<1>11. /\ FlattenSeq(ss) \in Seq(Byte) /\ Len(FlattenSeq(ss)) = o[n]
       /\ \A h \in 1 .. n : \A j \in 1 .. Len(ss[h]) : FlattenSeq(ss)[o[h - 1] + j] = ss[h][j]
  BY <1>5, <1>10, FlattenAt, SMTT(30)
<1>12. o[n] \in Nat
  BY <1>1
<1>13. \A i \in 1 .. n : Put(FlattenSeq(ss), o[i - 1], Value(c, L[i][1]), L[i][2])
  BY <1>4, <1>7, <1>11 DEF Put
<1> QED
  BY <1>6, <1>11, <1>12, <1>13 DEF HeadAt, Strings

(* Sequence b has the class, the headers and the content of command c       *)
(* behind q bytes; how long they are.                                       *)
BodyAt(b, q, c) ==
  LET e == Encode(c.headers)
      h == q + Len(c.class)
      t == h + Len(e)
  IN  /\ t + Len(c.content) <= Len(b)
      /\ \A j \in 1 .. Len(c.class) : b[q + j] = c.class[j]
      /\ \A j \in 1 .. Len(e) : b[h + j] = e[j]
      /\ \A j \in 1 .. Len(c.content) : b[t + j] = c.content[j]

Size(c) == Len(c.class) + GetEncodeSize(c.headers) + Len(c.content)

(* Sequence b goes on behind x.                                             *)
Extends(x, b) == Len(x) <= Len(b) /\ \A i \in 1 .. Len(x) : b[i] = x[i]

LEMMA Lengths3 ==
  ASSUME NEW c, IsTyped(c)
  PROVE  /\ Len(c.class) \in Nat /\ Len(c.content) \in Nat /\ Len(c.connection) \in Nat
         /\ Len(Encode(c.headers)) \in Nat /\ Encode(c.headers) \in Strings
         /\ GetEncodeSize(c.headers) = Len(Encode(c.headers)) /\ Size(c) \in Nat
<1>1. Len(c.class) \in Nat /\ Len(c.content) \in Nat /\ Len(c.connection) \in Nat
  BY CommandFacts DEF Strings
<1>2. /\ Encode(c.headers) \in Strings /\ Len(Encode(c.headers)) \in Nat
      /\ GetEncodeSize(c.headers) = Len(Encode(c.headers))
  BY CommandFacts, EncodeFacts
<1>3. Size(c) \in Nat
  <2>1. PICK n \in Nat, k \in Nat, l \in Nat :
          n = Len(c.class) /\ k = GetEncodeSize(c.headers) /\ l = Len(c.content)
    BY <1>1, <1>2
  <2>2. Size(c) = n + k + l
    BY <2>1, Zenon DEF Size
  <2> QED
    BY <2>2
<1> QED
  BY <1>1, <1>2, <1>3

LEMMA BodyFacts ==
  ASSUME NEW c, IsTyped(c)
  PROVE  Body(c) \in Strings /\ Len(Body(c)) = Size(c) /\ BodyAt(Body(c), 0, c)
<1>1. PICK a \in Strings, e \in Strings, d \in Strings :
        a = c.class /\ e = Encode(c.headers) /\ d = c.content
  BY CommandFacts, Lengths3
<1>2. PICK n \in Nat, k \in Nat, l \in Nat : n = Len(a) /\ k = Len(e) /\ l = Len(d)
  BY DEF Strings
<1> DEFINE x == a \o e
           y == x \o d
<1>3. /\ x \in Strings /\ Len(x) = n + k
      /\ \A i \in 1 .. n : x[i] = a[i]
      /\ \A i \in 1 .. k : x[n + i] = e[i]
  BY <1>2, StringConcat
<1> HIDE DEF x
<1>4. /\ y \in Strings /\ Len(y) = n + k + l
      /\ \A i \in 1 .. n + k : y[i] = x[i]
      /\ \A i \in 1 .. l : y[n + k + i] = d[i]
  <2>1. PICK h \in Nat : h = n + k
    OBVIOUS
  <2>2. /\ y \in Strings /\ Len(y) = Len(x) + Len(d)
        /\ \A i \in 1 .. Len(x) : y[i] = x[i]
        /\ \A i \in 1 .. Len(d) : y[Len(x) + i] = d[i]
    BY <1>3, StringConcat
  <2> QED
    BY <1>2, <1>3, <2>1, <2>2
<1>5. Body(c) = y
  BY <1>1 DEF Body, x
<1> HIDE DEF y
<1>6. \A i \in 1 .. n : y[0 + i] = a[i]
  BY <1>3, <1>4
<1>7. \A i \in 1 .. k : y[0 + n + i] = e[i]
  BY <1>3, <1>4
<1>8. \A i \in 1 .. l : y[0 + n + k + i] = d[i]
  BY <1>4
<1>9. 0 + n + k + l <= Len(y)
  BY <1>4
<1>10. BodyAt(y, 0, c)
  BY <1>1, <1>2, <1>6, <1>7, <1>8, <1>9, Zenon DEF BodyAt
<1>11. Size(c) = n + k + l
  BY <1>1, <1>2, Lengths3 DEF Size
<1> QED
  BY <1>4, <1>5, <1>10, <1>11

LEMMA ConcatExtends ==
  ASSUME NEW a \in Strings, NEW b \in Strings PROVE Extends(a, a \o b)
BY StringConcat DEF Extends

LEMMA HeadExtends ==
  ASSUME NEW x \in Strings, NEW b \in Strings, Extends(x, b), NEW c, NEW L, NEW n, NEW o,
         Laid(L, n, o), HeadAt(x, c, L, n, o)
  PROVE  HeadAt(b, c, L, n, o)
<1>1. PICK l \in Nat, k \in Nat : l = Len(x) /\ k = Len(b)
  BY DEF Strings
<1>2. l <= k /\ \A i \in 1 .. l : b[i] = x[i]
  BY <1>1 DEF Extends
<1>3. /\ n \in Nat /\ o \in [0 .. n -> Nat]
      /\ \A i \in 1 .. n : o[i] = o[i - 1] + L[i][2] /\ L[i][2] \in Widths
  BY DEF Laid, Slots
<1>4. Offsets([i \in 1 .. n |-> L[i][2]], o) /\ [i \in 1 .. n |-> L[i][2]] \in Seq(Nat)
  BY <1>3 DEF Offsets, Laid, Widths
<1>5. \A i \in 0 .. n : o[i] <= o[n]
  <2> DEFINE ns == [i \in 1 .. n |-> L[i][2]]
  <2>1. Len(ns) = n
    BY <1>3
  <2> HIDE DEF ns
  <2>2. \A i \in 0 .. n : \A h \in 0 .. i : o[h] <= o[i]
    BY <1>4, <2>1, OffsetsGrow DEF ns
  <2> QED
    BY <1>3, <2>2
<1>6. o[n] <= l
  BY <1>1 DEF HeadAt
<1>7. ASSUME NEW i \in 1 .. n, NEW j \in 1 .. L[i][2]
      PROVE  b[o[i - 1] + j] = PutUint(Value(c, L[i][1]), L[i][2])[j]
  <2>1. x[o[i - 1] + j] = PutUint(Value(c, L[i][1]), L[i][2])[j]
    BY DEF HeadAt, Put
  <2>2. PICK q \in Nat, w \in Nat : q = o[i - 1] /\ w = L[i][2] /\ o[i] = q + w
    <3>1. i - 1 \in 0 .. n /\ Widths \subseteq Nat
      BY <1>3 DEF Widths
    <3>2. o[i - 1] \in Nat /\ L[i][2] \in Nat /\ o[i] = o[i - 1] + L[i][2]
      BY <1>3, <3>1
    <3> QED
      BY <3>2
  <2>3. q + w <= l
    BY <1>3, <1>5, <1>6, <2>2
  <2>4. q + j \in 1 .. l
    BY <2>2, <2>3
  <2> QED
    BY <1>2, <2>1, <2>2, <2>4
<1> QED
  BY <1>1, <1>2, <1>3, <1>6, <1>7 DEF HeadAt, Put

LEMMA BodyMoved ==
  ASSUME NEW c, IsTyped(c), NEW a \in Strings, NEW r \in Strings, BodyAt(r, 0, c)
  PROVE  BodyAt(a \o r, Len(a), c)
<1>1. PICK n \in Nat, k \in Nat, l \in Nat :
        n = Len(c.class) /\ k = Len(Encode(c.headers)) /\ l = Len(c.content)
  BY Lengths3
<1>2. PICK q \in Nat, z \in Nat : q = Len(a) /\ z = Len(r)
  BY DEF Strings
<1> DEFINE b == a \o r
<1>3. Len(b) = q + z /\ \A i \in 1 .. z : b[q + i] = r[i]
  BY <1>2, StringConcat
<1> HIDE DEF b
<1>4. /\ 0 + n + k + l <= z
      /\ \A j \in 1 .. n : r[0 + j] = c.class[j]
      /\ \A j \in 1 .. k : r[0 + n + j] = Encode(c.headers)[j]
      /\ \A j \in 1 .. l : r[0 + n + k + j] = c.content[j]
  BY <1>1, <1>2, Zenon DEF BodyAt
<1>5. \A j \in 1 .. n : b[q + j] = c.class[j]
  BY <1>3, <1>4
<1>6. \A j \in 1 .. k : b[q + n + j] = Encode(c.headers)[j]
  <2> TAKE j \in 1 .. k
  <2>1. n + j \in 1 .. z /\ q + (n + j) = q + n + j /\ 0 + n + j = n + j
    BY <1>4
  <2> QED
    BY <1>3, <1>4, <2>1
<1>7. \A j \in 1 .. l : b[q + n + k + j] = c.content[j]
  <2> TAKE j \in 1 .. l
  <2>1. n + k + j \in 1 .. z /\ q + (n + k + j) = q + n + k + j /\ 0 + n + k + j = n + k + j
    BY <1>4
  <2> QED
    BY <1>3, <1>4, <2>1
<1>8. q + n + k + l <= Len(b)
  BY <1>3, <1>4
<1>9. BodyAt(b, q, c)
  BY <1>1, <1>5, <1>6, <1>7, <1>8, Zenon DEF BodyAt
<1> QED
  BY <1>2, <1>9 DEF b

LEMMA BodyExtends ==
  ASSUME NEW c, IsTyped(c), NEW x \in Strings, NEW b \in Strings, Extends(x, b), NEW q \in Nat,
         BodyAt(x, q, c)
  PROVE  BodyAt(b, q, c)
<1>1. PICK n \in Nat, k \in Nat, l \in Nat :
        n = Len(c.class) /\ k = Len(Encode(c.headers)) /\ l = Len(c.content)
  BY Lengths3
<1>2. PICK y \in Nat, z \in Nat : y = Len(x) /\ z = Len(b)
  BY DEF Strings
<1>3. y <= z /\ \A i \in 1 .. y : b[i] = x[i]
  BY <1>2 DEF Extends
<1>4. /\ q + n + k + l <= y
      /\ \A j \in 1 .. n : x[q + j] = c.class[j]
      /\ \A j \in 1 .. k : x[q + n + j] = Encode(c.headers)[j]
      /\ \A j \in 1 .. l : x[q + n + k + j] = c.content[j]
  BY <1>1, <1>2, Zenon DEF BodyAt
<1>5. \A j \in 1 .. n : b[q + j] = c.class[j]
  BY <1>3, <1>4
<1>6. \A j \in 1 .. k : b[q + n + j] = Encode(c.headers)[j]
  BY <1>3, <1>4
<1>7. \A j \in 1 .. l : b[q + n + k + j] = c.content[j]
  BY <1>3, <1>4
<1>8. q + n + k + l <= Len(b)
  BY <1>2, <1>3, <1>4
<1> QED
  BY <1>1, <1>5, <1>6, <1>7, <1>8, Zenon DEF BodyAt

(* A frame without a checksum: head and body.                               *)
Framed(b, c, L, n, o) ==
  /\ b \in Strings /\ o[n] \in Nat /\ HeadAt(b, c, L, n, o) /\ BodyAt(b, o[n], c)

LEMMA BOLTFrame ==
  ASSUME NEW c, IsTyped(c), NEW L, NEW n, NEW o, Laid(L, n, o)
  PROVE  /\ Framed(Fixed(c, L) \o Body(c), c, L, n, o)
         /\ Len(Fixed(c, L) \o Body(c)) = o[n] + Size(c)
<1>1. PICK a \in Strings, r \in Strings : a = Fixed(c, L) /\ r = Body(c)
  BY FixedAt, BodyFacts
<1>2. o[n] \in Nat /\ Len(a) = o[n] /\ HeadAt(a, c, L, n, o)
  BY <1>1, FixedAt
<1>3. Len(r) = Size(c) /\ BodyAt(r, 0, c)
  BY <1>1, BodyFacts
<1>4. a \o r \in Strings /\ Len(a \o r) = Len(a) + Len(r) /\ Extends(a, a \o r)
  BY StringConcat, ConcatExtends
<1>5. BodyAt(a \o r, Len(a), c)
  BY <1>3, BodyMoved
<1>6. HeadAt(a \o r, c, L, n, o)
  BY <1>2, <1>4, HeadExtends
<1> QED
  BY <1>1, <1>2, <1>3, <1>4, <1>5, <1>6 DEF Framed

LEMMA ChecksumFacts ==
  ASSUME NEW x \in Strings PROVE Checksum(x) \in 0 .. Uint32Max
<1>1. x \in Seq(Nat)
  <2>1. x \in Seq(Byte)
    BY DEF Strings
  <2>2. /\ Len(x) \in Nat /\ DOMAIN x = 1 .. Len(x) /\ x = [i \in 1 .. Len(x) |-> x[i]]
        /\ \A i \in 1 .. Len(x) : x[i] \in Byte
    BY <2>1
  <2>3. Byte \subseteq Nat
    BY ByteFacts
  <2>4. \A i \in 1 .. Len(x) : x[i] \in Nat
    BY <2>2, <2>3
  <2> QED
    BY <2>2, <2>4
<1>2. PICK o : Offsets(x, o) /\ Sum(x) = o[Len(x)]
  BY <1>1, SumFacts
<1>3. Sum(x) \in Nat
  BY <1>1, <1>2 DEF Offsets
<1>4. PICK m \in Nat : m = Uint32Max + 1 /\ m > 0
  BY Limits
<1>5. Sum(x) % m \in 0 .. m - 1
  BY <1>3, <1>4
<1> QED
  BY <1>4, <1>5, Limits DEF Checksum

LEMMA CRCFrame ==
  ASSUME NEW c, NEW x \in Strings, NEW b, b = WithCRC(c, x)
  PROVE  /\ b \in Strings /\ Extends(x, b)
         /\ c.switc > 0 => /\ Len(b) = Len(x) + 4 /\ Put(b, Len(x), Checksum(x), 4)
                           /\ SubSeq(b, 1, Len(b) - 4) = x
         /\ ~(c.switc > 0) => b = x
<1>1. CASE c.switc > 0
  <2>0. PutUint(Checksum(x), 4) \in Strings /\ Len(PutUint(Checksum(x), 4)) = 4
    <3>1. Checksum(x) \in Nat
      BY ChecksumFacts, Limits
    <3> QED
      BY <3>1, PutFacts DEF Strings, Widths
  <2>1. PICK y \in Strings : y = PutUint(Checksum(x), 4)
    BY <2>0
  <2>2. b = x \o y
    BY <1>1, <2>1 DEF WithCRC
  <2>3. /\ b \in Strings /\ Len(b) = Len(x) + 4 /\ Extends(x, b)
        /\ \A j \in 1 .. 4 : b[Len(x) + j] = y[j]
    <3>1. /\ b \in Strings /\ Len(b) = Len(x) + Len(y) /\ Extends(x, b)
          /\ \A j \in 1 .. Len(y) : b[Len(x) + j] = y[j]
      BY <2>2, StringConcat, ConcatExtends
    <3>2. Len(y) = 4
      BY <2>0, <2>1
    <3> QED
      BY <3>1, <3>2
  <2>4. Put(b, Len(x), Checksum(x), 4)
    BY <2>1, <2>3 DEF Put
  <2>5. SubSeq(b, 1, Len(b) - 4) = x
    <3>1. PICK n \in Nat : n = Len(x)
      BY DEF Strings
    <3>2. Len(b) = n + 4 /\ \A i \in 1 .. n : b[i] = x[i]
      BY <2>3, <3>1 DEF Extends
    <3>3. SubSeq(b, 1, n) = x
      <4> DEFINE t == SubSeq(b, 1, n)
      <4>1. t \in Seq(Byte) /\ Len(t) = n /\ \A i \in 1 .. n : t[i] = b[i]
        BY <2>3, <3>2 DEF Strings
      <4> HIDE DEF t
      <4>2. t = x
        BY <3>1, <3>2, <4>1 DEF Strings
      <4> QED
        BY <4>2 DEF t
    <3> QED
      BY <3>2, <3>3
  <2> QED
    BY <1>1, <2>3, <2>4, <2>5
<1>2. CASE ~(c.switc > 0)
  <2>1. b = x
    BY <1>2 DEF WithCRC
  <2>2. Len(x) \in Nat
    BY DEF Strings
  <2> QED
    BY <1>2, <2>1, <2>2 DEF Extends
<1> QED
  BY <1>1, <1>2

(* A frame of TBRemoting.                                                   *)
TBFramed(b, c) ==
  LET q == 14 + Len(c.connection)
      t == q + Len(c.class)
  IN  /\ b \in Strings /\ HeadAt(b, c, TBRemoting, 8, TBAt)
      /\ Len(b) = t + Len(c.content)
      /\ \A j \in 1 .. Len(c.connection) : b[14 + j] = c.connection[j]
      /\ \A j \in 1 .. Len(c.class) : b[q + j] = c.class[j]
      /\ \A j \in 1 .. Len(c.content) : b[t + j] = c.content[j]

LEMMA TBFrame ==
  ASSUME NEW c, IsTyped(c) PROVE TBFramed(writeCommandTBRemoting(c), c)
<1>1. PICK f \in Strings, a \in Strings, e \in Strings, d \in Strings :
        f = Fixed(c, TBRemoting) /\ a = c.connection /\ e = c.class /\ d = c.content
  BY CommandFacts, FixedAt, LaidOut
<1>2. PICK n \in Nat, k \in Nat, l \in Nat : n = Len(a) /\ k = Len(e) /\ l = Len(d)
  BY DEF Strings
<1>3. Len(f) = 14 /\ HeadAt(f, c, TBRemoting, 8, TBAt)
  <2>1. TBAt[8] = 14
    BY DEF TBAt
  <2>2. Len(f) = TBAt[8] /\ HeadAt(f, c, TBRemoting, 8, TBAt)
    BY <1>1, FixedAt, LaidOut
  <2> QED
    BY <2>1, <2>2
<1> DEFINE x == f \o a
           y == x \o e
           z == y \o d
<1>4. /\ x \in Strings /\ Len(x) = 14 + n /\ Extends(f, x)
      /\ \A i \in 1 .. n : x[14 + i] = a[i]
  <2>1. /\ x \in Strings /\ Len(x) = Len(f) + Len(a) /\ Extends(f, x)
        /\ \A i \in 1 .. Len(a) : x[Len(f) + i] = a[i]
    BY StringConcat, ConcatExtends
  <2> HIDE DEF x
  <2> QED
    BY <1>2, <1>3, <2>1
<1> HIDE DEF x
<1>5. /\ y \in Strings /\ Len(y) = Len(x) + k /\ Extends(x, y)
      /\ \A i \in 1 .. k : y[Len(x) + i] = e[i]
  BY <1>2, <1>4, StringConcat, ConcatExtends
<1> HIDE DEF y
<1>6. /\ z \in Strings /\ Len(z) = Len(y) + l /\ Extends(y, z)
      /\ \A i \in 1 .. l : z[Len(y) + i] = d[i]
  BY <1>2, <1>5, StringConcat, ConcatExtends
<1> HIDE DEF z
<1>7. HeadAt(z, c, TBRemoting, 8, TBAt)
  <2>1. HeadAt(x, c, TBRemoting, 8, TBAt)
    BY <1>3, <1>4, LaidOut, HeadExtends
  <2>2. HeadAt(y, c, TBRemoting, 8, TBAt)
    BY <1>4, <1>5, <2>1, LaidOut, HeadExtends
  <2> QED
    BY <1>5, <1>6, <2>2, LaidOut, HeadExtends
<1>8. PICK q \in Nat, t \in Nat : q = 14 + n /\ t = q + k
  OBVIOUS
<1>9. Len(x) = q /\ Len(y) = t /\ Len(z) = t + l
  BY <1>4, <1>5, <1>6, <1>8
<1>10. \A i \in 1 .. q : y[i] = x[i]
  BY <1>5, <1>9 DEF Extends
<1>11. \A i \in 1 .. t : z[i] = y[i]
  BY <1>6, <1>9 DEF Extends
<1>12. \A j \in 1 .. n : z[14 + j] = a[j]
  BY <1>4, <1>8, <1>10, <1>11
<1>13. \A j \in 1 .. k : z[q + j] = e[j]
  BY <1>5, <1>8, <1>9, <1>11
<1>14. \A j \in 1 .. l : z[t + j] = d[j]
  BY <1>6, <1>9
<1>15. writeCommandTBRemoting(c) = z
  BY <1>1 DEF writeCommandTBRemoting, x, y, z
<1> QED
  BY <1>1, <1>2, <1>6, <1>7, <1>8, <1>9, <1>12, <1>13, <1>14, <1>15, ZenonT(90) DEF TBFramed

(* The last four bytes are the checksum of the others.                      *)
EndsInChecksum(b) ==
  LET x == SubSeq(b, 1, Len(b) - 4) IN
  Checksum(x) \in 0 .. Uint32Max /\ Put(b, Len(b) - 4, Checksum(x), 4)

(* What a command of a BOLT version looks like on the wire.                 *)
BOLTFramed(b, c, L, n, o) ==
  /\ Framed(b, c, L, n, o)
  /\ Len(b) = o[n] + Size(c) + (IF IsV2(c) /\ c.switc > 0 THEN 4 ELSE 0)
  /\ IsV2(c) /\ c.switc > 0 => EndsInChecksum(b)

LEMMA V1Framed ==
  ASSUME NEW c, IsTyped(c), ~IsV2(c), NEW L, NEW n, NEW o, Laid(L, n, o)
  PROVE  BOLTFramed(Fixed(c, L) \o Body(c), c, L, n, o)
<1>1. PICK z \in Nat : z = o[n] + Size(c)
  BY FixedAt, Lengths3
<1> QED
  BY <1>1, BOLTFrame DEF BOLTFramed

LEMMA V2Framed ==
  ASSUME NEW c, IsTyped(c), IsV2(c), NEW L, NEW n, NEW o, Laid(L, n, o)
  PROVE  BOLTFramed(WithCRC(c, Fixed(c, L) \o Body(c)), c, L, n, o)
<1>1. PICK z \in Nat : z = o[n] + Size(c)
  BY FixedAt, Lengths3
<1> DEFINE x == Fixed(c, L) \o Body(c)
           b == WithCRC(c, x)
<1>2. Framed(x, c, L, n, o) /\ Len(x) = z
  BY <1>1, BOLTFrame
<1> HIDE DEF x
<1>3. x \in Strings /\ o[n] \in Nat /\ HeadAt(x, c, L, n, o) /\ BodyAt(x, o[n], c)
  BY <1>2 DEF Framed
<1>4. /\ b \in Strings /\ Extends(x, b)
      /\ c.switc > 0 => /\ Len(b) = z + 4 /\ Put(b, z, Checksum(x), 4)
                        /\ SubSeq(b, 1, Len(b) - 4) = x
      /\ ~(c.switc > 0) => b = x
  BY <1>2, <1>3, CRCFrame
<1> HIDE DEF b
<1>5. Framed(b, c, L, n, o)
  BY <1>3, <1>4, HeadExtends, BodyExtends DEF Framed
<1>6. Checksum(x) \in 0 .. Uint32Max
  BY <1>3, ChecksumFacts
<1>7. ASSUME c.switc > 0 PROVE BOLTFramed(b, c, L, n, o)
  <2>1. Len(b) = z + 4 /\ Len(b) - 4 = z
    BY <1>4, <1>7
  <2>2. SubSeq(b, 1, Len(b) - 4) = x /\ Put(b, Len(b) - 4, Checksum(x), 4)
    BY <1>4, <1>7, <2>1
  <2>3. Len(b) = o[n] + Size(c) + (IF IsV2(c) /\ c.switc > 0 THEN 4 ELSE 0)
    BY <1>1, <1>7, <2>1
  <2>4. EndsInChecksum(b)
    BY <1>6, <2>2 DEF EndsInChecksum
  <2> QED
    BY <1>5, <2>3, <2>4 DEF BOLTFramed
<1>8. ASSUME ~(c.switc > 0) PROVE BOLTFramed(b, c, L, n, o)
  <2>1. Len(b) = o[n] + Size(c) + (IF IsV2(c) /\ c.switc > 0 THEN 4 ELSE 0)
    BY <1>1, <1>2, <1>4, <1>8
  <2> QED
    BY <1>5, <1>8, <2>1 DEF BOLTFramed
<1> QED
  BY <1>7, <1>8 DEF b, x

(* The frame of every command that is written.                              *)
LEMMA Frames ==
  ASSUME NEW c, IsTyped(c), WriteCommand(c).err = "none", NEW b, b = WriteCommand(c).bytes
  PROVE  /\ b \in Strings
         /\ \/ IsTB(c) /\ TBFramed(b, c)
            \/ /\ ~IsTB(c) /\ ~IsV2(c) /\ c.proto \in {0, ProtoBOLTV1}
               /\ \/ c.typ \in Requests /\ BOLTFramed(b, c, RequestV1, 10, RequestV1At)
                  \/ c.typ = TypeBOLTResponse /\ BOLTFramed(b, c, ResponseV1, 10, ResponseV1At)
            \/ /\ ~IsTB(c) /\ IsV2(c)
               /\ \/ c.typ \in Requests /\ BOLTFramed(b, c, RequestV2, 12, RequestV2At)
                  \/ c.typ = TypeBOLTResponse /\ BOLTFramed(b, c, ResponseV2, 12, ResponseV2At)
<1>1. CASE c.proto \in {0, ProtoBOLTV1}
  <2>1. /\ ~IsTB(c) /\ ~IsV2(c)
        /\ c.proto # ProtoBOLTV2 /\ c.proto # ProtoTBRemoting
    BY <1>1 DEF IsTB, IsV2, ProtoBOLTV1, ProtoBOLTV2, ProtoTBRemoting
  <2>2. \/ c.typ \in Requests /\ b = Fixed(c, RequestV1) \o Body(c)
        \/ c.typ = TypeBOLTResponse /\ b = Fixed(c, ResponseV1) \o Body(c)
    <3>1. WriteCommand(c) = writeCommandBOLTV1(c)
      BY <1>1, <2>1 DEF WriteCommand
    <3>2. c.typ \in Requests \/ c.typ = TypeBOLTResponse
      BY <3>1 DEF writeCommandBOLTV1, Refused
    <3>3. TypeBOLTResponse \notin Requests
      BY DEF TypeBOLTResponse, Requests, TypeBOLTRequest, TypeBOLTRequestOneWay
    <3>4. c.typ \in Requests => WriteCommand(c) = Written(writeRequestCommandBOLTV1(c))
      BY <3>1, <3>3 DEF writeCommandBOLTV1
    <3>5. c.typ = TypeBOLTResponse => WriteCommand(c) = Written(writeResponseCommandBOLTV1(c))
      BY <3>1, <3>3 DEF writeCommandBOLTV1
    <3> QED
      BY <3>2, <3>4, <3>5, LayoutsAre DEF Written, writeRequestCommandBOLTV1,
         writeResponseCommandBOLTV1
  <2> QED
    BY <1>1, <2>1, <2>2, V1Framed, LaidOut DEF BOLTFramed, Framed
<1>2. CASE c.proto = ProtoBOLTV2
  <2>1. /\ ~IsTB(c) /\ IsV2(c)
        /\ c.proto \notin {0, ProtoBOLTV1} /\ c.proto # ProtoTBRemoting
    BY <1>2 DEF IsTB, IsV2, ProtoBOLTV1, ProtoBOLTV2, ProtoTBRemoting
  <2>2. \/ c.typ \in Requests /\ b = WithCRC(c, Fixed(c, RequestV2) \o Body(c))
        \/ c.typ = TypeBOLTResponse /\ b = WithCRC(c, Fixed(c, ResponseV2) \o Body(c))
    <3>1. WriteCommand(c) = writeCommandBOLTV2(c)
      BY <1>2, <2>1 DEF WriteCommand
    <3>2. c.typ \in Requests \/ c.typ = TypeBOLTResponse
      BY <3>1 DEF writeCommandBOLTV2, Refused
    <3>3. TypeBOLTResponse \notin Requests
      BY DEF TypeBOLTResponse, Requests, TypeBOLTRequest, TypeBOLTRequestOneWay
    <3>4. c.typ \in Requests => WriteCommand(c) = Written(writeRequestCommandBOLTV2(c))
      BY <3>1, <3>3 DEF writeCommandBOLTV2
    <3>5. c.typ = TypeBOLTResponse => WriteCommand(c) = Written(writeResponseCommandBOLTV2(c))
      BY <3>1, <3>3 DEF writeCommandBOLTV2
    <3> QED
      BY <3>2, <3>4, <3>5, LayoutsAre DEF Written, writeRequestCommandBOLTV2,
         writeResponseCommandBOLTV2
  <2> QED
    BY <2>1, <2>2, V2Framed, LaidOut DEF BOLTFramed, Framed
<1>3. CASE c.proto = ProtoTBRemoting
  <2>1. IsTB(c) /\ c.proto \notin {0, ProtoBOLTV1, ProtoBOLTV2}
    BY <1>3 DEF IsTB, ProtoBOLTV1, ProtoBOLTV2, ProtoTBRemoting
  <2>2. b = writeCommandTBRemoting(c)
    BY <2>1, <1>3 DEF WriteCommand, Written
  <2>3. TBFramed(b, c)
    BY <2>2, TBFrame
  <2> QED
    BY <2>1, <2>3 DEF TBFramed
<1>4. c.proto \in {0, ProtoBOLTV1} \/ c.proto = ProtoBOLTV2 \/ c.proto = ProtoTBRemoting
  BY DEF WriteCommand, Refused
<1> QED
  BY <1>1, <1>2, <1>3, <1>4

-----------------------------------------------------------------------------
(* Type correctness.                                                        *)

(* The state, typed with what the proofs need.                              *)
TypeInv ==
  /\ wire \in Strings /\ cut \in BOOLEAN /\ sent \in Seq(Commands) /\ nread \in Nat
  /\ Typed(cmd) /\ Typed(copy)
  /\ rerr \in {"none", "short", "proto", "type", "header"}
  /\ held \in [frame : 0 .. nread, deep : BOOLEAN]

LEMMA TypedMeans ==
  ASSUME NEW c, Typed(c)
  PROVE  /\ {c.proto, c.ver1, c.typ, c.ver2, c.codec, c.switc, c.reserved} \subseteq Byte
         /\ {c.cmdcode, c.status} \subseteq 0 .. Uint16Max
         /\ {c.rid, c.timeout, c.crc32} \subseteq 0 .. Uint32Max
<1>1. \A k \in Numbers : c[k] \in 0 .. Bound(k)
  BY DEF Typed
<1>2. \A k \in Bytes : c[k] \in Byte
  BY <1>1, BoundFacts DEF Numbers, Byte
<1>3. \A k \in Halves : c[k] \in 0 .. Uint16Max
  BY <1>1, BoundFacts DEF Numbers
<1>4. \A k \in Words : c[k] \in 0 .. Uint32Max
  BY <1>1, BoundFacts DEF Numbers
<1> QED
  BY <1>2, <1>3, <1>4 DEF Bytes, Halves, Words

(* Resetting and copying keep the types.                                    *)
LEMMA ResetTyped == ASSUME NEW c, Typed(c) PROVE Typed(ResetRequest(c))
<1>1. /\ c["proto"] \in 0 .. Bound("proto") /\ c["typ"] \in 0 .. Bound("typ")
      /\ c["cmdcode"] \in 0 .. Bound("cmdcode")
  BY DEF Typed, Numbers, Bytes, Halves
<1> DEFINE a == [Zero EXCEPT !.proto = c.proto]
           b == [a EXCEPT !.typ = c.typ]
           d == [b EXCEPT !.cmdcode = c.cmdcode]
<1>2. ResetRequest(c) = d
  BY DEF ResetRequest, ResetCommand
<1>3. Typed(a)
  BY <1>1, FailedReturned, UpdateTyped
<1> HIDE DEF a
<1>4. Typed(b)
  BY <1>1, <1>3, UpdateTyped
<1> HIDE DEF b
<1>5. Typed(d)
  BY <1>1, <1>4, UpdateTyped
<1> QED
  BY <1>2, <1>5

LEMMA CopyTyped ==
  ASSUME NEW c, NEW d, Typed(c), d.reserved \in Byte
  PROVE  Typed(CopyTo(c, d)) /\ Typed(ShallowCopyTo(c, d))
<1> DEFINE a == [c EXCEPT !.connection = d.connection]
           b == [a EXCEPT !.reserved = d.reserved]
           e == [b EXCEPT !.headers = d.headers]
<1>1. CopyTo(c, d) = b /\ ShallowCopyTo(c, d) = e
  BY DEF CopyTo, ShallowCopyTo
<1>2. "connection" \notin Numbers /\ "headers" \notin Numbers
  BY DEF Numbers, Bytes, Halves, Words
<1>3. d.reserved \in 0 .. Bound("reserved")
  BY BoundFacts DEF Bytes, Byte
<1>4. Typed(a)
  BY <1>2, UpdateTyped
<1> HIDE DEF a
<1>5. Typed(b)
  BY <1>3, <1>4, UpdateTyped
<1> HIDE DEF b
<1>6. Typed(e)
  BY <1>2, <1>5, UpdateTyped
<1> QED
  BY <1>1, <1>5, <1>6

LEMMA TypeInit == Init => TypeInv
<1>1. <<>> \in Strings /\ <<>> \in Seq(Commands)
  BY DEF Strings
<1>2. Typed(Zero)
  BY FailedReturned
<1>3. Nothing \in [frame : 0 .. 0, deep : BOOLEAN]
  BY DEF Nothing
<1> SUFFICES ASSUME Init PROVE TypeInv
  OBVIOUS
<1>4. wire \in Strings /\ sent \in Seq(Commands)
  BY <1>1 DEF Init
<1>5. Typed(cmd) /\ Typed(copy)
  BY <1>2 DEF Init
<1>6. cut \in BOOLEAN /\ nread \in Nat /\ rerr \in {"none", "short", "proto", "type", "header"}
  BY DEF Init
<1>7. held \in [frame : 0 .. nread, deep : BOOLEAN]
  BY <1>3 DEF Init
<1> QED
  BY <1>4, <1>5, <1>6, <1>7 DEF TypeInv

LEMMA TypeStep == TypeInv /\ [Next]_vars => TypeInv'
<1> SUFFICES ASSUME TypeInv, [Next]_vars PROVE TypeInv'
  OBVIOUS
<1>1. ASSUME NEW c \in Commands, Write(c) PROVE TypeInv'
  <2>1. /\ wire' = wire \o WriteCommand(c).bytes /\ sent' = Append(sent, c)
        /\ WriteCommand(c).err = "none"
        /\ UNCHANGED <<cut, cmd, nread, rerr, copy, held>>
    BY <1>1 DEF Write
  <2>2. WriteCommand(c).bytes \in Strings
    BY <2>1, CommandsAssumption, Frames
  <2>3. wire' \in Strings
    BY <2>1, <2>2, StringConcat DEF TypeInv
  <2> QED
    BY <2>1, <2>3 DEF TypeInv
<1>2. ASSUME NEW n \in 0 .. Len(wire), Cut(n) PROVE TypeInv'
  <2>1. wire' \in Strings
    BY <1>2 DEF Cut, TypeInv, Strings
  <2> QED
    BY <1>2, <2>1 DEF Cut, TypeInv
<1>3. CASE Read
  <2> DEFINE r == ReadCommand(wire, ResetRequest(cmd))
  <2>1. Returned(r)
    BY ResetTyped, ReadTyped DEF TypeInv
  <2>2. /\ UNCHANGED <<cut, sent, copy, held>>
        /\ \/ cmd' = r.cmd /\ nread' = nread + 1 /\ wire' = SubSeq(wire, r.used + 1, Len(wire))
              /\ UNCHANGED rerr
           \/ rerr' = r.err /\ UNCHANGED <<cmd, nread, wire>>
    BY <1>3 DEF Read
  <2> HIDE DEF r
  <2>3. SubSeq(wire, r.used + 1, Len(wire)) \in Strings
    BY <2>1 DEF Returned, TypeInv, Strings
  <2>4. nread \in Nat /\ nread + 1 \in Nat /\ 0 .. nread \subseteq 0 .. nread + 1
    BY DEF TypeInv
  <2>5. nread' \in Nat /\ held' \in [frame : 0 .. nread', deep : BOOLEAN]
    <3>1. held \in [frame : 0 .. nread, deep : BOOLEAN] /\ held' = held
      BY <2>2 DEF TypeInv
    <3>2. CASE nread' = nread + 1
      BY <2>4, <3>1, <3>2
    <3>3. CASE nread' = nread
      BY <2>4, <3>1, <3>3
    <3> QED
      BY <2>2, <3>2, <3>3
  <2> QED
    BY <2>1, <2>2, <2>3, <2>5 DEF Returned, TypeInv
<1>4. CASE HandOver \/ Dispatch
  <2>1. /\ UNCHANGED <<wire, cut, sent, cmd, nread, rerr>>
        /\ held' \in [frame : 0 .. nread, deep : BOOLEAN]
    <3>1. nread \in 0 .. nread
      BY DEF TypeInv
    <3>2. held' = [frame |-> nread, deep |-> TRUE] \/ held' = [frame |-> nread, deep |-> FALSE]
      BY <1>4 DEF HandOver, Dispatch
    <3>3. held' \in [frame : 0 .. nread, deep : BOOLEAN]
      <4>1. \A d \in BOOLEAN :
              [frame |-> nread, deep |-> d] \in [frame : 0 .. nread, deep : BOOLEAN]
        BY <3>1
      <4> QED
        BY <3>2, <4>1
    <3>4. UNCHANGED <<wire, cut, sent, cmd, nread, rerr>>
      BY <1>4 DEF HandOver, Dispatch
    <3> QED
      BY <3>3, <3>4
  <2>2. copy' = CopyTo(cmd, AcquireRequest(copy)) \/ copy' = ShallowCopyTo(cmd, Zero)
    BY <1>4 DEF HandOver, Dispatch
  <2>3. Zero.reserved \in Byte
    BY ByteFacts DEF Zero
  <2>4. AcquireRequest(copy).reserved \in Byte
    <3>1. copy.reserved \in Byte /\ DOMAIN copy = FieldNames /\ "reserved" \in FieldNames
      BY TypedMeans, ZeroIsCommand DEF TypeInv, Typed, IsCommand
    <3>2. AcquireRequest(copy).reserved = copy.reserved
      BY DEF AcquireRequest
    <3> QED
      BY <3>1, <3>2
  <2>5. Typed(copy')
    BY <2>2, <2>3, <2>4, CopyTyped DEF TypeInv
  <2> QED
    BY <2>1, <2>5 DEF TypeInv
<1>5. CASE Release
  <2>1. Typed(copy')
    BY <1>5, ResetTyped DEF Release, TypeInv
  <2> QED
    BY <1>5, <2>1 DEF Release, TypeInv, Nothing
<1>6. CASE UNCHANGED vars
  BY <1>6 DEF vars, TypeInv
<1> QED
  BY <1>1, <1>2, <1>3, <1>4, <1>5, <1>6 DEF Next

LEMMA TypeInvHolds == Spec => []TypeInv
BY TypeInit, TypeStep, PTL DEF Spec

(* Whatever is written, and whatever bytes a reader finds on the wire: what *)
(* is written are bytes, every number that is read fits its field in Go's   *)
(* struct, and a copy keeps that (command.go:182-202, 263-301, 667-1094).   *)
THEOREM TypeOKHolds == Spec => []TypeOK
<1>1. TypeInv => TypeOK
  BY TypedMeans DEF TypeInv, TypeOK, Strings
<1> QED
  BY <1>1, TypeInvHolds, PTL

-----------------------------------------------------------------------------
(* Reading what was written.  A reader may have only the first bytes of a   *)
(* frame, or more bytes than the frame has.                                 *)

Agree(s, b) == \A i \in 1 .. Len(b) : i <= Len(s) => s[i] = b[i]

(* The reader's table, which counts from position p, has the fields in      *)
(* DOMAIN at where the layout has them; at says which fields of it.         *)
Placed(at, table, L, n, o, p) ==
  \A k \in DOMAIN at :
     /\ k \in DOMAIN table /\ at[k] \in 1 .. n /\ L[at[k]][1] = k
     /\ L[at[k]][2] = table[k][2] - table[k][1] /\ o[at[k] - 1] = p + table[k][1]

(* Every field of the layout has room for the value it gets.                *)
Room(c, L, n) == \A i \in 1 .. n : Value(c, L[i][1]) \in 0 .. Limit(L[i][2])

RequestV1Slots ==
  [cmdcode |-> 3, rid |-> 5, codec |-> 6, timeout |-> 7, classLen |-> 8, headerLen |-> 9,
   contentLen |-> 10]
ResponseV1Slots ==
  [cmdcode |-> 3, rid |-> 5, codec |-> 6, status |-> 7, classLen |-> 8, headerLen |-> 9,
   contentLen |-> 10]
RequestV2Slots ==
  [cmdcode |-> 4, ver2 |-> 5, rid |-> 6, codec |-> 7, switc |-> 8, timeout |-> 9,
   classLen |-> 10, headerLen |-> 11, contentLen |-> 12]
ResponseV2Slots ==
  [cmdcode |-> 4, ver2 |-> 5, rid |-> 6, codec |-> 7, switc |-> 8, status |-> 9,
   classLen |-> 10, headerLen |-> 11, contentLen |-> 12]
TBSlots ==
  [cmdcode |-> 2, codec |-> 3, typ |-> 4, connLen |-> 6, classLen |-> 7, contentLen |-> 8]

LEMMA AllPlaced ==
  /\ Placed(RequestV1Slots, RequestV1Table, RequestV1, 10, RequestV1At, 2)
  /\ Placed(ResponseV1Slots, ResponseV1Table, ResponseV1, 10, ResponseV1At, 2)
  /\ Placed(RequestV2Slots, RequestV2Table, RequestV2, 12, RequestV2At, 3)
  /\ Placed(ResponseV2Slots, ResponseV2Table, ResponseV2, 12, ResponseV2At, 3)
  /\ Placed(TBSlots, TBTable, TBRemoting, 8, TBAt, 1)
<1>1. Placed(RequestV1Slots, RequestV1Table, RequestV1, 10, RequestV1At, 2)
  BY DEF Placed, RequestV1Slots, RequestV1Table, RequestV1, RequestV1At
<1>2. Placed(ResponseV1Slots, ResponseV1Table, ResponseV1, 10, ResponseV1At, 2)
  BY DEF Placed, ResponseV1Slots, ResponseV1Table, ResponseV1, ResponseV1At
<1>3. Placed(RequestV2Slots, RequestV2Table, RequestV2, 12, RequestV2At, 3)
  BY DEF Placed, RequestV2Slots, RequestV2Table, RequestV2, RequestV2At
<1>4. Placed(ResponseV2Slots, ResponseV2Table, ResponseV2, 12, ResponseV2At, 3)
  BY DEF Placed, ResponseV2Slots, ResponseV2Table, ResponseV2, ResponseV2At
<1>5. Placed(TBSlots, TBTable, TBRemoting, 8, TBAt, 1)
  BY DEF Placed, TBSlots, TBTable, TBRemoting, TBAt
<1> QED
  BY <1>1, <1>2, <1>3, <1>4, <1>5

LEMMA RoomFacts ==
  ASSUME NEW c, IsTyped(c), Fits(c)
  PROVE  /\ ~IsTB(c) => /\ Room(c, RequestV1, 10) /\ Room(c, ResponseV1, 10)
                        /\ Room(c, RequestV2, 12) /\ Room(c, ResponseV2, 12)
         /\ IsTB(c) => Room(c, TBRemoting, 8)
<1>1. /\ \A k \in {"proto", "ver1", "typ", "ver2", "codec", "switc"} : Value(c, k) \in 0 .. Limit(1)
      /\ \A k \in {"cmdcode", "status"} : Value(c, k) \in 0 .. Limit(2)
      /\ \A k \in {"rid", "timeout"} : Value(c, k) \in 0 .. Limit(4)
  <2>1. \A k \in Names \cap Numbers : Value(c, k) \in 0 .. Bound(k)
    BY CommandFacts
  <2>2. /\ {"proto", "ver1", "typ", "ver2", "codec", "switc"} \subseteq Names \cap Bytes
        /\ {"cmdcode", "status"} \subseteq Names \cap Halves
        /\ {"rid", "timeout"} \subseteq Names \cap Words
    BY DEF Names, Bytes, Halves, Words
  <2>3. Bytes \subseteq Numbers /\ Halves \subseteq Numbers /\ Words \subseteq Numbers
    BY DEF Numbers
  <2> QED
    BY <2>1, <2>2, <2>3, BoundFacts, Limits
<1>2. /\ Value(c, "zero") \in 0 .. Limit(1) /\ Value(c, "connLen") \in 0 .. Limit(4)
      /\ Value(c, "contentLen") \in 0 .. Limit(4) /\ Value(c, "headerLen") \in 0 .. Limit(2)
  <2>1. /\ Value(c, "zero") = 0 /\ Value(c, "connLen") = Len(c.connection)
        /\ Value(c, "contentLen") = Len(c.content)
        /\ Value(c, "headerLen") = GetEncodeSize(c.headers)
    BY CommandFacts
  <2>2. /\ Len(c.connection) \in Nat /\ Len(c.content) \in Nat /\ GetEncodeSize(c.headers) \in Nat
    BY Lengths3
  <2>3. /\ GetEncodeSize(c.headers) <= Uint16Max
        /\ Len(c.connection) <= Uint32Max /\ Len(c.content) <= Uint32Max
    BY DEF Fits
  <2> HIDE DEF Value
  <2> QED
    BY <2>1, <2>2, <2>3, Limits
<1>3. ~IsTB(c) => Value(c, "classLen") \in 0 .. Limit(2)
  BY CommandFacts, Lengths3, Limits DEF Fits
<1>4. IsTB(c) => Value(c, "classLen") \in 0 .. Limit(1) /\ Value(c, "cmdcode") \in 0 .. Limit(1)
  <2> SUFFICES ASSUME IsTB(c)
               PROVE  /\ Value(c, "classLen") \in 0 .. Limit(1)
                      /\ Value(c, "cmdcode") \in 0 .. Limit(1)
    OBVIOUS
  <2>1. Value(c, "classLen") \in 0 .. Limit(1)
    BY CommandFacts, Lengths3, Limits DEF Fits
  <2>2. Value(c, "cmdcode") = c.cmdcode /\ c.cmdcode < Base
    BY CommandFacts, ZeroIsCommand DEF Fits, Value
  <2> QED
    BY <1>1, <2>1, <2>2, Limits, BaseAssumption
<1>5. ASSUME ~IsTB(c) PROVE Room(c, RequestV1, 10)
  BY <1>1, <1>2, <1>3, <1>5 DEF Room, RequestV1
<1>6. ASSUME ~IsTB(c) PROVE Room(c, ResponseV1, 10)
  BY <1>1, <1>2, <1>3, <1>6 DEF Room, ResponseV1
<1>7. ASSUME ~IsTB(c) PROVE Room(c, RequestV2, 12)
  BY <1>1, <1>2, <1>3, <1>7 DEF Room, RequestV2
<1>8. ASSUME ~IsTB(c) PROVE Room(c, ResponseV2, 12)
  BY <1>1, <1>2, <1>3, <1>8 DEF Room, ResponseV2
<1>9. ASSUME IsTB(c) PROVE Room(c, TBRemoting, 8)
  BY <1>1, <1>2, <1>4, <1>9 DEF Room, TBRemoting
<1> QED
  BY <1>5, <1>6, <1>7, <1>8, <1>9

(* The part of a frame that has a field is read as its value.               *)
LEMMA NumberRead ==
  ASSUME NEW s \in Strings, NEW b \in Strings, Agree(s, b), NEW q \in Nat, NEW w \in Widths,
         q + w <= Len(s), q + w <= Len(b), NEW x \in 0 .. Limit(w), Put(b, q, x, w)
  PROVE  Uint(SubSeq(s, q + 1, q + w)) = x
<1>1. PICK l \in Nat, k \in Nat : l = Len(s) /\ k = Len(b)
  BY DEF Strings
<1>2. w \in Nat
  BY DEF Widths
<1>3. \A j \in 1 .. w : s[q + j] = PutUint(x, w)[j]
  <2> TAKE j \in 1 .. w
  <2>1. q + j \in 1 .. k /\ q + j <= l
    BY <1>1, <1>2
  <2> QED
    BY <1>1, <2>1 DEF Agree, Put
<1> QED
  BY <1>3, UintAt DEF Strings

LEMMA FieldsRead ==
  ASSUME NEW s \in Strings, NEW b \in Strings, Agree(s, b), NEW c, IsTyped(c),
         NEW L, NEW n, NEW o, Laid(L, n, o), HeadAt(b, c, L, n, o), Room(c, L, n),
         NEW p \in Nat, NEW m \in Nat, p + m <= Len(s), p + m <= Len(b),
         NEW table, TableOf(table, m), NEW at, Placed(at, table, L, n, o, p)
  PROVE  \A k \in DOMAIN at : Fields(s, p, table)[k] = Value(c, k)
<1> SUFFICES ASSUME NEW k \in DOMAIN at PROVE Fields(s, p, table)[k] = Value(c, k)
  OBVIOUS
<1>1. PICK i : i = at[k]
  OBVIOUS
<1>2. /\ k \in DOMAIN table /\ i \in 1 .. n /\ L[i][1] = k
      /\ L[i][2] = table[k][2] - table[k][1] /\ o[i - 1] = p + table[k][1]
  BY <1>1 DEF Placed
<1>3. PICK a \in Nat, z \in Nat : a = table[k][1] /\ z = table[k][2] /\ z <= m /\ z - a \in Widths
  BY <1>2 DEF TableOf
<1>4. PICK w \in Widths : w = z - a
  BY <1>3
<1>5. PICK q \in Nat : q = p + a
  OBVIOUS
<1>6. q + w = p + z /\ q + w <= Len(s) /\ q + w <= Len(b)
  <2>1. PICK l \in Nat, r \in Nat : l = Len(s) /\ r = Len(b)
    BY DEF Strings
  <2>2. p + m <= l /\ p + m <= r
    BY <2>1
  <2>3. w \in Nat /\ a + w = z
    BY <1>3, <1>4, SMTT(30) DEF Widths
  <2>4. q + w = p + z
    BY <1>5, <2>3
  <2>5. q + w <= l /\ q + w <= r
    BY <1>3, <2>2, <2>4, SMTT(30)
  <2> QED
    BY <2>1, <2>4, <2>5
<1>7. Put(b, q, Value(c, k), w)
  BY <1>2, <1>3, <1>4, <1>5 DEF HeadAt
<1>8. Value(c, k) \in 0 .. Limit(w)
  BY <1>2, <1>3, <1>4 DEF Room
<1>9. Uint(SubSeq(s, q + 1, q + w)) = Value(c, k)
  BY <1>6, <1>7, <1>8, NumberRead
<1>10. Fields(s, p, table)[k] = Uint(SubSeq(s, p + a + 1, p + z))
  BY <1>2, <1>3, Zenon DEF Fields
<1> QED
  BY <1>5, <1>6, <1>9, <1>10

(* The bytes s begin with those of command c's frame b, as far as they go,  *)
(* and a reader has come to position p of them.                             *)
Reading(s, b, c, L, n, o, p, m, table, at) ==
  /\ s \in Strings /\ IsTyped(c) /\ Fits(c) /\ ~IsTB(c) /\ Agree(s, b)
  /\ BOLTFramed(b, c, L, n, o) /\ Laid(L, n, o) /\ Room(c, L, n)
  /\ p \in Nat /\ m \in Nat /\ o[n] = p + m
  /\ TableOf(table, m) /\ Placed(at, table, L, n, o, p)
  /\ {"classLen", "headerLen", "contentLen"} \subseteq DOMAIN at
  /\ "switc" \in DOMAIN table <=> IsV2(c)
  /\ IsV2(c) => "switc" \in DOMAIN at

(* A part of the frame that the bytes reach is read as it is.               *)
LEMMA PartRead ==
  ASSUME NEW s \in Strings, NEW b \in Strings, Agree(s, b), NEW w \in Strings, NEW q \in Nat,
         q + Len(w) <= Len(b), q + Len(w) <= Len(s), \A j \in 1 .. Len(w) : b[q + j] = w[j]
  PROVE  Ref(s, q, Len(w)) = w
<1>1. PICK l \in Nat, k \in Nat, z \in Nat : l = Len(s) /\ k = Len(b) /\ z = Len(w)
  <2>1. Len(s) \in Nat /\ Len(b) \in Nat /\ Len(w) \in Nat
    BY DEF Strings
  <2> QED
    BY <2>1, Zenon
<1>2. q + z <= k /\ q + z <= l
  BY <1>1
<1>3. \A j \in 1 .. Len(w) : s[q + j] = w[j]
  <2> SUFFICES ASSUME NEW j \in 1 .. z PROVE s[q + j] = w[j]
    BY <1>1
  <2>1. q + j \in 1 .. k /\ q + j <= l
    BY <1>2
  <2>2. s[q + j] = b[q + j]
    BY <1>1, <2>1 DEF Agree
  <2> QED
    BY <1>1, <2>2
<1> QED
  BY <1>3, RefIs

(* What a BOLT frame gives that is read into command d, and when it is too  *)
(* short.                                                                   *)
Gives(s, b, c, p, d, m, table, at) ==
  LET f == Fields(s, p, table)
      r == ReadBOLT(s, p, d, m, table)
  IN  /\ Len(s) < Len(b) => r.err = "short"
      /\ ~(Len(s) < Len(b)) =>
           /\ \A k \in DOMAIN at : f[k] = Value(c, k)
           /\ r = [err |-> "none", used |-> Len(b),
                   cmd |-> With(With(d, f),
                     [class |-> c.class, header |-> Encode(c.headers),
                      headers |-> c.headers, content |-> c.content,
                      crc32 |-> IF IsV2(c) /\ c.switc > 0
                                THEN Checksum(SubSeq(b, 1, Len(b) - 4)) ELSE 0])]

LEMMA ReadingIs ==
  ASSUME NEW s, NEW b, NEW c, NEW L, NEW n, NEW o, NEW p, NEW m, NEW table, NEW at,
         Reading(s, b, c, L, n, o, p, m, table, at),
         NEW d, d.headers = NoHeaders, d.crc32 = 0
  PROVE  Gives(s, b, c, p, d, m, table, at)
<1> DEFINE f       == Fields(s, p, table)
           r       == ReadBOLT(s, p, d, m, table)
           class   == p + m
           header  == class + f.classLen
           content == header + f.headerLen
           crc     == content + f.contentLen
           end     == IF "switc" \in DOMAIN f /\ f.switc > 0 THEN crc + 4 ELSE crc
           decoded == Decode(d.headers, Ref(s, header, f.headerLen))
           g       == [class   |-> Ref(s, class, f.classLen),
                       header  |-> Ref(s, header, f.headerLen),
                       headers |-> decoded.map,
                       content |-> Ref(s, content, f.contentLen),
                       crc32   |-> IF end = crc THEN d.crc32 ELSE Uint(Ref(s, crc, 4))]
           read    == [err |-> "none", used |-> end, cmd |-> With(With(d, f), g)]
           sum     == IF IsV2(c) /\ c.switc > 0 THEN Checksum(SubSeq(b, 1, Len(b) - 4)) ELSE 0
           wanted  == [class |-> c.class, header |-> Encode(c.headers),
                       headers |-> c.headers, content |-> c.content, crc32 |-> sum]
<1>0. SUFFICES
        /\ Len(s) < Len(b) => r.err = "short"
        /\ ~(Len(s) < Len(b)) =>
             (\A k \in DOMAIN at : f[k] = Value(c, k))
             /\ r = [err |-> "none", used |-> Len(b), cmd |-> With(With(d, f), wanted)]
  BY Zenon DEF Gives
<1>1. r = IF Len(s) < p + m \/ Len(s) < content THEN Failed("short")
          ELSE IF ~decoded.ok THEN Failed("header")
          ELSE IF Len(s) < end THEN Failed("short") ELSE read
  BY Zenon DEF ReadBOLT
<1>2. /\ s \in Strings /\ IsTyped(c) /\ Fits(c) /\ ~IsTB(c) /\ Agree(s, b)
      /\ p \in Nat /\ m \in Nat /\ o[n] = p + m /\ b \in Strings
      /\ BodyAt(b, p + m, c)
      /\ Len(b) = p + m + Size(c) + (IF IsV2(c) /\ c.switc > 0 THEN 4 ELSE 0)
      /\ IsV2(c) /\ c.switc > 0 => EndsInChecksum(b)
  BY DEF Reading, BOLTFramed, Framed
<1>3. PICK a \in Nat, h \in Nat, t \in Nat, e \in Strings :
        /\ a = Len(c.class) /\ e = Encode(c.headers) /\ h = Len(e) /\ t = Len(c.content)
        /\ GetEncodeSize(c.headers) = h
  BY <1>2, Lengths3
<1>4. PICK z \in Nat, y \in Nat : z = Len(s) /\ y = Len(b)
  BY <1>2 DEF Strings
<1>5. PICK q \in Nat, u \in Nat, v \in Nat, x \in Nat :
        q = p + m /\ u = q + a /\ v = u + h /\ x = v + t
  BY <1>2
<1>6. y = x + (IF IsV2(c) /\ c.switc > 0 THEN 4 ELSE 0) /\ x <= y
  <2>1. Size(c) = a + h + t
    BY <1>3 DEF Size
  <2>2. y = q + (a + h + t) + (IF IsV2(c) /\ c.switc > 0 THEN 4 ELSE 0)
    BY <1>2, <1>4, <1>5, <2>1
  <2> QED
    BY <1>5, <2>2
<1>7. CASE z < q
  <2>1. r = Failed("short")
    BY <1>1, <1>4, <1>5, <1>7
  <2>2. z < y
    BY <1>5, <1>6, <1>7
  <2> QED
    BY <1>4, <2>1, <2>2 DEF Failed
<1>8. CASE ~(z < q)
  <2>1. q <= z /\ q <= y
    BY <1>5, <1>6, <1>8
  <2>2. \A k \in DOMAIN at : f[k] = Value(c, k)
    <3>1. p + m <= Len(s) /\ p + m <= Len(b)
      BY <1>4, <1>5, <2>1
    <3>2. HeadAt(b, c, L, n, o) /\ Laid(L, n, o) /\ Room(c, L, n) /\ TableOf(table, m)
          /\ Placed(at, table, L, n, o, p)
      BY DEF Reading, BOLTFramed, Framed
    <3> QED
      BY <1>2, <3>1, <3>2, FieldsRead
  <2>3. /\ DOMAIN f = DOMAIN table /\ ("switc" \in DOMAIN table <=> IsV2(c))
        /\ {"classLen", "headerLen", "contentLen"} \subseteq DOMAIN at
        /\ IsV2(c) => "switc" \in DOMAIN at
    BY DEF Fields, Reading
  <2>4. f.classLen = a /\ f.headerLen = h /\ f.contentLen = t /\ (IsV2(c) => f.switc = c.switc)
    <3>1. /\ Value(c, "classLen") = a /\ Value(c, "headerLen") = h /\ Value(c, "contentLen") = t
          /\ Value(c, "switc") = c.switc
      <4>1. Value(c, "switc") = c.switc
        BY <1>2, CommandFacts, ZeroIsCommand DEF Value
      <4> QED
        BY <1>2, <1>3, <4>1, CommandFacts
    <3> QED
      BY <2>2, <2>3, <3>1
  <2>5. class = q /\ header = u /\ content = v /\ crc = x
    BY <1>5, <2>4
  <2>6. ("switc" \in DOMAIN f /\ f.switc > 0) <=> (IsV2(c) /\ c.switc > 0)
    BY <2>3, <2>4
  <2>7. end = y /\ (end = crc <=> ~(IsV2(c) /\ c.switc > 0))
    <3>1. end = IF IsV2(c) /\ c.switc > 0 THEN x + 4 ELSE x
      BY <2>5, <2>6
    <3> HIDE DEF end
    <3> QED
      BY <1>6, <2>5, <3>1
  <2>8. /\ v + t <= y /\ u + h <= y /\ q + a <= y
        /\ \A j \in 1 .. a : b[q + j] = c.class[j]
        /\ \A j \in 1 .. h : b[u + j] = e[j]
        /\ \A j \in 1 .. t : b[v + j] = c.content[j]
    <3>1. /\ \A j \in 1 .. a : b[q + j] = c.class[j]
          /\ \A j \in 1 .. h : b[u + j] = e[j]
          /\ \A j \in 1 .. t : b[v + j] = c.content[j]
      BY <1>2, <1>3, <1>5, Zenon DEF BodyAt
    <3> QED
      BY <1>5, <1>6, <3>1
  <2>9. ASSUME ~(z < v)
        PROVE  Ref(s, u, h) = e /\ decoded.ok /\ decoded.map = c.headers
    <3>1. Ref(s, u, Len(e)) = e
      <4>1. u + Len(e) <= Len(b) /\ u + Len(e) <= Len(s)
        BY <1>3, <1>4, <1>5, <2>8, <2>9
      <4>2. \A j \in 1 .. Len(e) : b[u + j] = e[j]
        BY <1>3, <2>8
      <4> QED
        BY <1>2, <4>1, <4>2, PartRead
    <3>2. decoded = Decode(NoHeaders, Encode(c.headers))
      BY <1>3, <2>4, <2>5, <3>1
    <3>3. GetEncodeSize(c.headers) < Uint32Max /\ c.headers \in HeaderMaps
      <4>1. GetEncodeSize(c.headers) <= Uint16Max
        BY <1>2 DEF Fits
      <4> QED
        BY <1>2, <1>3, <4>1, Limits, CommandFacts
    <3> HIDE DEF decoded
    <3>4. decoded.ok /\ decoded.map = c.headers
      BY <3>2, <3>3, DecodeUndoesEncode
    <3> QED
      BY <1>3, <3>1, <3>4
  <2>10. CASE z < v
    <3>1. r = Failed("short")
      BY <1>1, <1>4, <2>5, <2>10
    <3>2. z < y
      BY <1>5, <1>6, <2>10
    <3> QED
      BY <1>4, <3>1, <3>2 DEF Failed
  <2>11. CASE ~(z < v) /\ z < y
    <3>1. r = Failed("short")
      BY <1>1, <1>4, <1>5, <2>5, <2>7, <2>9, <2>11
    <3> QED
      BY <1>4, <2>11, <3>1 DEF Failed
  <2>12. CASE ~(z < v) /\ ~(z < y)
    <3>1. r = read
      BY <1>1, <1>4, <1>5, <1>8, <2>5, <2>7, <2>9, <2>12
    <3>2. Ref(s, class, f.classLen) = c.class
      <4>1. c.class \in Strings /\ q + Len(c.class) <= Len(b) /\ q + Len(c.class) <= Len(s)
        BY <1>2, <1>3, <1>4, <2>8, <2>12, CommandFacts
      <4>2. Ref(s, q, Len(c.class)) = c.class
        BY <1>2, <1>3, <2>8, <4>1, PartRead
      <4> QED
        BY <1>3, <2>4, <2>5, <4>2
    <3>3. Ref(s, content, f.contentLen) = c.content
      <4>1. c.content \in Strings /\ v + Len(c.content) <= Len(b) /\ v + Len(c.content) <= Len(s)
        BY <1>2, <1>3, <1>4, <2>8, <2>12, CommandFacts
      <4>2. Ref(s, v, Len(c.content)) = c.content
        BY <1>2, <1>3, <2>8, <4>1, PartRead
      <4> QED
        BY <1>3, <2>4, <2>5, <4>2
    <3>4. Ref(s, header, f.headerLen) = Encode(c.headers) /\ decoded.map = c.headers
      BY <1>3, <2>4, <2>5, <2>9, <2>12
    <3>5. (IF end = crc THEN d.crc32 ELSE Uint(Ref(s, crc, 4))) = sum
      <4>1. CASE IsV2(c) /\ c.switc > 0
        <5>1. PICK k \in 0 .. Uint32Max :
                k = Checksum(SubSeq(b, 1, Len(b) - 4)) /\ Put(b, Len(b) - 4, k, 4)
          BY <1>2, <4>1, Zenon DEF EndsInChecksum
        <5>2. y = x + 4 /\ Len(b) - 4 = x
          BY <1>4, <1>6, <4>1
        <5>3. x + 4 <= Len(s) /\ x + 4 <= Len(b) /\ Put(b, x, k, 4)
          BY <1>4, <2>12, <5>1, <5>2
        <5>4. Uint(SubSeq(s, x + 1, x + 4)) = k
          BY <1>2, <5>3, NumberRead, Limits DEF Widths
        <5>5. Uint(Ref(s, crc, 4)) = k
          BY <2>5, <5>4 DEF Ref
        <5> QED
          BY <2>7, <4>1, <5>1, <5>5
      <4>2. CASE ~(IsV2(c) /\ c.switc > 0)
        BY <2>7, <4>2
      <4> QED
        BY <4>1, <4>2
    <3>6. g = wanted
      BY <3>2, <3>3, <3>4, <3>5
    <3>7. r = [err |-> "none", used |-> Len(b), cmd |-> With(With(d, f), wanted)]
      BY <1>4, <2>7, <3>1, <3>6
    <3> QED
      BY <1>4, <2>2, <2>12, <3>7
  <2> QED
    BY <2>10, <2>11, <2>12
<1> QED
  BY <1>7, <1>8

(* A byte of a frame that the bytes reach.                                  *)
LEMMA ByteRead ==
  ASSUME NEW s \in Strings, NEW b \in Strings, Agree(s, b), NEW q \in Nat, q < Len(s), q < Len(b),
         NEW x \in 0 .. Base - 1, Put(b, q, x, 1)
  PROVE  s[q + 1] = x
<1>1. PICK l \in Nat, k \in Nat : l = Len(s) /\ k = Len(b)
  BY DEF Strings
<1>2. q + 1 \in 1 .. k /\ q + 1 <= l
  BY <1>1
<1>3. s[q + 1] = b[q + 1]
  BY <1>1, <1>2 DEF Agree
<1>4. b[q + 1] = PutUint(x, 1)[1]
  BY DEF Put
<1>5. x \in Nat /\ x % Base = x
  BY BaseAssumption
<1>6. PutUint(x, 1) = <<x % Base>>
  BY <1>5, PutFacts
<1> QED
  BY <1>3, <1>4, <1>5, <1>6

(* The command that is read into holds nothing of another.                  *)
Clean(d) ==
  IsCommand(d) /\ \A k \in FieldNames \ {"proto", "typ", "cmdcode"} : d[k] = Zero[k]

LEMMA ResetClean == ASSUME NEW c PROVE Clean(ResetRequest(c))
<1> DEFINE a == [Zero EXCEPT !.proto = c.proto]
           b == [a EXCEPT !.typ = c.typ]
           d == [b EXCEPT !.cmdcode = c.cmdcode]
<1>1. ResetRequest(c) = d
  BY DEF ResetRequest, ResetCommand
<1>2. IsCommand(a) /\ \A k \in FieldNames : a[k] = IF k = "proto" THEN c.proto ELSE Zero[k]
  BY ZeroIsCommand DEF IsCommand
<1> HIDE DEF a
<1>3. IsCommand(b) /\ \A k \in FieldNames : b[k] = IF k = "typ" THEN c.typ ELSE a[k]
  BY <1>2 DEF IsCommand
<1> HIDE DEF b
<1>4. IsCommand(d) /\ \A k \in FieldNames : d[k] = IF k = "cmdcode" THEN c.cmdcode ELSE b[k]
  BY <1>3 DEF IsCommand
<1> HIDE DEF d
<1> QED
  BY <1>1, <1>2, <1>3, <1>4 DEF Clean

(* The fields of a command that fields were read into twice.                *)
LEMMA WithTwice ==
  ASSUME NEW t, IsCommand(t), NEW f, NEW g
  PROVE  \A k \in FieldNames : With(With(t, f), g)[k] =
           IF k \in DOMAIN g THEN g[k] ELSE IF k \in DOMAIN f THEN f[k] ELSE t[k]
<1>1. DOMAIN t = FieldNames
  BY DEF IsCommand
<1>2. PICK u : u = With(t, f)
  OBVIOUS
<1>3. DOMAIN u = FieldNames /\ \A k \in FieldNames : u[k] = IF k \in DOMAIN f THEN f[k] ELSE t[k]
  BY <1>1, <1>2 DEF With
<1>4. \A k \in FieldNames : With(u, g)[k] = IF k \in DOMAIN g THEN g[k] ELSE u[k]
  BY <1>3 DEF With
<1> QED
  BY <1>2, <1>3, <1>4

(* Command x is what reading the frame of command c of a BOLT version makes *)
(* of t, with fields f.                                                     *)
BOLTRead(c, t, f, x, b) ==
  LET g == [class |-> c.class, header |-> Encode(c.headers), headers |-> c.headers,
            content |-> c.content,
            crc32 |-> IF IsV2(c) /\ c.switc > 0
                      THEN Checksum(SubSeq(b, 1, Len(b) - 4)) ELSE 0]
  IN  x = With(With(t, f), g)

LEMMA SameRead ==
  ASSUME NEW c, IsTyped(c), ~IsTB(c), NEW t, IsCommand(t), NEW table, NEW f,
         DOMAIN f = DOMAIN table, NEW at, \A k \in DOMAIN at : f[k] = Value(c, k),
         DOMAIN at \subseteq DOMAIN table,
         NEW x, BOLTRead(c, t, f, x, WriteCommand(c).bytes),
         {"class", "header", "headers", "content", "crc32"} \cap DOMAIN table = {},
         \A k \in Carried(c) \ {"class", "content"} :
            k \in DOMAIN at \/ (k \notin DOMAIN table /\ t[k] = c[k]),
         \A k \in {"ver1", "switc", "timeout", "status", "connection"} \ Carried(c) :
            k \notin DOMAIN table /\ t[k] = Zero[k]
  PROVE  Same(c, x)
<1> DEFINE b == WriteCommand(c).bytes
           sum == IF IsV2(c) /\ c.switc > 0 THEN Checksum(SubSeq(b, 1, Len(b) - 4)) ELSE 0
           g == [class |-> c.class, header |-> Encode(c.headers), headers |-> c.headers,
                 content |-> c.content, crc32 |-> sum]
<1>1. x = With(With(t, f), g)
  BY Zenon DEF BOLTRead
<1>2. /\ DOMAIN g = {"class", "header", "headers", "content", "crc32"}
      /\ g.class = c.class /\ g.headers = c.headers /\ g.content = c.content /\ g.crc32 = sum
  OBVIOUS
<1> HIDE DEF g, sum
<1>3. \A k \in FieldNames :
        x[k] = IF k \in DOMAIN g THEN g[k] ELSE IF k \in DOMAIN f THEN f[k] ELSE t[k]
  BY <1>1, WithTwice
<1>4. DOMAIN c = FieldNames
  BY CommandFacts
<1>5. /\ {"class", "headers", "content", "crc32", "ver1", "switc", "timeout", "status",
          "connection"} \subseteq FieldNames
  BY ZeroIsCommand
<1>6. /\ x.class = c.class /\ x.headers = c.headers /\ x.content = c.content /\ x.crc32 = sum
  BY <1>2, <1>3, <1>5
<1>7. Carried(c) \subseteq FieldNames
  <2>1. "connection" \in FieldNames /\ Carried(c) \ {"connection"} \subseteq FieldNames
    BY CarriedFields, ZeroIsCommand
  <2> QED
    BY <2>1
<1>8. \A k \in Carried(c) \ {"class", "content"} : k \notin DOMAIN g
  BY <1>2 DEF Carried
<1>9. ASSUME NEW k \in Carried(c) PROVE x[k] = c[k]
  <2>1. CASE k \in {"class", "content"}
    BY <1>6, <2>1
  <2>2. CASE k \notin {"class", "content"} /\ k \in DOMAIN at
    <3>1. x[k] = f[k] /\ f[k] = Value(c, k) /\ k \in DOMAIN c
      BY <1>3, <1>4, <1>7, <1>8, <2>2
    <3> QED
      BY <3>1 DEF Value
  <2>3. CASE k \notin {"class", "content"} /\ k \notin DOMAIN at
    BY <1>3, <1>7, <1>8, <2>3
  <2> QED
    BY <2>1, <2>2, <2>3
<1>10. \A k \in {"ver1", "switc", "timeout", "status", "connection"} \ Carried(c) : x[k] = Zero[k]
  BY <1>2, <1>3, <1>5
<1>11. SameHeaders(c.headers, x.headers)
  BY <1>6 DEF SameHeaders
<1> QED
  BY <1>6, <1>9, <1>10, <1>11 DEF Same, sum

(* What reading the frame b of command c, or the part of it that is there,  *)
(* gives.                                                                   *)
Result(c, b, s, r) ==
  /\ Len(s) < Len(b) => r.err = "short"
  /\ ~(Len(s) < Len(b)) => r.err = "none" /\ r.used = Len(b) /\ Same(c, r.cmd)

(* A command with the bytes that are read first, before the table's fields. *)
Fresh(c, t, table, at) ==
  /\ IsCommand(t) /\ t.headers = NoHeaders /\ t.crc32 = 0
  /\ DOMAIN at \subseteq DOMAIN table
  /\ {"class", "header", "headers", "content", "crc32"} \cap DOMAIN table = {}
  /\ \A k \in Carried(c) \ {"class", "content"} :
        k \in DOMAIN at \/ (k \notin DOMAIN table /\ t[k] = c[k])
  /\ \A k \in {"ver1", "switc", "timeout", "status", "connection"} \ Carried(c) :
        k \notin DOMAIN table /\ t[k] = Zero[k]

LEMMA BOLTBack ==
  ASSUME NEW s, NEW b, NEW c, NEW L, NEW n, NEW o, NEW p, NEW m, NEW table, NEW at,
         Reading(s, b, c, L, n, o, p, m, table, at), b = WriteCommand(c).bytes,
         NEW t, Fresh(c, t, table, at)
  PROVE  Result(c, b, s, ReadBOLT(s, p, t, m, table))
<1> DEFINE f == Fields(s, p, table)
           r == ReadBOLT(s, p, t, m, table)
<1>1. IsTyped(c) /\ ~IsTB(c)
  BY DEF Reading
<1>2. /\ IsCommand(t) /\ t.headers = NoHeaders /\ t.crc32 = 0
      /\ DOMAIN at \subseteq DOMAIN table
      /\ {"class", "header", "headers", "content", "crc32"} \cap DOMAIN table = {}
      /\ \A k \in Carried(c) \ {"class", "content"} :
            k \in DOMAIN at \/ (k \notin DOMAIN table /\ t[k] = c[k])
      /\ \A k \in {"ver1", "switc", "timeout", "status", "connection"} \ Carried(c) :
            k \notin DOMAIN table /\ t[k] = Zero[k]
  BY DEF Fresh
<1>3. Gives(s, b, c, p, t, m, table, at)
  BY <1>2, ReadingIs
<1>4. ASSUME Len(s) < Len(b) PROVE r.err = "short"
  BY <1>4, <1>3, Zenon DEF Gives
<1>5. ASSUME ~(Len(s) < Len(b)) PROVE r.err = "none" /\ r.used = Len(b) /\ Same(c, r.cmd)
  <2>1. /\ \A k \in DOMAIN at : f[k] = Value(c, k)
        /\ r = [err |-> "none", used |-> Len(b),
                cmd |-> With(With(t, f),
                  [class |-> c.class, header |-> Encode(c.headers),
                   headers |-> c.headers, content |-> c.content,
                   crc32 |-> IF IsV2(c) /\ c.switc > 0
                             THEN Checksum(SubSeq(b, 1, Len(b) - 4)) ELSE 0])]
    BY <1>5, <1>3, Zenon DEF Gives
  <2>2. r.err = "none" /\ r.used = Len(b) /\ BOLTRead(c, t, f, r.cmd, b)
    BY <2>1 DEF BOLTRead
  <2>3. DOMAIN f = DOMAIN table
    BY DEF Fields
  <2> HIDE DEF f, r
  <2>4. Same(c, r.cmd)
    BY <1>1, <1>2, <2>1, <2>2, <2>3, SameRead
  <2> QED
    BY <2>2, <2>4
<1> QED
  BY <1>4, <1>5 DEF Result

LEMMA FailedResult ==
  ASSUME NEW c, NEW b, NEW s, Len(s) < Len(b) PROVE Result(c, b, s, Failed("short"))
BY DEF Result, Failed

(* The bytes that choose the reader.                                        *)
LEMMA FirstBytes ==
  ASSUME NEW c, IsTyped(c), NEW b
  PROVE  /\ (\/ BOLTFramed(b, c, RequestV1, 10, RequestV1At)
             \/ BOLTFramed(b, c, ResponseV1, 10, ResponseV1At)) =>
              Put(b, 0, c.proto, 1) /\ Put(b, 1, c.typ, 1) /\ 20 <= Len(b)
         /\ (\/ BOLTFramed(b, c, RequestV2, 12, RequestV2At)
             \/ BOLTFramed(b, c, ResponseV2, 12, ResponseV2At)) =>
              /\ Put(b, 0, c.proto, 1) /\ Put(b, 1, c.ver1, 1) /\ Put(b, 2, c.typ, 1)
              /\ 22 <= Len(b)
         /\ TBFramed(b, c) => Put(b, 0, c.proto, 1) /\ 14 <= Len(b)
         /\ c.proto \in 0 .. Base - 1 /\ c.typ \in 0 .. Base - 1 /\ c.ver1 \in 0 .. Base - 1
<1>1. Value(c, "proto") = c.proto /\ Value(c, "typ") = c.typ /\ Value(c, "ver1") = c.ver1
  BY CommandFacts, ZeroIsCommand DEF Value
<1>2. c.proto \in 0 .. Base - 1 /\ c.typ \in 0 .. Base - 1 /\ c.ver1 \in 0 .. Base - 1
  BY CommandFacts, BoundFacts DEF Numbers, Bytes
<1>3. ASSUME BOLTFramed(b, c, RequestV1, 10, RequestV1At)
      PROVE  Put(b, 0, c.proto, 1) /\ Put(b, 1, c.typ, 1) /\ 20 <= Len(b)
  <2>1. HeadAt(b, c, RequestV1, 10, RequestV1At) /\ Len(b) \in Nat
    BY <1>3 DEF BOLTFramed, Framed, Strings
  <2>2. /\ RequestV1At[1 - 1] = 0 /\ RequestV1At[2 - 1] = 1 /\ RequestV1At[10] = 22
        /\ RequestV1[1] = <<"proto", 1>> /\ RequestV1[2] = <<"typ", 1>>
    BY DEF RequestV1At, RequestV1
  <2> QED
    BY <1>1, <2>1, <2>2 DEF HeadAt
<1>4. ASSUME BOLTFramed(b, c, ResponseV1, 10, ResponseV1At)
      PROVE  Put(b, 0, c.proto, 1) /\ Put(b, 1, c.typ, 1) /\ 20 <= Len(b)
  <2>1. HeadAt(b, c, ResponseV1, 10, ResponseV1At) /\ Len(b) \in Nat
    BY <1>4 DEF BOLTFramed, Framed, Strings
  <2>2. /\ ResponseV1At[1 - 1] = 0 /\ ResponseV1At[2 - 1] = 1 /\ ResponseV1At[10] = 20
        /\ ResponseV1[1] = <<"proto", 1>> /\ ResponseV1[2] = <<"typ", 1>>
    BY DEF ResponseV1At, ResponseV1
  <2> QED
    BY <1>1, <2>1, <2>2 DEF HeadAt
<1>5. ASSUME BOLTFramed(b, c, RequestV2, 12, RequestV2At)
      PROVE  /\ Put(b, 0, c.proto, 1) /\ Put(b, 1, c.ver1, 1) /\ Put(b, 2, c.typ, 1)
             /\ 22 <= Len(b)
  <2>1. HeadAt(b, c, RequestV2, 12, RequestV2At) /\ Len(b) \in Nat
    BY <1>5 DEF BOLTFramed, Framed, Strings
  <2>2. /\ RequestV2At[1 - 1] = 0 /\ RequestV2At[2 - 1] = 1 /\ RequestV2At[3 - 1] = 2
        /\ RequestV2At[12] = 24 /\ RequestV2[1] = <<"proto", 1>>
        /\ RequestV2[2] = <<"ver1", 1>> /\ RequestV2[3] = <<"typ", 1>>
    BY DEF RequestV2At, RequestV2
  <2> QED
    BY <1>1, <2>1, <2>2 DEF HeadAt
<1>6. ASSUME BOLTFramed(b, c, ResponseV2, 12, ResponseV2At)
      PROVE  /\ Put(b, 0, c.proto, 1) /\ Put(b, 1, c.ver1, 1) /\ Put(b, 2, c.typ, 1)
             /\ 22 <= Len(b)
  <2>1. HeadAt(b, c, ResponseV2, 12, ResponseV2At) /\ Len(b) \in Nat
    BY <1>6 DEF BOLTFramed, Framed, Strings
  <2>2. /\ ResponseV2At[1 - 1] = 0 /\ ResponseV2At[2 - 1] = 1 /\ ResponseV2At[3 - 1] = 2
        /\ ResponseV2At[12] = 22 /\ ResponseV2[1] = <<"proto", 1>>
        /\ ResponseV2[2] = <<"ver1", 1>> /\ ResponseV2[3] = <<"typ", 1>>
    BY DEF ResponseV2At, ResponseV2
  <2> QED
    BY <1>1, <2>1, <2>2 DEF HeadAt
<1>7. ASSUME TBFramed(b, c) PROVE Put(b, 0, c.proto, 1) /\ 14 <= Len(b)
  <2>0. HeadAt(b, c, TBRemoting, 8, TBAt) /\ b \in Strings
    BY <1>7, Zenon DEF TBFramed
  <2>1. HeadAt(b, c, TBRemoting, 8, TBAt) /\ Len(b) \in Nat
    BY <2>0 DEF Strings
  <2>2. TBAt[1 - 1] = 0 /\ TBAt[8] = 14 /\ TBRemoting[1] = <<"proto", 1>>
    BY DEF TBAt, TBRemoting
  <2> QED
    BY <1>1, <2>1, <2>2 DEF HeadAt
<1> QED
  BY <1>2, <1>3, <1>4, <1>5, <1>6, <1>7

(* The parts of Reading that hold of any bytes with the frame's beginning.  *)
LEMMA CanRead ==
  ASSUME NEW s \in Strings, NEW c, IsTyped(c), Fits(c), ~IsTB(c), NEW b, Agree(s, b)
  PROVE  /\ ~IsV2(c) /\ BOLTFramed(b, c, RequestV1, 10, RequestV1At) =>
              Reading(s, b, c, RequestV1, 10, RequestV1At, 2, 20, RequestV1Table, RequestV1Slots)
         /\ ~IsV2(c) /\ BOLTFramed(b, c, ResponseV1, 10, ResponseV1At) =>
              Reading(s, b, c, ResponseV1, 10, ResponseV1At, 2, 18, ResponseV1Table,
                      ResponseV1Slots)
         /\ IsV2(c) /\ BOLTFramed(b, c, RequestV2, 12, RequestV2At) =>
              Reading(s, b, c, RequestV2, 12, RequestV2At, 3, 21, RequestV2Table, RequestV2Slots)
         /\ IsV2(c) /\ BOLTFramed(b, c, ResponseV2, 12, ResponseV2At) =>
              Reading(s, b, c, ResponseV2, 12, ResponseV2At, 3, 19, ResponseV2Table,
                      ResponseV2Slots)
<1>1. RequestV1At[10] = 2 + 20 /\ ResponseV1At[10] = 2 + 18
  BY DEF RequestV1At, ResponseV1At
<1>2. RequestV2At[12] = 3 + 21 /\ ResponseV2At[12] = 3 + 19
  BY DEF RequestV2At, ResponseV2At
<1>3. /\ {"classLen", "headerLen", "contentLen"} \subseteq DOMAIN RequestV1Slots
      /\ {"classLen", "headerLen", "contentLen"} \subseteq DOMAIN ResponseV1Slots
      /\ "switc" \notin DOMAIN RequestV1Table /\ "switc" \notin DOMAIN ResponseV1Table
  BY DEF RequestV1Slots, ResponseV1Slots, RequestV1Table, ResponseV1Table
<1>4. /\ {"classLen", "headerLen", "contentLen", "switc"} \subseteq DOMAIN RequestV2Slots
      /\ {"classLen", "headerLen", "contentLen", "switc"} \subseteq DOMAIN ResponseV2Slots
      /\ "switc" \in DOMAIN RequestV2Table /\ "switc" \in DOMAIN ResponseV2Table
  BY DEF RequestV2Slots, ResponseV2Slots, RequestV2Table, ResponseV2Table
<1>5. /\ Room(c, RequestV1, 10) /\ Room(c, ResponseV1, 10)
      /\ Room(c, RequestV2, 12) /\ Room(c, ResponseV2, 12)
  BY RoomFacts
<1>6. 2 \in Nat /\ 3 \in Nat /\ 18 \in Nat /\ 19 \in Nat /\ 20 \in Nat /\ 21 \in Nat
  OBVIOUS
<1>7. ASSUME ~IsV2(c), BOLTFramed(b, c, RequestV1, 10, RequestV1At)
      PROVE  Reading(s, b, c, RequestV1, 10, RequestV1At, 2, 20, RequestV1Table, RequestV1Slots)
  BY <1>1, <1>3, <1>5, <1>6, <1>7, LaidOut, Tables, AllPlaced DEF Reading
<1>8. ASSUME ~IsV2(c), BOLTFramed(b, c, ResponseV1, 10, ResponseV1At)
      PROVE  Reading(s, b, c, ResponseV1, 10, ResponseV1At, 2, 18, ResponseV1Table,
                     ResponseV1Slots)
  BY <1>1, <1>3, <1>5, <1>6, <1>8, LaidOut, Tables, AllPlaced DEF Reading
<1>9. ASSUME IsV2(c), BOLTFramed(b, c, RequestV2, 12, RequestV2At)
      PROVE  Reading(s, b, c, RequestV2, 12, RequestV2At, 3, 21, RequestV2Table, RequestV2Slots)
  BY <1>2, <1>4, <1>5, <1>6, <1>9, LaidOut, Tables, AllPlaced DEF Reading
<1>10. ASSUME IsV2(c), BOLTFramed(b, c, ResponseV2, 12, ResponseV2At)
       PROVE  Reading(s, b, c, ResponseV2, 12, ResponseV2At, 3, 19, ResponseV2Table,
                      ResponseV2Slots)
  BY <1>2, <1>4, <1>5, <1>6, <1>10, LaidOut, Tables, AllPlaced DEF Reading
<1> QED
  BY <1>7, <1>8, <1>9, <1>10

(* A clean command with the first bytes of command c.                       *)
Begun(c, t) ==
  /\ IsCommand(t) /\ t.proto = c.proto /\ t.typ = c.typ
  /\ t.ver1 = IF IsV2(c) THEN c.ver1 ELSE 0
  /\ \A k \in FieldNames \ {"proto", "typ", "cmdcode", "ver1"} : t[k] = Zero[k]

LEMMA EitherWay ==
  ASSUME NEW K, NEW F, NEW P, K = F \cup P, NEW A, P \subseteq A, NEW T, F \cap T = {},
         NEW t, NEW c, \A k \in F : t[k] = c[k]
  PROVE  \A k \in K : k \in A \/ (k \notin T /\ t[k] = c[k])
OBVIOUS

LEMMA BegunFresh ==
  ASSUME NEW c, ~IsTB(c), NEW t, Begun(c, t)
  PROVE  /\ c.typ \in Requests /\ ~IsV2(c) => Fresh(c, t, RequestV1Table, RequestV1Slots)
         /\ c.typ \notin Requests /\ ~IsV2(c) => Fresh(c, t, ResponseV1Table, ResponseV1Slots)
         /\ c.typ \in Requests /\ IsV2(c) => Fresh(c, t, RequestV2Table, RequestV2Slots)
         /\ c.typ \notin Requests /\ IsV2(c) => Fresh(c, t, ResponseV2Table, ResponseV2Slots)
<1>1. /\ IsCommand(t) /\ t.headers = NoHeaders /\ t.crc32 = 0
      /\ t.proto = c.proto /\ t.typ = c.typ /\ (IsV2(c) => t.ver1 = c.ver1)
      /\ t.switc = 0 /\ t.timeout = 0 /\ t.status = 0 /\ t.connection = <<>>
      /\ ~IsV2(c) => t.ver1 = 0
  BY ZeroIsCommand DEF Begun, Zero
<1>2. /\ Zero.ver1 = 0 /\ Zero.switc = 0 /\ Zero.timeout = 0 /\ Zero.status = 0
      /\ Zero.connection = <<>>
  BY DEF Zero
<1>3. Carried(c) = {"proto", "typ", "cmdcode", "rid", "codec", "class", "content"}
                     \cup (IF IsV2(c) THEN {"ver1", "ver2", "switc"} ELSE {})
                     \cup (IF c.typ \in Requests THEN {"timeout"} ELSE {"status"})
  BY DEF Carried
<1>4. ASSUME c.typ \in Requests, ~IsV2(c) PROVE Fresh(c, t, RequestV1Table, RequestV1Slots)
  <2>1. Carried(c) \ {"class", "content"} =
          {"proto", "typ"} \cup {"cmdcode", "rid", "codec", "timeout"}
    BY <1>3, <1>4
  <2>2. {"ver1", "switc", "timeout", "status", "connection"} \ Carried(c) =
          {"ver1", "switc", "status", "connection"}
    BY <1>3, <1>4
  <2>3. {"cmdcode", "rid", "codec", "timeout"} \subseteq DOMAIN RequestV1Slots
    BY DEF RequestV1Slots
  <2>4. /\ {"proto", "typ"} \cap DOMAIN RequestV1Table = {}
        /\ {"ver1", "switc", "status", "connection"} \cap DOMAIN RequestV1Table = {}
        /\ {"class", "header", "headers", "content", "crc32"} \cap DOMAIN RequestV1Table = {}
    BY DEF RequestV1Table
  <2>5. DOMAIN RequestV1Slots \subseteq DOMAIN RequestV1Table
    BY DEF RequestV1Table, RequestV1Slots
  <2>6. /\ \A k \in {"proto", "typ"} : t[k] = c[k]
        /\ \A k \in {"ver1", "switc", "status", "connection"} : t[k] = Zero[k]
    BY <1>1, <1>2, <1>4
  <2>7. \A k \in Carried(c) \ {"class", "content"} :
           k \in DOMAIN RequestV1Slots \/ (k \notin DOMAIN RequestV1Table /\ t[k] = c[k])
    BY <2>1, <2>3, <2>4, <2>6, EitherWay
  <2>8. \A k \in {"ver1", "switc", "timeout", "status", "connection"} \ Carried(c) :
           k \notin DOMAIN RequestV1Table /\ t[k] = Zero[k]
    BY <2>2, <2>4, <2>6
  <2> QED
    BY <1>1, <2>4, <2>5, <2>7, <2>8 DEF Fresh
<1>5. ASSUME c.typ \notin Requests, ~IsV2(c) PROVE Fresh(c, t, ResponseV1Table, ResponseV1Slots)
  <2>1. Carried(c) \ {"class", "content"} =
          {"proto", "typ"} \cup {"cmdcode", "rid", "codec", "status"}
    BY <1>3, <1>5
  <2>2. {"ver1", "switc", "timeout", "status", "connection"} \ Carried(c) =
          {"ver1", "switc", "timeout", "connection"}
    BY <1>3, <1>5
  <2>3. {"cmdcode", "rid", "codec", "status"} \subseteq DOMAIN ResponseV1Slots
    BY DEF ResponseV1Slots
  <2>4. /\ {"proto", "typ"} \cap DOMAIN ResponseV1Table = {}
        /\ {"ver1", "switc", "timeout", "connection"} \cap DOMAIN ResponseV1Table = {}
        /\ {"class", "header", "headers", "content", "crc32"} \cap DOMAIN ResponseV1Table = {}
    BY DEF ResponseV1Table
  <2>5. DOMAIN ResponseV1Slots \subseteq DOMAIN ResponseV1Table
    BY DEF ResponseV1Table, ResponseV1Slots
  <2>6. /\ \A k \in {"proto", "typ"} : t[k] = c[k]
        /\ \A k \in {"ver1", "switc", "timeout", "connection"} : t[k] = Zero[k]
    BY <1>1, <1>2, <1>5
  <2>7. \A k \in Carried(c) \ {"class", "content"} :
           k \in DOMAIN ResponseV1Slots \/ (k \notin DOMAIN ResponseV1Table /\ t[k] = c[k])
    BY <2>1, <2>3, <2>4, <2>6, EitherWay
  <2>8. \A k \in {"ver1", "switc", "timeout", "status", "connection"} \ Carried(c) :
           k \notin DOMAIN ResponseV1Table /\ t[k] = Zero[k]
    BY <2>2, <2>4, <2>6
  <2> QED
    BY <1>1, <2>4, <2>5, <2>7, <2>8 DEF Fresh
<1>6. ASSUME c.typ \in Requests, IsV2(c) PROVE Fresh(c, t, RequestV2Table, RequestV2Slots)
  <2>1. Carried(c) \ {"class", "content"} =
          {"proto", "typ", "ver1"} \cup {"cmdcode", "rid", "codec", "ver2", "switc", "timeout"}
    BY <1>3, <1>6
  <2>2. {"ver1", "switc", "timeout", "status", "connection"} \ Carried(c) =
          {"status", "connection"}
    BY <1>3, <1>6
  <2>3. {"cmdcode", "rid", "codec", "ver2", "switc", "timeout"} \subseteq DOMAIN RequestV2Slots
    BY DEF RequestV2Slots
  <2>4. /\ {"proto", "typ", "ver1"} \cap DOMAIN RequestV2Table = {}
        /\ {"status", "connection"} \cap DOMAIN RequestV2Table = {}
        /\ {"class", "header", "headers", "content", "crc32"} \cap DOMAIN RequestV2Table = {}
    BY DEF RequestV2Table
  <2>5. DOMAIN RequestV2Slots \subseteq DOMAIN RequestV2Table
    BY DEF RequestV2Table, RequestV2Slots
  <2>6. /\ \A k \in {"proto", "typ", "ver1"} : t[k] = c[k]
        /\ \A k \in {"status", "connection"} : t[k] = Zero[k]
    BY <1>1, <1>2, <1>6
  <2>7. \A k \in Carried(c) \ {"class", "content"} :
           k \in DOMAIN RequestV2Slots \/ (k \notin DOMAIN RequestV2Table /\ t[k] = c[k])
    BY <2>1, <2>3, <2>4, <2>6, EitherWay
  <2>8. \A k \in {"ver1", "switc", "timeout", "status", "connection"} \ Carried(c) :
           k \notin DOMAIN RequestV2Table /\ t[k] = Zero[k]
    BY <2>2, <2>4, <2>6
  <2> QED
    BY <1>1, <2>4, <2>5, <2>7, <2>8 DEF Fresh
<1>7. ASSUME c.typ \notin Requests, IsV2(c) PROVE Fresh(c, t, ResponseV2Table, ResponseV2Slots)
  <2>1. Carried(c) \ {"class", "content"} =
          {"proto", "typ", "ver1"} \cup {"cmdcode", "rid", "codec", "ver2", "switc", "status"}
    BY <1>3, <1>7
  <2>2. {"ver1", "switc", "timeout", "status", "connection"} \ Carried(c) =
          {"timeout", "connection"}
    BY <1>3, <1>7
  <2>3. {"cmdcode", "rid", "codec", "ver2", "switc", "status"} \subseteq DOMAIN ResponseV2Slots
    BY DEF ResponseV2Slots
  <2>4. /\ {"proto", "typ", "ver1"} \cap DOMAIN ResponseV2Table = {}
        /\ {"timeout", "connection"} \cap DOMAIN ResponseV2Table = {}
        /\ {"class", "header", "headers", "content", "crc32"} \cap DOMAIN ResponseV2Table = {}
    BY DEF ResponseV2Table
  <2>5. DOMAIN ResponseV2Slots \subseteq DOMAIN ResponseV2Table
    BY DEF ResponseV2Table, ResponseV2Slots
  <2>6. /\ \A k \in {"proto", "typ", "ver1"} : t[k] = c[k]
        /\ \A k \in {"timeout", "connection"} : t[k] = Zero[k]
    BY <1>1, <1>2, <1>7
  <2>7. \A k \in Carried(c) \ {"class", "content"} :
           k \in DOMAIN ResponseV2Slots \/ (k \notin DOMAIN ResponseV2Table /\ t[k] = c[k])
    BY <2>1, <2>3, <2>4, <2>6, EitherWay
  <2>8. \A k \in {"ver1", "switc", "timeout", "status", "connection"} \ Carried(c) :
           k \notin DOMAIN ResponseV2Table /\ t[k] = Zero[k]
    BY <2>2, <2>4, <2>6
  <2> QED
    BY <1>1, <2>4, <2>5, <2>7, <2>8 DEF Fresh
<1> QED
  BY <1>4, <1>5, <1>6, <1>7

LEMMA SetBegun ==
  ASSUME NEW d, Clean(d), NEW c
  PROVE  /\ ~IsV2(c) => Begun(c, [[d EXCEPT !.proto = c.proto, !.reserved = 0]
                                    EXCEPT !.typ = c.typ])
         /\ IsV2(c) => Begun(c, [[d EXCEPT !.proto = c.proto, !.reserved = 0]
                                   EXCEPT !.ver1 = c.ver1, !.typ = c.typ])
<1> DEFINE a == [d EXCEPT !.proto = c.proto]
           b == [a EXCEPT !.reserved = 0]
           v == [b EXCEPT !.ver1 = c.ver1]
           t == [b EXCEPT !.typ = c.typ]
           u == [v EXCEPT !.typ = c.typ]
<1>1. /\ [d EXCEPT !.proto = c.proto, !.reserved = 0] = b
      /\ [[d EXCEPT !.proto = c.proto, !.reserved = 0] EXCEPT !.typ = c.typ] = t
      /\ [[d EXCEPT !.proto = c.proto, !.reserved = 0] EXCEPT !.ver1 = c.ver1, !.typ = c.typ] = u
  OBVIOUS
<1>2. IsCommand(d) /\ \A k \in FieldNames \ {"proto", "typ", "cmdcode"} : d[k] = Zero[k]
  BY DEF Clean
<1>3. IsCommand(a) /\ \A k \in FieldNames : a[k] = IF k = "proto" THEN c.proto ELSE d[k]
  BY <1>2 DEF IsCommand
<1> HIDE DEF a
<1>4. IsCommand(b) /\ \A k \in FieldNames : b[k] = IF k = "reserved" THEN 0 ELSE a[k]
  BY <1>3 DEF IsCommand
<1> HIDE DEF b
<1>5. IsCommand(v) /\ \A k \in FieldNames : v[k] = IF k = "ver1" THEN c.ver1 ELSE b[k]
  BY <1>4 DEF IsCommand
<1> HIDE DEF v
<1>6. IsCommand(t) /\ \A k \in FieldNames : t[k] = IF k = "typ" THEN c.typ ELSE b[k]
  BY <1>4 DEF IsCommand
<1>7. IsCommand(u) /\ \A k \in FieldNames : u[k] = IF k = "typ" THEN c.typ ELSE v[k]
  BY <1>5 DEF IsCommand
<1> HIDE DEF t, u
<1>8. /\ Zero.reserved = 0 /\ Zero.ver1 = 0
      /\ {"proto", "typ", "ver1", "reserved"} \subseteq FieldNames
  BY ZeroIsCommand DEF Zero
<1>9. \A k \in FieldNames \ {"proto", "typ", "cmdcode"} : b[k] = Zero[k]
  BY <1>2, <1>3, <1>4, <1>8
<1>10. b.proto = c.proto
  BY <1>3, <1>4, <1>8
<1>11. ~IsV2(c) => Begun(c, t)
  BY <1>6, <1>8, <1>9, <1>10 DEF Begun
<1>12. IsV2(c) => Begun(c, u)
  BY <1>5, <1>7, <1>8, <1>9, <1>10 DEF Begun
<1> QED
  BY <1>1, <1>11, <1>12

(* A command of version 1 comes back from its frame.                        *)
LEMMA V1Back ==
  ASSUME NEW c, IsTyped(c), Fits(c), ~IsTB(c), ~IsV2(c), c.proto \in {0, ProtoBOLTV1},
         NEW b, b = WriteCommand(c).bytes, b \in Strings,
         \/ c.typ \in Requests /\ BOLTFramed(b, c, RequestV1, 10, RequestV1At)
         \/ c.typ = TypeBOLTResponse /\ BOLTFramed(b, c, ResponseV1, 10, ResponseV1At),
         NEW s \in Strings, Agree(s, b), NEW d, Clean(d)
  PROVE  Result(c, b, s, ReadCommand(s, d))
<1> DEFINE a == [d EXCEPT !.proto = s[1], !.reserved = 0]
           t == [a EXCEPT !.typ = s[1 + 1]]
<1>1. PICK z \in Nat, y \in Nat : z = Len(s) /\ y = Len(b)
  BY DEF Strings
<1>2. Put(b, 0, c.proto, 1) /\ Put(b, 1, c.typ, 1) /\ 20 <= y
  <2>1. \/ BOLTFramed(b, c, RequestV1, 10, RequestV1At)
        \/ BOLTFramed(b, c, ResponseV1, 10, ResponseV1At)
    OBVIOUS
  <2> QED
    BY <1>1, <2>1, FirstBytes
<1>3. c.proto \in 0 .. Base - 1 /\ c.typ \in 0 .. Base - 1
  BY FirstBytes
<1>4. z > 0 => s[1] = c.proto
  <2> SUFFICES ASSUME z > 0 PROVE s[0 + 1] = c.proto
    OBVIOUS
  <2>1. 0 \in Nat /\ 0 < Len(s) /\ 0 < Len(b)
    BY <1>1, <1>2
  <2> QED
    BY <1>2, <1>3, <2>1, ByteRead
<1>5. z > 1 => s[1 + 1] = c.typ
  <2> SUFFICES ASSUME z > 1 PROVE s[1 + 1] = c.typ
    OBVIOUS
  <2>1. 1 \in Nat /\ 1 < Len(s) /\ 1 < Len(b)
    BY <1>1, <1>2
  <2> QED
    BY <1>2, <1>3, <2>1, ByteRead
<1>6. CASE z = 0
  <2>1. s = <<>>
    <3>1. Len(s) = 0 /\ s \in Seq(Byte)
      BY <1>1, <1>6 DEF Strings
    <3> QED
      BY <3>1
  <2>2. ReadCommand(s, d) = Failed("short")
    BY <2>1 DEF ReadCommand
  <2>3. Len(s) < Len(b)
    BY <1>1, <1>2, <1>6
  <2> QED
    BY <2>2, <2>3, FailedResult
<1>7. ASSUME z > 0 PROVE ReadCommand(s, d) = readCommandBOLTV1(s, 1, a)
  <2>1. s # <<>>
    BY <1>1, <1>7
  <2>2. s[1] \in {0, ProtoBOLTV1} /\ s[1] # ProtoBOLTV2 /\ s[1] # ProtoTBRemoting
    BY <1>4, <1>7 DEF ProtoBOLTV1, ProtoBOLTV2, ProtoTBRemoting
  <2> QED
    BY <2>1, <2>2 DEF ReadCommand
<1>8. CASE z = 1
  <2>1. readCommandBOLTV1(s, 1, a) = Failed("short")
    <3>1. Len(s) < 1 + 1 /\ ~(Len(s) >= 1 + 1)
      BY <1>1, <1>8
    <3> QED
      BY <3>1 DEF readCommandBOLTV1
  <2>2. Len(s) < Len(b)
    BY <1>1, <1>2, <1>8
  <2>3. ReadCommand(s, d) = Failed("short")
    BY <1>7, <1>8, <2>1
  <2> QED
    BY <2>2, <2>3, FailedResult
<1>9. CASE z > 1
  <2>1. Begun(c, t)
    <3>1. s[1] = c.proto /\ s[1 + 1] = c.typ
      BY <1>4, <1>5, <1>9
    <3>2. t = [[d EXCEPT !.proto = c.proto, !.reserved = 0] EXCEPT !.typ = c.typ]
      BY <3>1
    <3> HIDE DEF t
    <3> QED
      BY <3>2, SetBegun
  <2>2. ~(Len(s) < 1 + 1) /\ Len(s) >= 1 + 1 /\ s[1 + 1] = c.typ
    BY <1>1, <1>5, <1>9
  <2>3. TypeBOLTResponse \notin Requests
    BY DEF TypeBOLTResponse, Requests, TypeBOLTRequest, TypeBOLTRequestOneWay
  <2>4. ReadCommand(s, d) = readCommandBOLTV1(s, 1, a)
    BY <1>7, <1>9
  <2>5. /\ c.typ \in Requests => ReadCommand(s, d) = readRequestCommandBOLTV1(s, 1 + 1, t)
        /\ c.typ = TypeBOLTResponse =>
             ReadCommand(s, d) = readResponseCommandBOLTV1(s, 1 + 1, t)
    BY <2>2, <2>3, <2>4 DEF readCommandBOLTV1
  <2> HIDE DEF t, a
  <2>6. /\ c.typ \in Requests => ReadCommand(s, d) = ReadBOLT(s, 2, t, 20, RequestV1Table)
        /\ c.typ = TypeBOLTResponse =>
             ReadCommand(s, d) = ReadBOLT(s, 2, t, 18, ResponseV1Table)
    BY <2>5 DEF readRequestCommandBOLTV1, readResponseCommandBOLTV1
  <2>7. CASE c.typ \in Requests /\ BOLTFramed(b, c, RequestV1, 10, RequestV1At)
    <3>1. Reading(s, b, c, RequestV1, 10, RequestV1At, 2, 20, RequestV1Table, RequestV1Slots)
      BY <2>7, CanRead
    <3>2. Fresh(c, t, RequestV1Table, RequestV1Slots)
      BY <2>1, <2>7, BegunFresh
    <3> QED
      BY <2>6, <2>7, <3>1, <3>2, BOLTBack
  <2>8. CASE c.typ = TypeBOLTResponse /\ BOLTFramed(b, c, ResponseV1, 10, ResponseV1At)
    <3>1. Reading(s, b, c, ResponseV1, 10, ResponseV1At, 2, 18, ResponseV1Table, ResponseV1Slots)
      BY <2>8, CanRead
    <3>2. Fresh(c, t, ResponseV1Table, ResponseV1Slots)
      BY <2>1, <2>3, <2>8, BegunFresh
    <3> QED
      BY <2>6, <2>8, <3>1, <3>2, BOLTBack
  <2> QED
    BY <2>7, <2>8
<1> QED
  BY <1>6, <1>8, <1>9

(* The reader of version 2 goes by the byte behind ver1.                    *)
V2Reads(s, d, p, t) ==
  /\ Len(s) < p + 2 /\ ~(Len(s) >= p + 2) => readCommandBOLTV2(s, p, d) = Failed("short")
  /\ ~(Len(s) < p + 2) /\ Len(s) >= p + 2 =>
       /\ s[p + 2] \in Requests /\ s[p + 2] # TypeBOLTResponse =>
            readCommandBOLTV2(s, p, d) = readRequestCommandBOLTV2(s, p + 2, t)
       /\ s[p + 2] = TypeBOLTResponse /\ s[p + 2] \notin Requests =>
            readCommandBOLTV2(s, p, d) = readResponseCommandBOLTV2(s, p + 2, t)

LEMMA V2Chooses ==
  ASSUME NEW s, NEW d, NEW p
  PROVE  V2Reads(s, d, p, [d EXCEPT !.ver1 = s[p + 1], !.typ = s[p + 2]])
BY DEF readCommandBOLTV2, V2Reads

(* A command of version 2 comes back from its frame.                        *)
LEMMA V2Back ==
  ASSUME NEW c, IsTyped(c), Fits(c), ~IsTB(c), IsV2(c),
         NEW b, b = WriteCommand(c).bytes, b \in Strings,
         \/ c.typ \in Requests /\ BOLTFramed(b, c, RequestV2, 12, RequestV2At)
         \/ c.typ = TypeBOLTResponse /\ BOLTFramed(b, c, ResponseV2, 12, ResponseV2At),
         NEW s \in Strings, Agree(s, b), NEW d, Clean(d)
  PROVE  Result(c, b, s, ReadCommand(s, d))
<1> DEFINE a == [d EXCEPT !.proto = s[1], !.reserved = 0]
           t == [a EXCEPT !.ver1 = s[1 + 1], !.typ = s[1 + 2]]
<1>1. PICK z \in Nat, y \in Nat : z = Len(s) /\ y = Len(b)
  BY DEF Strings
<1>2. Put(b, 0, c.proto, 1) /\ Put(b, 1, c.ver1, 1) /\ Put(b, 2, c.typ, 1) /\ 22 <= y
  <2>1. \/ BOLTFramed(b, c, RequestV2, 12, RequestV2At)
        \/ BOLTFramed(b, c, ResponseV2, 12, ResponseV2At)
    OBVIOUS
  <2> QED
    BY <1>1, <2>1, FirstBytes
<1>3. c.proto \in 0 .. Base - 1 /\ c.typ \in 0 .. Base - 1 /\ c.ver1 \in 0 .. Base - 1
  BY FirstBytes
<1>4. z > 0 => s[1] = c.proto
  <2> SUFFICES ASSUME z > 0 PROVE s[0 + 1] = c.proto
    OBVIOUS
  <2>1. 0 \in Nat /\ 0 < Len(s) /\ 0 < Len(b)
    BY <1>1, <1>2
  <2> QED
    BY <1>2, <1>3, <2>1, ByteRead
<1>5. z > 2 => s[1 + 1] = c.ver1 /\ s[1 + 2] = c.typ
  <2> SUFFICES ASSUME z > 2 PROVE s[1 + 1] = c.ver1 /\ s[2 + 1] = c.typ
    OBVIOUS
  <2>1. 1 \in Nat /\ 1 < Len(s) /\ 1 < Len(b) /\ 2 \in Nat /\ 2 < Len(s) /\ 2 < Len(b)
    BY <1>1, <1>2
  <2>2. s[1 + 1] = c.ver1
    BY <1>2, <1>3, <2>1, ByteRead
  <2>3. s[2 + 1] = c.typ
    BY <1>2, <1>3, <2>1, ByteRead
  <2> QED
    BY <2>2, <2>3
<1>10. V2Reads(s, a, 1, t)
  BY V2Chooses
<1>6. CASE z = 0
  <2>1. s = <<>>
    <3>1. Len(s) = 0 /\ s \in Seq(Byte)
      BY <1>1, <1>6 DEF Strings
    <3> QED
      BY <3>1
  <2>2. ReadCommand(s, d) = Failed("short")
    BY <2>1 DEF ReadCommand
  <2>3. Len(s) < Len(b)
    BY <1>1, <1>2, <1>6
  <2> QED
    BY <2>2, <2>3, FailedResult
<1>7. ASSUME z > 0 PROVE ReadCommand(s, d) = readCommandBOLTV2(s, 1, a)
  <2>1. s # <<>>
    BY <1>1, <1>7
  <2>2. s[1] \notin {0, ProtoBOLTV1} /\ s[1] = ProtoBOLTV2 /\ s[1] # ProtoTBRemoting
    BY <1>4, <1>7 DEF IsV2, ProtoBOLTV1, ProtoBOLTV2, ProtoTBRemoting
  <2> QED
    BY <2>1, <2>2 DEF ReadCommand
<1>8. CASE z = 1 \/ z = 2
  <2>1. readCommandBOLTV2(s, 1, a) = Failed("short")
    <3>1. Len(s) < 1 + 2 /\ ~(Len(s) >= 1 + 2)
      <4>1. z < 1 + 2 /\ ~(z >= 1 + 2)
        BY <1>8
      <4> QED
        BY <1>1, <4>1, Zenon
    <3> QED
      BY <1>10, <3>1, Zenon DEF V2Reads
  <2>2. Len(s) < Len(b)
    <3>1. z < y
      BY <1>2, <1>8
    <3> QED
      BY <1>1, <3>1, Zenon
  <2>3. ReadCommand(s, d) = Failed("short")
    BY <1>7, <1>8, <2>1
  <2> QED
    BY <2>2, <2>3, FailedResult
<1>9. CASE z > 2
  <2>1. Begun(c, t)
    <3>1. s[1] = c.proto /\ s[1 + 1] = c.ver1 /\ s[1 + 2] = c.typ
      BY <1>4, <1>5, <1>9
    <3>2. t = [[d EXCEPT !.proto = c.proto, !.reserved = 0]
                     EXCEPT !.ver1 = c.ver1, !.typ = c.typ]
      BY <3>1
    <3> HIDE DEF t
    <3> QED
      BY <3>2, SetBegun
  <2>2. ~(Len(s) < 1 + 2) /\ Len(s) >= 1 + 2 /\ s[1 + 2] = c.typ
    BY <1>1, <1>5, <1>9
  <2>3. TypeBOLTResponse \notin Requests
    BY DEF TypeBOLTResponse, Requests, TypeBOLTRequest, TypeBOLTRequestOneWay
  <2>4. ReadCommand(s, d) = readCommandBOLTV2(s, 1, a)
    BY <1>7, <1>9
  <2>5. /\ c.typ \in Requests => ReadCommand(s, d) = readRequestCommandBOLTV2(s, 1 + 2, t)
        /\ c.typ = TypeBOLTResponse =>
             ReadCommand(s, d) = readResponseCommandBOLTV2(s, 1 + 2, t)
    <3>1. TypeBOLTResponse \notin Requests /\ (c.typ \in Requests => c.typ # TypeBOLTResponse)
      BY <2>3
    <3>2. /\ c.typ \in Requests =>
               readCommandBOLTV2(s, 1, a) = readRequestCommandBOLTV2(s, 1 + 2, t)
          /\ c.typ = TypeBOLTResponse =>
               readCommandBOLTV2(s, 1, a) = readResponseCommandBOLTV2(s, 1 + 2, t)
      BY <1>10, <2>2, <3>1, Zenon DEF V2Reads
    <3> QED
      BY <2>4, <3>2
  <2> HIDE DEF t, a
  <2>6. /\ c.typ \in Requests => ReadCommand(s, d) = ReadBOLT(s, 3, t, 21, RequestV2Table)
        /\ c.typ = TypeBOLTResponse =>
             ReadCommand(s, d) = ReadBOLT(s, 3, t, 19, ResponseV2Table)
    BY <2>5 DEF readRequestCommandBOLTV2, readResponseCommandBOLTV2
  <2>7. CASE c.typ \in Requests /\ BOLTFramed(b, c, RequestV2, 12, RequestV2At)
    <3>1. Reading(s, b, c, RequestV2, 12, RequestV2At, 3, 21, RequestV2Table, RequestV2Slots)
      BY <2>7, CanRead
    <3>2. Fresh(c, t, RequestV2Table, RequestV2Slots)
      BY <2>1, <2>7, BegunFresh
    <3> QED
      BY <2>6, <2>7, <3>1, <3>2, BOLTBack
  <2>8. CASE c.typ = TypeBOLTResponse /\ BOLTFramed(b, c, ResponseV2, 12, ResponseV2At)
    <3>1. Reading(s, b, c, ResponseV2, 12, ResponseV2At, 3, 19, ResponseV2Table, ResponseV2Slots)
      BY <2>8, CanRead
    <3>2. Fresh(c, t, ResponseV2Table, ResponseV2Slots)
      BY <2>1, <2>3, <2>8, BegunFresh
    <3> QED
      BY <2>6, <2>8, <3>1, <3>2, BOLTBack
  <2> QED
    BY <2>7, <2>8
<1> QED
  BY <1>6, <1>8, <1>9

(* A command of TBRemoting comes back from its frame.                       *)
LEMMA TBSame ==
  ASSUME NEW c, IsTyped(c), IsTB(c), NEW a, IsCommand(a),
         \A k \in FieldNames \ {"proto", "typ", "cmdcode", "reserved"} : a[k] = Zero[k],
         NEW f, DOMAIN f = DOMAIN TBTable, \A k \in DOMAIN TBSlots : f[k] = Value(c, k),
         NEW g, g = [proto |-> ProtoTBRemoting, connection |-> c.connection,
                     class |-> c.class, content |-> c.content]
  PROVE  Same(c, With(With(a, f), g))
<1> DEFINE x == With(With(a, f), g)
<1>1. \A k \in FieldNames :
        x[k] = IF k \in DOMAIN g THEN g[k] ELSE IF k \in DOMAIN f THEN f[k] ELSE a[k]
  BY WithTwice
<1> HIDE DEF x
<1>2. /\ DOMAIN g = {"proto", "connection", "class", "content"}
      /\ g.proto = c.proto /\ g.connection = c.connection /\ g.class = c.class
      /\ g.content = c.content
  BY DEF IsTB
<1>3. DOMAIN f = {"cmdcode", "codec", "typ", "reserved", "connLen", "classLen", "contentLen"}
  BY DEF TBTable
<1>4. /\ {"proto", "ver1", "typ", "cmdcode", "rid", "codec", "switc", "timeout", "status",
          "connection", "class", "content", "crc32", "headers"} \subseteq FieldNames
      /\ DOMAIN c = FieldNames
  BY ZeroIsCommand, CommandFacts
<1>5. f.cmdcode = c.cmdcode /\ f.codec = c.codec /\ f.typ = c.typ
  <2>1. {"cmdcode", "codec", "typ"} \subseteq DOMAIN TBSlots
    BY DEF TBSlots
  <2> QED
    BY <1>4, <2>1 DEF Value
<1>6. Carried(c) = {"proto", "cmdcode", "codec", "typ", "connection", "class", "content"}
  BY DEF Carried
<1>7. \A k \in Carried(c) : x[k] = c[k]
  BY <1>1, <1>2, <1>3, <1>4, <1>5, <1>6
<1>8. /\ \A k \in {"ver1", "switc", "timeout", "status", "headers", "rid", "crc32"} : x[k] = Zero[k]
  BY <1>1, <1>2, <1>3, <1>4
<1>9. \A k \in {"ver1", "switc", "timeout", "status", "connection"} \ Carried(c) : x[k] = Zero[k]
  BY <1>6, <1>8
<1>10. x.headers = NoHeaders /\ x.rid = 0 /\ x.crc32 = 0
  BY <1>8 DEF Zero
<1>11. ~IsV2(c)
  BY DEF IsTB, IsV2, ProtoTBRemoting, ProtoBOLTV2
<1> QED
  BY <1>7, <1>9, <1>10, <1>11 DEF Same, x

(* What readCommandTBRemoting makes of a frame, and of the part of one.     *)
TBGives(s, b, c, a) ==
  LET f == Fields(s, 1, TBTable)
      r == readCommandTBRemoting(s, 1, a)
  IN  /\ Len(s) < Len(b) => r.err = "short"
      /\ ~(Len(s) < Len(b)) =>
           /\ \A k \in DOMAIN TBSlots : f[k] = Value(c, k)
           /\ r = [err |-> "none", used |-> Len(b),
                   cmd |-> With(With(a, f),
                     [proto |-> ProtoTBRemoting, connection |-> c.connection,
                      class |-> c.class, content |-> c.content])]

LEMMA TBReadingIs ==
  ASSUME NEW c, IsTyped(c), Fits(c), IsTB(c), NEW b, TBFramed(b, c),
         NEW s \in Strings, Agree(s, b), NEW a
  PROVE  TBGives(s, b, c, a)
<1> DEFINE f       == Fields(s, 1, TBTable)
           r       == readCommandTBRemoting(s, 1, a)
           class   == 1 + 13 + f.connLen
           content == class + f.classLen
           g       == [proto      |-> ProtoTBRemoting,
                       connection |-> Ref(s, 1 + 13, f.connLen),
                       class      |-> Ref(s, class, f.classLen),
                       content    |-> Ref(s, content, f.contentLen)]
           wanted  == [proto |-> ProtoTBRemoting, connection |-> c.connection,
                       class |-> c.class, content |-> c.content]
           read    == [err |-> "none", used |-> content + f.contentLen,
                       cmd |-> With(With(a, f), g)]
<1>0. SUFFICES
        /\ Len(s) < Len(b) => r.err = "short"
        /\ ~(Len(s) < Len(b)) =>
             (\A k \in DOMAIN TBSlots : f[k] = Value(c, k))
             /\ r = [err |-> "none", used |-> Len(b), cmd |-> With(With(a, f), wanted)]
  BY Zenon DEF TBGives
<1>1. r = IF Len(s) < 1 + 13 \/ Len(s) < content + f.contentLen THEN Failed("short") ELSE read
  BY Zenon DEF readCommandTBRemoting
<1>2. PICK n \in Nat, k \in Nat, l \in Nat :
        n = Len(c.connection) /\ k = Len(c.class) /\ l = Len(c.content)
  BY Lengths3
<1>3. PICK q \in Nat, t \in Nat : q = 14 + n /\ t = q + k
  OBVIOUS
<1>4. /\ b \in Strings /\ HeadAt(b, c, TBRemoting, 8, TBAt) /\ Len(b) = t + l
      /\ \A j \in 1 .. n : b[14 + j] = c.connection[j]
      /\ \A j \in 1 .. k : b[q + j] = c.class[j]
      /\ \A j \in 1 .. l : b[t + j] = c.content[j]
  BY <1>2, <1>3, Zenon DEF TBFramed
<1>5. PICK z \in Nat, y \in Nat : z = Len(s) /\ y = Len(b)
  BY <1>4 DEF Strings
<1>6. y = t + l /\ 14 <= y
  BY <1>3, <1>4, <1>5
<1>7. CASE z < 14
  <2>1. z < 1 + 13 /\ z < y
    BY <1>6, <1>7
  <2>2. r = Failed("short") /\ Len(s) < Len(b)
    BY <1>1, <1>5, <2>1
  <2> QED
    BY <2>2 DEF Failed
<1>8. CASE ~(z < 14)
  <2>1. \A h \in DOMAIN TBSlots : f[h] = Value(c, h)
    <3>1. 1 + 13 <= Len(s) /\ 1 + 13 <= Len(b)
      BY <1>5, <1>6, <1>8
    <3>2. Laid(TBRemoting, 8, TBAt) /\ Room(c, TBRemoting, 8) /\ TableOf(TBTable, 13)
          /\ Placed(TBSlots, TBTable, TBRemoting, 8, TBAt, 1)
      BY LaidOut, RoomFacts, Tables, AllPlaced
    <3>3. 1 \in Nat /\ 13 \in Nat
      OBVIOUS
    <3> QED
      BY <1>4, <3>1, <3>2, <3>3, FieldsRead
  <2>2. f.connLen = n /\ f.classLen = k /\ f.contentLen = l
    <3>1. {"connLen", "classLen", "contentLen"} \subseteq DOMAIN TBSlots
      BY DEF TBSlots
    <3>2. Value(c, "connLen") = n /\ Value(c, "classLen") = k /\ Value(c, "contentLen") = l
      BY <1>2, CommandFacts
    <3> QED
      BY <2>1, <3>1, <3>2
  <2> HIDE DEF f
  <2>3. class = q /\ content = t /\ content + f.contentLen = y
    BY <1>3, <1>6, <2>2
  <2>4. CASE z < y
    <3>1. r = Failed("short")
      BY <1>1, <1>5, <2>3, <2>4
    <3> QED
      BY <1>5, <2>4, <3>1 DEF Failed
  <2>5. CASE ~(z < y)
    <3>1. r = read
      <4>1. ~(z < 1 + 13)
        BY <1>8
      <4> QED
        BY <1>1, <1>5, <2>3, <2>5, <4>1
    <3>2. /\ 14 + n <= Len(b) /\ 14 + n <= Len(s) /\ q + k <= Len(b) /\ q + k <= Len(s)
          /\ t + l <= Len(b) /\ t + l <= Len(s)
      <4>1. 14 + n <= y /\ 14 + n <= z /\ q + k <= y /\ q + k <= z /\ t + l <= y /\ t + l <= z
        BY <1>3, <1>6, <2>5
      <4> QED
        BY <1>5, <4>1
    <3>3. c.connection \in Strings /\ c.class \in Strings /\ c.content \in Strings
      BY CommandFacts
    <3>4. Ref(s, 14, Len(c.connection)) = c.connection
      BY <1>2, <1>4, <3>2, <3>3, PartRead
    <3>5. Ref(s, q, Len(c.class)) = c.class
      BY <1>2, <1>4, <3>2, <3>3, PartRead
    <3>6. Ref(s, t, Len(c.content)) = c.content
      BY <1>2, <1>4, <3>2, <3>3, PartRead
    <3>7. 1 + 13 = 14
      OBVIOUS
    <3>8. /\ Ref(s, 1 + 13, f.connLen) = c.connection /\ Ref(s, class, f.classLen) = c.class
          /\ Ref(s, content, f.contentLen) = c.content
      BY <1>2, <2>2, <2>3, <3>4, <3>5, <3>6, <3>7
    <3>9. g = wanted
      BY <3>8
    <3> HIDE DEF g, wanted, class, content
    <3>10. r = [err |-> "none", used |-> Len(b), cmd |-> With(With(a, f), wanted)]
      BY <1>5, <2>3, <3>1, <3>9
    <3> QED
      BY <1>5, <2>1, <2>5, <3>10
  <2> QED
    BY <2>4, <2>5
<1> QED
  BY <1>7, <1>8

LEMMA TBBack ==
  ASSUME NEW c, IsTyped(c), Fits(c), IsTB(c), NEW b, TBFramed(b, c),
         NEW s \in Strings, Agree(s, b), NEW d, Clean(d)
  PROVE  Result(c, b, s, ReadCommand(s, d))
<1> DEFINE u == [d EXCEPT !.proto = s[1]]
           a == [u EXCEPT !.reserved = 0]
           r == readCommandTBRemoting(s, 1, a)
<1>1. PICK z \in Nat, y \in Nat : z = Len(s) /\ y = Len(b)
  <2>1. b \in Strings
    BY Zenon DEF TBFramed
  <2> QED
    BY <2>1 DEF Strings
<1>2. Put(b, 0, c.proto, 1) /\ 14 <= Len(b) /\ c.proto \in 0 .. Base - 1
  BY FirstBytes
<1>3. CASE z = 0
  <2>1. s = <<>>
    <3>1. Len(s) = 0 /\ s \in Seq(Byte)
      BY <1>1, <1>3 DEF Strings
    <3> QED
      BY <3>1
  <2>2. ReadCommand(s, d) = Failed("short")
    BY <2>1 DEF ReadCommand
  <2>3. Len(s) < Len(b)
    BY <1>1, <1>2, <1>3
  <2> QED
    BY <2>2, <2>3, FailedResult
<1>4. CASE z > 0
  <2>1. s[0 + 1] = c.proto
    <3>1. 0 \in Nat /\ 0 < Len(s) /\ 0 < Len(b)
      BY <1>1, <1>2, <1>4
    <3>2. b \in Strings
      BY Zenon DEF TBFramed
    <3> QED
      BY <1>2, <3>1, <3>2, ByteRead
  <2>2. s # <<>> /\ s[1] = ProtoTBRemoting
    BY <1>1, <1>4, <2>1 DEF IsTB
  <2>3. s[1] \notin {0, ProtoBOLTV1} /\ s[1] # ProtoBOLTV2
    BY <2>2 DEF ProtoTBRemoting, ProtoBOLTV1, ProtoBOLTV2
  <2>4. ReadCommand(s, d) = r
    BY <2>2, <2>3 DEF ReadCommand
  <2>5. IsCommand(d) /\ \A k \in FieldNames \ {"proto", "typ", "cmdcode"} : d[k] = Zero[k]
    BY DEF Clean
  <2>6. IsCommand(u) /\ \A k \in FieldNames : u[k] = IF k = "proto" THEN s[1] ELSE d[k]
    BY <2>5 DEF IsCommand
  <2> HIDE DEF u
  <2>7. IsCommand(a) /\ \A k \in FieldNames : a[k] = IF k = "reserved" THEN 0 ELSE u[k]
    BY <2>6 DEF IsCommand
  <2> HIDE DEF a
  <2>8. \A k \in FieldNames \ {"proto", "typ", "cmdcode", "reserved"} : a[k] = Zero[k]
    BY <2>5, <2>6, <2>7
  <2>9. TBGives(s, b, c, a)
    BY TBReadingIs
  <2>10. ASSUME Len(s) < Len(b) PROVE r.err = "short"
    BY <2>9, <2>10, Zenon DEF TBGives
  <2>11. ASSUME ~(Len(s) < Len(b)) PROVE r.err = "none" /\ r.used = Len(b) /\ Same(c, r.cmd)
    <3> DEFINE f == Fields(s, 1, TBTable)
               g == [proto |-> ProtoTBRemoting, connection |-> c.connection,
                     class |-> c.class, content |-> c.content]
    <3>1. /\ \A k \in DOMAIN TBSlots : f[k] = Value(c, k)
          /\ r = [err |-> "none", used |-> Len(b), cmd |-> With(With(a, f), g)]
      BY <2>9, <2>11, Zenon DEF TBGives
    <3>2. DOMAIN f = DOMAIN TBTable
      BY DEF Fields
    <3> HIDE DEF f, r
    <3>3. Same(c, With(With(a, f), g))
      BY <2>7, <2>8, <3>1, <3>2, TBSame
    <3> HIDE DEF g
    <3> QED
      BY <3>1, <3>3
  <2> QED
    BY <2>4, <2>10, <2>11 DEF Result
<1> QED
  BY <1>1, <1>3, <1>4

(* Whatever command is written: its frame is read as that command, and so   *)
(* is any sequence of bytes that begins with it; of a frame that is cut     *)
(* anywhere nothing is made (command.go:226-261, 432-1094).                 *)
THEOREM ReadingUndoesWriting ==
  ASSUME NEW c, IsTyped(c), Fits(c), WriteCommand(c).err = "none",
         NEW b, b = WriteCommand(c).bytes, NEW s \in Strings, Agree(s, b), NEW d
  PROVE  Result(c, b, s, ReadCommand(s, ResetRequest(d)))
<1>1. Clean(ResetRequest(d))
  BY ResetClean
<1>2. b \in Strings
  BY Frames
<1>3. CASE IsTB(c) /\ TBFramed(b, c)
  BY <1>1, <1>3, TBBack
<1>4. CASE /\ ~IsTB(c) /\ ~IsV2(c) /\ c.proto \in {0, ProtoBOLTV1}
           /\ \/ c.typ \in Requests /\ BOLTFramed(b, c, RequestV1, 10, RequestV1At)
              \/ c.typ = TypeBOLTResponse /\ BOLTFramed(b, c, ResponseV1, 10, ResponseV1At)
  BY <1>1, <1>2, <1>4, V1Back
<1>5. CASE /\ ~IsTB(c) /\ IsV2(c)
           /\ \/ c.typ \in Requests /\ BOLTFramed(b, c, RequestV2, 12, RequestV2At)
              \/ c.typ = TypeBOLTResponse /\ BOLTFramed(b, c, ResponseV2, 12, ResponseV2At)
  BY <1>1, <1>2, <1>5, V2Back
<1> QED
  BY <1>3, <1>4, <1>5, Frames

(* A frame has bytes.                                                       *)
LEMMA FrameLength ==
  ASSUME NEW c, IsTyped(c), WriteCommand(c).err = "none", NEW b, b = WriteCommand(c).bytes
  PROVE  b \in Strings /\ Len(b) \in Nat /\ Len(b) >= 14
<1>1. b \in Strings /\ Len(b) \in Nat
  BY Frames DEF Strings
<1>2. 14 <= Len(b) \/ 20 <= Len(b) \/ 22 <= Len(b)
  BY Frames, FirstBytes
<1> QED
  BY <1>1, <1>2

-----------------------------------------------------------------------------
(* The stream.                                                              *)

Frame(c) == WriteCommand(c).bytes

(* Sequence q is of commands that were written.                             *)
Queue(q) == q \in Seq(Commands) /\ \A i \in 1 .. Len(q) : WriteCommand(q[i]).err = "none"

(* The bytes w are the frames of the commands of q behind the first n, one  *)
(* after the other, where frame i ends at o[i]; they may end before the     *)
(* last frame does only if the stream is over.                              *)
Lies(w, q, n, o, over) ==
  /\ n \in 0 .. Len(q) /\ o \in [n .. Len(q) -> Nat] /\ o[n] = 0
  /\ \A i \in n + 1 .. Len(q) : o[i] = o[i - 1] + Len(Frame(q[i]))
  /\ \A i \in n .. Len(q) : \A h \in n .. i : o[h] <= o[i]
  /\ Len(w) <= o[Len(q)]
  /\ ~over => Len(w) = o[Len(q)]
  /\ \A i \in n + 1 .. Len(q) : \A j \in 1 .. Len(Frame(q[i])) :
        o[i - 1] + j <= Len(w) => w[o[i - 1] + j] = Frame(q[i])[j]

LEMMA QueueFacts ==
  ASSUME NEW q, Queue(q)
  PROVE  /\ Len(q) \in Nat
         /\ \A i \in 1 .. Len(q) :
               /\ q[i] \in Commands /\ IsTyped(q[i]) /\ WriteCommand(q[i]).err = "none"
               /\ Frame(q[i]) \in Strings /\ Len(Frame(q[i])) \in Nat
<1>1. Len(q) \in Nat /\ \A i \in 1 .. Len(q) : q[i] \in Commands
  BY DEF Queue
<1>2. \A i \in 1 .. Len(q) : IsTyped(q[i]) /\ WriteCommand(q[i]).err = "none"
  BY <1>1, CommandsAssumption DEF Queue
<1>3. \A i \in 1 .. Len(q) : Frame(q[i]) \in Strings /\ Len(Frame(q[i])) \in Nat
  BY <1>2, FrameLength DEF Frame
<1> QED
  BY <1>1, <1>2, <1>3

LEMMA QueueAppend ==
  ASSUME NEW q, Queue(q), NEW c \in Commands, WriteCommand(c).err = "none"
  PROVE  /\ Queue(Append(q, c)) /\ Len(Append(q, c)) = Len(q) + 1
         /\ \A i \in 1 .. Len(q) : Append(q, c)[i] = q[i]
         /\ Append(q, c)[Len(q) + 1] = c
<1> DEFINE p == Append(q, c)
<1>1. /\ p \in Seq(Commands) /\ Len(p) = Len(q) + 1 /\ Len(q) \in Nat
      /\ \A i \in 1 .. Len(q) : p[i] = q[i]
      /\ p[Len(q) + 1] = c
  BY DEF Queue
<1> HIDE DEF p
<1>2. \A i \in 1 .. Len(p) : WriteCommand(p[i]).err = "none"
  <2> TAKE i \in 1 .. Len(p)
  <2>1. i \in 1 .. Len(q) \/ i = Len(q) + 1
    BY <1>1
  <2> QED
    BY <1>1, <2>1 DEF Queue
<1> QED
  BY <1>1, <1>2 DEF Queue, p

(* A command is written behind the others.                                  *)
LEMMA LiesWrite ==
  ASSUME NEW w \in Strings, NEW q, Queue(q), NEW n, NEW o, Lies(w, q, n, o, FALSE),
         NEW c \in Commands, WriteCommand(c).err = "none"
  PROVE  \E u : Lies(w \o Frame(c), Append(q, c), n, u, FALSE)
<1>1. PICK l \in Nat, z \in Nat, k \in Nat : l = Len(w) /\ z = Len(q) /\ k = Len(Frame(c))
  BY QueueFacts, FrameLength, CommandsAssumption DEF Strings, Frame
<1> DEFINE p == Append(q, c)
           v == w \o Frame(c)
           u == [i \in n .. z + 1 |-> IF i = z + 1 THEN l + k ELSE o[i]]
<1>2. /\ n \in 0 .. z /\ o \in [n .. z -> Nat] /\ o[n] = 0 /\ l = o[z]
      /\ \A i \in n + 1 .. z : o[i] = o[i - 1] + Len(Frame(q[i]))
      /\ \A i \in n .. z : \A h \in n .. i : o[h] <= o[i]
      /\ \A i \in n + 1 .. z : \A j \in 1 .. Len(Frame(q[i])) :
            o[i - 1] + j <= l => w[o[i - 1] + j] = Frame(q[i])[j]
  BY <1>1 DEF Lies
<1>3. Len(p) = z + 1 /\ (\A i \in 1 .. z : p[i] = q[i]) /\ p[z + 1] = c
  BY <1>1, QueueAppend
<1>4. /\ Len(v) = l + k
      /\ \A i \in 1 .. l : v[i] = w[i]
      /\ \A i \in 1 .. k : v[l + i] = Frame(c)[i]
  <2>1. Frame(c) \in Strings
    BY FrameLength, CommandsAssumption DEF Frame
  <2> QED
    BY <1>1, <2>1, StringConcat
<1> HIDE DEF p, v
<1>5. u \in [n .. z + 1 -> Nat] /\ u[n] = 0 /\ u[z + 1] = l + k /\ \A i \in n .. z : u[i] = o[i]
  BY <1>2
<1> HIDE DEF u
<1>6. \A i \in n + 1 .. z + 1 : u[i] = u[i - 1] + Len(Frame(p[i]))
  <2> TAKE i \in n + 1 .. z + 1
  <2>1. CASE i = z + 1
    <3>1. i - 1 = z /\ z \in n .. z /\ p[i] = c
      BY <1>2, <1>3, <2>1
    <3> QED
      BY <1>1, <1>2, <1>5, <2>1, <3>1
  <2>2. CASE i # z + 1
    <3>1. i \in n + 1 .. z /\ i \in n .. z /\ i - 1 \in n .. z /\ i \in 1 .. z
      BY <1>2, <2>2
    <3> QED
      BY <1>2, <1>3, <1>5, <3>1
  <2> QED
    BY <2>1, <2>2
<1>7. \A i \in n .. z + 1 : \A h \in n .. i : u[h] <= u[i]
  <2> SUFFICES ASSUME NEW i \in n .. z + 1, NEW h \in n .. i PROVE u[h] <= u[i]
    OBVIOUS
  <2>1. CASE h = z + 1
    BY <1>2, <1>5, <2>1
  <2>2. CASE h # z + 1 /\ i = z + 1
    <3>1. h \in n .. z /\ z \in n .. z /\ o[h] \in Nat
      BY <1>2, <2>2
    <3>2. o[h] <= l
      BY <1>2, <3>1
    <3> QED
      BY <1>5, <2>2, <3>1, <3>2
  <2>3. CASE h # z + 1 /\ i # z + 1
    <3>1. h \in n .. z /\ i \in n .. z
      BY <1>2, <2>3
    <3> QED
      BY <1>2, <1>5, <3>1
  <2> QED
    BY <2>1, <2>2, <2>3
<1>8. ASSUME NEW i \in n + 1 .. z + 1, NEW j \in 1 .. Len(Frame(p[i]))
      PROVE  v[u[i - 1] + j] = Frame(p[i])[j]
  <2>1. CASE i = z + 1
    <3>1. i - 1 = z /\ z \in n .. z /\ p[i] = c
      BY <1>2, <1>3, <2>1
    <3>2. u[i - 1] = l /\ j \in 1 .. k
      BY <1>1, <1>2, <1>5, <3>1
    <3> QED
      BY <1>4, <3>1, <3>2
  <2>2. CASE i # z + 1
    <3>1. i \in n + 1 .. z /\ i \in n .. z /\ i - 1 \in n .. z /\ i \in 1 .. z /\ z \in n .. z
      BY <1>2, <2>2
    <3>2. p[i] = q[i] /\ u[i - 1] = o[i - 1] /\ o[i] <= l
      BY <1>2, <1>3, <1>5, <3>1
    <3>3. PICK a \in Nat, m \in Nat : a = o[i - 1] /\ m = Len(Frame(q[i])) /\ o[i] = a + m
      <4>1. o[i - 1] \in Nat /\ o[i] = o[i - 1] + Len(Frame(q[i]))
        BY <1>2, <3>1
      <4>2. Len(Frame(q[i])) \in Nat
        BY <1>1, <3>1, QueueFacts
      <4> QED
        BY <4>1, <4>2
    <3>4. j \in 1 .. m /\ a + j \in 1 .. l
      <4>1. j \in 1 .. m
        BY <3>2, <3>3
      <4>2. a + m <= l
        BY <3>2, <3>3
      <4> QED
        BY <4>1, <4>2
    <3>5. w[a + j] = Frame(q[i])[j]
      <4>1. j \in 1 .. Len(Frame(q[i])) /\ o[i - 1] + j <= l
        BY <3>3, <3>4
      <4>2. w[o[i - 1] + j] = Frame(q[i])[j]
        BY <1>2, <3>1, <4>1
      <4> QED
        BY <3>3, <4>2
    <3> QED
      BY <1>4, <3>2, <3>3, <3>4, <3>5
  <2> QED
    BY <2>1, <2>2
<1>9. n \in 0 .. z + 1 /\ Len(v) = u[z + 1]
  BY <1>2, <1>4, <1>5
<1>10. Lies(v, p, n, u, FALSE)
  <2>1. Len(v) <= u[Len(p)] /\ Len(v) = u[Len(p)]
    <3>1. Len(p) = z + 1 /\ Len(v) = u[z + 1] /\ Len(v) \in Nat
      BY <1>3, <1>4, <1>9
    <3> QED
      BY <3>1
  <2> QED
    BY <1>3, <1>5, <1>6, <1>7, <1>8, <1>9, <2>1 DEF Lies
<1> QED
  BY <1>10 DEF p, v

(* The stream ends behind m bytes.                                          *)
LEMMA LiesCut ==
  ASSUME NEW w \in Strings, NEW q, Queue(q), NEW n, NEW o, Lies(w, q, n, o, FALSE),
         NEW m \in 0 .. Len(w)
  PROVE  Lies(SubSeq(w, 1, m), q, n, o, TRUE)
<1> DEFINE v == SubSeq(w, 1, m)
<1>1. PICK l \in Nat, z \in Nat : l = Len(w) /\ z = Len(q)
  BY QueueFacts DEF Strings
<1>2. Len(v) = m /\ m \in Nat /\ m <= l /\ \A i \in 1 .. m : v[i] = w[i]
  BY <1>1 DEF Strings
<1> HIDE DEF v
<1>3. /\ n \in 0 .. z /\ o \in [n .. z -> Nat] /\ o[n] = 0 /\ l = o[z]
      /\ \A i \in n + 1 .. z : o[i] = o[i - 1] + Len(Frame(q[i]))
      /\ \A i \in n .. z : \A h \in n .. i : o[h] <= o[i]
      /\ \A i \in n + 1 .. z : \A j \in 1 .. Len(Frame(q[i])) :
            o[i - 1] + j <= l => w[o[i - 1] + j] = Frame(q[i])[j]
  BY <1>1 DEF Lies
<1>4. ASSUME NEW i \in n + 1 .. z, NEW j \in 1 .. Len(Frame(q[i])), o[i - 1] + j <= m
      PROVE  v[o[i - 1] + j] = Frame(q[i])[j]
  <2>1. o[i - 1] \in Nat
    <3>1. i - 1 \in n .. z
      BY <1>3
    <3> QED
      BY <1>3, <3>1
  <2>2. PICK a \in Nat : a = o[i - 1]
    BY <2>1
  <2>3. j \in Nat /\ j >= 1
    <3>1. i \in 1 .. z
      BY <1>3
    <3> QED
      BY <1>1, <3>1, QueueFacts
  <2>4. a + j \in 1 .. m /\ a + j <= l
    BY <1>2, <1>4, <2>2, <2>3
  <2> QED
    BY <1>2, <1>3, <2>2, <2>4
<1>5. m <= o[z]
  BY <1>2, <1>3
<1>6. Lies(v, q, n, o, TRUE)
  BY <1>1, <1>2, <1>3, <1>4, <1>5 DEF Lies
<1> QED
  BY <1>6 DEF v

(* The first frame is taken off.                                            *)
LEMMA LiesRead ==
  ASSUME NEW w \in Strings, NEW q, Queue(q), NEW n, NEW o, NEW over \in BOOLEAN,
         Lies(w, q, n, o, over), n < Len(q), Len(Frame(q[n + 1])) <= Len(w)
  PROVE  \E u : Lies(SubSeq(w, Len(Frame(q[n + 1])) + 1, Len(w)), q, n + 1, u, over)
<1>1. PICK l \in Nat, z \in Nat : l = Len(w) /\ z = Len(q)
  BY QueueFacts DEF Strings
<1>2. /\ n \in 0 .. z /\ o \in [n .. z -> Nat] /\ o[n] = 0 /\ l <= o[z] /\ (~over => l = o[z])
      /\ \A i \in n + 1 .. z : o[i] = o[i - 1] + Len(Frame(q[i]))
      /\ \A i \in n .. z : \A h \in n .. i : o[h] <= o[i]
      /\ \A i \in n + 1 .. z : \A j \in 1 .. Len(Frame(q[i])) :
            o[i - 1] + j <= l => w[o[i - 1] + j] = Frame(q[i])[j]
  BY <1>1 DEF Lies
<1>3. n + 1 \in 1 .. z /\ n + 1 \in n .. z /\ n + 1 \in n + 1 .. z
  BY <1>1, <1>2
<1>4. PICK k \in Nat : k = Len(Frame(q[n + 1])) /\ k <= l
  BY <1>1, <1>3, QueueFacts
<1>5. o[n + 1] = k
  BY <1>2, <1>3, <1>4
<1> DEFINE v == SubSeq(w, k + 1, l)
           u == [i \in n + 1 .. z |-> o[i] - k]
<1>6. Len(v) = l - k /\ \A i \in 1 .. l - k : v[i] = w[k + i]
  <2>1. w \in Seq(Byte) /\ k + 1 \in 1 .. Len(w) + 1
    BY <1>1, <1>4 DEF Strings
  <2>2. /\ Len(SubSeq(w, k + 1, Len(w))) = Len(w) - k
        /\ \A i \in 1 .. Len(w) - k : SubSeq(w, k + 1, Len(w))[i] = w[k + i]
    BY <2>1
  <2> QED
    BY <1>1, <2>2, Zenon
<1> HIDE DEF v
<1>7. \A i \in n + 1 .. z : o[i] \in Nat /\ k <= o[i] /\ u[i] = o[i] - k
  <2> SUFFICES ASSUME NEW i \in n + 1 .. z PROVE o[i] \in Nat /\ k <= o[i]
    OBVIOUS
  <2>1. i \in n .. z /\ n + 1 \in n .. i
    BY <1>2
  <2> QED
    BY <1>2, <1>5, <2>1
<1>8. u \in [n + 1 .. z -> Nat]
  BY <1>7
<1> HIDE DEF u
<1>9. u[n + 1] = 0
  BY <1>3, <1>5, <1>7
<1>10. \A i \in (n + 1) + 1 .. z : u[i] = u[i - 1] + Len(Frame(q[i]))
  <2> TAKE i \in (n + 1) + 1 .. z
  <2>1. i \in n + 1 .. z /\ i - 1 \in n + 1 .. z /\ i \in 1 .. z
    BY <1>2
  <2>2. o[i] = o[i - 1] + Len(Frame(q[i])) /\ Len(Frame(q[i])) \in Nat
    BY <1>1, <1>2, <2>1, QueueFacts
  <2> QED
    BY <1>7, <2>1, <2>2
<1>11. \A i \in n + 1 .. z : \A h \in n + 1 .. i : u[h] <= u[i]
  <2> SUFFICES ASSUME NEW i \in n + 1 .. z, NEW h \in n + 1 .. i PROVE u[h] <= u[i]
    OBVIOUS
  <2>1. i \in n .. z /\ h \in n .. i /\ h \in n + 1 .. z
    BY <1>2
  <2>2. o[h] <= o[i]
    BY <1>2, <2>1
  <2> QED
    BY <1>7, <2>1, <2>2
<1>12. ASSUME NEW i \in (n + 1) + 1 .. z, NEW j \in 1 .. Len(Frame(q[i])), u[i - 1] + j <= l - k
       PROVE  v[u[i - 1] + j] = Frame(q[i])[j]
  <2>1. i \in n + 1 .. z /\ i - 1 \in n + 1 .. z /\ i \in 1 .. z
    BY <1>2
  <2>2. PICK a \in Nat : a = o[i - 1] /\ k <= a /\ u[i - 1] = a - k
    BY <1>7, <2>1
  <2>3. j \in Nat /\ j >= 1
    BY <1>1, <2>1, QueueFacts
  <2>4. a + j <= l /\ (a - k) + j \in 1 .. l - k /\ k + ((a - k) + j) = a + j
    BY <1>4, <1>12, <2>2, <2>3, SMTT(30)
  <2>5. w[a + j] = Frame(q[i])[j]
    BY <1>2, <2>1, <2>2, <2>4
  <2> QED
    BY <1>6, <2>2, <2>4, <2>5
<1>13. l - k <= u[z] /\ (~over => l - k = u[z])
  <2>1. z \in n + 1 .. z
    BY <1>3
  <2> QED
    <3>1. o[z] \in Nat /\ k <= o[z] /\ u[z] = o[z] - k
      BY <1>7, <2>1
    <3>2. l <= o[z] => l - k <= o[z] - k
      BY <3>1
    <3>3. l = o[z] => l - k = o[z] - k
      OBVIOUS
    <3> QED
      BY <1>2, <3>1, <3>2, <3>3, Zenon
<1>14. Lies(v, q, n + 1, u, over)
  <2>1. n + 1 \in 0 .. z
    BY <1>3
  <2> QED
    BY <1>1, <1>6, <1>8, <1>9, <1>10, <1>11, <1>12, <1>13, <2>1, ZenonT(30) DEF Lies
<1> QED
  BY <1>1, <1>4, <1>14 DEF v

(* What is left begins with the next frame.                                 *)
LEMMA LiesAgree ==
  ASSUME NEW w \in Strings, NEW q, Queue(q), NEW n, NEW o, NEW over, Lies(w, q, n, o, over)
  PROVE  /\ n \in 0 .. Len(q)
         /\ n = Len(q) => w = <<>>
         /\ n < Len(q) => n + 1 \in 1 .. Len(q) /\ Agree(w, Frame(q[n + 1]))
<1>1. PICK l \in Nat, z \in Nat : l = Len(w) /\ z = Len(q)
  BY QueueFacts DEF Strings
<1>2. /\ n \in 0 .. z /\ o[n] = 0 /\ l <= o[z]
      /\ \A i \in n + 1 .. z : \A j \in 1 .. Len(Frame(q[i])) :
            o[i - 1] + j <= l => w[o[i - 1] + j] = Frame(q[i])[j]
  BY <1>1 DEF Lies
<1>3. ASSUME n = z PROVE w = <<>>
  <2>1. Len(w) = 0 /\ w \in Seq(Byte)
    BY <1>1, <1>2, <1>3 DEF Strings
  <2> QED
    BY <2>1
<1>4. ASSUME n < z PROVE n + 1 \in 1 .. z /\ Agree(w, Frame(q[n + 1]))
  <2>1. n + 1 \in 1 .. z /\ n + 1 \in n + 1 .. z /\ (n + 1) - 1 = n
    BY <1>2, <1>4
  <2>2. Len(Frame(q[n + 1])) \in Nat
    BY <1>1, <2>1, QueueFacts
  <2>3. ASSUME NEW i \in 1 .. Len(Frame(q[n + 1])), i <= l PROVE w[i] = Frame(q[n + 1])[i]
    <3>1. 0 + i = i
      BY <2>2
    <3> QED
      BY <1>2, <2>1, <2>3, <3>1
  <2> QED
    BY <1>1, <2>1, <2>3 DEF Agree
<1> QED
  BY <1>1, <1>2, <1>3, <1>4

(* The strengthening: unless a command did not fit its frame, as many       *)
(* commands were read as the reader counts, the last of them is the one it  *)
(* has, and the frames of the others are on the wire, up to its cut.        *)
Synced ==
  FitUpTo(Min({nread, Len(sent)})) =>
    /\ nread <= Len(sent) /\ (nread > 0 => Same(sent[nread], cmd))
    /\ \E o : Lies(wire, sent, nread, o, cut)

StreamInv == TypeInv /\ Queue(sent) /\ Synced /\ OnlyCutsFail

LEMMA StreamInit == Init => StreamInv
<1> SUFFICES ASSUME Init PROVE StreamInv
  OBVIOUS
<1>1. TypeInv
  BY TypeInit
<1>2. Queue(sent)
  BY DEF Init, Queue
<1>3. Lies(wire, sent, nread, [i \in 0 .. 0 |-> 0], cut)
  BY DEF Init, Lies
<1>4. nread <= Len(sent) /\ ~(nread > 0)
  BY DEF Init
<1>5. Synced
  BY <1>3, <1>4 DEF Synced
<1>6. OnlyCutsFail
  BY DEF Init, OnlyCutsFail
<1> QED
  BY <1>1, <1>2, <1>5, <1>6 DEF StreamInv

(* What read makes of what is on the wire.                                  *)
LEMMA NextRead ==
  ASSUME StreamInv, FitUpTo(Min({nread, Len(sent)})),
         nread < Len(sent) => Fits(sent[nread + 1]), NEW r, r = ReadCommand(wire, ResetRequest(cmd))
  PROVE  /\ nread = Len(sent) => r.err = "short"
         /\ nread < Len(sent) => Result(sent[nread + 1], Frame(sent[nread + 1]), wire, r)
         /\ nread \in 0 .. Len(sent)
<1>1. PICK o : Lies(wire, sent, nread, o, cut)
  BY DEF StreamInv, Synced
<1>2. Queue(sent) /\ wire \in Strings
  BY DEF StreamInv, TypeInv
<1>3. /\ nread \in 0 .. Len(sent)
      /\ nread = Len(sent) => wire = <<>>
      /\ nread < Len(sent) =>
           nread + 1 \in 1 .. Len(sent) /\ Agree(wire, Frame(sent[nread + 1]))
  BY <1>1, <1>2, LiesAgree
<1>4. ASSUME nread = Len(sent) PROVE r.err = "short"
  <2>1. wire = <<>>
    BY <1>3, <1>4
  <2>2. r = Failed("short")
    BY <2>1 DEF ReadCommand
  <2> QED
    BY <2>2 DEF Failed
<1>5. ASSUME nread < Len(sent)
      PROVE  Result(sent[nread + 1], Frame(sent[nread + 1]), wire, r)
  <2>1. PICK c : c = sent[nread + 1]
    OBVIOUS
  <2>2. IsTyped(c) /\ WriteCommand(c).err = "none" /\ Fits(c) /\ Agree(wire, WriteCommand(c).bytes)
    BY <1>2, <1>3, <1>5, <2>1, QueueFacts DEF Frame
  <2>3. Result(c, WriteCommand(c).bytes, wire, r)
    BY <1>2, <2>2, ReadingUndoesWriting
  <2> QED
    BY <2>1, <2>3 DEF Frame
<1> QED
  BY <1>3, <1>4, <1>5

LEMMA SyncedStep == StreamInv /\ [Next]_vars => Synced' /\ Queue(sent)'
<1> SUFFICES ASSUME StreamInv, [Next]_vars PROVE Synced' /\ Queue(sent)'
  OBVIOUS
<1>1. /\ wire \in Strings /\ cut \in BOOLEAN /\ nread \in Nat /\ Queue(sent) /\ Len(sent) \in Nat
      /\ sent \in Seq(Commands) /\ Synced
  BY QueueFacts DEF StreamInv, TypeInv
<1>2. ASSUME NEW c \in Commands, Write(c) PROVE Synced' /\ Queue(sent)'
  <2>1. /\ ~cut /\ WriteCommand(c).err = "none" /\ wire' = wire \o Frame(c)
        /\ sent' = Append(sent, c) /\ UNCHANGED <<cut, cmd, nread>>
    BY <1>2 DEF Write, Frame
  <2>2. /\ Queue(sent') /\ Len(sent') = Len(sent) + 1
        /\ \A i \in 1 .. Len(sent) : sent'[i] = sent[i]
    BY <1>1, <2>1, QueueAppend
  <2>3. ASSUME FitUpTo(Min({nread, Len(sent)}))'
        PROVE  /\ nread <= Len(sent') /\ (nread > 0 => Same(sent'[nread], cmd))
               /\ \E o : Lies(wire', sent', nread, o, cut)
    <3>1. FitUpTo(Min({nread, Len(sent)}))
      <4>1. FitUpTo(Min({nread, Len(sent)}))'
        BY <2>3
      <4>2. \A i \in 1 .. Min({nread, Len(sent')}) : Fits(sent'[i])
        BY <2>1, <4>1 DEF FitUpTo
      <4>3. Min({nread, Len(sent)}) = (IF nread <= Len(sent) THEN nread ELSE Len(sent))
        BY <1>1, MinOfTwo
      <4>4. Min({nread, Len(sent')}) = (IF nread <= Len(sent') THEN nread ELSE Len(sent'))
        BY <1>1, <2>2, MinOfTwo
      <4>5. ASSUME NEW i \in 1 .. Min({nread, Len(sent)})
            PROVE  i \in 1 .. Min({nread, Len(sent')}) /\ i \in 1 .. Len(sent)
        BY <1>1, <2>2, <4>3, <4>4
      <4> QED
        BY <2>2, <4>2, <4>5 DEF FitUpTo
    <3>2. /\ nread <= Len(sent) /\ (nread > 0 => Same(sent[nread], cmd))
          /\ \E o : Lies(wire, sent, nread, o, cut)
      BY <1>1, <3>1 DEF Synced
    <3>3. cut = FALSE
      BY <1>1, <2>1
    <3>4. PICK o : Lies(wire, sent, nread, o, FALSE)
      BY <3>2, <3>3
    <3>5. \E u : Lies(wire', sent', nread, u, FALSE)
      BY <1>1, <2>1, <3>4, LiesWrite
    <3>6. nread > 0 => sent'[nread] = sent[nread]
      BY <1>1, <2>2, <3>2
    <3>7. nread <= Len(sent')
      BY <1>1, <2>2, <3>2
    <3> QED
      BY <3>2, <3>3, <3>5, <3>6, <3>7
  <2> QED
    BY <2>1, <2>2, <2>3 DEF Synced
<1>3. ASSUME NEW m \in 0 .. Len(wire), Cut(m) PROVE Synced' /\ Queue(sent)'
  <2>1. /\ ~cut /\ wire' = SubSeq(wire, 1, m) /\ cut' = TRUE /\ UNCHANGED <<sent, cmd, nread>>
    BY <1>3 DEF Cut
  <2>2. ASSUME FitUpTo(Min({nread, Len(sent)})) PROVE \E o : Lies(wire', sent, nread, o, TRUE)
    <3>1. cut = FALSE
      BY <1>1, <2>1
    <3>2. PICK o : Lies(wire, sent, nread, o, FALSE)
      BY <1>1, <2>2, <3>1 DEF Synced
    <3> QED
      BY <1>1, <2>1, <3>2, LiesCut
  <2>3. FitUpTo(Min({nread, Len(sent)}))' => FitUpTo(Min({nread, Len(sent)}))
    BY <2>1 DEF FitUpTo
  <2> QED
    BY <1>1, <2>1, <2>2, <2>3 DEF Synced
<1>4. CASE Read
  <2> DEFINE r == ReadCommand(wire, ResetRequest(cmd))
  <2>1. UNCHANGED <<cut, sent>>
    BY <1>4 DEF Read
  <2>2. CASE r.err # "none"
    <3>1. UNCHANGED <<cmd, nread, wire>>
      BY <1>4, <2>2 DEF Read
    <3> QED
      BY <1>1, <2>1, <3>1 DEF Synced, FitUpTo
  <2>3. CASE r.err = "none"
    <3>1. /\ cmd' = r.cmd /\ nread' = nread + 1
          /\ wire' = SubSeq(wire, r.used + 1, Len(wire))
      BY <1>4, <2>3 DEF Read
    <3>2. ASSUME FitUpTo(Min({nread, Len(sent)}))'
          PROVE  /\ nread + 1 <= Len(sent) /\ Same(sent[nread + 1], cmd')
                 /\ \E o : Lies(wire', sent, nread + 1, o, cut)
      <4>1. \A i \in 1 .. Min({nread + 1, Len(sent)}) : Fits(sent[i])
        BY <2>1, <3>1, <3>2 DEF FitUpTo
      <4>2. /\ Min({nread, Len(sent)}) = (IF nread <= Len(sent) THEN nread ELSE Len(sent))
            /\ Min({nread + 1, Len(sent)}) =
                 (IF nread + 1 <= Len(sent) THEN nread + 1 ELSE Len(sent))
        BY <1>1, MinOfTwo
      <4>3. FitUpTo(Min({nread, Len(sent)})) /\ (nread < Len(sent) => Fits(sent[nread + 1]))
        <5>1. \A i \in 1 .. Min({nread, Len(sent)}) : i \in 1 .. Min({nread + 1, Len(sent)})
          BY <1>1, <4>2
        <5>2. nread < Len(sent) => nread + 1 \in 1 .. Min({nread + 1, Len(sent)})
          BY <1>1, <4>2
        <5> QED
          BY <4>1, <5>1, <5>2 DEF FitUpTo
      <4>4. /\ nread = Len(sent) => r.err = "short"
            /\ nread < Len(sent) => Result(sent[nread + 1], Frame(sent[nread + 1]), wire, r)
            /\ nread \in 0 .. Len(sent)
        BY <4>3, NextRead
      <4> HIDE DEF r
      <4>5. nread < Len(sent)
        BY <1>1, <2>3, <4>4
      <4>6. Result(sent[nread + 1], Frame(sent[nread + 1]), wire, r)
        BY <4>4, <4>5
      <4>7. /\ ~(Len(wire) < Len(Frame(sent[nread + 1])))
            /\ r.used = Len(Frame(sent[nread + 1])) /\ Same(sent[nread + 1], r.cmd)
        BY <2>3, <4>6 DEF Result
      <4>8. Len(Frame(sent[nread + 1])) <= Len(wire)
        <5>1. nread + 1 \in 1 .. Len(sent) /\ Len(wire) \in Nat
          BY <1>1, <4>5 DEF Strings
        <5>2. Len(Frame(sent[nread + 1])) \in Nat
          BY <1>1, <5>1, QueueFacts
        <5> QED
          BY <4>7, <5>1, <5>2
      <4>9. PICK o : Lies(wire, sent, nread, o, cut)
        BY <1>1, <4>3 DEF Synced
      <4>10. \E u : Lies(wire', sent, nread + 1, u, cut)
        BY <1>1, <3>1, <4>5, <4>7, <4>8, <4>9, LiesRead
      <4>11. nread + 1 <= Len(sent)
        BY <1>1, <4>5
      <4> QED
        BY <3>1, <4>7, <4>10, <4>11
    <3> QED
      BY <1>1, <2>1, <3>1, <3>2 DEF Synced
  <2> QED
    BY <2>2, <2>3
<1>5. CASE UNCHANGED <<wire, cut, sent, cmd, nread>>
  BY <1>1, <1>5 DEF Synced, FitUpTo
<1> QED
  BY <1>2, <1>3, <1>4, <1>5 DEF Next, HandOver, Dispatch, Release, vars

LEMMA FailStep == StreamInv /\ [Next]_vars => OnlyCutsFail'
<1> SUFFICES ASSUME StreamInv, [Next]_vars, rerr' # "none", FitUpTo(Len(sent))'
             PROVE  /\ rerr' = "short" /\ cut'
                    /\ nread' < Len(sent') =>
                         Len(wire') < Len(WriteCommand(sent'[nread' + 1]).bytes)
  BY DEF OnlyCutsFail
<1>1. /\ wire \in Strings /\ nread \in Nat /\ Queue(sent) /\ Len(sent) \in Nat
      /\ sent \in Seq(Commands) /\ OnlyCutsFail
  BY QueueFacts DEF StreamInv, TypeInv
<1>2. ASSUME NEW c \in Commands, Write(c) PROVE FALSE
  <2>1. ~cut /\ sent' = Append(sent, c) /\ rerr' = rerr
    BY <1>2 DEF Write
  <2>2. Len(sent') = Len(sent) + 1 /\ \A i \in 1 .. Len(sent) : sent'[i] = sent[i]
    BY <1>1, <2>1
  <2>3. \A i \in 1 .. Len(sent') : Fits(sent'[i])
    BY DEF FitUpTo
  <2>4. \A i \in 1 .. Len(sent) : Fits(sent[i])
    BY <1>1, <2>2, <2>3
  <2> QED
    BY <1>1, <2>1, <2>4 DEF OnlyCutsFail, FitUpTo
<1>3. ASSUME NEW m \in 0 .. Len(wire), Cut(m) PROVE FALSE
  BY <1>3 DEF Cut
<1>4. CASE Read
  <2> DEFINE r == ReadCommand(wire, ResetRequest(cmd))
  <2>1. UNCHANGED <<cut, sent>> /\ rerr = "none" /\ (r.err = "short" => cut)
    BY <1>4 DEF Read
  <2>2. r.err # "none" /\ rerr' = r.err /\ UNCHANGED <<nread, wire>>
    BY <1>4 DEF Read
  <2>3. \A i \in 1 .. Len(sent) : Fits(sent[i])
    BY <2>1 DEF FitUpTo
  <2>4. FitUpTo(Min({nread, Len(sent)})) /\ (nread < Len(sent) => Fits(sent[nread + 1]))
    <3>1. Min({nread, Len(sent)}) = (IF nread <= Len(sent) THEN nread ELSE Len(sent))
      BY <1>1, MinOfTwo
    <3>2. \A i \in 1 .. Min({nread, Len(sent)}) : i \in 1 .. Len(sent)
      BY <1>1, <3>1
    <3>3. nread < Len(sent) => nread + 1 \in 1 .. Len(sent)
      BY <1>1
    <3> QED
      BY <2>3, <3>2, <3>3 DEF FitUpTo
  <2>5. /\ nread = Len(sent) => r.err = "short"
        /\ nread < Len(sent) => Result(sent[nread + 1], Frame(sent[nread + 1]), wire, r)
        /\ nread \in 0 .. Len(sent)
    BY <2>4, NextRead
  <2> HIDE DEF r
  <2>6. nread < Len(sent) => r.err = "short" /\ Len(wire) < Len(Frame(sent[nread + 1]))
    BY <2>2, <2>5 DEF Result
  <2>7. nread = Len(sent) \/ nread < Len(sent)
    BY <1>1, <2>5
  <2>8. r.err = "short"
    BY <2>5, <2>6, <2>7
  <2>9. cut
    BY <2>1, <2>8
  <2> QED
    BY <2>1, <2>2, <2>6, <2>8, <2>9 DEF Frame
<1>5. CASE UNCHANGED <<wire, cut, sent, nread, rerr>>
  BY <1>1, <1>5 DEF OnlyCutsFail, FitUpTo
<1> QED
  BY <1>2, <1>3, <1>4, <1>5 DEF Next, HandOver, Dispatch, Release, vars

LEMMA StreamInvHolds == Spec => []StreamInv
<1>1. StreamInv /\ [Next]_vars => StreamInv'
  <2>1. StreamInv => TypeInv
    BY DEF StreamInv
  <2> QED
    BY <2>1, TypeStep, SyncedStep, FailStep DEF StreamInv
<1> QED
  BY <1>1, StreamInit, PTL DEF Spec

(* Whatever commands follow each other, in whatever protocols, and wherever *)
(* the stream ends: the reader is at the command it counts, and has all of  *)
(* it and nothing of those before (command.go:204-224, 432-664, 667-1094).  *)
THEOREM InStepHolds == Spec => []InStep
<1>1. StreamInv => InStep
  BY DEF StreamInv, Synced, InStep
<1> QED
  BY <1>1, StreamInvHolds, PTL

(* No frame that was written is malformed to the reader, and none is taken  *)
(* before all of it is there (command.go:667-1094, fast_simplemap.go:       *)
(* 203-248).                                                                *)
THEOREM OnlyCutsFailHolds == Spec => []OnlyCutsFail
<1>1. StreamInv => OnlyCutsFail
  BY DEF StreamInv
<1> QED
  BY <1>1, StreamInvHolds, PTL

-----------------------------------------------------------------------------
(* Copies.                                                                  *)

(* What copy has of command c.                                              *)
Whole(c) ==
  /\ \A f \in Carried(c) \ {"connection"} : copy[f] = c[f]
  /\ SameHeaders(IF held.deep /\ ~IsTB(c) THEN c.headers ELSE NoHeaders, copy.headers)

CopyInv ==
  held # Nothing /\ FitUpTo(Min({held.frame, Len(sent)})) =>
    held.frame \in 1 .. Len(sent) /\ Whole(sent[held.frame])

(* Of the types, a copy needs these.                                        *)
Shapes ==
  /\ IsCommand(cmd) /\ IsCommand(copy)
  /\ sent \in Seq(Commands) /\ nread \in Nat /\ held.frame \in Nat

LEMMA TypeIsShapes == TypeInv => Shapes
<1> SUFFICES ASSUME TypeInv PROVE Shapes
  OBVIOUS
<1>1. held \in [frame : 0 .. nread, deep : BOOLEAN] /\ nread \in Nat
  BY DEF TypeInv
<1>2. held.frame \in 0 .. nread
  BY <1>1
<1> QED
  BY <1>1, <1>2 DEF TypeInv, Typed, Shapes

(* The fields that both kinds of copy take over.                            *)
LEMMA CopyFacts ==
  ASSUME NEW c, NEW d, IsCommand(c)
  PROVE  /\ IsCommand(CopyTo(c, d)) /\ IsCommand(ShallowCopyTo(c, d))
         /\ CopyTo(c, d).headers = c.headers /\ ShallowCopyTo(c, d).headers = d.headers
         /\ \A f \in FieldNames \ {"connection", "reserved", "headers"} :
               CopyTo(c, d)[f] = c[f] /\ ShallowCopyTo(c, d)[f] = c[f]
<1> DEFINE a == [c EXCEPT !.connection = d.connection]
           b == [a EXCEPT !.reserved = d.reserved]
           e == [b EXCEPT !.headers = d.headers]
<1>1. CopyTo(c, d) = b /\ ShallowCopyTo(c, d) = e
  BY DEF CopyTo, ShallowCopyTo
<1>2. /\ IsCommand(a)
      /\ \A f \in FieldNames : a[f] = IF f = "connection" THEN d.connection ELSE c[f]
  BY DEF IsCommand
<1> HIDE DEF a
<1>3. /\ IsCommand(b)
      /\ \A f \in FieldNames : b[f] = IF f = "reserved" THEN d.reserved ELSE a[f]
  BY <1>2 DEF IsCommand
<1> HIDE DEF b
<1>4. /\ IsCommand(e)
      /\ \A f \in FieldNames : e[f] = IF f = "headers" THEN d.headers ELSE b[f]
  BY <1>3 DEF IsCommand
<1> HIDE DEF e
<1>5. "headers" \in FieldNames
  BY ZeroIsCommand
<1> QED
  BY <1>1, <1>2, <1>3, <1>4, <1>5

(* What is copied from a reader in step is the last command read.           *)
LEMMA CopyMade ==
  ASSUME Shapes, InStep, nread > 0, FitUpTo(Min({nread, Len(sent)})),
         HandOver \/ Dispatch, NEW c, c = sent[nread]
  PROVE  nread \in 1 .. Len(sent) /\ Whole(c)'
<1>1. nread \in 1 .. Len(sent) /\ Same(c, cmd)
  BY DEF InStep, Shapes
<1>2. \A f \in Carried(c) \ {"connection"} : f \in FieldNames /\ cmd[f] = c[f]
  BY <1>1, CarriedFields DEF Same
<1>3. \A f \in Carried(c) \ {"connection"} : copy'[f] = c[f]
  BY <1>2, CopyFacts, CarriedFields DEF HandOver, Dispatch, Shapes
<1>4. SameHeaders(NoHeaders, NoHeaders)
  BY DEF SameHeaders
<1>5. CASE HandOver
  <2>1. held'.deep = TRUE /\ copy' = CopyTo(cmd, AcquireRequest(copy))
    BY <1>5 DEF HandOver
  <2>2. copy'.headers = cmd.headers
    BY <2>1, CopyFacts DEF Shapes
  <2>3. SameHeaders(IF ~IsTB(c) THEN c.headers ELSE NoHeaders, cmd.headers)
    <3>1. CASE IsTB(c)
      BY <1>1, <1>4, <3>1 DEF Same
    <3>2. CASE ~IsTB(c)
      BY <1>1, <3>2 DEF Same
    <3> QED
      BY <3>1, <3>2
  <2> QED
    BY <1>1, <1>3, <2>1, <2>2, <2>3 DEF Whole, SameHeaders
<1>6. CASE Dispatch
  <2>1. held'.deep = FALSE /\ copy' = ShallowCopyTo(cmd, Zero)
    BY <1>6 DEF Dispatch
  <2>2. copy'.headers = NoHeaders
    <3>1. Zero.headers = NoHeaders
      BY DEF Zero
    <3> QED
      BY <2>1, <3>1, CopyFacts DEF Shapes
  <2> QED
    BY <1>1, <1>3, <1>4, <2>1, <2>2 DEF Whole, SameHeaders
<1> QED
  BY <1>5, <1>6

(* Commands that are written later change nothing about those before.       *)
LEMMA FitsBefore ==
  ASSUME Shapes, NEW c \in Commands, sent' = Append(sent, c), NEW n \in Nat,
         FitUpTo(Min({n, Len(sent)}))'
  PROVE  FitUpTo(Min({n, Len(sent)})) /\ \A i \in 1 .. Len(sent) : sent'[i] = sent[i]
<1>1. /\ Len(sent) \in Nat /\ Len(sent') = Len(sent) + 1
      /\ \A i \in 1 .. Len(sent) : sent'[i] = sent[i]
  BY DEF Shapes
<1>2. \A i \in 1 .. Min({n, Len(sent')}) : Fits(sent'[i])
  BY DEF FitUpTo
<1>3. ASSUME NEW i \in 1 .. Min({n, Len(sent)})
      PROVE  i \in 1 .. Min({n, Len(sent')}) /\ i \in 1 .. Len(sent)
  BY <1>1, MinOfTwo
<1>4. \A i \in 1 .. Min({n, Len(sent)}) : Fits(sent[i])
  BY <1>1, <1>2, <1>3
<1> QED
  BY <1>1, <1>4 DEF FitUpTo

(* With the reader in step CopyInv is inductive.                            *)
LEMMA CopyStep == Shapes /\ InStep /\ CopyInv /\ [Next]_vars => CopyInv'
<1> SUFFICES ASSUME Shapes, InStep, CopyInv, [Next]_vars,
                    held' # Nothing, FitUpTo(Min({held.frame, Len(sent)}))'
             PROVE  held'.frame \in 1 .. Len(sent') /\ Whole(sent[held.frame])'
  BY DEF CopyInv, Nothing
<1>1. ASSUME NEW c \in Commands, Write(c)
      PROVE  held'.frame \in 1 .. Len(sent') /\ Whole(sent[held.frame])'
  <2>1. sent' = Append(sent, c) /\ UNCHANGED <<copy, held>>
    BY <1>1 DEF Write
  <2>2. held.frame \in Nat /\ FitUpTo(Min({held.frame, Len(sent)}))'
    BY DEF Shapes
  <2>3. FitUpTo(Min({held.frame, Len(sent)})) /\ \A i \in 1 .. Len(sent) : sent'[i] = sent[i]
    <3>1. PICK n \in Nat : n = held.frame
      BY <2>2
    <3>2. FitUpTo(Min({n, Len(sent)}))'
      BY <2>1, <3>1
    <3> QED
      BY <2>1, <3>1, <3>2, FitsBefore
  <2>4. held.frame \in 1 .. Len(sent) /\ Whole(sent[held.frame])
    BY <2>1, <2>3 DEF CopyInv
  <2>5. sent'[held'.frame] = sent[held.frame] /\ held'.frame \in 1 .. Len(sent')
    BY <2>1, <2>3, <2>4 DEF Shapes
  <2> QED
    BY <2>1, <2>4, <2>5 DEF Whole
<1>2. CASE UNCHANGED <<sent, copy, held>>
  <2>1. FitUpTo(Min({held.frame, Len(sent)}))
    BY <1>2 DEF FitUpTo
  <2> QED
    BY <1>2, <2>1 DEF CopyInv, Whole
<1>3. CASE HandOver \/ Dispatch
  <2>1. nread > 0 /\ held'.frame = nread /\ UNCHANGED sent
    BY <1>3 DEF HandOver, Dispatch
  <2>2. FitUpTo(Min({nread, Len(sent)}))
    BY <2>1 DEF FitUpTo
  <2>3. PICK c : c = sent[nread]
    OBVIOUS
  <2>4. nread \in 1 .. Len(sent) /\ Whole(c)'
    BY <1>3, <2>1, <2>2, <2>3, CopyMade
  <2>5. c = sent'[held'.frame]
    BY <2>1, <2>3
  <2> QED
    BY <2>1, <2>4, <2>5 DEF Whole
<1>4. CASE Release
  BY <1>4 DEF Release
<1> QED
  BY <1>1, <1>2, <1>3, <1>4 DEF Next, Cut, Read, vars

(* Whatever commands are written and however many: the request that a       *)
(* handler works on keeps all that was read, while the reader resets its    *)
(* command and reads on, and nothing of the pooled memory's former use      *)
(* shows (command.go:204-224, 263-301, server.go:310-312,                   *)
(* clientx_bolt.go:108-119).                                                *)
THEOREM CopyIsWholeHolds == Spec => []CopyIsWhole
<1>1. Init => CopyInv
  BY DEF Init, CopyInv
<1>2. TypeInv /\ InStep /\ CopyInv /\ [Next]_vars => CopyInv'
  BY TypeIsShapes, CopyStep
<1>3. CopyInv => CopyIsWhole
  BY DEF CopyInv, CopyIsWhole, Whole
<1> QED
  BY <1>1, <1>2, <1>3, TypeInvHolds, InStepHolds, PTL DEF Spec

=============================================================================
