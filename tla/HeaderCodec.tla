---------------------------- MODULE HeaderCodec ----------------------------
(***************************************************************************)
(* simplemap/buffer and the wire format of simplemap/fastsimplemap.        *)
(*                                                                         *)
(* A byte is a digit of base Base (256 in the code), so that the width of   *)
(* every number keeps its meaning: a uint16 is two digits, a uint32 four.   *)
(* The value of a header map is what it holds: the fields of the four       *)
(* special names, and kvs in order (its memory is FastSimpleMap's subject). *)
(***************************************************************************)
EXTENDS Integers, Sequences, SequencesExt

CONSTANT Base   \* the number of values of a byte

ASSUME BaseAssumption == Base \in Nat /\ Base > 14   \* command codes are bytes up to 14

Byte == 0 .. Base - 1
Uint16Max == Base * Base - 1
Uint32Max == Base * Base * Base * Base - 1

(* n >> 24, n >> 16, n >> 8 and n.                                          *)
Shifted(n) ==
  <<((n \div Base) \div Base) \div Base, (n \div Base) \div Base, n \div Base, n>>

(* Mutant: the first byte is not narrowed.                                  *)
PutWide(n, w) ==
  [i \in 1 .. w |-> IF i = 1 THEN Shifted(n)[5 - w] ELSE Shifted(n)[4 - w + i] % Base]

(* byte(n), binary.BigEndian.PutUint16 and PutUint32: n in w bytes,         *)
(* narrowed.                                                                *)
PutUint(n, w) == [i \in 1 .. w |-> Shifted(n)[4 - w + i] % Base]

(* A byte, binary.BigEndian.Uint16 and Uint32.                              *)
Uint(s) ==
  CASE Len(s) = 1 -> s[1]
    [] Len(s) = 2 -> s[1] * Base + s[2]
    [] Len(s) = 4 -> ((s[1] * Base + s[2]) * Base + s[3]) * Base + s[4]

(* Buffer.Check and Buffer.MustRef: n bytes from position p on.             *)
Check(data, p, n) == p + n <= Len(data)
Ref(data, p, n)   == SubSeq(data, p + 1, p + n)

MustPutUint32String(s) == PutUint(Len(s), 4) \o s

-----------------------------------------------------------------------------
(* The special names, in the order in which they are encoded.               *)
StrService       == <<1>>
StrHost          == <<2>>
StrContentType   == <<3>>
StrAuthorization == <<4>>
Special == <<StrService, StrHost, StrContentType, StrAuthorization>>

(* What a header map holds whose slices share no memory (AllClean of        *)
(* FastSimpleMap): kvs has no special name and no name twice, as set leaves *)
(* it.                                                                      *)
HeaderMaps ==
  {m \in [field : [1 .. 4 -> Seq(Byte)], kvs : Seq(Seq(Byte) \X Seq(Byte))] :
     \A i \in DOMAIN m.kvs :
        /\ ~Contains(Special, m.kvs[i][1])
        /\ \A j \in DOMAIN m.kvs : m.kvs[i][1] = m.kvs[j][1] => i = j}

NoHeaders == [field |-> [i \in 1 .. 4 |-> <<>>], kvs |-> <<>>]

(* The headers that Range, Encode and GetEncodeSize go through: a special   *)
(* name counts as absent when its value is empty, another one does not.     *)
Present(m, i) == IF m.field[i] = <<>> THEN <<>> ELSE <<<<Special[i], m.field[i]>>>>

Pairs(m) == Present(m, 1) \o Present(m, 2) \o Present(m, 3) \o Present(m, 4) \o m.kvs

(* The sum of a sequence of numbers.                                        *)
Sum(ns) ==
  LET sum[i \in 0 .. Len(ns)] == IF i = 0 THEN 0 ELSE sum[i - 1] + ns[i]
  IN  sum[Len(ns)]

(* Mutant: a header is counted without the length of its name.              *)
SizeOfValues(m) ==
  Sum([i \in 1 .. Len(Pairs(m)) |-> 4 + 4 + Len(Pairs(m)[i][2])])

GetEncodeSize(m) ==
  Sum([i \in 1 .. Len(Pairs(m)) |-> 4 + Len(Pairs(m)[i][1]) + 4 + Len(Pairs(m)[i][2])])

Encode(m) ==
  FlattenSeq([i \in 1 .. Len(Pairs(m)) |->
                MustPutUint32String(Pairs(m)[i][1]) \o MustPutUint32String(Pairs(m)[i][2])])

(* set: a special name's field, the first element with the name, or a new   *)
(* element.                                                                 *)
Set(m, k, v) ==
  LET hits == {i \in DOMAIN m.kvs : m.kvs[i][1] = k} IN
  IF Contains(Special, k)
  THEN [m EXCEPT !.field = [i \in 1 .. 4 |-> IF Special[i] = k THEN v ELSE @[i]]]
  ELSE IF hits = {} THEN [m EXCEPT !.kvs = Append(@, <<k, v>>)]
  ELSE [m EXCEPT !.kvs[Min(hits)][2] = v]

(* One round of the loop of Decode, which is at position pos of the data:   *)
(* one header is read, with Uint32String and Uint32, and set.  The length   *)
(* 2^32 - 1 stands for null.                                                *)
DecodeRound(data, d) ==
  LET klen  == Uint(Ref(data, d.pos, 4))
      key   == d.pos + 4
      value == key + klen + 4
      u32   == Uint(Ref(data, key + klen, 4))
      vlen  == IF u32 = Uint32Max THEN 0 ELSE u32
  IN  IF d.pos = Len(data) \/ ~d.ok THEN d
      ELSE IF ~Check(data, d.pos, 4) \/ ~Check(data, key, klen)
              \/ ~Check(data, key + klen, 4) \/ ~Check(data, value, vlen)
      THEN [d EXCEPT !.ok = FALSE]
      ELSE [ok |-> TRUE, pos |-> value + vlen,
            map |-> Set(d.map, Ref(data, key, klen), Ref(data, value, vlen))]

(* Decode sets the headers it reads in whatever the map m holds already.    *)
(* Every round but the last moves on, so that there are no more of them     *)
(* than bytes.                                                              *)
Decode(m, data) ==
  LET round[i \in 0 .. Len(data)] ==
        IF i = 0 THEN [ok |-> TRUE, pos |-> 0, map |-> m]
        ELSE DecodeRound(data, round[i - 1])
  IN  round[Len(data)]

=============================================================================
