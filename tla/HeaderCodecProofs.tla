------------------------- MODULE HeaderCodecProofs -------------------------
(***************************************************************************)
(* Decoding undoes encoding, for every header map: numbers come back from   *)
(* their bytes, the size that is announced is the size that is written, and *)
(* the map that Decode fills is the one that was encoded.                   *)
(***************************************************************************)
EXTENDS HeaderCodec, NaturalsInduction, WellFoundedInduction, TLAPS

(* The largest number that w bytes hold.                                    *)
Limit(w) == CASE w = 1 -> Base - 1 [] w = 2 -> Uint16Max [] w = 4 -> Uint32Max

Widths == {1, 2, 4}

-----------------------------------------------------------------------------
(* Induction over the naturals, for a set: tlapm cannot instantiate the     *)
(* library's rule, which takes a predicate.                                 *)
LEMMA SetInduction ==
  ASSUME NEW S, 0 \in S, \A n \in Nat : n \in S => n + 1 \in S
  PROVE  \A n \in Nat : n \in S
<1> DEFINE T == Nat \ S
           R == OpToRel(<, Nat)
<1>1. IsWellFoundedOn(R, Nat)
  BY NatLessThanWellFounded, Zenon
<1>2. \A x, y \in Nat : y < x => <<y, x>> \in R
  BY DEF OpToRel
<1> HIDE DEF R
<1> SUFFICES ASSUME T # {} PROVE FALSE
  OBVIOUS
<1>3. PICK x \in T : \A y \in T : <<y, x>> \notin R
  BY <1>1, WFMin
<1>4. x - 1 \in Nat /\ x - 1 < x
  OBVIOUS
<1>5. x - 1 \in S
  BY <1>2, <1>3, <1>4
<1> QED
  BY <1>4, <1>5

-----------------------------------------------------------------------------
(* Numbers and their bytes.                                                 *)

LEMMA ByteFacts == Byte = 0 .. Base - 1 /\ Byte \subseteq Nat /\ {0, 1, 2, 3, 4, 13} \subseteq Byte
BY BaseAssumption DEF Byte

LEMMA DivMod ==
  ASSUME NEW x \in Nat
  PROVE  x \div Base \in Nat /\ x % Base \in Byte /\ (x \div Base) * Base + (x % Base) = x
<1>1. Base \in Nat /\ Base > 0
  BY BaseAssumption
<1>2. x \div Base \in Nat /\ x % Base \in 0 .. Base - 1
  BY <1>1
<1>3. (x \div Base) * Base + (x % Base) = x
  BY <1>1
<1> QED
  BY <1>2, <1>3 DEF Byte

LEMMA DivLess ==
  ASSUME NEW x \in Nat, NEW y \in Nat, x < Base * y PROVE x \div Base < y
<1> DEFINE q == x \div Base
<1>1. q \in Nat /\ q * Base <= x
  <2>1. x % Base \in Nat
    BY DivMod, ByteFacts
  <2> QED
    BY <2>1, DivMod, BaseAssumption
<1> HIDE DEF q
<1>2. q * Base < Base * y
  BY <1>1, BaseAssumption
<1>3. ~(y <= q)
  <2> SUFFICES ASSUME y <= q PROVE FALSE
    OBVIOUS
  <2>1. PICK d \in Nat : q = y + d
    BY <1>1
  <2>2. q * Base = y * Base + d * Base /\ d * Base >= 0
    BY <2>1, BaseAssumption
  <2> QED
    BY <1>1, <1>2, <2>2, BaseAssumption
<1> QED
  BY <1>1, <1>3 DEF q

LEMMA Limits ==
  /\ Limit(1) = Base - 1 /\ Limit(2) = Uint16Max /\ Limit(4) = Uint32Max
  /\ Base - 1 \in Nat /\ Uint16Max \in Nat /\ Uint32Max \in Nat
  /\ Base - 1 < Uint16Max /\ Uint16Max < Uint32Max
<1>1. Base * Base \in Nat /\ Base * Base > Base
  BY BaseAssumption
<1>2. PICK x \in Nat : x = Base * Base
  BY <1>1
<1>3. x * x \in Nat /\ x * x > x
  BY <1>1, <1>2, BaseAssumption
<1>4. Base * Base * Base * Base = x * x
  BY <1>2, BaseAssumption
<1> QED
  BY <1>1, <1>2, <1>3, <1>4, BaseAssumption DEF Limit, Uint16Max, Uint32Max

(* What is written of a number.                                             *)
LEMMA PutFacts ==
  ASSUME NEW n \in Nat
  PROVE  /\ PutUint(n, 1) = <<n % Base>>
         /\ PutUint(n, 2) = <<(n \div Base) % Base, n % Base>>
         /\ PutUint(n, 4) = <<(((n \div Base) \div Base) \div Base) % Base,
                             ((n \div Base) \div Base) % Base,
                             (n \div Base) % Base, n % Base>>
         /\ \A w \in Widths : PutUint(n, w) \in Seq(Byte) /\ Len(PutUint(n, w)) = w
<1> DEFINE a == n \div Base
           b == a \div Base
           c == b \div Base
<1>1. a \in Nat /\ b \in Nat /\ c \in Nat
  BY DivMod
<1>2. n % Base \in Byte /\ a % Base \in Byte /\ b % Base \in Byte /\ c % Base \in Byte
  BY <1>1, DivMod
<1>3. /\ PutUint(n, 1) = [i \in 1 .. 1 |-> <<c, b, a, n>>[4 - 1 + i] % Base]
      /\ PutUint(n, 2) = [i \in 1 .. 2 |-> <<c, b, a, n>>[4 - 2 + i] % Base]
      /\ PutUint(n, 4) = [i \in 1 .. 4 |-> <<c, b, a, n>>[4 - 4 + i] % Base]
  BY DEF PutUint, Shifted
<1> HIDE DEF a, b, c
<1>4. PutUint(n, 1) = <<n % Base>>
  BY <1>3
<1>5. PutUint(n, 2) = <<a % Base, n % Base>>
  BY <1>3
<1>6. PutUint(n, 4) = <<c % Base, b % Base, a % Base, n % Base>>
  BY <1>3
<1> DEFINE one  == <<n % Base>>
           two  == <<a % Base, n % Base>>
           four == <<c % Base, b % Base, a % Base, n % Base>>
<1>7. /\ one \in Seq(Byte) /\ Len(one) = 1 /\ two \in Seq(Byte) /\ Len(two) = 2
      /\ four \in Seq(Byte) /\ Len(four) = 4
  BY <1>2
<1>8. \A w \in Widths : PutUint(n, w) \in Seq(Byte) /\ Len(PutUint(n, w)) = w
  BY <1>4, <1>5, <1>6, <1>7 DEF Widths
<1> QED
  BY <1>4, <1>5, <1>6, <1>8 DEF a, b, c

(* Any w bytes are a number.                                                *)
LEMMA UintRange ==
  ASSUME NEW s \in Seq(Byte)
  PROVE  \A w \in Widths : Len(s) = w => Uint(s) \in 0 .. Limit(w)
<1>0. \A i \in 1 .. Len(s) : s[i] \in Byte
  OBVIOUS
<1>1. ASSUME Len(s) = 1 PROVE Uint(s) \in 0 .. Limit(1)
  <2>1. s[1] \in Byte
    BY <1>0, <1>1
  <2> QED
    BY <1>1, <2>1, Limits, ByteFacts DEF Uint
<1>2. ASSUME Len(s) = 2 PROVE Uint(s) \in 0 .. Limit(2)
  <2>1. s[1] \in Byte /\ s[2] \in Byte
    BY <1>0, <1>2
  <2>2. PICK x \in Byte, y \in Byte : x = s[1] /\ y = s[2]
    BY <2>1
  <2>3. x \in 0 .. Base - 1 /\ y \in 0 .. Base - 1
    BY ByteFacts
  <2>4. x * Base \in 0 .. Base * Base - Base
    BY <2>3, BaseAssumption
  <2>5. x * Base + y \in 0 .. Base * Base - 1
    BY <2>3, <2>4, BaseAssumption
  <2> QED
    BY <1>2, <2>2, <2>5, Limits DEF Uint, Uint16Max
<1>3. ASSUME Len(s) = 4 PROVE Uint(s) \in 0 .. Limit(4)
  <2>1. s[1] \in Byte /\ s[2] \in Byte /\ s[3] \in Byte /\ s[4] \in Byte
    BY <1>0, <1>3
  <2>2. ASSUME NEW x \in Nat, NEW k \in Nat, x <= k - 1, NEW y \in 0 .. Base - 1
        PROVE  x * Base + y \in Nat /\ x * Base + y <= k * Base - 1
    <3>1. x * Base <= (k - 1) * Base
      BY <2>2, BaseAssumption
    <3>2. (k - 1) * Base = k * Base - Base
      BY BaseAssumption
    <3>3. x * Base \in Nat /\ k * Base \in Nat
      BY BaseAssumption
    <3> QED
      BY <3>1, <3>2, <3>3, BaseAssumption
  <2>3. PICK x \in Byte, y \in Byte, z \in Byte, u \in Byte :
          x = s[1] /\ y = s[2] /\ z = s[3] /\ u = s[4]
    BY <2>1
  <2>8. {x, y, z, u} \subseteq 0 .. Base - 1
    BY ByteFacts
  <2>4. x * Base + y \in Nat /\ x * Base + y <= Base * Base - 1
    BY <2>2, <2>8, BaseAssumption
  <2>5. Base * Base \in Nat /\ Base * Base * Base \in Nat
    BY BaseAssumption
  <2>6. (x * Base + y) * Base + z \in Nat /\ (x * Base + y) * Base + z <= Base * Base * Base - 1
    BY <2>2, <2>8, <2>4, <2>5
  <2>7. /\ ((x * Base + y) * Base + z) * Base + u \in Nat
        /\ ((x * Base + y) * Base + z) * Base + u <= Base * Base * Base * Base - 1
    BY <2>2, <2>8, <2>5, <2>6
  <2> QED
    BY <1>3, <2>3, <2>7, Limits DEF Uint, Uint32Max
<1> QED
  BY <1>1, <1>2, <1>3 DEF Widths

(* A number that its width can hold comes back.                             *)
LEMMA UintPut ==
  ASSUME NEW w \in Widths, NEW n \in 0 .. Limit(w)
  PROVE  Uint(PutUint(n, w)) = n
<1> DEFINE a == n \div Base
           b == a \div Base
           c == b \div Base
<1>1. n \in Nat /\ a \in Nat /\ b \in Nat /\ c \in Nat
  BY DivMod, Limits DEF Widths
<1>2. /\ a * Base + (n % Base) = n /\ b * Base + (a % Base) = a /\ c * Base + (b % Base) = b
      /\ a % Base \in Nat /\ b % Base \in Nat /\ c % Base \in Nat /\ n % Base \in Nat
  BY <1>1, DivMod, ByteFacts
<1>3. ASSUME NEW x \in Nat, x < Base PROVE x % Base = x
  BY <1>3, BaseAssumption
<1>4. CASE w = 1
  <2>1. n % Base = n
    BY <1>1, <1>3, <1>4, Limits, BaseAssumption
  <2> QED
    BY <1>1, <1>4, <2>1, PutFacts DEF Uint
<1>5. CASE w = 2
  <2>1. n < Base * Base
    BY <1>1, <1>5, Limits, BaseAssumption DEF Uint16Max
  <2>2. a < Base
    BY <1>1, <2>1, DivLess, BaseAssumption
  <2>3. a % Base = a
    BY <1>1, <2>2, <1>3
  <2>4. PutUint(n, w) = <<a % Base, n % Base>>
    BY <1>1, <1>5, PutFacts
  <2> HIDE DEF a
  <2> QED
    BY <1>1, <1>2, <2>3, <2>4 DEF Uint
<1>6. CASE w = 4
  <2>1. n < Base * (Base * (Base * Base))
    <3>1. Base * Base * Base * Base = Base * (Base * (Base * Base))
      BY BaseAssumption
    <3>2. n <= Uint32Max /\ Uint32Max \in Nat /\ Uint32Max + 1 = Base * Base * Base * Base
      BY <1>6, Limits, BaseAssumption DEF Uint32Max
    <3> QED
      BY <1>1, <3>1, <3>2
  <2>2. Base \in Nat /\ Base * Base \in Nat /\ Base * (Base * Base) \in Nat
    BY BaseAssumption
  <2>3. a < Base * (Base * Base)
    BY <1>1, <2>1, <2>2, DivLess
  <2>4. b < Base * Base
    BY <1>1, <2>3, <2>2, DivLess
  <2>5. c < Base
    BY <1>1, <2>4, <2>2, DivLess
  <2>6. c % Base = c
    BY <1>1, <2>5, <1>3
  <2>7. PutUint(n, w) = <<c % Base, b % Base, a % Base, n % Base>>
    BY <1>1, <1>6, PutFacts
  <2> HIDE DEF a, b, c
  <2>8. Uint(PutUint(n, w)) = ((c * Base + (b % Base)) * Base + (a % Base)) * Base + (n % Base)
    BY <1>1, <1>2, <2>6, <2>7 DEF Uint
  <2> QED
    BY <1>2, <2>8
<1> QED
  BY <1>4, <1>5, <1>6 DEF Widths

(* Uint of the bytes behind position q, where a number was put.             *)
LEMMA UintAt ==
  ASSUME NEW s \in Seq(Byte), NEW q \in Nat, NEW w \in Widths, q + w <= Len(s)
  PROVE  /\ Uint(SubSeq(s, q + 1, q + w)) \in 0 .. Limit(w)
         /\ \A n \in 0 .. Limit(w) :
               (\A j \in 1 .. w : s[q + j] = PutUint(n, w)[j]) =>
                  Uint(SubSeq(s, q + 1, q + w)) = n
<1> DEFINE t == SubSeq(s, q + 1, q + w)
<1>1. w \in Nat /\ w > 0
  BY DEF Widths
<1>2. t \in Seq(Byte) /\ Len(t) = w /\ \A j \in 1 .. w : t[j] = s[q + j]
  BY <1>1
<1> HIDE DEF t
<1>3. Uint(t) \in 0 .. Limit(w)
  BY <1>2, UintRange
<1>4. ASSUME NEW n \in 0 .. Limit(w), \A j \in 1 .. w : s[q + j] = PutUint(n, w)[j]
      PROVE  Uint(t) = n
  <2>1. n \in Nat
    BY Limits DEF Widths
  <2>2. PutUint(n, w) \in Seq(Byte) /\ Len(PutUint(n, w)) = w
    BY <2>1, PutFacts
  <2>3. t = PutUint(n, w)
    BY <1>2, <1>4, <2>2, SMTT(30)
  <2> QED
    BY <2>3, UintPut
<1> QED
  BY <1>3, <1>4 DEF t

-----------------------------------------------------------------------------
(* Sums and concatenations, which are recursive functions.                  *)

(* f holds the sums of the first n numbers and fewer.                       *)
Sums(ns, n, f) == f = [i \in 0 .. n |-> IF i = 0 THEN 0 ELSE f[i - 1] + ns[i]]

LEMMA SumsExist ==
  ASSUME NEW ns
  PROVE  \A n \in Nat : \E f : Sums(ns, n, f)
<1> DEFINE S == {n \in Nat : \E f : Sums(ns, n, f)}
<1>1. 0 \in S
  <2> DEFINE f == [i \in 0 .. 0 |-> 0]
  <2>1. f = [i \in 0 .. 0 |-> IF i = 0 THEN 0 ELSE f[i - 1] + ns[i]]
    OBVIOUS
  <2> QED
    BY <2>1 DEF Sums
<1>2. ASSUME NEW n \in Nat, n \in S PROVE n + 1 \in S
  <2>1. PICK g : Sums(ns, n, g)
    BY <1>2
  <2> DEFINE f == [i \in 0 .. n + 1 |-> IF i = n + 1 THEN g[n] + ns[n + 1] ELSE g[i]]
  <2>2. \A i \in 0 .. n + 1 : f[i] = IF i = 0 THEN 0 ELSE f[i - 1] + ns[i]
    <3> TAKE i \in 0 .. n + 1
    <3>1. CASE i = n + 1
      <4>1. f[i] = g[n] + ns[n + 1] /\ f[i - 1] = g[n] /\ i # 0
        BY <3>1
      <4> HIDE DEF f
      <4> QED
        BY <3>1, <4>1
    <3>2. CASE i # n + 1
      <4>1. f[i] = g[i] /\ (i # 0 => f[i - 1] = g[i - 1])
        BY <3>2
      <4>2. g[i] = IF i = 0 THEN 0 ELSE g[i - 1] + ns[i]
        BY <2>1, <3>2 DEF Sums
      <4> HIDE DEF f
      <4> QED
        BY <4>1, <4>2
    <3> QED
      BY <3>1, <3>2
  <2>3. f = [i \in 0 .. n + 1 |-> f[i]]
    OBVIOUS
  <2> HIDE DEF f
  <2>4. f = [i \in 0 .. n + 1 |-> IF i = 0 THEN 0 ELSE f[i - 1] + ns[i]]
    BY <2>2, <2>3
  <2> QED
    BY <2>4 DEF Sums
<1> HIDE DEF S
<1>3. \A n \in Nat : n \in S
  BY <1>1, <1>2, SetInduction
<1> QED
  BY <1>3 DEF S

(* The offsets behind the first i of the parts that have these lengths.     *)
Offsets(ns, o) ==
  /\ o \in [0 .. Len(ns) -> Nat] /\ o[0] = 0
  /\ \A i \in 1 .. Len(ns) : o[i] = o[i - 1] + ns[i]

LEMMA SumFacts ==
  ASSUME NEW ns \in Seq(Nat)
  PROVE  \E o : Offsets(ns, o) /\ Sum(ns) = o[Len(ns)]
<1> DEFINE n == Len(ns)
           o == CHOOSE f : Sums(ns, n, f)
<1>1. n \in Nat
  OBVIOUS
<1>2. Sum(ns) = o[n]
  BY DEF Sum, Sums
<1>3. Sums(ns, n, o)
  BY <1>1, SumsExist
<1> HIDE DEF o
<1>4. /\ DOMAIN o = 0 .. n /\ o[0] = 0 /\ \A i \in 1 .. n : o[i] = o[i - 1] + ns[i]
      /\ o = [i \in 0 .. n |-> o[i]]
  BY <1>1, <1>3 DEF Sums
<1> DEFINE S == {k \in Nat : k <= n => o[k] \in Nat}
<1>5. 0 \in S
  BY <1>4
<1>6. ASSUME NEW k \in Nat, k \in S PROVE k + 1 \in S
  <2> SUFFICES ASSUME k + 1 <= n PROVE o[k + 1] \in Nat
    OBVIOUS
  <2>1. o[k] \in Nat /\ k + 1 \in 1 .. n
    BY <1>1, <1>6
  <2>2. o[k + 1] = o[k] + ns[k + 1]
    BY <1>4, <2>1
  <2>3. ns[k + 1] \in Nat
    BY <2>1
  <2> QED
    BY <2>1, <2>2, <2>3
<1> HIDE DEF S
<1>7. \A k \in Nat : k \in S
  BY <1>5, <1>6, SetInduction
<1>8. o \in [0 .. n -> Nat]
  BY <1>1, <1>4, <1>7 DEF S
<1> QED
  BY <1>2, <1>4, <1>8 DEF Offsets

LEMMA OffsetsGrow ==
  ASSUME NEW ns \in Seq(Nat), NEW o, Offsets(ns, o)
  PROVE  \A i \in 0 .. Len(ns) : \A h \in 0 .. i : o[h] <= o[i]
<1> DEFINE n == Len(ns)
           S == {i \in Nat : i <= n => \A h \in 0 .. i : o[h] <= o[i]}
<1>1. n \in Nat /\ o \in [0 .. n -> Nat] /\ \A i \in 1 .. n : o[i] = o[i - 1] + ns[i]
  BY DEF Offsets
<1>2. 0 \in S
  BY <1>1
<1>3. ASSUME NEW i \in Nat, i \in S PROVE i + 1 \in S
  <2> SUFFICES ASSUME i + 1 <= n, NEW h \in 0 .. i + 1 PROVE o[h] <= o[i + 1]
    OBVIOUS
  <2>1. \A k \in 0 .. i : o[k] <= o[i]
    BY <1>1, <1>3
  <2>2. i + 1 \in 1 .. n /\ (i + 1) - 1 = i
    BY <1>1
  <2>3. o[i + 1] = o[i] + ns[i + 1] /\ ns[i + 1] \in Nat
    BY <1>1, <2>2
  <2>4. i \in 0 .. n /\ h \in 0 .. n /\ i + 1 \in 0 .. n
    BY <1>1
  <2>5. o[i] \in Nat /\ o[h] \in Nat /\ o[i + 1] \in Nat
    BY <1>1, <2>4
  <2> QED
    BY <2>1, <2>3, <2>5, SMTT(30)
<1> HIDE DEF S
<1>4. \A i \in Nat : i \in S
  BY <1>2, <1>3, SetInduction
<1> QED
  BY <1>4 DEF S


(* The first n parts and fewer, put together: the function in FlattenSeq.   *)
Flattens(ss, n, f) == f = [i \in 1 .. n |-> IF i = 1 THEN ss[i] ELSE f[i - 1] \o ss[i]]

LEMMA FlattensExist ==
  ASSUME NEW ss
  PROVE  \A n \in Nat : \E f : Flattens(ss, n, f)
<1> DEFINE S == {n \in Nat : \E f : Flattens(ss, n, f)}
<1>1. 0 \in S
  <2> DEFINE f == [i \in 1 .. 0 |-> 0]
  <2>1. f = [i \in 1 .. 0 |-> IF i = 1 THEN ss[i] ELSE f[i - 1] \o ss[i]]
    OBVIOUS
  <2> QED
    BY <2>1 DEF Flattens
<1>2. ASSUME NEW n \in Nat, n \in S PROVE n + 1 \in S
  <2>1. PICK g : Flattens(ss, n, g)
    BY <1>2
  <2> DEFINE last == IF n = 0 THEN ss[1] ELSE g[n] \o ss[n + 1]
             f == [i \in 1 .. n + 1 |-> IF i = n + 1 THEN last ELSE g[i]]
  <2>2. \A i \in 1 .. n + 1 : f[i] = IF i = 1 THEN ss[i] ELSE f[i - 1] \o ss[i]
    <3> TAKE i \in 1 .. n + 1
    <3>1. CASE i = n + 1
      <4>1. f[i] = last /\ (i # 1 => f[i - 1] = g[n])
        BY <3>1
      <4> HIDE DEF f
      <4> QED
        BY <3>1, <4>1
    <3>2. CASE i # n + 1
      <4>1. f[i] = g[i] /\ (i # 1 => f[i - 1] = g[i - 1])
        BY <3>2
      <4>2. i \in 1 .. n
        BY <3>2
      <4>3. g[i] = IF i = 1 THEN ss[i] ELSE g[i - 1] \o ss[i]
        BY <2>1, <4>2, Zenon DEF Flattens
      <4> HIDE DEF f
      <4> QED
        BY <4>1, <4>3
    <3> QED
      BY <3>1, <3>2
  <2>3. f = [i \in 1 .. n + 1 |-> f[i]]
    OBVIOUS
  <2> HIDE DEF f
  <2>4. f = [i \in 1 .. n + 1 |-> IF i = 1 THEN ss[i] ELSE f[i - 1] \o ss[i]]
    BY <2>2, <2>3
  <2>5. Flattens(ss, n + 1, f)
    BY <2>4, Zenon DEF Flattens
  <2> QED
    BY <2>5
<1> HIDE DEF S
<1>3. \A n \in Nat : n \in S
  BY <1>1, <1>2, SetInduction
<1> QED
  BY <1>3 DEF S

(* How long the parts are, and offsets o of parts that are sequences over V. *)
Sizes(ss) == [i \in 1 .. Len(ss) |-> Len(ss[i])]

Parts(V, ss, o) == ss \in Seq(Seq(V)) /\ Offsets(Sizes(ss), o)

LEMMA PartFacts ==
  ASSUME NEW V, NEW ss, NEW o, Parts(V, ss, o)
  PROVE  /\ Len(ss) \in Nat /\ o[0] = 0 /\ \A i \in 0 .. Len(ss) : o[i] \in Nat
         /\ \A i \in 1 .. Len(ss) : /\ ss[i] \in Seq(V) /\ Len(ss[i]) \in Nat
                                   /\ o[i] = o[i - 1] + Len(ss[i])
         /\ \A i \in 0 .. Len(ss) : \A h \in 0 .. i : o[h] <= o[i]
<1>1. ss \in Seq(Seq(V)) /\ Offsets(Sizes(ss), o)
  BY DEF Parts
<1>2. /\ Len(ss) \in Nat /\ \A i \in 1 .. Len(ss) : ss[i] \in Seq(V) /\ Len(ss[i]) \in Nat
  BY <1>1
<1>3. /\ Sizes(ss) \in Seq(Nat) /\ Len(Sizes(ss)) = Len(ss)
      /\ \A i \in 1 .. Len(ss) : Sizes(ss)[i] = Len(ss[i])
  BY <1>2 DEF Sizes
<1>4. \A i \in 0 .. Len(ss) : \A h \in 0 .. i : o[h] <= o[i]
  BY <1>1, <1>3, OffsetsGrow
<1>5. /\ o \in [0 .. Len(ss) -> Nat] /\ o[0] = 0
      /\ \A i \in 1 .. Len(ss) : o[i] = o[i - 1] + Sizes(ss)[i]
  BY <1>1, <1>3 DEF Offsets
<1>6. \A i \in 0 .. Len(ss) : o[i] \in Nat
  BY <1>2, <1>5
<1> QED
  BY <1>2, <1>3, <1>4, <1>5, <1>6

LEMMA ConcatAt ==
  ASSUME NEW V, NEW a \in Seq(V), NEW b \in Seq(V)
  PROVE  /\ a \o b \in Seq(V) /\ Len(a \o b) = Len(a) + Len(b)
         /\ \A k \in 1 .. Len(a) : (a \o b)[k] = a[k]
         /\ \A k \in 1 .. Len(b) : (a \o b)[Len(a) + k] = b[k]
OBVIOUS

(* The parts of a concatenation are found behind the parts before them.     *)
LEMMA FlattenAt ==
  ASSUME NEW V, NEW ss, NEW o, Parts(V, ss, o)
  PROVE  /\ FlattenSeq(ss) \in Seq(V) /\ Len(FlattenSeq(ss)) = o[Len(ss)]
         /\ \A h \in 1 .. Len(ss) : \A j \in 1 .. Len(ss[h]) :
               /\ o[h - 1] + j \in 1 .. o[Len(ss)]
               /\ FlattenSeq(ss)[o[h - 1] + j] = ss[h][j]
<1> DEFINE n == Len(ss)
           f == CHOOSE f : Flattens(ss, n, f)
           At(i) == /\ f[i] \in Seq(V) /\ Len(f[i]) = o[i]
                    /\ \A h \in 1 .. i : \A j \in 1 .. Len(ss[h]) :
                          f[i][o[h - 1] + j] = ss[h][j]
           S == {i \in Nat : i \in 1 .. n => At(i)}
<1>1. n \in Nat
  BY PartFacts
<1>2. n # 0 => FlattenSeq(ss) = f[n]
  BY DEF FlattenSeq, Flattens
<1>3. Flattens(ss, n, f)
  BY <1>1, FlattensExist
<1> HIDE DEF f
<1>4. \A i \in 1 .. n : f[i] = IF i = 1 THEN ss[i] ELSE f[i - 1] \o ss[i]
  BY <1>3 DEF Flattens
<1>5. \A i \in 1 .. n : ss[i] \in Seq(V) /\ Len(ss[i]) \in Nat
  BY PartFacts
<1>6. /\ o[0] = 0 /\ \A i \in 0 .. n : o[i] \in Nat
      /\ \A i \in 1 .. n : o[i] = o[i - 1] + Len(ss[i])
  BY PartFacts
<1>7. \A i \in 0 .. n : \A h \in 0 .. i : o[h] <= o[i]
  BY PartFacts
<1> HIDE DEF n
<1>8. 0 \in S
  OBVIOUS
<1>9. ASSUME NEW i \in Nat, i \in S PROVE i + 1 \in S
  <2> SUFFICES ASSUME i + 1 \in 1 .. n PROVE At(i + 1)
    OBVIOUS
  <2>1. CASE i = 0
    <3>1. 1 \in 1 .. n /\ f[1] = ss[1] /\ ss[1] \in Seq(V)
      BY <1>4, <1>5, <2>1
    <3>2. o[1] = o[0] + Len(ss[1]) /\ o[0] = 0 /\ Len(ss[1]) \in Nat
      BY <1>5, <1>6, <3>1
    <3>3. \A h \in 1 .. 1 : \A j \in 1 .. Len(ss[h]) : f[1][o[h - 1] + j] = ss[h][j]
      BY <3>1, <3>2
    <3> QED
      BY <2>1, <3>1, <3>2, <3>3
  <2>2. CASE i # 0
    <3> DEFINE a == f[i]
               b == ss[i + 1]
    <3>1. i \in 1 .. n /\ i + 1 \in 1 .. n /\ i \in 0 .. n /\ (i + 1) - 1 = i
      BY <1>1, <2>2
    <3>2. At(i)
      BY <1>9, <3>1
    <3>3. f[i + 1] = a \o b /\ b \in Seq(V) /\ Len(b) \in Nat /\ o[i + 1] = o[i] + Len(b)
      <4>1. (i + 1) # 1 /\ b \in Seq(V) /\ Len(b) \in Nat
        BY <1>5, <2>2, <3>1
      <4>2. f[i + 1] = a \o b
        BY <1>4, <3>1, <4>1
      <4>3. o[i + 1] = o[i] + Len(b)
        BY <1>6, <3>1
      <4> QED
        BY <4>1, <4>2, <4>3
    <3>4. o[i] \in Nat
      BY <1>6, <3>1
    <3>5. a \in Seq(V) /\ Len(a) = o[i]
      BY <3>2
    <3>6. \A h \in 1 .. i : \A j \in 1 .. Len(ss[h]) : a[o[h - 1] + j] = ss[h][j]
      BY <3>2
    <3> HIDE DEF a, b, At
    <3>7. /\ a \o b \in Seq(V) /\ Len(a \o b) = Len(a) + Len(b)
          /\ \A k \in 1 .. Len(a) : (a \o b)[k] = a[k]
          /\ \A k \in 1 .. Len(b) : (a \o b)[Len(a) + k] = b[k]
      BY <3>3, <3>5, ConcatAt, SMTT(30)
    <3>8. ASSUME NEW h \in 1 .. i + 1, NEW j \in 1 .. Len(ss[h])
          PROVE  f[i + 1][o[h - 1] + j] = ss[h][j]
      <4>1. CASE h = i + 1
        <5>1. h - 1 = i /\ ss[h] = b
          BY <4>1 DEF b
        <5>2. j \in 1 .. Len(b)
          BY <5>1
        <5> QED
          BY <3>3, <3>5, <3>7, <5>1, <5>2
      <4>2. CASE h # i + 1
        <5>1. h \in 1 .. i /\ h \in 1 .. n /\ h \in 0 .. i /\ h - 1 \in 0 .. n
          <6>1. i \in Nat /\ n \in Nat /\ i + 1 <= n /\ h \in Nat /\ 1 <= h /\ h <= i
            BY <1>1, <3>1, <4>2
          <6> QED
            BY <6>1
        <5>2. o[h] <= o[i] /\ o[h] = o[h - 1] + Len(ss[h]) /\ o[h - 1] \in Nat /\ Len(ss[h]) \in Nat
          BY <1>5, <1>6, <1>7, <3>1, <5>1, SMTT(30)
        <5>3. o[h - 1] + j \in 1 .. Len(a)
          <6>1. j \in Nat /\ 1 <= j /\ j <= Len(ss[h])
            BY <5>2
          <6> QED
            BY <3>4, <3>5, <5>2, <6>1, SMTT(30)
        <5>4. a[o[h - 1] + j] = ss[h][j]
          BY <3>6, <5>1
        <5> QED
          BY <3>3, <3>7, <5>3, <5>4
      <4> QED
        BY <4>1, <4>2
    <3> QED
      BY <3>3, <3>4, <3>5, <3>7, <3>8 DEF At
  <2> QED
    BY <2>1, <2>2
<1> HIDE DEF S
<1>10. \A i \in Nat : i \in S
  BY <1>8, <1>9, SetInduction
<1>11. CASE n = 0
  <2>1. ss \in Seq(Seq(V)) /\ Len(ss) = 0
    BY <1>11 DEF n, Parts
  <2>2. ss = <<>>
    BY <2>1
  <2>3. FlattenSeq(ss) = <<>>
    BY <2>1, <2>2 DEF FlattenSeq
  <2>4. <<>> \in Seq(V) /\ Len(<<>>) = 0
    OBVIOUS
  <2> QED
    BY <1>6, <2>1, <2>3, <2>4
<1>12. CASE n # 0
  <2>1. n \in 1 .. n
    BY <1>1, <1>12
  <2>2. At(n)
    BY <1>1, <1>10, <2>1 DEF S
  <2>3. ASSUME NEW h \in 1 .. n, NEW j \in 1 .. Len(ss[h])
        PROVE  o[h - 1] + j \in 1 .. o[n]
    <3>1. h \in 0 .. n /\ h - 1 \in 0 .. n /\ n \in 0 .. n
      BY <1>1
    <3>2. o[h] <= o[n] /\ o[h] = o[h - 1] + Len(ss[h])
      BY <1>6, <1>7, <3>1
    <3>3. o[h - 1] \in Nat /\ o[h] \in Nat /\ o[n] \in Nat /\ Len(ss[h]) \in Nat
      BY <1>5, <1>6, <3>1
    <3> QED
      BY <3>2, <3>3
  <2> QED
    BY <1>2, <1>12, <2>2, <2>3 DEF n
<1> QED
  BY <1>11, <1>12


-----------------------------------------------------------------------------
(* Headers and their encoding.                                              *)

Strings == Seq(Byte)

LEMMA StringConcat ==
  ASSUME NEW a \in Strings, NEW b \in Strings
  PROVE  /\ a \o b \in Strings /\ Len(a \o b) = Len(a) + Len(b)
         /\ \A k \in 1 .. Len(a) : (a \o b)[k] = a[k]
         /\ \A k \in 1 .. Len(b) : (a \o b)[Len(a) + k] = b[k]
         /\ Len(a) \in Nat /\ Len(b) \in Nat
BY DEF Strings

(* A header as Encode writes it.                                            *)
Header(kv) == MustPutUint32String(kv[1]) \o MustPutUint32String(kv[2])

(* Sequence e has the encoding of header kv behind position p.              *)
HeaderAt(e, p, kv) ==
  LET k == kv[1]
      v == kv[2]
      q == p + 4 + Len(k)
  IN  /\ q + 4 + Len(v) <= Len(e)
      /\ \A j \in 1 .. 4 : e[p + j] = PutUint(Len(k), 4)[j]
      /\ \A j \in 1 .. Len(k) : e[p + 4 + j] = k[j]
      /\ \A j \in 1 .. 4 : e[q + j] = PutUint(Len(v), 4)[j]
      /\ \A j \in 1 .. Len(v) : e[q + 4 + j] = v[j]

LEMMA StringFacts ==
  ASSUME NEW k \in Strings
  PROVE  /\ MustPutUint32String(k) \in Strings /\ Len(MustPutUint32String(k)) = 4 + Len(k)
         /\ \A j \in 1 .. 4 : MustPutUint32String(k)[j] = PutUint(Len(k), 4)[j]
         /\ \A j \in 1 .. Len(k) : MustPutUint32String(k)[4 + j] = k[j]
<1> DEFINE a == PutUint(Len(k), 4)
<1>1. Len(k) \in Nat
  BY DEF Strings
<1>2. a \in Strings /\ Len(a) = 4
  BY <1>1, PutFacts DEF Widths, Strings
<1> HIDE DEF a
<1>4. /\ a \o k \in Strings /\ Len(a \o k) = Len(a) + Len(k)
      /\ \A j \in 1 .. Len(a) : (a \o k)[j] = a[j]
      /\ \A j \in 1 .. Len(k) : (a \o k)[Len(a) + j] = k[j]
  BY <1>2, StringConcat
<1>5. MustPutUint32String(k) = a \o k
  BY DEF MustPutUint32String, a
<1> QED
  BY <1>2, <1>4, <1>5 DEF a

LEMMA HeaderFacts ==
  ASSUME NEW kv, kv[1] \in Strings, kv[2] \in Strings
  PROVE  /\ Header(kv) \in Strings /\ Len(Header(kv)) = 4 + Len(kv[1]) + 4 + Len(kv[2])
         /\ HeaderAt(Header(kv), 0, kv)
<1> DEFINE k == kv[1]
           v == kv[2]
           a == MustPutUint32String(k)
           b == MustPutUint32String(v)
<1>1. /\ k \in Strings /\ v \in Strings /\ Len(k) \in Nat /\ Len(v) \in Nat
  BY DEF Strings
<1> HIDE DEF k, v
<1>2. /\ a \in Strings /\ Len(a) = 4 + Len(k) /\ b \in Strings /\ Len(b) = 4 + Len(v)
      /\ \A j \in 1 .. 4 : a[j] = PutUint(Len(k), 4)[j]
      /\ \A j \in 1 .. Len(k) : a[4 + j] = k[j]
      /\ \A j \in 1 .. 4 : b[j] = PutUint(Len(v), 4)[j]
      /\ \A j \in 1 .. Len(v) : b[4 + j] = v[j]
  BY <1>1, StringFacts
<1> HIDE DEF a, b
<1>3. /\ a \o b \in Strings /\ Len(a \o b) = Len(a) + Len(b)
      /\ \A j \in 1 .. Len(a) : (a \o b)[j] = a[j]
      /\ \A j \in 1 .. Len(b) : (a \o b)[Len(a) + j] = b[j]
  BY <1>2, StringConcat
<1>4. Header(kv) = a \o b
  BY DEF Header, a, b, k, v
<1> DEFINE e == a \o b
<1>5. e \in Strings /\ Len(e) = 4 + Len(k) + 4 + Len(v)
  BY <1>1, <1>2, <1>3
<1>6. \A j \in 1 .. 4 : e[0 + j] = PutUint(Len(k), 4)[j]
  BY <1>1, <1>2, <1>3
<1>7. \A j \in 1 .. Len(k) : e[0 + 4 + j] = k[j]
  <2> TAKE j \in 1 .. Len(k)
  <2>1. 4 + j \in 1 .. Len(a)
    BY <1>1, <1>2
  <2> QED
    BY <1>2, <1>3, <2>1
<1>8. \A j \in 1 .. 4 : e[0 + 4 + Len(k) + j] = PutUint(Len(v), 4)[j]
  <2> TAKE j \in 1 .. 4
  <2>1. j \in 1 .. Len(b)
    BY <1>1, <1>2
  <2> QED
    BY <1>1, <1>2, <1>3, <2>1
<1>9. \A j \in 1 .. Len(v) : e[0 + 4 + Len(k) + 4 + j] = v[j]
  <2> TAKE j \in 1 .. Len(v)
  <2>1. 4 + j \in 1 .. Len(b) /\ Len(a) + (4 + j) = 0 + 4 + Len(k) + 4 + j
    BY <1>1, <1>2
  <2>2. e[Len(a) + (4 + j)] = b[4 + j]
    BY <1>3, <2>1
  <2> QED
    BY <1>2, <2>1, <2>2
<1> HIDE DEF e
<1>10. 0 + 4 + Len(k) + 4 + Len(v) <= Len(e)
  BY <1>1, <1>5
<1>11. HeaderAt(e, 0, kv)
  BY <1>6, <1>7, <1>8, <1>9, <1>10, Zenon DEF HeaderAt, k, v
<1> QED
  BY <1>4, <1>5, <1>11 DEF k, v, e


(* How many of the first h special names are present.                       *)
Rank(m, h) ==
  LET one(i) == IF m.field[i] = <<>> THEN 0 ELSE 1
  IN  CASE h = 0 -> 0 [] h = 1 -> one(1) [] h = 2 -> one(1) + one(2)
        [] h = 3 -> one(1) + one(2) + one(3) [] h = 4 -> one(1) + one(2) + one(3) + one(4)

LEMMA SpecialFacts ==
  /\ \A h \in 1 .. 4 : Special[h] \in Strings /\ Contains(Special, Special[h])
  /\ \A h, j \in 1 .. 4 : Special[h] = Special[j] => h = j
<1>1. Special = <<<<1>>, <<2>>, <<3>>, <<4>>>>
  BY DEF Special, StrService, StrHost, StrContentType, StrAuthorization
<1>2. <<1>> \in Seq(Byte) /\ <<2>> \in Seq(Byte) /\ <<3>> \in Seq(Byte) /\ <<4>> \in Seq(Byte)
  <2>1. 1 \in Byte /\ 2 \in Byte /\ 3 \in Byte /\ 4 \in Byte
    BY BaseAssumption DEF Byte
  <2> QED
    BY <2>1
<1>3. /\ Special[1] = <<1>> /\ Special[2] = <<2>> /\ Special[3] = <<3>> /\ Special[4] = <<4>>
      /\ Len(Special) = 4
  BY <1>1
<1>4. \A h \in 1 .. 4 : Special[h] \in Strings
  <2>1. /\ Special[1] \in Strings /\ Special[2] \in Strings
        /\ Special[3] \in Strings /\ Special[4] \in Strings
    BY <1>2, <1>3, Zenon DEF Strings
  <2> QED
    BY <2>1
<1>5. \A h \in 1 .. 4 : Contains(Special, Special[h])
  BY <1>3 DEF Contains
<1>6. \A h, j \in 1 .. 4 : Special[h] = Special[j] => h = j
  <2>1. \A h \in 1 .. 4 : Special[h][1] = h
    BY <1>3
  <2> QED
    BY <2>1
<1> QED
  BY <1>4, <1>5, <1>6

LEMMA HeaderMapFacts ==
  ASSUME NEW m \in HeaderMaps
  PROVE  /\ m = [field |-> m.field, kvs |-> m.kvs]
         /\ m.field \in [1 .. 4 -> Strings] /\ Len(m.kvs) \in Nat
         /\ m.kvs \in Seq(Strings \X Strings)
         /\ \A i \in 1 .. Len(m.kvs) :
               /\ m.kvs[i] = <<m.kvs[i][1], m.kvs[i][2]>>
               /\ m.kvs[i][1] \in Strings /\ m.kvs[i][2] \in Strings
               /\ ~Contains(Special, m.kvs[i][1])
               /\ \A j \in 1 .. Len(m.kvs) : m.kvs[i][1] = m.kvs[j][1] => i = j
<1>1. /\ m \in [field : [1 .. 4 -> Strings], kvs : Seq(Strings \X Strings)]
      /\ \A i \in DOMAIN m.kvs :
            /\ ~Contains(Special, m.kvs[i][1])
            /\ \A j \in DOMAIN m.kvs : m.kvs[i][1] = m.kvs[j][1] => i = j
  BY DEF HeaderMaps, Strings
<1>2. m.kvs \in Seq(Strings \X Strings) /\ m.field \in [1 .. 4 -> Strings]
  BY <1>1
<1>3. DOMAIN m.kvs = 1 .. Len(m.kvs) /\ Len(m.kvs) \in Nat
  BY <1>2
<1>4. \A i \in 1 .. Len(m.kvs) : m.kvs[i] \in Strings \X Strings
  BY <1>2
<1>5. \A i \in 1 .. Len(m.kvs) : /\ m.kvs[i] = <<m.kvs[i][1], m.kvs[i][2]>>
                                 /\ m.kvs[i][1] \in Strings /\ m.kvs[i][2] \in Strings
  BY <1>4
<1>6. m = [field |-> m.field, kvs |-> m.kvs]
  BY <1>1
<1> QED
  BY <1>1, <1>2, <1>3, <1>5, <1>6

LEMMA RankFacts ==
  ASSUME NEW m, m.field \in [1 .. 4 -> Strings]
  PROVE  /\ \A h \in 0 .. 4 : Rank(m, h) \in Nat /\ Rank(m, h) <= Rank(m, 4)
         /\ Rank(m, 0) = 0
         /\ \A h \in 1 .. 4 :
               /\ Rank(m, h) = Rank(m, h - 1) + Len(Present(m, h))
               /\ m.field[h] = <<>> => Rank(m, h) = Rank(m, h - 1)
               /\ m.field[h] # <<>> => Rank(m, h) = Rank(m, h - 1) + 1
         /\ \A h, j \in 1 .. 4 : m.field[h] # <<>> /\ m.field[j] # <<>> /\ Rank(m, h) = Rank(m, j)
                                   => h = j
         /\ \A i \in 1 .. Rank(m, 4) : \E h \in 1 .. 4 : m.field[h] # <<>> /\ Rank(m, h) = i
<1> DEFINE one(i) == IF m.field[i] = <<>> THEN 0 ELSE 1
<1>1. /\ Rank(m, 0) = 0 /\ Rank(m, 1) = one(1) /\ Rank(m, 2) = one(1) + one(2)
      /\ Rank(m, 3) = one(1) + one(2) + one(3)
      /\ Rank(m, 4) = one(1) + one(2) + one(3) + one(4)
  BY DEF Rank
<1>2. \A h \in 1 .. 4 : one(h) \in {0, 1}
  OBVIOUS
<1>3. \A h \in 1 .. 4 : Len(Present(m, h)) = one(h)
  BY DEF Present
<1>4. \A h \in 0 .. 4 : Rank(m, h) \in Nat /\ Rank(m, h) <= Rank(m, 4)
  BY <1>1, <1>2
<1>5. \A h \in 1 .. 4 : Rank(m, h) = Rank(m, h - 1) + one(h)
  BY <1>1, <1>2
<1>6. \A h, j \in 1 .. 4 : one(h) = 1 /\ one(j) = 1 /\ Rank(m, h) = Rank(m, j) => h = j
  BY <1>1, <1>2
<1>7. \A i \in 1 .. Rank(m, 4) : \E h \in 1 .. 4 : one(h) = 1 /\ Rank(m, h) = i
  BY <1>1, <1>2
<1>8. \A h \in 1 .. 4 : Rank(m, h - 1) \in Nat
  BY <1>4
<1>9. \A h \in 1 .. 4 : /\ m.field[h] = <<>> => one(h) = 0
                        /\ m.field[h] # <<>> => one(h) = 1
  OBVIOUS
<1> HIDE DEF one
<1>10. \A h \in 1 .. 4 :
          /\ Rank(m, h) = Rank(m, h - 1) + Len(Present(m, h))
          /\ m.field[h] = <<>> => Rank(m, h) = Rank(m, h - 1)
          /\ m.field[h] # <<>> => Rank(m, h) = Rank(m, h - 1) + 1
  <2> TAKE h \in 1 .. 4
  <2>1. Rank(m, h) = Rank(m, h - 1) + one(h) /\ Rank(m, h - 1) \in Nat
    BY <1>5, <1>8
  <2>2. Len(Present(m, h)) = one(h)
    BY <1>3
  <2>3. CASE m.field[h] = <<>>
    <3>1. one(h) = 0
      BY <1>9, <2>3
    <3> QED
      BY <2>1, <2>2, <2>3, <3>1
  <2>4. CASE m.field[h] # <<>>
    <3>1. one(h) = 1
      BY <1>9, <2>4
    <3> QED
      BY <2>1, <2>2, <2>4, <3>1
  <2> QED
    BY <2>3, <2>4
<1>11. \A h, j \in 1 .. 4 :
          m.field[h] # <<>> /\ m.field[j] # <<>> /\ Rank(m, h) = Rank(m, j) => h = j
  BY <1>6, <1>9
<1>12. \A i \in 1 .. Rank(m, 4) : \E h \in 1 .. 4 : m.field[h] # <<>> /\ Rank(m, h) = i
  <2> TAKE i \in 1 .. Rank(m, 4)
  <2>1. PICK h \in 1 .. 4 : one(h) = 1 /\ Rank(m, h) = i
    BY <1>7
  <2>2. m.field[h] # <<>>
    BY <1>9, <2>1
  <2> QED
    BY <2>1, <2>2
<1> QED
  BY <1>1, <1>4, <1>10, <1>11, <1>12

(* Sequences of headers.                                                    *)
Lists == Seq(Strings \X Strings)

LEMMA ListConcat ==
  ASSUME NEW a \in Lists, NEW b \in Lists
  PROVE  /\ a \o b \in Lists /\ Len(a \o b) = Len(a) + Len(b)
         /\ Len(a) \in Nat /\ Len(b) \in Nat
         /\ \A k \in 1 .. Len(a) : (a \o b)[k] = a[k]
         /\ \A k \in 1 .. Len(b) : (a \o b)[Len(a) + k] = b[k]
BY ConcatAt DEF Lists

(* Where the headers stand in Pairs.                                        *)
LEMMA PairFacts ==
  ASSUME NEW m \in HeaderMaps
  PROVE  /\ Pairs(m) \in Lists /\ Len(Pairs(m)) = Rank(m, 4) + Len(m.kvs)
         /\ \A h \in 1 .. 4 : m.field[h] # <<>> =>
               Pairs(m)[Rank(m, h)] = <<Special[h], m.field[h]>>
         /\ \A j \in 1 .. Len(m.kvs) : Pairs(m)[Rank(m, 4) + j] = m.kvs[j]
<1> DEFINE p(h) == Present(m, h)
           a == p(1) \o p(2)
           b == a \o p(3)
           c == b \o p(4)
           d == c \o m.kvs
<1>1. m.field \in [1 .. 4 -> Strings] /\ m.kvs \in Lists
  BY HeaderMapFacts DEF Lists
<1>2. \A h \in 1 .. 4 : Special[h] \in Strings /\ m.field[h] \in Strings
  BY <1>1, SpecialFacts
<1>3. \A h \in 1 .. 4 : /\ p(h) \in Lists
                        /\ m.field[h] # <<>> => /\ Len(p(h)) = 1
                                                /\ p(h)[1] = <<Special[h], m.field[h]>>
  <2> TAKE h \in 1 .. 4
  <2>1. <<Special[h], m.field[h]>> \in Strings \X Strings
    BY <1>2
  <2> QED
    BY <2>1 DEF Present, Lists
<1>4. Pairs(m) = d
  BY DEF Pairs
<1> HIDE DEF p
<1>5. p(1) \in Lists /\ p(2) \in Lists /\ p(3) \in Lists /\ p(4) \in Lists
  BY <1>3
<1>6. /\ a \in Lists /\ Len(a) = Len(p(1)) + Len(p(2))
      /\ \A k \in 1 .. Len(p(1)) : a[k] = p(1)[k]
      /\ \A k \in 1 .. Len(p(2)) : a[Len(p(1)) + k] = p(2)[k]
  BY <1>5, ListConcat
<1> HIDE DEF a
<1>7. /\ b \in Lists /\ Len(b) = Len(a) + Len(p(3))
      /\ \A k \in 1 .. Len(a) : b[k] = a[k]
      /\ \A k \in 1 .. Len(p(3)) : b[Len(a) + k] = p(3)[k]
  BY <1>5, <1>6, ListConcat
<1> HIDE DEF b
<1>8. /\ c \in Lists /\ Len(c) = Len(b) + Len(p(4))
      /\ \A k \in 1 .. Len(b) : c[k] = b[k]
      /\ \A k \in 1 .. Len(p(4)) : c[Len(b) + k] = p(4)[k]
  BY <1>5, <1>7, ListConcat
<1> HIDE DEF c
<1>9. /\ d \in Lists /\ Len(d) = Len(c) + Len(m.kvs)
      /\ \A k \in 1 .. Len(c) : d[k] = c[k]
      /\ \A k \in 1 .. Len(m.kvs) : d[Len(c) + k] = m.kvs[k]
  BY <1>1, <1>8, ListConcat
<1> HIDE DEF d
<1>10. /\ Len(p(1)) \in Nat /\ Len(p(2)) \in Nat /\ Len(p(3)) \in Nat /\ Len(p(4)) \in Nat
       /\ Len(a) \in Nat /\ Len(b) \in Nat /\ Len(c) \in Nat
  BY <1>5, <1>6, <1>7, <1>8, ListConcat
<1>11. /\ Rank(m, 0) = 0 /\ Rank(m, 1) = Len(p(1)) /\ Rank(m, 2) = Len(a) /\ Rank(m, 3) = Len(b)
       /\ Rank(m, 4) = Len(c)
  <2>1. Rank(m, 0) = 0 /\ \A h \in 1 .. 4 : Rank(m, h) = Rank(m, h - 1) + Len(p(h))
    BY <1>1, RankFacts DEF p
  <2>2. /\ Rank(m, 1) = Rank(m, 1 - 1) + Len(p(1)) /\ Rank(m, 2) = Rank(m, 2 - 1) + Len(p(2))
        /\ Rank(m, 3) = Rank(m, 3 - 1) + Len(p(3)) /\ Rank(m, 4) = Rank(m, 4 - 1) + Len(p(4))
    BY <2>1
  <2> QED
    BY <1>6, <1>7, <1>8, <1>10, <2>1, <2>2
<1>12. /\ \A k \in 1 .. Len(b) : d[k] = b[k]
       /\ \A k \in 1 .. Len(a) : d[k] = a[k]
       /\ \A k \in 1 .. Len(p(1)) : d[k] = p(1)[k]
  <2>1. \A k \in 1 .. Len(b) : k \in 1 .. Len(c)
    BY <1>8, <1>10
  <2>2. \A k \in 1 .. Len(a) : k \in 1 .. Len(b)
    BY <1>7, <1>10
  <2>3. \A k \in 1 .. Len(p(1)) : k \in 1 .. Len(a)
    BY <1>6, <1>10
  <2>4. \A k \in 1 .. Len(b) : d[k] = b[k]
    BY <1>8, <1>9, <2>1
  <2>5. \A k \in 1 .. Len(a) : d[k] = a[k]
    BY <1>7, <2>2, <2>4
  <2> QED
    BY <1>6, <2>3, <2>4, <2>5
<1>13. \A h \in 1 .. 4 : Len(p(h)) = 1 => d[Rank(m, h)] = p(h)[1]
  <2>1. Len(p(1)) = 1 => d[Rank(m, 1)] = p(1)[1]
    BY <1>11, <1>12
  <2>2. ASSUME Len(p(2)) = 1 PROVE d[Rank(m, 2)] = p(2)[1]
    <3>0. Len(a) = Len(p(1)) + 1 /\ Len(p(1)) \in Nat
      BY <1>6, <1>10, <2>2, Zenon
    <3>1. Len(p(1)) + 1 \in 1 .. Len(a) /\ Len(p(1)) + 1 = Len(a)
      BY <3>0
    <3>2. a[Len(p(1)) + 1] = p(2)[1]
      BY <1>6, <2>2
    <3> QED
      BY <1>11, <1>12, <3>1, <3>2
  <2>3. ASSUME Len(p(3)) = 1 PROVE d[Rank(m, 3)] = p(3)[1]
    <3>0. Len(b) = Len(a) + 1 /\ Len(a) \in Nat
      BY <1>7, <1>10, <2>3, Zenon
    <3>1. Len(a) + 1 \in 1 .. Len(b) /\ Len(a) + 1 = Len(b)
      BY <3>0
    <3>2. b[Len(a) + 1] = p(3)[1]
      BY <1>7, <2>3
    <3> QED
      BY <1>11, <1>12, <3>1, <3>2
  <2>4. ASSUME Len(p(4)) = 1 PROVE d[Rank(m, 4)] = p(4)[1]
    <3>0. Len(c) = Len(b) + 1 /\ Len(b) \in Nat
      BY <1>8, <1>10, <2>4, Zenon
    <3>1. Len(b) + 1 \in 1 .. Len(c) /\ Len(b) + 1 = Len(c)
      BY <3>0
    <3>2. c[Len(b) + 1] = p(4)[1]
      BY <1>8, <2>4
    <3> QED
      BY <1>9, <1>11, <3>1, <3>2
  <2> QED
    BY <2>1, <2>2, <2>3, <2>4
<1> QED
  BY <1>3, <1>4, <1>9, <1>11, <1>13


(* Where a header stands in bytes of which a part is its encoding.          *)
LEMMA HeaderMoved ==
  ASSUME NEW e, NEW p \in Nat, NEW kv, kv[1] \in Strings, kv[2] \in Strings,
         Len(e) \in Nat, p + Len(Header(kv)) <= Len(e),
         \A j \in 1 .. Len(Header(kv)) : e[p + j] = Header(kv)[j]
  PROVE  HeaderAt(e, p, kv)
<1> DEFINE k == kv[1]
           v == kv[2]
           h == Header(kv)
           r == Len(k)
           l == Len(v)
<1>1. r \in Nat /\ l \in Nat
  BY DEF Strings
<1>2. Len(h) = 4 + r + 4 + l
  BY HeaderFacts
<1>3. HeaderAt(h, 0, kv)
  BY HeaderFacts
<1>4. /\ \A j \in 1 .. 4 : h[0 + j] = PutUint(r, 4)[j]
      /\ \A j \in 1 .. r : h[0 + 4 + j] = k[j]
      /\ \A j \in 1 .. 4 : h[0 + 4 + r + j] = PutUint(l, 4)[j]
      /\ \A j \in 1 .. l : h[0 + 4 + r + 4 + j] = v[j]
  BY <1>3, Zenon DEF HeaderAt
<1>5. /\ p + Len(h) <= Len(e)
      /\ \A j \in 1 .. Len(h) : e[p + j] = h[j]
  OBVIOUS
<1> HIDE DEF k, v, h, r, l
<1>6. p + 4 + r + 4 + l <= Len(e)
  BY <1>1, <1>2, <1>5
<1>7. \A j \in 1 .. 4 : e[p + j] = PutUint(r, 4)[j]
  <2> TAKE j \in 1 .. 4
  <2>1. j \in 1 .. Len(h) /\ 0 + j = j
    BY <1>1, <1>2
  <2> QED
    BY <1>4, <1>5, <2>1
<1>8. \A j \in 1 .. r : e[p + 4 + j] = k[j]
  <2> TAKE j \in 1 .. r
  <2>1. 4 + j \in 1 .. Len(h) /\ 0 + 4 + j = 4 + j /\ p + (4 + j) = p + 4 + j
    BY <1>1, <1>2
  <2>2. e[p + (4 + j)] = h[4 + j] /\ h[0 + 4 + j] = k[j]
    BY <1>4, <1>5, <2>1
  <2> QED
    BY <2>1, <2>2
<1>9. \A j \in 1 .. 4 : e[p + 4 + r + j] = PutUint(l, 4)[j]
  <2> TAKE j \in 1 .. 4
  <2>1. 4 + r + j \in 1 .. Len(h) /\ 0 + 4 + r + j = 4 + r + j /\ p + (4 + r + j) = p + 4 + r + j
    BY <1>1, <1>2
  <2>2. e[p + (4 + r + j)] = h[4 + r + j] /\ h[0 + 4 + r + j] = PutUint(l, 4)[j]
    BY <1>4, <1>5, <2>1
  <2> QED
    BY <2>1, <2>2
<1>10. \A j \in 1 .. l : e[p + 4 + r + 4 + j] = v[j]
  <2> TAKE j \in 1 .. l
  <2>1. /\ 4 + r + 4 + j \in 1 .. Len(h) /\ 0 + 4 + r + 4 + j = 4 + r + 4 + j
        /\ p + (4 + r + 4 + j) = p + 4 + r + 4 + j
    BY <1>1, <1>2
  <2>2. e[p + (4 + r + 4 + j)] = h[4 + r + 4 + j] /\ h[0 + 4 + r + 4 + j] = v[j]
    BY <1>4, <1>5, <2>1
  <2> QED
    BY <2>1, <2>2
<1> QED
  BY <1>6, <1>7, <1>8, <1>9, <1>10, Zenon DEF HeaderAt, k, v, r, l

(* What a header takes of the bytes.                                        *)
Taken(kv) == 4 + Len(kv[1]) + 4 + Len(kv[2])

LEMMA TakenFacts ==
  ASSUME NEW kv, kv[1] \in Strings, kv[2] \in Strings
  PROVE  Taken(kv) \in Nat /\ Taken(kv) >= 8
<1>1. PICK a \in Strings, b \in Strings : a = kv[1] /\ b = kv[2]
  OBVIOUS
<1>2. Len(a) \in Nat /\ Len(b) \in Nat
  BY DEF Strings
<1>3. Taken(kv) = 4 + Len(a) + 4 + Len(b)
  BY <1>1, Zenon DEF Taken
<1> QED
  BY <1>2, <1>3

(* Offsets o at which the encoding e of header map m has its headers.       *)
Encoded(m, e, o) ==
  /\ o[0] = 0 /\ o[Len(Pairs(m))] = Len(e)
  /\ \A i \in 0 .. Len(Pairs(m)) : o[i] \in Nat /\ o[i] <= Len(e)
  /\ \A i \in 1 .. Len(Pairs(m)) : /\ o[i] = o[i - 1] + Taken(Pairs(m)[i])
                                   /\ HeaderAt(e, o[i - 1], Pairs(m)[i])

(* A header map is encoded in as many bytes as GetEncodeSize says, one      *)
(* header behind the other.                                                 *)
LEMMA EncodeFacts ==
  ASSUME NEW m \in HeaderMaps
  PROVE  /\ Encode(m) \in Strings /\ Len(Encode(m)) \in Nat /\ Len(Encode(m)) = GetEncodeSize(m)
         /\ \E o : Encoded(m, Encode(m), o)
<1> DEFINE P  == Pairs(m)
           n  == Len(P)
           ss == [i \in 1 .. n |-> Header(P[i])]
           ns == [i \in 1 .. n |-> 4 + Len(P[i][1]) + 4 + Len(P[i][2])]
<1>1. P \in Lists /\ n \in Nat
  BY PairFacts DEF Lists
<1>2. \A i \in 1 .. n : P[i][1] \in Strings /\ P[i][2] \in Strings
  <2>1. \A i \in 1 .. n : P[i] \in Strings \X Strings
    BY <1>1 DEF Lists
  <2> QED
    BY <2>1
<1>3. Encode(m) = FlattenSeq(ss) /\ GetEncodeSize(m) = Sum(ns)
  BY DEF Encode, GetEncodeSize, Header
<1> HIDE DEF P
<1>4. \A i \in 1 .. n : /\ Header(P[i]) \in Strings /\ Taken(P[i]) \in Nat
                        /\ Len(Header(P[i])) = Taken(P[i])
  <2> TAKE i \in 1 .. n
  <2>1. P[i][1] \in Strings /\ P[i][2] \in Strings
    BY <1>2
  <2>3. Taken(P[i]) \in Nat
    BY <2>1, TakenFacts
  <2>4. PICK kv : kv = P[i]
    OBVIOUS
  <2>5. Header(kv) \in Strings /\ Len(Header(kv)) = 4 + Len(kv[1]) + 4 + Len(kv[2])
    BY <2>1, <2>4, HeaderFacts
  <2> QED
    BY <2>3, <2>4, <2>5 DEF Taken
<1>5. ss \in Seq(Strings) /\ Len(ss) = n
  BY <1>1, <1>4
<1>6. ns = [i \in 1 .. n |-> Taken(P[i])]
  BY DEF Taken
<1>7. ns \in Seq(Nat) /\ Len(ns) = n
  <2>1. \A i \in 1 .. n : Taken(P[i]) \in Nat
    BY <1>4
  <2> HIDE DEF ns, ss, n
  <2> QED
    BY <1>1, <1>6, <2>1
<1>8. Sizes(ss) = [i \in 1 .. n |-> Len(ss[i])]
  BY <1>5 DEF Sizes
<1>9. Sizes(ss) = ns
  <2>1. \A i \in 1 .. n : Len(ss[i]) = Taken(P[i])
    BY <1>4
  <2> QED
    BY <1>6, <1>8, <2>1
<1>10. PICK o : Offsets(ns, o) /\ Sum(ns) = o[n]
  BY <1>7, SumFacts
<1>11. Parts(Byte, ss, o)
  BY <1>5, <1>9, <1>10 DEF Parts, Strings
<1>12. \A i \in 1 .. n : ss[i] = Header(P[i])
  OBVIOUS
<1> HIDE DEF ss, ns, n
<1> DEFINE e == FlattenSeq(ss)
<1>13. /\ e \in Strings /\ Len(e) = o[n]
       /\ \A h \in 1 .. n : \A j \in 1 .. Len(ss[h]) : e[o[h - 1] + j] = ss[h][j]
  BY <1>5, <1>11, FlattenAt DEF Strings
<1>14. /\ o[0] = 0 /\ \A i \in 0 .. n : o[i] \in Nat
       /\ \A i \in 1 .. n : o[i] = o[i - 1] + Len(ss[i])
       /\ \A i \in 0 .. n : \A h \in 0 .. i : o[h] <= o[i]
  BY <1>5, <1>11, PartFacts
<1> HIDE DEF e
<1>15. \A i \in 0 .. n : o[i] \in Nat /\ o[i] <= Len(e)
  BY <1>1, <1>13, <1>14
<1>16. ASSUME NEW i \in 1 .. n
       PROVE  o[i] = o[i - 1] + Taken(P[i]) /\ HeaderAt(e, o[i - 1], P[i])
  <2>1. /\ i \in 0 .. n /\ i - 1 \in 0 .. n
    BY <1>1
  <2>2. o[i - 1] \in Nat /\ o[i] <= Len(e) /\ o[i] = o[i - 1] + Len(Header(P[i])) /\ Len(e) \in Nat
    <3>1. o[i - 1] \in Nat /\ o[i] <= Len(e) /\ o[i] = o[i - 1] + Len(ss[i])
      BY <1>14, <1>15, <2>1
    <3>2. Len(e) \in Nat
      BY <1>1, <1>13, <1>14
    <3>3. ss[i] = Header(P[i])
      BY <1>12
    <3> QED
      BY <3>1, <3>2, <3>3
  <2>3. \A j \in 1 .. Len(Header(P[i])) : e[o[i - 1] + j] = Header(P[i])[j]
    BY <1>12, <1>13
  <2>4. P[i][1] \in Strings /\ P[i][2] \in Strings /\ Len(Header(P[i])) = Taken(P[i])
    BY <1>2, <1>4
  <2>5. o[i - 1] + Len(Header(P[i])) <= Len(e)
    BY <2>2
  <2> QED
    BY <2>2, <2>3, <2>4, <2>5, HeaderMoved
<1>17. Encoded(m, e, o)
  BY <1>13, <1>14, <1>15, <1>16 DEF Encoded, P, n
<1>18. Len(e) \in Nat
  BY <1>1, <1>13, <1>14
<1> QED
  BY <1>3, <1>10, <1>13, <1>17, <1>18 DEF e


-----------------------------------------------------------------------------
(* Decoding.                                                                *)

(* Bytes that are those of a string.                                        *)
LEMMA RefIs ==
  ASSUME NEW e \in Strings, NEW q \in Nat, NEW w \in Strings, q + Len(w) <= Len(e),
         \A j \in 1 .. Len(w) : e[q + j] = w[j]
  PROVE  Ref(e, q, Len(w)) = w
<1>1. PICK i \in Nat : i = Len(w)
  BY DEF Strings
<1> DEFINE t == SubSeq(e, q + 1, q + i)
<1>2. t \in Seq(Byte) /\ Len(t) = i /\ \A j \in 1 .. i : t[j] = e[q + j]
  BY <1>1 DEF Strings
<1> HIDE DEF t
<1>3. w \in Seq(Byte)
  BY DEF Strings
<1>4. t = w
  BY <1>1, <1>2, <1>3, SMTT(30)
<1> QED
  BY <1>1, <1>4 DEF Ref, t

(* A round reads the header that is next, and sets it.                      *)
LEMMA RoundFacts ==
  ASSUME NEW e \in Strings, NEW p \in Nat, NEW kv, kv[1] \in Strings, kv[2] \in Strings,
         HeaderAt(e, p, kv), Len(kv[1]) < Uint32Max, Len(kv[2]) < Uint32Max, NEW a
  PROVE  DecodeRound(e, [ok |-> TRUE, pos |-> p, map |-> a])
           = [ok |-> TRUE, pos |-> p + Taken(kv), map |-> Set(a, kv[1], kv[2])]
<1> DEFINE d == [ok |-> TRUE, pos |-> p, map |-> a]
<1>1. PICK k \in Strings, v \in Strings : k = kv[1] /\ v = kv[2]
  OBVIOUS
<1>2. PICK r \in Nat, l \in Nat : r = Len(k) /\ l = Len(v)
  BY DEF Strings
<1>3. PICK n \in Nat : n = Len(e)
  BY DEF Strings
<1>4. r < Uint32Max /\ l < Uint32Max /\ Uint32Max \in Nat
  BY <1>1, <1>2, Limits
<1>5. /\ p + 4 + r + 4 + l <= n
      /\ \A j \in 1 .. 4 : e[p + j] = PutUint(r, 4)[j]
      /\ \A j \in 1 .. r : e[p + 4 + j] = k[j]
      /\ \A j \in 1 .. 4 : e[p + 4 + r + j] = PutUint(l, 4)[j]
      /\ \A j \in 1 .. l : e[p + 4 + r + 4 + j] = v[j]
  BY <1>1, <1>2, <1>3, Zenon DEF HeaderAt
<1>6. e \in Seq(Byte) /\ 4 \in Widths /\ Limit(4) = Uint32Max
  BY Limits DEF Strings, Widths
<1>7. Uint(Ref(e, p, 4)) = r
  <2>1. p + 4 <= Len(e) /\ r \in 0 .. Limit(4)
    BY <1>3, <1>4, <1>5, <1>6, SMTT(30)
  <2>2. Uint(SubSeq(e, p + 1, p + 4)) = r
    BY <1>5, <1>6, <2>1, UintAt
  <2> QED
    BY <2>2 DEF Ref
<1>8. Uint(Ref(e, p + 4 + r, 4)) = l
  <2> DEFINE q == p + 4 + r
  <2>1. q \in Nat /\ q + 4 <= Len(e) /\ l \in 0 .. Limit(4)
    BY <1>3, <1>4, <1>5, <1>6, SMTT(30)
  <2>2. \A j \in 1 .. 4 : e[q + j] = PutUint(l, 4)[j]
    BY <1>5
  <2> HIDE DEF q
  <2>3. Uint(SubSeq(e, q + 1, q + 4)) = l
    BY <1>6, <2>1, <2>2, UintAt, ZenonT(30)
  <2> QED
    BY <2>3 DEF Ref, q
<1>9. PICK q \in Nat, u \in Nat : q = p + 4 /\ u = p + 4 + r + 4
  OBVIOUS
<1>10. Ref(e, p + 4, r) = k
  <2>0. q + r <= n /\ \A j \in 1 .. r : e[q + j] = k[j]
    <3>1. \A j \in 1 .. r : e[p + 4 + j] = k[j]
      BY <1>5
    <3> QED
      BY <1>5, <1>9, <3>1
  <2>1. q + Len(k) <= Len(e) /\ \A j \in 1 .. Len(k) : e[q + j] = k[j]
    BY <1>2, <1>3, <2>0, Zenon
  <2>2. Ref(e, q, Len(k)) = k
    BY <2>1, RefIs
  <2> QED
    BY <1>2, <1>9, <2>2
<1>11. Ref(e, p + 4 + r + 4, l) = v
  <2>0. u + l <= n /\ \A j \in 1 .. l : e[u + j] = v[j]
    <3>1. \A j \in 1 .. l : e[p + 4 + r + 4 + j] = v[j]
      BY <1>5
    <3> QED
      BY <1>5, <1>9, <3>1
  <2>1. u + Len(v) <= Len(e) /\ \A j \in 1 .. Len(v) : e[u + j] = v[j]
    BY <1>2, <1>3, <2>0, Zenon
  <2>2. Ref(e, u, Len(v)) = v
    BY <2>1, RefIs
  <2> QED
    BY <1>2, <1>9, <2>2
<1>12. /\ p # n /\ p + 4 <= n /\ p + 4 + r <= n /\ p + 4 + r + 4 <= n
       /\ p + 4 + r + 4 + l <= n /\ l # Uint32Max
  BY <1>4, <1>5
<1>13. d.ok /\ d.pos = p /\ d.map = a
  OBVIOUS
<1> HIDE DEF d
<1>14. DecodeRound(e, d) = [ok |-> TRUE, pos |-> p + 4 + r + 4 + l, map |-> Set(a, k, v)]
  BY <1>3, <1>7, <1>8, <1>10, <1>11, <1>12, <1>13, Zenon DEF DecodeRound, Check
<1>15. Taken(kv) = 4 + r + 4 + l
  BY <1>1, <1>2 DEF Taken
<1>16. p + Taken(kv) = p + 4 + r + 4 + l
  BY <1>15
<1> QED
  BY <1>1, <1>14, <1>16 DEF d

(* The map m with its first i headers.                                      *)
Filled(m, i) ==
  [field |-> [h \in 1 .. 4 |-> IF Rank(m, h) <= i THEN m.field[h] ELSE <<>>],
   kvs   |-> IF i <= Rank(m, 4) THEN <<>> ELSE SubSeq(m.kvs, 1, i - Rank(m, 4))]

LEMMA FilledEnds ==
  ASSUME NEW m \in HeaderMaps
  PROVE  Filled(m, 0) = NoHeaders /\ Filled(m, Len(Pairs(m))) = m
<1> DEFINE n == Len(Pairs(m))
           R == Rank(m, 4)
<1>1. /\ m.field \in [1 .. 4 -> Strings] /\ m.kvs \in Lists /\ Len(m.kvs) \in Nat
      /\ m = [field |-> m.field, kvs |-> m.kvs] /\ n = R + Len(m.kvs)
  BY HeaderMapFacts, PairFacts DEF Lists
<1>0. m.field \in [1 .. 4 -> Strings]
  BY <1>1
<1>2. /\ R \in Nat /\ \A h \in 0 .. 4 : Rank(m, h) \in Nat /\ Rank(m, h) <= R
      /\ \A h \in 1 .. 4 : m.field[h] # <<>> => Rank(m, h) = Rank(m, h - 1) + 1
  BY <1>0, RankFacts
<1> HIDE DEF n, R
<1>3. \A h \in 1 .. 4 : Rank(m, h) <= 0 => m.field[h] = <<>>
  BY <1>2
<1>4. Filled(m, 0).field = [h \in 1 .. 4 |-> <<>>]
  BY <1>3 DEF Filled
<1>5. Filled(m, 0).kvs = <<>>
  BY <1>2 DEF Filled, R
<1>6. Filled(m, n).field = m.field
  BY <1>1, <1>2 DEF Filled
<1>7. Filled(m, n).kvs = m.kvs
  <2>1. CASE n <= R
    <3>1. Len(m.kvs) = 0
      BY <1>1, <1>2, <2>1
    <3>2. m.kvs = <<>>
      BY <1>1, <3>1 DEF Lists
    <3> QED
      BY <2>1, <3>2 DEF Filled, R
  <2>2. CASE ~(n <= R)
    <3>1. n - R = Len(m.kvs)
      BY <1>1, <1>2
    <3>2. SubSeq(m.kvs, 1, Len(m.kvs)) = m.kvs
      BY <1>1 DEF Lists
    <3> QED
      BY <2>2, <3>1, <3>2 DEF Filled, R
  <2> QED
    BY <2>1, <2>2
<1>8. Filled(m, 0) = [field |-> Filled(m, 0).field, kvs |-> Filled(m, 0).kvs]
  BY DEF Filled
<1>9. Filled(m, n) = [field |-> Filled(m, n).field, kvs |-> Filled(m, n).kvs]
  BY DEF Filled
<1> QED
  BY <1>1, <1>4, <1>5, <1>6, <1>7, <1>8, <1>9, Zenon DEF NoHeaders, n


(* The beginning of a sequence with the next element.                       *)
LEMMA ListGrows ==
  ASSUME NEW l \in Lists, NEW j \in 1 .. Len(l)
  PROVE  Append(SubSeq(l, 1, j - 1), l[j]) = SubSeq(l, 1, j)
<1>1. l \in Seq(Strings \X Strings) /\ Len(l) \in Nat
  BY DEF Lists
<1> DEFINE a == SubSeq(l, 1, j - 1)
           b == SubSeq(l, 1, j)
<1>2. /\ a \in Seq(Strings \X Strings) /\ Len(a) = j - 1
      /\ \A k \in 1 .. j - 1 : a[k] = l[k]
  BY <1>1
<1>3. b \in Seq(Strings \X Strings) /\ Len(b) = j /\ \A k \in 1 .. j : b[k] = l[k]
  BY <1>1
<1>4. l[j] \in Strings \X Strings
  BY <1>1
<1> HIDE DEF a, b
<1>5. /\ Append(a, l[j]) \in Seq(Strings \X Strings) /\ Len(Append(a, l[j])) = j
      /\ \A k \in 1 .. j : Append(a, l[j])[k] = l[k]
  BY <1>2, <1>4
<1>6. Append(a, l[j]) = b
  BY <1>3, <1>5
<1> QED
  BY <1>6 DEF a, b

(* Setting the next header of m.                                            *)
LEMMA SetNext ==
  ASSUME NEW m \in HeaderMaps, NEW i \in 1 .. Len(Pairs(m))
  PROVE  Set(Filled(m, i - 1), Pairs(m)[i][1], Pairs(m)[i][2]) = Filled(m, i)
<1> DEFINE P == Pairs(m)
           R == Rank(m, 4)
           a == Filled(m, i - 1)
           b == Filled(m, i)
           s == Set(a, P[i][1], P[i][2])
           N == Len(m.kvs)
<1>1. /\ m.field \in [1 .. 4 -> Strings] /\ m.kvs \in Lists /\ N \in Nat
      /\ \A j \in 1 .. N : /\ m.kvs[j] = <<m.kvs[j][1], m.kvs[j][2]>>
                           /\ ~Contains(Special, m.kvs[j][1])
                           /\ \A k \in 1 .. N : m.kvs[j][1] = m.kvs[k][1] => j = k
  BY HeaderMapFacts DEF Lists
<1>2. /\ R \in Nat /\ \A h \in 0 .. 4 : Rank(m, h) \in Nat /\ Rank(m, h) <= R
      /\ \A h \in 1 .. 4 : /\ m.field[h] = <<>> => Rank(m, h) = Rank(m, h - 1)
                           /\ m.field[h] # <<>> => Rank(m, h) = Rank(m, h - 1) + 1
      /\ \A h, j \in 1 .. 4 : m.field[h] # <<>> /\ m.field[j] # <<>> /\ Rank(m, h) = Rank(m, j)
                                => h = j
      /\ \A k \in 1 .. R : \E h \in 1 .. 4 : m.field[h] # <<>> /\ Rank(m, h) = k
  <2>1. m.field \in [1 .. 4 -> Strings]
    BY <1>1
  <2> QED
    BY <2>1, RankFacts
<1>3. /\ i \in Nat /\ i >= 1 /\ i <= R + N
      /\ \A h \in 1 .. 4 : m.field[h] # <<>> => P[Rank(m, h)] = <<Special[h], m.field[h]>>
      /\ \A j \in 1 .. N : P[R + j] = m.kvs[j]
  <2>1. Len(P) = R + N
    BY PairFacts
  <2>2. i \in 1 .. R + N
    BY <2>1, Zenon
  <2> HIDE DEF P, R, N
  <2>3. i \in Nat /\ i >= 1 /\ i <= R + N
    BY <1>1, <1>2, <2>2
  <2> QED
    BY <2>3, PairFacts DEF P, R, N
<1>4. a = [field |-> a.field, kvs |-> a.kvs] /\ b = [field |-> b.field, kvs |-> b.kvs]
  BY DEF Filled
<1>5. /\ a.field = [h \in 1 .. 4 |-> IF Rank(m, h) <= i - 1 THEN m.field[h] ELSE <<>>]
      /\ a.kvs = IF i - 1 <= R THEN <<>> ELSE SubSeq(m.kvs, 1, (i - 1) - R)
      /\ b.field = [h \in 1 .. 4 |-> IF Rank(m, h) <= i THEN m.field[h] ELSE <<>>]
      /\ b.kvs = IF i <= R THEN <<>> ELSE SubSeq(m.kvs, 1, i - R)
  BY DEF Filled
<1> HIDE DEF P, R, a, b, N
<1>6. CASE i <= R
  <2>1. PICK h \in 1 .. 4 : m.field[h] # <<>> /\ Rank(m, h) = i
    BY <1>2, <1>3, <1>6
  <2>2. P[i] = <<Special[h], m.field[h]>>
    BY <1>3, <2>1
  <2>3. P[i][1] = Special[h] /\ P[i][2] = m.field[h] /\ Contains(Special, P[i][1])
    BY <2>2, SpecialFacts
  <2>4. s = [a EXCEPT !.field = [j \in 1 .. 4 |-> IF Special[j] = P[i][1] THEN P[i][2] ELSE @[j]]]
    BY <2>3 DEF Set
  <2>5. s = [field |-> [j \in 1 .. 4 |-> IF Special[j] = Special[h] THEN m.field[h] ELSE a.field[j]],
             kvs |-> a.kvs]
    BY <1>4, <2>3, <2>4
  <2>6. \A j \in 1 .. 4 : (IF Special[j] = Special[h] THEN m.field[h] ELSE a.field[j]) = b.field[j]
    <3> TAKE j \in 1 .. 4
    <3>1. Special[j] = Special[h] <=> j = h
      BY SpecialFacts
    <3>2. CASE j = h
      BY <1>2, <1>5, <2>1, <3>1, <3>2
    <3>3. CASE j # h
      <4>1. a.field[j] = IF Rank(m, j) <= i - 1 THEN m.field[j] ELSE <<>>
        BY <1>5
      <4>2. b.field[j] = IF Rank(m, j) <= i THEN m.field[j] ELSE <<>>
        BY <1>5
      <4>3. Rank(m, j) = i => m.field[j] = <<>>
        BY <1>2, <2>1, <3>3
      <4>4. Rank(m, j) \in Nat
        <5>1. j \in 0 .. 4
          OBVIOUS
        <5> QED
          BY <1>2, <5>1, ZenonT(30)
      <4> QED
        BY <1>3, <3>1, <3>3, <4>1, <4>2, <4>3, <4>4
    <3> QED
      BY <3>2, <3>3
  <2>7. b.field = [j \in 1 .. 4 |-> b.field[j]]
    BY <1>5
  <2>8. a.kvs = <<>> /\ b.kvs = <<>>
    BY <1>2, <1>3, <1>5, <1>6
  <2> QED
    BY <1>4, <2>5, <2>6, <2>7, <2>8 DEF P, a, b
<1>7. CASE i > R
  <2> DEFINE j == i - R
             kv == m.kvs[j]
  <2>1. j \in 1 .. N /\ R + j = i /\ (i - 1) - R = j - 1
    BY <1>1, <1>2, <1>3, <1>7
  <2>2. P[i] = kv
    BY <1>3, <2>1
  <2> HIDE DEF j
  <2>3. a.kvs = SubSeq(m.kvs, 1, j - 1)
    <3>1. CASE i - 1 <= R
      <4>1. j = 1
        BY <1>2, <1>3, <1>7, <2>1, <3>1
      <4>2. SubSeq(m.kvs, 1, 0) = <<>>
        BY <1>1 DEF Lists
      <4> QED
        BY <1>5, <3>1, <4>1, <4>2
    <3>2. CASE ~(i - 1 <= R)
      BY <1>5, <2>1, <3>2
    <3> QED
      BY <3>1, <3>2
  <2>4. b.kvs = SubSeq(m.kvs, 1, j)
    BY <1>2, <1>3, <1>5, <1>7 DEF j
  <2>5. /\ a.kvs \in Lists /\ Len(a.kvs) = j - 1 /\ DOMAIN a.kvs = 1 .. j - 1
        /\ \A k \in 1 .. j - 1 : a.kvs[k] = m.kvs[k]
    <3>1. j - 1 \in 0 .. Len(m.kvs)
      BY <1>1, <2>1 DEF N
    <3> QED
      BY <1>1, <2>3, <3>1 DEF Lists
  <2>6. ~Contains(Special, kv[1]) /\ kv = <<kv[1], kv[2]>>
    BY <1>1, <2>1
  <2>7. {k \in DOMAIN a.kvs : a.kvs[k][1] = kv[1]} = {}
    BY <1>1, <2>1, <2>5
  <2>8. s = [a EXCEPT !.kvs = Append(a.kvs, <<kv[1], kv[2]>>)]
    BY <2>2, <2>6, <2>7 DEF Set
  <2>9. s = [field |-> a.field, kvs |-> Append(a.kvs, kv)]
    BY <1>4, <2>6, <2>8
  <2>10. Append(a.kvs, kv) = SubSeq(m.kvs, 1, j)
    <3>1. j \in 1 .. Len(m.kvs) /\ m.kvs \in Lists
      BY <1>1, <2>1 DEF N
    <3> QED
      BY <2>3, <3>1, ListGrows
  <2>11. a.field = b.field
    <3>1. \A h \in 1 .. 4 : (Rank(m, h) <= i - 1) /\ (Rank(m, h) <= i)
      BY <1>2, <1>3, <1>7, SMTT(30)
    <3> QED
      BY <1>5, <3>1
  <2> QED
    BY <1>4, <2>4, <2>9, <2>10, <2>11 DEF P, a, b
<1> QED
  BY <1>2, <1>3, <1>6, <1>7


(* The first n rounds and fewer: the function in Decode.                    *)
Begin(m) == [ok |-> TRUE, pos |-> 0, map |-> m]

Rounds(m, data, n, f) ==
  f = [i \in 0 .. n |-> IF i = 0 THEN Begin(m) ELSE DecodeRound(data, f[i - 1])]

LEMMA RoundsExist ==
  ASSUME NEW m, NEW data
  PROVE  \A n \in Nat : \E f : Rounds(m, data, n, f)
<1> DEFINE S == {n \in Nat : \E f : Rounds(m, data, n, f)}
<1>1. 0 \in S
  <2> DEFINE f == [i \in 0 .. 0 |-> Begin(m)]
  <2>1. f = [i \in 0 .. 0 |-> IF i = 0 THEN Begin(m) ELSE DecodeRound(data, f[i - 1])]
    OBVIOUS
  <2>2. Rounds(m, data, 0, f)
    BY <2>1 DEF Rounds
  <2> QED
    BY <2>2
<1>2. ASSUME NEW n \in Nat, n \in S PROVE n + 1 \in S
  <2>1. PICK g : Rounds(m, data, n, g)
    BY <1>2
  <2> DEFINE f == [i \in 0 .. n + 1 |-> IF i = n + 1 THEN DecodeRound(data, g[n]) ELSE g[i]]
  <2>2. \A i \in 0 .. n + 1 : f[i] = IF i = 0 THEN Begin(m) ELSE DecodeRound(data, f[i - 1])
    <3> TAKE i \in 0 .. n + 1
    <3>1. CASE i = n + 1
      <4>1. f[i] = DecodeRound(data, g[n]) /\ f[i - 1] = g[n] /\ i # 0
        BY <3>1
      <4> HIDE DEF f
      <4> QED
        BY <3>1, <4>1
    <3>2. CASE i # n + 1
      <4>1. f[i] = g[i] /\ (i # 0 => f[i - 1] = g[i - 1])
        BY <3>2
      <4>2. g[i] = IF i = 0 THEN Begin(m) ELSE DecodeRound(data, g[i - 1])
        BY <2>1, <3>2 DEF Rounds
      <4> HIDE DEF f
      <4> QED
        BY <4>1, <4>2
    <3> QED
      BY <3>1, <3>2
  <2>3. f = [i \in 0 .. n + 1 |-> f[i]]
    OBVIOUS
  <2> HIDE DEF f
  <2>4. f = [i \in 0 .. n + 1 |-> IF i = 0 THEN Begin(m) ELSE DecodeRound(data, f[i - 1])]
    BY <2>2, <2>3
  <2>5. Rounds(m, data, n + 1, f)
    BY <2>4 DEF Rounds
  <2> QED
    BY <2>5
<1> HIDE DEF S
<1>3. \A n \in Nat : n \in S
  BY <1>1, <1>2, SetInduction
<1> QED
  BY <1>3 DEF S

(* Every header map of any size comes back from its encoding, whatever its  *)
(* names and values: all headers, nothing else, and the end of the bytes is *)
(* met after the last (fast_simplemap.go:146-170, 202-284).                 *)
THEOREM DecodeUndoesEncode ==
  ASSUME NEW m \in HeaderMaps, GetEncodeSize(m) < Uint32Max
  PROVE  Decode(NoHeaders, Encode(m)).ok /\ Decode(NoHeaders, Encode(m)).map = m
<1> DEFINE P == Pairs(m)
           n == Len(P)
           e == Encode(m)
           r == CHOOSE f : Rounds(NoHeaders, e, Len(e), f)
<1>1. e \in Strings /\ Len(e) \in Nat /\ Len(e) < Uint32Max
  BY EncodeFacts
<1>2. PICK o : Encoded(m, e, o)
  BY EncodeFacts
<1>3. /\ o[0] = 0 /\ o[n] = Len(e) /\ \A i \in 0 .. n : o[i] \in Nat /\ o[i] <= Len(e)
      /\ \A i \in 1 .. n : o[i] = o[i - 1] + Taken(P[i]) /\ HeaderAt(e, o[i - 1], P[i])
  BY <1>2 DEF Encoded
<1>4. n \in Nat /\ \A i \in 1 .. n : P[i][1] \in Strings /\ P[i][2] \in Strings
  <2>1. P \in Lists
    BY PairFacts
  <2>2. n \in Nat /\ \A i \in 1 .. n : P[i] \in Strings \X Strings
    BY <2>1 DEF Lists
  <2> QED
    BY <2>2
<1>5. Decode(NoHeaders, e) = r[Len(e)]
  BY DEF Decode, Rounds, Begin
<1>6. Rounds(NoHeaders, e, Len(e), r)
  BY <1>1, RoundsExist
<1> HIDE DEF r
<1>7. \A i \in 0 .. Len(e) : r[i] = IF i = 0 THEN Begin(NoHeaders) ELSE DecodeRound(e, r[i - 1])
  BY <1>6 DEF Rounds
<1> DEFINE At(i) == [ok |-> TRUE, pos |-> o[i], map |-> Filled(m, i)]
           S == {i \in Nat : i <= n => o[i] >= i /\ r[i] = At(i)}
           T == {i \in Nat : n <= i /\ i <= Len(e) => r[i] = At(n)}
<1>8. 0 \in S
  <2>1. 0 \in 0 .. Len(e)
    BY <1>1
  <2>2. r[0] = Begin(NoHeaders)
    BY <1>7, <2>1
  <2>3. Filled(m, 0) = NoHeaders
    BY FilledEnds
  <2>4. At(0) = Begin(NoHeaders)
    BY <1>3, <2>3 DEF Begin
  <2>5. o[0] >= 0
    BY <1>3
  <2> QED
    BY <2>2, <2>4, <2>5
<1>9. ASSUME NEW i \in Nat, i \in S PROVE i + 1 \in S
  <2> SUFFICES ASSUME i + 1 <= n PROVE o[i + 1] >= i + 1 /\ r[i + 1] = At(i + 1)
    OBVIOUS
  <2>1. o[i] >= i /\ r[i] = At(i) /\ i + 1 \in 1 .. n /\ (i + 1) - 1 = i
    BY <1>4, <1>9
  <2>2. PICK kv : kv = P[i + 1]
    OBVIOUS
  <2>3. kv[1] \in Strings /\ kv[2] \in Strings /\ o[i + 1] = o[i] + Taken(kv) /\ HeaderAt(e, o[i], kv)
    BY <1>3, <1>4, <2>1, <2>2
  <2>4. i \in 0 .. n /\ i + 1 \in 0 .. n
    BY <1>4, <2>1
  <2>5. o[i] \in Nat /\ o[i + 1] \in Nat /\ o[i + 1] <= Len(e)
    BY <1>3, <2>4
  <2>6. Taken(kv) \in Nat /\ Taken(kv) >= 8
    BY <2>3, TakenFacts
  <2>7. o[i + 1] >= i + 1 /\ i + 1 \in 0 .. Len(e) /\ Taken(kv) <= Len(e)
    BY <1>1, <2>1, <2>3, <2>5, <2>6
  <2>8. Len(kv[1]) < Uint32Max /\ Len(kv[2]) < Uint32Max
    <3>1. PICK a \in Strings, b \in Strings : a = kv[1] /\ b = kv[2]
      BY <2>3
    <3>2. Len(a) \in Nat /\ Len(b) \in Nat
      BY DEF Strings
    <3>3. Taken(kv) = 4 + Len(a) + 4 + Len(b)
      BY <3>1, Zenon DEF Taken
    <3>4. Uint32Max \in Nat
      BY Limits
    <3>5. Len(a) < Uint32Max /\ Len(b) < Uint32Max
      BY <1>1, <2>7, <3>2, <3>3, <3>4
    <3> QED
      BY <3>1, <3>5
  <2>9. r[i + 1] = DecodeRound(e, At(i))
    <3>1. r[i + 1] = DecodeRound(e, r[(i + 1) - 1])
      BY <1>7, <2>7
    <3> QED
      BY <2>1, <3>1
  <2>10. DecodeRound(e, At(i))
           = [ok |-> TRUE, pos |-> o[i] + Taken(kv), map |-> Set(Filled(m, i), kv[1], kv[2])]
    BY <1>1, <2>3, <2>5, <2>8, RoundFacts
  <2>11. Set(Filled(m, i), kv[1], kv[2]) = Filled(m, i + 1)
    <3>1. PICK k \in 1 .. Len(Pairs(m)) : k = i + 1
      BY <2>1
    <3>2. k - 1 = i
      BY <3>1
    <3>3. Set(Filled(m, k - 1), P[k][1], P[k][2]) = Filled(m, k)
      BY SetNext
    <3> QED
      BY <2>2, <3>1, <3>2, <3>3
  <2> QED
    BY <2>3, <2>7, <2>9, <2>10, <2>11
<1> HIDE DEF S
<1>10. \A i \in Nat : i \in S
  BY <1>8, <1>9, SetInduction
<1>11. o[n] >= n /\ r[n] = At(n)
  BY <1>4, <1>10 DEF S
<1>12. DecodeRound(e, At(n)) = At(n)
  BY <1>3 DEF DecodeRound
<1>13. 0 \in T
  BY <1>4, <1>11
<1>14. ASSUME NEW i \in Nat, i \in T PROVE i + 1 \in T
  <2> SUFFICES ASSUME n <= i + 1, i + 1 <= Len(e) PROVE r[i + 1] = At(n)
    OBVIOUS
  <2>1. CASE n = i + 1
    BY <1>11, <2>1
  <2>2. CASE n # i + 1
    <3>1. r[i] = At(n)
      BY <1>1, <1>4, <1>14, <2>2
    <3>2. i + 1 \in 0 .. Len(e) /\ i + 1 # 0 /\ (i + 1) - 1 = i
      BY <1>1
    <3>3. r[i + 1] = DecodeRound(e, r[i])
      BY <1>7, <3>2
    <3> QED
      BY <1>12, <3>1, <3>3
  <2> QED
    BY <2>1, <2>2
<1> HIDE DEF T
<1>15. \A i \in Nat : i \in T
  BY <1>13, <1>14, SetInduction
<1>16. r[Len(e)] = At(n)
  BY <1>1, <1>3, <1>4, <1>11, <1>15 DEF T
<1>17. Filled(m, n) = m
  BY FilledEnds
<1> QED
  BY <1>5, <1>16, <1>17


=============================================================================
