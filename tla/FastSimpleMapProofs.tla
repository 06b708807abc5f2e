------------------------ MODULE FastSimpleMapProofs ------------------------
(***************************************************************************)
(* What the elements and cells of FastSimpleMap do, whatever is deleted:   *)
(* the type invariant is inductive, on clean maps every operation is the   *)
(* one of HeaderMap, and only a deletion inside kvs makes maps unclean.    *)
(* Where no such deletion is made, FastSimpleMap implements HeaderMap.     *)
(*                                                                         *)
(* The loop of del is a recursive function; what it computes is shown by   *)
(* induction over its rounds (SetInduction).                               *)
(***************************************************************************)
EXTENDS FastSimpleMap, FunctionTheorems, FiniteSetTheorems, TLAPS

(* A finite set fits into one that is at least as large.                    *)
LEMMA SmallerInjects ==
  ASSUME NEW S, NEW T, IsFiniteSet(S), IsFiniteSet(T), Cardinality(S) <= Cardinality(T)
  PROVE  \E f \in [S -> T] : \A x, y \in S : x # y => f[x] # f[y]
<1> DEFINE p == Cardinality(S)
           q == Cardinality(T)
<1>1. p \in Nat /\ q \in Nat /\ ExistsBijection(1 .. p, S) /\ ExistsBijection(1 .. q, T)
  BY FS_CardinalityType
<1>2. PICK g \in Bijection(S, 1 .. p) : TRUE
  BY <1>1, Fun_ExistsBijSymmetric DEF ExistsBijection
<1>3. PICK h \in Bijection(1 .. q, T) : TRUE
  BY <1>1 DEF ExistsBijection
<1>4. g \in [S -> 1 .. p] /\ \A x, y \in S : g[x] = g[y] => x = y
  BY <1>2 DEF Bijection, Injection, IsInjective
<1>5. h \in [1 .. q -> T] /\ \A i, j \in 1 .. q : h[i] = h[j] => i = j
  BY <1>3 DEF Bijection, Injection, IsInjective
<1>6. 1 .. p \subseteq 1 .. q
  BY <1>1
<1> HIDE DEF p, q
<1> DEFINE f == [x \in S |-> h[g[x]]]
<1>7. f \in [S -> T] /\ \A x, y \in S : x # y => f[x] # f[y]
  BY <1>4, <1>5, <1>6
<1> QED
  BY <1>7

(* There are enough cells for elements that have none.                      *)
LEMMA FreshCells ==
  ASSUME NEW s \in [Slots -> Cells \cup {Nil}], NEW new \in SUBSET Slots
  PROVE  \E f \in [new -> Cells \ {s[i] : i \in Slots \ new}] :
            \A i, j \in new : i # j => f[i] # f[j]
<1> DEFINE used == {s[i] : i \in Slots \ new}
           g == [i \in Slots \ new |-> s[i]]
<1>1. IsFiniteSet(Slots) /\ IsFiniteSet(new) /\ IsFiniteSet(Slots \ new)
  <2>1. IsFiniteSet(Slots)
    BY FS_Interval, MapAssumption DEF Slots
  <2> QED
    BY <2>1, FS_Subset
<1>2. Cardinality(Slots \ new) = Cardinality(Slots) - Cardinality(new)
  BY <1>1, FS_Difference, Slots \cap new = new
<1>3. g \in Surjection(Slots \ new, used)
  BY DEF Surjection
<1>4. IsFiniteSet(used) /\ Cardinality(used) <= Cardinality(Slots \ new)
  BY <1>1, <1>3, FS_Surjection
<1> HIDE DEF used, g
<1>5. /\ IsFiniteSet(Cells \ used)
      /\ Cardinality(Cells \ used) = Cardinality(Slots) - Cardinality(Cells \cap used)
  BY <1>1, FS_Difference DEF Cells
<1>6. Cardinality(Cells \cap used) <= Cardinality(used)
  BY <1>4, FS_Intersection
<1>7. /\ Cardinality(Slots) \in Nat /\ Cardinality(new) \in Nat /\ Cardinality(used) \in Nat
      /\ Cardinality(Cells \cap used) \in Nat
  BY <1>1, <1>4, FS_CardinalityType, FS_Intersection
<1>8. Cardinality(new) <= Cardinality(Cells \ used)
  BY <1>2, <1>4, <1>5, <1>6, <1>7
<1> QED
  BY <1>1, <1>5, <1>8, SmallerInjects DEF used

(* What Allocated gives: the elements of I have cells, those that had one   *)
(* keep it, and a new cell is nobody else's.                                *)
LEMMA AllocatedFacts ==
  ASSUME NEW s \in [Slots -> Cells \cup {Nil}], NEW I \in SUBSET Slots
  PROVE  LET a == Allocated(s, I) IN
         /\ a \in [Slots -> Cells \cup {Nil}]
         /\ \A i \in I : a[i] \in Cells
         /\ \A i \in Slots : s[i] # Nil \/ i \notin I => a[i] = s[i]
         /\ \A i \in I, j \in Slots : s[i] = Nil /\ i # j => a[i] # a[j]
<1> DEFINE new  == {i \in I : s[i] = Nil}
           used == {s[i] : i \in Slots \ new}
           name == IF new \cap used = {} THEN [i \in new |-> i]
                   ELSE CHOOSE f \in [new -> Cells \ used] :
                           \A i, j \in new : i # j => f[i] # f[j]
           a == Allocated(s, I)
<1>1. a = [i \in Slots |-> IF i \in new THEN name[i] ELSE s[i]]
  BY DEF Allocated
<1>2. new \in SUBSET Slots
  OBVIOUS
<1>3. name \in [new -> Cells \ used] /\ \A i, j \in new : i # j => name[i] # name[j]
  <2>1. CASE new \cap used = {}
    <3>1. name = [i \in new |-> i]
      BY <2>1
    <3> HIDE DEF name, used
    <3> QED
      BY <1>2, <2>1, <3>1 DEF Cells
  <2>2. CASE new \cap used # {}
    <3>1. name = CHOOSE f \in [new -> Cells \ used] : \A i, j \in new : i # j => f[i] # f[j]
      BY <2>2
    <3>2. \E f \in [new -> Cells \ used] : \A i, j \in new : i # j => f[i] # f[j]
      BY <1>2, FreshCells
    <3> HIDE DEF name, used, new
    <3> QED
      BY <3>1, <3>2
  <2> QED
    BY <2>1, <2>2
<1>4. \A j \in Slots \ new : s[j] \in used
  OBVIOUS
<1> HIDE DEF name, used, a
<1>5. a \in [Slots -> Cells \cup {Nil}]
  BY <1>1, <1>3
<1>6. \A i \in I : a[i] \in Cells
  BY <1>1, <1>3
<1>7. \A i \in Slots : s[i] # Nil \/ i \notin I => a[i] = s[i]
  BY <1>1
<1>8. \A i \in I, j \in Slots : s[i] = Nil /\ i # j => a[i] # a[j]
  BY <1>1, <1>3, <1>4
<1> QED
  BY <1>5, <1>6, <1>7, <1>8 DEF a


(* Induction over the naturals, for a set: tlapm cannot instantiate the     *)
(* library's rule, which takes a predicate.                                 *)
LEMMA SetInduction ==
  ASSUME NEW S, 0 \in S, \A n \in Nat : n \in S => n + 1 \in S
  PROVE  \A n \in Nat : n \in S
<1> DEFINE T == Nat \ S
           R == OpToRel(<, Nat)
<1>1. IsWellFoundedOn(R, Nat)
  BY NatLessThanWellFounded, Zenon
<1>2. \A x, y \in Nat : y < x => <<y, x>> \in R
  BY DEF OpToRel
<1> HIDE DEF R
<1> SUFFICES ASSUME T # {} PROVE FALSE
  OBVIOUS
<1>3. PICK x \in T : \A y \in T : <<y, x>> \notin R
  BY <1>1, WFMin
<1>4. x - 1 \in Nat /\ x - 1 < x
  OBVIOUS
<1>5. x - 1 \in S
  BY <1>2, <1>3, <1>4
<1> QED
  BY <1>4, <1>5

(* One round of the loop of del, its start, and its first n rounds f.       *)
Round(m, k, e, i) == IF i <= e.len /\ mem[m][e.slot[i]].key = k THEN Shift(e, i) ELSE e

Start(m) == [slot |-> slot[m], len |-> len[m]]

Rounds(m, k, n, f) ==
  f = [i \in 0 .. n |-> IF i = 0 THEN Start(m) ELSE Round(m, k, f[i - 1], i)]

(* The loop of del is defined for every number of rounds.                   *)
LEMMA RoundsExist ==
  ASSUME NEW m, NEW k
  PROVE  \A n \in Nat : \E f : Rounds(m, k, n, f)
<1> DEFINE S == {n \in Nat : \E f : Rounds(m, k, n, f)}
<1>1. 0 \in S
  <2> DEFINE f == [i \in 0 .. 0 |-> Start(m)]
  <2>1. f = [i \in 0 .. 0 |-> IF i = 0 THEN Start(m) ELSE Round(m, k, f[i - 1], i)]
    OBVIOUS
  <2>2. Rounds(m, k, 0, f)
    BY <2>1 DEF Rounds
  <2> QED
    BY <2>2
<1>2. ASSUME NEW n \in Nat, n \in S PROVE n + 1 \in S
  <2>1. PICK g : Rounds(m, k, n, g)
    BY <1>2
  <2> DEFINE f == [i \in 0 .. n + 1 |-> IF i = n + 1 THEN Round(m, k, g[n], n + 1) ELSE g[i]]
  <2>2. \A i \in 0 .. n + 1 : f[i] = IF i = 0 THEN Start(m) ELSE Round(m, k, f[i - 1], i)
    <3> TAKE i \in 0 .. n + 1
    <3>1. CASE i = n + 1
      <4>1. f[i] = Round(m, k, g[n], n + 1) /\ f[i - 1] = g[n] /\ i # 0
        BY <3>1
      <4> HIDE DEF f
      <4> QED
        BY <3>1, <4>1
    <3>2. CASE i # n + 1
      <4>1. f[i] = g[i] /\ (i # 0 => f[i - 1] = g[i - 1])
        BY <3>2
      <4>2. g[i] = IF i = 0 THEN Start(m) ELSE Round(m, k, g[i - 1], i)
        BY <2>1, <3>2 DEF Rounds
      <4> HIDE DEF f
      <4> QED
        BY <4>1, <4>2
    <3> QED
      BY <3>1, <3>2
  <2>3. f = [i \in 0 .. n + 1 |-> f[i]]
    OBVIOUS
  <2> HIDE DEF f
  <2>4. f = [i \in 0 .. n + 1 |-> IF i = 0 THEN Start(m) ELSE Round(m, k, f[i - 1], i)]
    BY <2>2, <2>3
  <2>5. Rounds(m, k, n + 1, f)
    BY <2>4 DEF Rounds
  <2> QED
    BY <2>5
<1> HIDE DEF S
<1>3. \A n \in Nat : n \in S
  BY <1>1, <1>2, SetInduction
<1> QED
  BY <1>3 DEF S

(* What del ends with is the last of its rounds.                            *)
LEMMA DelLoopRounds ==
  ASSUME NEW m, NEW k, len[m] \in Nat
  PROVE  \E f : Rounds(m, k, len[m], f) /\ DelLoop(m, k) = f[len[m]]
<1> DEFINE f == CHOOSE f : Rounds(m, k, len[m], f)
<1>1. DelLoop(m, k) = f[len[m]]
  BY DEF DelLoop, Rounds, Start, Round
<1>2. Rounds(m, k, len[m], f)
  BY RoundsExist
<1> QED
  BY <1>1, <1>2

(* A nonempty set of naturals has a least element.                          *)
LEMMA NatMin ==
  ASSUME NEW S \in SUBSET Nat, S # {}
  PROVE  Min(S) \in S /\ \A y \in S : Min(S) <= y
<1> DEFINE R == OpToRel(<, Nat)
<1>1. IsWellFoundedOn(R, Nat)
  BY NatLessThanWellFounded, Zenon
<1>2. \A x, y \in Nat : y < x => <<y, x>> \in R
  BY DEF OpToRel
<1> HIDE DEF R
<1>3. PICK x \in S : \A y \in S : <<y, x>> \notin R
  BY <1>1, WFMin
<1>4. ASSUME NEW y \in S PROVE x <= y
  <2>1. x \in Nat /\ y \in Nat
    OBVIOUS
  <2>2. ~(y < x)
    BY <1>2, <1>3, <2>1
  <2> QED
    BY <2>1, <2>2
<1> QED
  BY <1>4 DEF Min

(* A nonempty set of naturals with a bound has a largest one.               *)
LEMMA NatMax ==
  ASSUME NEW n \in Nat, NEW S \in SUBSET (1 .. n), S # {}
  PROVE  Max(S) \in S
<1> DEFINE T == {n - x : x \in S}
<1>1. T \in SUBSET Nat /\ T # {}
  <2>1. PICK x \in S : TRUE
    OBVIOUS
  <2>2. n - x \in T
    OBVIOUS
  <2>3. \A y \in S : n - y \in Nat
    OBVIOUS
  <2> QED
    BY <2>2, <2>3
<1>2. Min(T) \in T /\ \A y \in T : Min(T) <= y
  BY <1>1, NatMin
<1>3. PICK x \in S : Min(T) = n - x
  BY <1>2
<1>4. \A y \in S : n - x <= n - y
  BY <1>2, <1>3
<1>5. \A y \in S : x >= y
  BY <1>4
<1> QED
  BY <1>5 DEF Max

(* What the type invariant says of one map.                                 *)
LEMMA Sizes ==
  ASSUME TypeOK, NEW m \in Maps
  PROVE  /\ len[m] \in Nat /\ cap[m] \in Nat /\ len[m] <= cap[m] /\ cap[m] <= MaxCap
         /\ 1 .. len[m] \subseteq Slots
         /\ slot[m] \in [Slots -> Cells \cup {Nil}] /\ mem[m] \in [Cells -> KV]
         /\ \A i \in 1 .. len[m] : /\ slot[m][i] \in Cells
                                  /\ At(m, i) \in [key : Plain, value : Values]
<1>1. len[m] \in Nat /\ cap[m] \in Nat /\ len[m] <= cap[m] /\ cap[m] <= MaxCap
  BY MapAssumption DEF TypeOK
<1>2. 1 .. len[m] \subseteq Slots
  BY <1>1, MapAssumption DEF Slots
<1>3. slot[m] \in [Slots -> Cells \cup {Nil}] /\ mem[m] \in [Cells -> KV]
  BY DEF TypeOK
<1>4. \A i \in 1 .. len[m] : slot[m][i] \in Cells
  BY <1>2, <1>3 DEF TypeOK
<1>5. \A i \in 1 .. len[m] : At(m, i) \in [key : Plain, value : Values]
  BY <1>3, <1>4 DEF TypeOK, At, KV
<1> QED
  BY <1>1, <1>2, <1>3, <1>4, <1>5

(* The rest of the type invariant, from what it says of each map.           *)
LEMMA TypeFromMaps ==
  ASSUME field' \in [Maps -> [Special -> Values \cup {Empty}]],
         len' \in [Maps -> 0 .. MaxCap], cap' \in [Maps -> 0 .. MaxCap],
         slot' \in [Maps -> [Slots -> Cells \cup {Nil}]], mem' \in [Maps -> [Cells -> KV]],
         \A m \in Maps : /\ len'[m] <= cap'[m]
                         /\ \A i \in 1 .. len'[m] : slot'[m][i] # Nil /\ At(m, i)' # Nil
  PROVE  TypeOK'
BY DEF TypeOK

(* A type-correct slice of elements: those within the length hold headers.  *)
Sound(m, e) ==
  /\ e.len \in 0 .. len[m] /\ e.slot \in [Slots -> Cells \cup {Nil}]
  /\ \A p \in 1 .. e.len : e.slot[p] # Nil /\ mem[m][e.slot[p]] # Nil

(* Taking out an element leaves the others type-correct.                    *)
LEMMA ShiftSound ==
  ASSUME TypeOK, NEW m \in Maps, NEW e, Sound(m, e), NEW i \in 1 .. e.len
  PROVE  Sound(m, Shift(e, i))
<1>0. len[m] \in Nat /\ 1 .. len[m] \subseteq Slots
  BY Sizes
<1> DEFINE s == [p \in Slots |-> IF i <= p /\ p < e.len THEN e.slot[p + 1] ELSE e.slot[p]]
<1>1. Shift(e, i).slot = s /\ Shift(e, i).len = e.len - 1
  BY DEF Shift
<1>2. e.len \in Nat /\ e.len <= len[m] /\ i \in Nat /\ 1 <= i /\ i <= e.len
  BY <1>0 DEF Sound
<1>3. \A p \in Slots : i <= p /\ p < e.len => p + 1 \in 1 .. e.len /\ p + 1 \in Slots
  BY <1>0, <1>2, MapAssumption DEF Slots
<1>4. s \in [Slots -> Cells \cup {Nil}]
  BY <1>3 DEF Sound
<1>5. \A p \in 1 .. e.len - 1 : /\ s[p] \in {e.slot[p], e.slot[p + 1]}
                                 /\ p \in 1 .. e.len /\ p + 1 \in 1 .. e.len
  BY <1>0, <1>2
<1>6. \A p \in 1 .. e.len - 1 : s[p] # Nil /\ mem[m][s[p]] # Nil
  BY <1>5 DEF Sound
<1>7. e.len - 1 \in 0 .. len[m]
  BY <1>0, <1>2
<1> HIDE DEF s
<1>8. \A p \in 1 .. Shift(e, i).len :
         Shift(e, i).slot[p] # Nil /\ mem[m][Shift(e, i).slot[p]] # Nil
  BY <1>1, <1>6
<1> QED
  BY <1>1, <1>4, <1>7, <1>8 DEF Sound

(* So does the whole loop, in whatever state it starts.                     *)
LEMMA DelLoopSound ==
  ASSUME TypeOK, NEW m \in Maps, NEW k
  PROVE  Sound(m, DelLoop(m, k))
<1>1. len[m] \in Nat
  BY Sizes
<1>2. PICK f : Rounds(m, k, len[m], f) /\ DelLoop(m, k) = f[len[m]]
  BY <1>1, DelLoopRounds
<1>3. \A i \in 0 .. len[m] : f[i] = IF i = 0 THEN Start(m) ELSE Round(m, k, f[i - 1], i)
  BY <1>2 DEF Rounds
<1> DEFINE S == {i \in Nat : i <= len[m] => Sound(m, f[i])}
<1>4. 0 \in S
  <2>1. Start(m).slot = slot[m] /\ Start(m).len = len[m]
    BY DEF Start
  <2>2. Sound(m, Start(m))
    BY <1>1, <2>1, Sizes DEF Sound, TypeOK, At
  <2>3. f[0] = Start(m)
    BY <1>1, <1>3
  <2> QED
    BY <2>2, <2>3
<1>5. ASSUME NEW i \in Nat, i \in S PROVE i + 1 \in S
  <2> SUFFICES ASSUME i + 1 <= len[m] PROVE Sound(m, f[i + 1])
    OBVIOUS
  <2>1. Sound(m, f[i])
    BY <1>1, <1>5
  <2>2. f[i + 1] = Round(m, k, f[i], i + 1)
    <3>1. i + 1 \in 0 .. len[m] /\ i + 1 # 0 /\ (i + 1) - 1 = i
      BY <1>1
    <3> QED
      BY <1>3, <3>1
  <2>3. CASE i + 1 <= f[i].len /\ mem[m][f[i].slot[i + 1]].key = k
    <3>1. f[i + 1] = Shift(f[i], i + 1)
      BY <2>2, <2>3 DEF Round
    <3>2. i + 1 \in 1 .. f[i].len
      BY <1>1, <2>1, <2>3 DEF Sound
    <3> QED
      BY <2>1, <3>1, <3>2, ShiftSound
  <2>4. CASE ~(i + 1 <= f[i].len /\ mem[m][f[i].slot[i + 1]].key = k)
    BY <2>1, <2>2, <2>4 DEF Round
  <2> QED
    BY <2>3, <2>4
<1> HIDE DEF S
<1>6. len[m] \in S
  BY <1>1, <1>4, <1>5, SetInduction
<1> QED
  BY <1>1, <1>2, <1>6 DEF S

-----------------------------------------------------------------------------
(* The element that set overwrites holds the name.                          *)
LEMMA HitFacts ==
  ASSUME TypeOK, NEW m \in Maps, NEW k, Hits(m, k) # {}
  PROVE  Hit(m, k) \in 1 .. len[m] /\ At(m, Hit(m, k)).key = k
<1>1. Hits(m, k) \in SUBSET Nat
  BY Sizes DEF Hits
<1>2. Hit(m, k) \in Hits(m, k)
  BY <1>1, NatMin DEF Hit
<1> QED
  BY <1>2 DEF Hits

(* set of a name that kvs holds writes one cell.                            *)
LEMMA SetFoundCells ==
  ASSUME TypeOK, NEW m \in Maps, NEW k \in Plain, NEW v \in Values, SetFound(m, k, v)
  PROVE  LET c == slot[m][Hit(m, k)] IN
         /\ c \in Cells /\ mem'[m][c] = [key |-> k, value |-> v]
         /\ \A x \in Maps, b \in Cells : x # m \/ b # c => mem'[x][b] = mem[x][b]
         /\ mem' \in [Maps -> [Cells -> KV]]
<1> DEFINE c == slot[m][Hit(m, k)]
<1>1. c \in Cells /\ mem[m][c] \in [key : Plain, value : Values] /\ mem[m][c].key = k
  BY HitFacts, Sizes DEF SetFound, At
<1>2. mem' = [mem EXCEPT ![m][c].value = v]
  BY DEF SetFound
<1> HIDE DEF c
<1>3. mem \in [Maps -> [Cells -> KV]]
  BY DEF TypeOK
<1> DEFINE kv == [mem[m][c] EXCEPT !.value = v]
<1>4. kv = [key |-> k, value |-> v]
  BY <1>1
<1>5. mem' = [mem EXCEPT ![m][c] = kv]
  BY <1>2
<1>6. kv \in KV
  BY <1>4 DEF KV
<1> HIDE DEF kv
<1>7. /\ mem'[m][c] = kv
      /\ \A x \in Maps, b \in Cells : x # m \/ b # c => mem'[x][b] = mem[x][b]
      /\ mem' \in [Maps -> [Cells -> KV]]
  BY <1>1, <1>3, <1>5, <1>6
<1> QED
  BY <1>1, <1>4, <1>7 DEF c

(* Overwriting keeps the types.                                             *)
LEMMA SetFoundType ==
  ASSUME TypeOK, NEW m \in Maps, NEW k \in Plain, NEW v \in Values, SetFound(m, k, v)
  PROVE  TypeOK'
<1> DEFINE c == slot[m][Hit(m, k)]
<1>1. /\ mem'[m][c] = [key |-> k, value |-> v]
      /\ \A x \in Maps, b \in Cells : x # m \/ b # c => mem'[x][b] = mem[x][b]
      /\ mem' \in [Maps -> [Cells -> KV]]
  BY SetFoundCells
<1> DEFINE kv == [key |-> k, value |-> v]
<1>2. kv # Nil
  BY MapAssumption
<1> HIDE DEF c, kv
<1>3. UNCHANGED <<field, len, cap, slot>>
  BY DEF SetFound
<1>4. \A x \in Maps : \A i \in 1 .. len[x] : mem'[x][slot[x][i]] # Nil
  <2>1. \A x \in Maps : \A i \in 1 .. len[x] : slot[x][i] \in Cells /\ mem[x][slot[x][i]] # Nil
    BY Sizes DEF TypeOK, At
  <2>2. mem'[m][c] # Nil
    BY <1>1, <1>2 DEF kv
  <2> QED
    BY <1>1, <2>1, <2>2
<1> QED
  BY <1>1, <1>3, <1>4 DEF TypeOK, At

(* The cells of the elements when set has appended one.                     *)
Appended(m) == Allocated(slot[m], {len[m] + 1})

(* The element that set appends.                                            *)
LEMMA SetNewCells ==
  ASSUME TypeOK, NEW m \in Maps, NEW k \in Plain, NEW v \in Values, SetNew(m, k, v)
  PROVE  LET n == len[m] + 1
             s == Appended(m)
         IN  /\ n \in Slots /\ s \in [Slots -> Cells \cup {Nil}] /\ s[n] \in Cells
             /\ \A i \in Slots : i # n \/ slot[m][n] # Nil => s[i] = slot[m][i]
             /\ slot[m][n] = Nil => \A i \in Slots : i # n => s[n] # s[i]
             /\ len' = [len EXCEPT ![m] = n] /\ slot' = [slot EXCEPT ![m] = s]
             /\ cap' \in [Maps -> 0 .. MaxCap] /\ n <= cap'[m]
             /\ \A x \in Maps : x # m => cap'[x] = cap[x]
             /\ mem'[m][s[n]] = [key |-> k, value |-> v]
             /\ \A x \in Maps, b \in Cells : x # m \/ b # s[n] => mem'[x][b] = mem[x][b]
             /\ mem' \in [Maps -> [Cells -> KV]]
<1> DEFINE n == len[m] + 1
           c == IF cap[m] < n THEN Grown(cap[m]) ELSE cap[m]
           s == Appended(m)
           kv == [key |-> k, value |-> v]
<1>1. len[m] \in Nat /\ cap[m] \in Nat /\ len[m] <= cap[m] /\ Chunk \in Nat /\ Chunk >= 1
  BY Sizes, MapAssumption
<1>2. c \in Nat /\ n <= c /\ c <= MaxCap
  BY <1>1 DEF SetNew, Grown
<1>3. n \in Slots
  BY <1>1, <1>2, MapAssumption DEF Slots
<1>4. /\ s \in [Slots -> Cells \cup {Nil}] /\ s[n] \in Cells
      /\ \A i \in Slots : i # n \/ slot[m][n] # Nil => s[i] = slot[m][i]
      /\ slot[m][n] = Nil => \A i \in Slots : i # n => s[n] # s[i]
  <2>1. slot[m] \in [Slots -> Cells \cup {Nil}]
    BY Sizes
  <2>2. {n} \in SUBSET Slots
    BY <1>3
  <2>3. /\ s \in [Slots -> Cells \cup {Nil}]
        /\ \A i \in {n} : s[i] \in Cells
        /\ \A i \in Slots : slot[m][i] # Nil \/ i \notin {n} => s[i] = slot[m][i]
        /\ \A i \in {n}, j \in Slots : slot[m][i] = Nil /\ i # j => s[i] # s[j]
    BY <2>1, <2>2, AllocatedFacts DEF Appended
  <2> HIDE DEF s, n
  <2> QED
    BY <1>3, <2>3
<1>5. /\ len' = [len EXCEPT ![m] = n] /\ slot' = [slot EXCEPT ![m] = s]
      /\ cap' = [cap EXCEPT ![m] = c] /\ mem' = [mem EXCEPT ![m][s[n]] = kv]
  BY DEF SetNew, Appended
<1>6. kv \in KV
  BY DEF KV
<1>7. cap' \in [Maps -> 0 .. MaxCap] /\ n <= cap'[m] /\ \A x \in Maps : x # m => cap'[x] = cap[x]
  <2>1. cap \in [Maps -> 0 .. MaxCap] /\ c \in 0 .. MaxCap
    BY <1>2, MapAssumption DEF TypeOK
  <2> HIDE DEF c
  <2> QED
    BY <1>2, <1>5, <2>1
<1>8. /\ mem'[m][s[n]] = kv
      /\ \A x \in Maps, b \in Cells : x # m \/ b # s[n] => mem'[x][b] = mem[x][b]
      /\ mem' \in [Maps -> [Cells -> KV]]
  <2>1. mem \in [Maps -> [Cells -> KV]]
    BY DEF TypeOK
  <2> HIDE DEF s, kv, n
  <2> QED
    BY <1>4, <1>5, <1>6, <2>1
<1> HIDE DEF s, n, c
<1>9. /\ n \in Slots /\ s \in [Slots -> Cells \cup {Nil}] /\ s[n] \in Cells
      /\ \A i \in Slots : i # n \/ slot[m][n] # Nil => s[i] = slot[m][i]
      /\ slot[m][n] = Nil => \A i \in Slots : i # n => s[n] # s[i]
      /\ len' = [len EXCEPT ![m] = n] /\ slot' = [slot EXCEPT ![m] = s]
      /\ cap' \in [Maps -> 0 .. MaxCap] /\ n <= cap'[m]
      /\ \A x \in Maps : x # m => cap'[x] = cap[x]
      /\ mem'[m][s[n]] = kv
      /\ \A x \in Maps, b \in Cells : x # m \/ b # s[n] => mem'[x][b] = mem[x][b]
      /\ mem' \in [Maps -> [Cells -> KV]]
  BY <1>3, <1>4, <1>5, <1>7, <1>8
<1> QED
  BY <1>9 DEF s, n

(* Growth and reuse keep the types.                                         *)
LEMMA SetNewType ==
  ASSUME TypeOK, NEW m \in Maps, NEW k \in Plain, NEW v \in Values, SetNew(m, k, v)
  PROVE  TypeOK'
<1> DEFINE n == len[m] + 1
           s == Appended(m)
           kv == [key |-> k, value |-> v]
<1>1. /\ n \in Slots /\ s \in [Slots -> Cells \cup {Nil}] /\ s[n] \in Cells
      /\ \A i \in Slots : i # n \/ slot[m][n] # Nil => s[i] = slot[m][i]
      /\ len' = [len EXCEPT ![m] = n] /\ slot' = [slot EXCEPT ![m] = s]
      /\ cap' \in [Maps -> 0 .. MaxCap] /\ n <= cap'[m]
      /\ \A x \in Maps : x # m => cap'[x] = cap[x]
      /\ mem'[m][s[n]] = kv
      /\ \A x \in Maps, b \in Cells : x # m \/ b # s[n] => mem'[x][b] = mem[x][b]
      /\ mem' \in [Maps -> [Cells -> KV]]
  BY SetNewCells
<1>2. kv # Nil /\ field' = field
  BY MapAssumption DEF SetNew
<1> HIDE DEF s, kv
<1>3. len' \in [Maps -> 0 .. MaxCap] /\ len'[m] = n /\ \A x \in Maps : x # m => len'[x] = len[x]
  BY <1>1, MapAssumption DEF TypeOK, Slots
<1>4. /\ slot' \in [Maps -> [Slots -> Cells \cup {Nil}]] /\ slot'[m] = s
      /\ \A x \in Maps : x # m => slot'[x] = slot[x]
  BY <1>1 DEF TypeOK
<1>5. ASSUME NEW x \in Maps
      PROVE  /\ len'[x] <= cap'[x]
             /\ \A i \in 1 .. len'[x] : slot'[x][i] # Nil /\ At(x, i)' # Nil
  <2>1. /\ len[x] \in Nat /\ len[x] <= cap[x] /\ 1 .. len[x] \subseteq Slots
        /\ \A i \in 1 .. len[x] : /\ slot[x][i] \in Cells /\ slot[x][i] # Nil
                                  /\ mem[x][slot[x][i]] # Nil
    BY Sizes DEF TypeOK, At
  <2>2. CASE x # m
    <3>1. len'[x] = len[x] /\ cap'[x] = cap[x] /\ slot'[x] = slot[x]
      BY <1>1, <1>3, <1>4, <2>2
    <3>2. \A i \in 1 .. len[x] : mem'[x][slot[x][i]] = mem[x][slot[x][i]]
      BY <1>1, <2>1, <2>2
    <3> QED
      BY <2>1, <3>1, <3>2 DEF At
  <2>3. CASE x = m
    <3>1. \A i \in 1 .. n : i # n => i \in 1 .. len[m]
      BY <2>1, <2>3
    <3>2. \A i \in 1 .. n : s[i] \in Cells /\ (i # n => s[i] = slot[m][i])
      BY <1>1, <2>1, <2>3, <3>1
    <3>3. \A i \in 1 .. n : mem'[m][s[i]] # Nil
      BY <1>1, <1>2, <2>1, <2>3, <3>1, <3>2
    <3>4. Nil \notin Cells
      BY MapAssumption DEF Cells
    <3> QED
      BY <1>1, <1>3, <1>4, <2>3, <3>2, <3>3, <3>4 DEF At
  <2> QED
    BY <2>2, <2>3
<1>6. field' \in [Maps -> [Special -> Values \cup {Empty}]]
  BY <1>2 DEF TypeOK
<1> QED
  BY <1>1, <1>3, <1>4, <1>5, <1>6, TypeFromMaps

(* A deletion keeps the types, on unclean maps too.                         *)
LEMMA DelPlainType ==
  ASSUME TypeOK, NEW m \in Maps, NEW k, DelPlain(m, k)
  PROVE  TypeOK'
<1> DEFINE e == DelLoop(m, k)
<1>1. /\ len' = [len EXCEPT ![m] = e.len] /\ slot' = [slot EXCEPT ![m] = e.slot]
      /\ UNCHANGED <<field, cap, mem>>
  BY DEF DelPlain
<1>2. /\ e.len \in 0 .. len[m] /\ e.slot \in [Slots -> Cells \cup {Nil}]
      /\ \A p \in 1 .. e.len : e.slot[p] # Nil /\ mem[m][e.slot[p]] # Nil
  BY DelLoopSound DEF Sound
<1> HIDE DEF e
<1>3. len[m] \in Nat /\ len[m] <= MaxCap /\ len[m] <= cap[m]
  BY Sizes, MapAssumption
<1>4. len' \in [Maps -> 0 .. MaxCap] /\ len'[m] = e.len /\ \A x \in Maps : x # m => len'[x] = len[x]
  BY <1>1, <1>2, <1>3, MapAssumption DEF TypeOK
<1>5. /\ slot' \in [Maps -> [Slots -> Cells \cup {Nil}]] /\ slot'[m] = e.slot
      /\ \A x \in Maps : x # m => slot'[x] = slot[x]
  BY <1>1, <1>2 DEF TypeOK
<1>6. ASSUME NEW x \in Maps
      PROVE  /\ len'[x] <= cap'[x]
             /\ \A i \in 1 .. len'[x] : slot'[x][i] # Nil /\ At(x, i)' # Nil
  <2>1. CASE x # m
    BY <1>1, <1>4, <1>5, <2>1 DEF TypeOK, At
  <2>2. CASE x = m
    <3>1. len'[m] <= cap'[m]
      BY <1>1, <1>2, <1>3, <1>4, Sizes
    <3> QED
      BY <1>1, <1>2, <1>4, <1>5, <2>2, <3>1 DEF At
  <2> QED
    BY <2>1, <2>2
<1> QED
  BY <1>1, <1>4, <1>5, <1>6 DEF TypeOK

(* Reset keeps the types.                                                   *)
LEMMA ResetType == ASSUME TypeOK, NEW m \in Maps, Reset(m) PROVE TypeOK'
<1>1. len' = [len EXCEPT ![m] = 0] /\ UNCHANGED <<cap, slot, mem>>
  BY DEF Reset, NoLen
<1>2. \A x \in Maps : 1 .. len'[x] \subseteq 1 .. len[x] /\ len'[x] <= cap[x]
  BY <1>1, Sizes DEF TypeOK
<1>3. field' \in [Maps -> [Special -> Values \cup {Empty}]]
  <2>1. [k \in Special |-> Empty] \in [Special -> Values \cup {Empty}]
    OBVIOUS
  <2> QED
    BY <2>1 DEF Reset, TypeOK
<1>4. len' \in [Maps -> 0 .. MaxCap]
  BY <1>1, MapAssumption DEF TypeOK
<1> QED
  BY <1>1, <1>2, <1>3, <1>4 DEF TypeOK, At

(* The elements that CopyTo writes: each has a cell, and a cell it gets for *)
(* lack of one is nobody else's.  A cell holds the last header written.     *)
LEMMA CopyCells ==
  ASSUME TypeOK, NEW m \in Maps, NEW d \in Maps, m # d, CopyTo(m, d)
  PROVE  LET n == len[m]
             r == Roomy(d, n)
             s == Allocated(r, 1 .. n)
         IN  /\ 1 .. n \subseteq Slots /\ r \in [Slots -> Cells \cup {Nil}]
             /\ s \in [Slots -> Cells \cup {Nil}] /\ \A i \in 1 .. n : s[i] \in Cells
             /\ \A i \in Slots : r[i] # Nil \/ i \notin 1 .. n => s[i] = r[i]
             /\ \A i \in 1 .. n, j \in Slots : r[i] = Nil /\ i # j => s[i] # s[j]
             /\ slot' = [slot EXCEPT ![d] = s] /\ len' = [len EXCEPT ![d] = n]
             /\ \A x \in Maps : x # d => mem'[x] = mem[x]
             /\ \A c \in Cells : (\A i \in 1 .. n : s[i] # c) => mem'[d][c] = mem[d][c]
             /\ \A i \in 1 .. n : \E j \in 1 .. n : s[j] = s[i] /\ mem'[d][s[i]] = At(m, j)
             /\ mem' \in [Maps -> [Cells -> KV]]
<1> DEFINE n == len[m]
           r == Roomy(d, n)
           s == Allocated(r, 1 .. n)
           W(c) == {i \in 1 .. n : s[i] = c}
           new == [c \in Cells |-> IF W(c) = {} THEN mem[d][c] ELSE At(m, Max(W(c)))]
<1>1. n \in Nat /\ 1 .. n \subseteq Slots
  BY Sizes
<1>2. r \in [Slots -> Cells \cup {Nil}]
  BY DEF Roomy, TypeOK
<1>3. /\ s \in [Slots -> Cells \cup {Nil}] /\ \A i \in 1 .. n : s[i] \in Cells
      /\ \A i \in Slots : r[i] # Nil \/ i \notin 1 .. n => s[i] = r[i]
      /\ \A i \in 1 .. n, j \in Slots : r[i] = Nil /\ i # j => s[i] # s[j]
  <2> HIDE DEF r
  <2>1. 1 .. n \in SUBSET Slots
    BY <1>1
  <2> QED
    BY <1>2, <2>1, AllocatedFacts
<1>4. /\ slot' = [slot EXCEPT ![d] = s] /\ len' = [len EXCEPT ![d] = n]
      /\ mem' = [mem EXCEPT ![d] = new]
  BY DEF CopyTo
<1>5. \A c \in Cells : W(c) # {} => Max(W(c)) \in W(c)
  <2> TAKE c \in Cells
  <2>1. W(c) \in SUBSET (1 .. n)
    OBVIOUS
  <2> HIDE DEF W, n
  <2> QED
    BY <1>1, <2>1, NatMax
<1> HIDE DEF r, s
<1>6. \A c \in Cells : (\A i \in 1 .. n : s[i] # c) => new[c] = mem[d][c]
  OBVIOUS
<1>7. ASSUME NEW i \in 1 .. n
      PROVE  \E j \in 1 .. n : s[j] = s[i] /\ new[s[i]] = At(m, j)
  <2>1. s[i] \in Cells /\ i \in W(s[i])
    BY <1>3
  <2>2. new[s[i]] = At(m, Max(W(s[i]))) /\ Max(W(s[i])) \in W(s[i])
    BY <1>5, <2>1
  <2> HIDE DEF new
  <2> QED
    BY <2>2
<1>8. new \in [Cells -> KV]
  <2>1. ASSUME NEW c \in Cells PROVE new[c] \in KV
    <3>1. mem[d][c] \in KV /\ \A i \in 1 .. n : At(m, i) \in KV
      BY Sizes DEF KV
    <3>2. CASE W(c) = {}
      BY <3>1, <3>2
    <3>3. CASE W(c) # {}
      <4>1. new[c] = At(m, Max(W(c))) /\ Max(W(c)) \in 1 .. n
        BY <1>5, <3>3
      <4> HIDE DEF new
      <4> QED
        BY <3>1, <4>1
    <3> QED
      BY <3>2, <3>3
  <2>2. new = [c \in Cells |-> new[c]]
    OBVIOUS
  <2> HIDE DEF new
  <2> QED
    BY <2>1, <2>2
<1> HIDE DEF new, n
<1>9. /\ mem'[d] = new /\ \A x \in Maps : x # d => mem'[x] = mem[x]
      /\ mem' \in [Maps -> [Cells -> KV]]
  BY <1>4, <1>8 DEF TypeOK
<1>10. /\ \A c \in Cells : (\A i \in 1 .. n : s[i] # c) => mem'[d][c] = mem[d][c]
       /\ \A i \in 1 .. n : \E j \in 1 .. n : s[j] = s[i] /\ mem'[d][s[i]] = At(m, j)
  BY <1>6, <1>7, <1>9
<1> QED
  BY <1>1, <1>2, <1>3, <1>4, <1>9, <1>10 DEF n, r, s

(* CopyTo keeps the types, whatever the destination shares.                 *)
LEMMA CopyType ==
  ASSUME TypeOK, NEW m \in Maps, NEW d \in Maps, m # d, CopyTo(m, d)
  PROVE  TypeOK'
<1> DEFINE n == len[m]
           s == Allocated(Roomy(d, n), 1 .. n)
<1>1. /\ s \in [Slots -> Cells \cup {Nil}] /\ \A i \in 1 .. n : s[i] \in Cells
      /\ slot' = [slot EXCEPT ![d] = s] /\ len' = [len EXCEPT ![d] = n]
      /\ \A x \in Maps : x # d => mem'[x] = mem[x]
      /\ \A i \in 1 .. n : \E j \in 1 .. n : s[j] = s[i] /\ mem'[d][s[i]] = At(m, j)
      /\ mem' \in [Maps -> [Cells -> KV]]
  BY CopyCells
<1> HIDE DEF s
<1>2. n \in 0 .. MaxCap /\ n \in Nat /\ cap[d] \in Nat
  BY Sizes DEF TypeOK
<1>3. /\ cap' \in [Maps -> 0 .. MaxCap] /\ n <= cap'[d]
      /\ \A x \in Maps : x # d => cap'[x] = cap[x]
  BY <1>2 DEF CopyTo, TypeOK
<1>4. len' \in [Maps -> 0 .. MaxCap] /\ len'[d] = n /\ \A x \in Maps : x # d => len'[x] = len[x]
  BY <1>1, <1>2 DEF TypeOK
<1>5. /\ slot' \in [Maps -> [Slots -> Cells \cup {Nil}]] /\ slot'[d] = s
      /\ \A x \in Maps : x # d => slot'[x] = slot[x]
  BY <1>1 DEF TypeOK
<1>6. field' \in [Maps -> [Special -> Values \cup {Empty}]]
  BY DEF CopyTo, TypeOK
<1>7. ASSUME NEW x \in Maps
      PROVE  /\ len'[x] <= cap'[x]
             /\ \A i \in 1 .. len'[x] : slot'[x][i] # Nil /\ At(x, i)' # Nil
  <2>1. CASE x # d
    BY <1>1, <1>3, <1>4, <1>5, <2>1 DEF TypeOK, At
  <2>2. CASE x = d
    <3>1. \A j \in 1 .. n : At(m, j) # Nil
      BY DEF TypeOK
    <3>2. Nil \notin Cells
      BY MapAssumption DEF Cells
    <3>3. \A i \in 1 .. n : s[i] # Nil /\ mem'[d][s[i]] # Nil
      BY <1>1, <3>1, <3>2
    <3> QED
      BY <1>3, <1>4, <1>5, <2>2, <3>3 DEF At
  <2> QED
    BY <2>1, <2>2
<1> QED
  BY <1>1, <1>3, <1>4, <1>5, <1>6, <1>7, TypeFromMaps

LEMMA TypeInit == Init => TypeOK
BY MapAssumption DEF Init, TypeOK, KV

LEMMA TypeStep == TypeOK /\ [Next]_vars => TypeOK'
<1> SUFFICES ASSUME TypeOK, [Next]_vars PROVE TypeOK'
  OBVIOUS
<1>1. ASSUME NEW m \in Maps, NEW k \in Special, NEW v \in Values \cup {Empty},
             SetSpecial(m, k, v)
      PROVE  TypeOK'
  BY <1>1 DEF TypeOK, At, SetSpecial
<1>2. ASSUME NEW m \in Maps, NEW k \in Names, DelSpecial(m, k) PROVE TypeOK'
  <2>1. UNCHANGED <<len, cap, slot, mem>>
    BY <1>2 DEF DelSpecial
  <2>2. field' \in [Maps -> [Special -> Values \cup {Empty}]]
    BY <1>2 DEF DelSpecial, TypeOK
  <2> QED
    BY <2>1, <2>2 DEF TypeOK, At
<1>3. CASE UNCHANGED vars
  BY <1>3 DEF vars, TypeOK, At
<1> QED
  BY <1>1, <1>2, <1>3, SetFoundType, SetNewType, DelPlainType, ResetType, CopyType DEF Next

-----------------------------------------------------------------------------
(* The two halves of cleanliness: elements with memory of their own, and    *)
(* names that differ.                                                       *)
Apart == \A m \in Maps : \A i, j \in Slots : i # j /\ slot[m][i] # Nil => slot[m][i] # slot[m][j]
Named == \A m \in Maps : \A i, j \in 1 .. len[m] : i # j => At(m, i).key # At(m, j).key

(* The headers of a map, element by element.                                *)
Elems(m) == [i \in Slots |-> At(m, i)]

(* What get finds in an array t of n headers with different names.          *)
Found(t, n, k) ==
  LET H == {i \in 1 .. n : t[i].key = k}
  IN  IF H = {} THEN Empty ELSE t[Min(H)].value

(* Arrays t of n and u of p headers hold the same header of name k.         *)
Agree(t, n, u, p, k) ==
  /\ \A i \in 1 .. n : t[i].key = k => \E j \in 1 .. p : u[j] = t[i]
  /\ \A j \in 1 .. p : u[j].key = k => \E i \in 1 .. n : t[i] = u[j]
  /\ \A i, j \in 1 .. n : i # j => t[i].key # t[j].key
  /\ \A i, j \in 1 .. p : i # j => u[i].key # u[j].key

LEMMA CleanIs == AllClean <=> Apart /\ Named
BY DEF AllClean, Clean, Apart, Named

-----------------------------------------------------------------------------
(* Names that differ are found at their own element.                        *)
LEMMA FoundAt ==
  ASSUME NEW n \in Nat, NEW t, NEW k, NEW i \in 1 .. n, t[i].key = k,
         \A j, l \in 1 .. n : j # l => t[j].key # t[l].key
  PROVE  Found(t, n, k) = t[i].value
<1> DEFINE H == {j \in 1 .. n : t[j].key = k}
<1>1. H = {i}
  OBVIOUS
<1>2. Min(H) = i
  BY <1>1 DEF Min
<1> QED
  BY <1>1, <1>2 DEF Found

(* A name that no element holds is not found.                               *)
LEMMA NotFound ==
  ASSUME NEW n \in Nat, NEW t, NEW k, \A i \in 1 .. n : t[i].key # k
  PROVE  Found(t, n, k) = Empty
BY DEF Found

(* Two arrays that hold the same header of name k agree on it.              *)
LEMMA FoundSame ==
  ASSUME NEW n \in Nat, NEW t, NEW p \in Nat, NEW u, NEW k, Agree(t, n, u, p, k)
  PROVE  Found(t, n, k) = Found(u, p, k)
<1>1. CASE \A i \in 1 .. n : t[i].key # k
  <2>1. \A j \in 1 .. p : u[j].key # k
    BY <1>1 DEF Agree
  <2> QED
    BY <1>1, <2>1, NotFound
<1>2. ASSUME NEW i \in 1 .. n, t[i].key = k
      PROVE  Found(t, n, k) = Found(u, p, k)
  <2>1. Found(t, n, k) = t[i].value
    BY <1>2, FoundAt DEF Agree
  <2>2. PICK j \in 1 .. p : u[j] = t[i]
    BY <1>2 DEF Agree
  <2>3. Found(u, p, k) = u[j].value
    BY <1>2, <2>2, FoundAt DEF Agree
  <2> QED
    BY <2>1, <2>2, <2>3
<1> QED
  BY <1>1, <1>2

(* The headers within the length.                                           *)
LEMMA ElemsFacts ==
  ASSUME TypeOK, NEW m \in Maps
  PROVE  /\ len[m] \in Nat /\ 1 .. len[m] \subseteq Slots
         /\ \A i \in 1 .. len[m] : /\ Elems(m)[i] = At(m, i)
                                  /\ Elems(m)[i] \in [key : Plain, value : Values]
         /\ Named => \A i, j \in 1 .. len[m] : i # j => Elems(m)[i].key # Elems(m)[j].key
<1>1. len[m] \in Nat /\ 1 .. len[m] \subseteq Slots
  BY Sizes
<1>2. \A i \in 1 .. len[m] : Elems(m)[i] = At(m, i)
  BY <1>1 DEF Elems
<1>3. \A i \in 1 .. len[m] : Elems(m)[i] \in [key : Plain, value : Values]
  BY <1>2, Sizes
<1>4. Named => \A i, j \in 1 .. len[m] : i # j => Elems(m)[i].key # Elems(m)[j].key
  BY <1>2 DEF Named
<1> QED
  BY <1>1, <1>2, <1>3, <1>4

(* get reads the elements 1 .. len.                                         *)
LEMMA GetIsFound ==
  ASSUME TypeOK, NEW m \in Maps, NEW k \in Plain
  PROVE  Get(m, k) = Found(Elems(m), len[m], k)
<1>1. \A i \in 1 .. len[m] : Elems(m)[i] = At(m, i)
  BY ElemsFacts
<1> DEFINE H == {i \in 1 .. len[m] : Elems(m)[i].key = k}
<1>2. Hits(m, k) = H
  BY <1>1 DEF Hits
<1>3. k \notin Special
  BY MapAssumption
<1>4. CASE H = {}
  BY <1>2, <1>3, <1>4 DEF Get, Found
<1>5. CASE H # {}
  <2>1. H \in SUBSET Nat
    BY ElemsFacts
  <2>2. Min(H) \in 1 .. len[m]
    BY <1>5, <2>1, NatMin
  <2>3. Get(m, k) = At(m, Min(H)).value
    BY <1>2, <1>3, <1>5 DEF Get
  <2>4. Found(Elems(m), len[m], k) = Elems(m)[Min(H)].value
    BY <1>5 DEF Found
  <2> QED
    BY <1>1, <2>2, <2>3, <2>4
<1> QED
  BY <1>4, <1>5

(* What a map contains, read from its elements.                             *)
ReadsElems ==
  \A m \in Maps, k \in Names :
     Content[m][k] = IF k \in Special THEN field[m][k] ELSE Found(Elems(m), len[m], k)

LEMMA ContentRead == TypeOK => ReadsElems
<1> SUFFICES ASSUME TypeOK, NEW m \in Maps, NEW k \in Names
             PROVE  Content[m][k] = IF k \in Special THEN field[m][k]
                                    ELSE Found(Elems(m), len[m], k)
  BY DEF ReadsElems
<1>1. CASE k \in Special
  BY <1>1 DEF Content, Get
<1>2. CASE k \notin Special
  <2>1. k \in Plain
    BY <1>2 DEF Names
  <2>2. Get(m, k) = Found(Elems(m), len[m], k)
    BY <2>1, GetIsFound
  <2> QED
    BY <1>2, <2>2 DEF Content
<1> QED
  BY <1>1, <1>2

LEMMA ContentReadNext == TypeOK' => ReadsElems'
BY ContentRead, PTL

(* A step that keeps the fields of a map keeps the headers on which its     *)
(* elements agree.                                                          *)
LEMMA HeaderKept ==
  ASSUME TypeOK, TypeOK', NEW x \in Maps, NEW y \in Names \ Special,
         Agree(Elems(x), len[x], Elems(x)', len'[x], y)
  PROVE  Content'[x][y] = Content[x][y]
<1>1. len[x] \in Nat /\ len'[x] \in Nat
  BY DEF TypeOK
<1>2. Found(Elems(x), len[x], y) = Found(Elems(x)', len'[x], y)
  BY <1>1, FoundSame
<1> QED
  BY <1>2, ContentRead, ContentReadNext DEF ReadsElems

(* The elements after a step.                                               *)
LEMMA ElemsNext ==
  ASSUME TypeOK', NEW x \in Maps
  PROVE  /\ len'[x] \in Nat /\ 1 .. len'[x] \subseteq Slots
         /\ \A i \in 1 .. len'[x] : Elems(x)'[i] = mem'[x][slot'[x][i]]
         /\ Named' => \A i, j \in 1 .. len'[x] : i # j => Elems(x)'[i].key # Elems(x)'[j].key
<1>1. len'[x] \in Nat /\ 1 .. len'[x] \subseteq Slots
  BY MapAssumption DEF TypeOK, Slots
<1>2. \A i \in 1 .. len'[x] : Elems(x)'[i] = mem'[x][slot'[x][i]]
  BY <1>1 DEF Elems, At
<1>3. Named' => \A i, j \in 1 .. len'[x] : i # j => Elems(x)'[i].key # Elems(x)'[j].key
  BY <1>2 DEF Named, At
<1> QED
  BY <1>1, <1>2, <1>3

(* Named' from the elements.                                                *)
LEMMA NamedNext ==
  ASSUME TypeOK', \A x \in Maps : \A i, j \in 1 .. len'[x] :
                     i # j => Elems(x)'[i].key # Elems(x)'[j].key
  PROVE  Named'
<1>1. \A x \in Maps : \A i \in 1 .. len'[x] : Elems(x)'[i] = mem'[x][slot'[x][i]]
  BY ElemsNext
<1> QED
  BY <1>1 DEF Named, At

(* An update of one header, from what it does to each name of each map.     *)
LEMMA ContentSet ==
  ASSUME NEW m \in Maps, NEW k \in Names, NEW v,
         \A x \in Maps, y \in Names :
            Content'[x][y] = IF x = m /\ y = k THEN v ELSE Content[x][y]
  PROVE  Content' = [Content EXCEPT ![m][k] = v]
<1>1. Content' = [x \in Maps |-> [y \in Names |-> Content'[x][y]]]
  BY DEF Content
<1>2. Content = [x \in Maps |-> [y \in Names |-> Content[x][y]]]
  BY DEF Content
<1> HIDE DEF Content
<1> QED
  BY <1>1, <1>2

(* The same for all headers of one map.                                     *)
LEMMA ContentReplaced ==
  ASSUME NEW m \in Maps, NEW f, f = [y \in Names |-> f[y]],
         \A x \in Maps, y \in Names :
            Content'[x][y] = IF x = m THEN f[y] ELSE Content[x][y]
  PROVE  Content' = [Content EXCEPT ![m] = f]
<1>1. Content' = [x \in Maps |-> [y \in Names |-> Content'[x][y]]]
  BY DEF Content
<1>2. Content = [x \in Maps |-> [y \in Names |-> Content[x][y]]]
  BY DEF Content
<1> HIDE DEF Content
<1> QED
  BY <1>1, <1>2

-----------------------------------------------------------------------------
(* The special fields are apart from kvs.                                   *)
LEMMA SetSpecialStep ==
  ASSUME TypeOK, TypeOK', Apart, Named, NEW m \in Maps, NEW k \in Special,
         NEW v \in Values \cup {Empty}, SetSpecial(m, k, v)
  PROVE  Apart' /\ Named' /\ Abs!Set(m, k, v)
<1>1. UNCHANGED <<len, cap, slot, mem>> /\ k \in Names
  BY DEF SetSpecial, Names
<1>2. Apart' /\ Named' /\ \A x \in Maps : Elems(x)' = Elems(x)
  BY <1>1 DEF Apart, Named, Elems, At
<1>3. \A x \in Maps, y \in Special :
         field'[x][y] = IF x = m /\ y = k THEN v ELSE field[x][y]
  BY DEF SetSpecial, TypeOK
<1>4. \A x \in Maps, y \in Names :
         Content'[x][y] = IF x = m /\ y = k THEN v ELSE Content[x][y]
  BY <1>1, <1>2, <1>3, ContentRead, ContentReadNext DEF ReadsElems
<1> QED
  BY <1>1, <1>2, <1>4, ContentSet DEF Abs!Set, SetSpecial

LEMMA DelSpecialStep ==
  ASSUME TypeOK, TypeOK', Apart, Named, NEW m \in Maps, NEW k \in Special, DelSpecial(m, k)
  PROVE  Apart' /\ Named' /\ Abs!Del(m, k)
<1>1. UNCHANGED <<len, cap, slot, mem>> /\ k \in Names
  BY DEF DelSpecial, Names
<1>2. Apart' /\ Named' /\ \A x \in Maps : Elems(x)' = Elems(x)
  BY <1>1 DEF Apart, Named, Elems, At
<1>3. \A x \in Maps, y \in Special :
         field'[x][y] = IF x = m /\ y = k THEN Empty ELSE field[x][y]
  BY DEF DelSpecial, TypeOK
<1>4. \A x \in Maps, y \in Names :
         Content'[x][y] = IF x = m /\ y = k THEN Empty ELSE Content[x][y]
  BY <1>1, <1>2, <1>3, ContentRead, ContentReadNext DEF ReadsElems
<1> QED
  BY <1>1, <1>2, <1>4, ContentSet DEF Abs!Del, DelSpecial

(* One element has the memory that the value is written to.                 *)
LEMMA SetFoundStep ==
  ASSUME TypeOK, TypeOK', Apart, Named, NEW m \in Maps, NEW k \in Plain, NEW v \in Values,
         SetFound(m, k, v)
  PROVE  Apart' /\ Named' /\ Abs!Set(m, k, v)
<1> DEFINE h == Hit(m, k)
           c == slot[m][h]
<1>1. h \in 1 .. len[m] /\ At(m, h).key = k
  BY HitFacts DEF SetFound
<1>2. /\ c \in Cells /\ mem'[m][c] = [key |-> k, value |-> v]
      /\ \A x \in Maps, b \in Cells : x # m \/ b # c => mem'[x][b] = mem[x][b]
  BY SetFoundCells
<1>3. UNCHANGED <<field, len, cap, slot>>
  BY DEF SetFound
<1> HIDE DEF h
<1>4. \A x \in Maps : \A i \in 1 .. len[x] : x # m \/ i # h => Elems(x)'[i] = Elems(x)[i]
  <2> TAKE x \in Maps
  <2> TAKE i \in 1 .. len[x]
  <2> HAVE x # m \/ i # h
  <2>1. i \in Slots /\ h \in Slots /\ slot[x][i] \in Cells /\ slot[m][h] # Nil
    BY <1>1, Sizes DEF TypeOK
  <2>2. x # m \/ slot[x][i] # c
    BY <2>1 DEF Apart
  <2>3. mem'[x][slot[x][i]] = mem[x][slot[x][i]]
    BY <1>2, <2>1, <2>2
  <2> QED
    BY <1>3, <2>3, ElemsFacts, ElemsNext DEF At
<1>5. Elems(m)'[h].key = k /\ Elems(m)'[h].value = v /\ Elems(m)[h].key = k
  BY <1>1, <1>2, <1>3, ElemsFacts, ElemsNext
<1>6. \A x \in Maps : \A i, j \in 1 .. len[x] : i # j => Elems(x)'[i].key # Elems(x)'[j].key
  <2>1. \A x \in Maps : \A i \in 1 .. len[x] : Elems(x)'[i].key = Elems(x)[i].key
    BY <1>4, <1>5
  <2> QED
    BY <2>1, ElemsFacts
<1>7. Apart' /\ Named'
  BY <1>3, <1>6, NamedNext DEF Apart
<1>8. k \in Names /\ k \notin Special
  BY MapAssumption DEF Names
<1>9. ASSUME NEW x \in Maps, NEW y \in Names
      PROVE  Content'[x][y] = IF x = m /\ y = k THEN v ELSE Content[x][y]
  <2>1. CASE y \in Special
    BY <1>3, <1>8, <2>1, ContentRead, ContentReadNext DEF ReadsElems
  <2>2. CASE y \notin Special /\ x = m /\ y = k
    <3>1. Found(Elems(m)', len[m], k) = v
      BY <1>1, <1>5, <1>6, ElemsFacts, FoundAt
    <3> QED
      BY <1>3, <2>2, <3>1, ContentReadNext DEF ReadsElems
  <2>3. CASE y \notin Special /\ ~(x = m /\ y = k)
    <3>1. \A i \in 1 .. len[x] : Elems(x)[i].key = y => Elems(x)'[i] = Elems(x)[i]
      BY <1>4, <1>5, <2>3
    <3>2. \A i \in 1 .. len[x] : Elems(x)'[i].key = y => Elems(x)'[i] = Elems(x)[i]
      BY <1>4, <1>5, <2>3
    <3>3. Agree(Elems(x), len[x], Elems(x)', len'[x], y)
      BY <1>3, <1>6, <3>1, <3>2, ElemsFacts DEF Agree
    <3> QED
      BY <2>3, <3>3, HeaderKept
  <2> QED
    BY <2>1, <2>2, <2>3
<1> QED
  BY <1>7, <1>8, <1>9, ContentSet DEF Abs!Set, SetFound

(* The element that takes a new header shares its memory with none.         *)
LEMMA SetNewStep ==
  ASSUME TypeOK, TypeOK', Apart, Named, NEW m \in Maps, NEW k \in Plain, NEW v \in Values,
         SetNew(m, k, v)
  PROVE  Apart' /\ Named' /\ Abs!Set(m, k, v)
<1> DEFINE n == len[m] + 1
           s == Appended(m)
<1>1. /\ n \in Slots /\ s \in [Slots -> Cells \cup {Nil}] /\ s[n] \in Cells
      /\ \A i \in Slots : i # n \/ slot[m][n] # Nil => s[i] = slot[m][i]
      /\ slot[m][n] = Nil => \A i \in Slots : i # n => s[n] # s[i]
      /\ len' = [len EXCEPT ![m] = n] /\ slot' = [slot EXCEPT ![m] = s]
      /\ mem'[m][s[n]] = [key |-> k, value |-> v]
      /\ \A x \in Maps, b \in Cells : x # m \/ b # s[n] => mem'[x][b] = mem[x][b]
  BY SetNewCells
<1>2. \A i, j \in Slots : i # j /\ s[i] # Nil => s[i] # s[j]
  BY <1>1 DEF Apart
<1>3. len[m] \in Nat /\ n \in Nat /\ \A i \in 1 .. n : i # n => i \in 1 .. len[m]
  BY Sizes
<1> HIDE DEF s
<1>4. /\ len'[m] = n /\ slot'[m] = s
      /\ \A x \in Maps : x # m => len'[x] = len[x] /\ slot'[x] = slot[x]
  BY <1>1 DEF TypeOK
<1>5. \A x \in Maps : \A i \in 1 .. len[x] : Elems(x)'[i] = Elems(x)[i] /\ i \in 1 .. len'[x]
  <2> TAKE x \in Maps
  <2> TAKE i \in 1 .. len[x]
  <2>1. i \in Slots /\ slot[x][i] \in Cells /\ i \in 1 .. len'[x] /\ (x = m => i # n)
    BY <1>3, <1>4, Sizes
  <2>2. slot'[x][i] = slot[x][i]
    BY <1>1, <1>4, <2>1
  <2>3. x # m \/ slot[x][i] # s[n]
    <3> SUFFICES ASSUME x = m PROVE slot[m][i] # s[n]
      OBVIOUS
    <3>1. s[i] = slot[m][i] /\ i # n
      BY <1>1, <2>1
    <3>2. s[n] # Nil
      BY <1>1, MapAssumption DEF Cells
    <3> QED
      BY <1>1, <1>2, <2>1, <3>1, <3>2
  <2>4. mem'[x][slot[x][i]] = mem[x][slot[x][i]]
    BY <1>1, <2>1, <2>3
  <2> QED
    BY <2>1, <2>2, <2>4, ElemsFacts, ElemsNext DEF At
<1>6. /\ n \in 1 .. len'[m] /\ Elems(m)'[n].key = k /\ Elems(m)'[n].value = v
      /\ \A i \in 1 .. len[m] : Elems(m)[i].key # k
  <2>1. n \in 1 .. len'[m]
    BY <1>3, <1>4
  <2>2. Elems(m)'[n] = [key |-> k, value |-> v]
    BY <1>1, <1>4, <2>1, ElemsNext
  <2>3. \A i \in 1 .. len[m] : Elems(m)[i].key # k
    BY ElemsFacts DEF SetNew, Hits
  <2> QED
    BY <2>1, <2>2, <2>3
<1> HIDE DEF n
<1>7. \A x \in Maps : \A i \in 1 .. len'[x] : (x = m /\ i = n) \/ i \in 1 .. len[x]
  BY <1>3, <1>4
<1>8. \A x \in Maps : \A i, j \in 1 .. len'[x] : i # j => Elems(x)'[i].key # Elems(x)'[j].key
  <2> TAKE x \in Maps
  <2>1. \A i, j \in 1 .. len[x] : i # j => Elems(x)[i].key # Elems(x)[j].key
    BY ElemsFacts
  <2> QED
    BY <1>5, <1>6, <1>7, <2>1
<1>9. Apart' /\ Named'
  <2>1. Apart'
    BY <1>2, <1>4 DEF Apart
  <2> QED
    BY <1>8, <2>1, NamedNext
<1>10. k \in Names /\ k \notin Special /\ field' = field
  BY MapAssumption DEF Names, SetNew
<1>11. ASSUME NEW x \in Maps, NEW y \in Names
       PROVE  Content'[x][y] = IF x = m /\ y = k THEN v ELSE Content[x][y]
  <2>1. CASE y \in Special
    BY <1>10, <2>1, ContentRead, ContentReadNext DEF ReadsElems
  <2>2. CASE y \notin Special /\ x = m /\ y = k
    <3>1. Found(Elems(m)', len'[m], k) = v
      BY <1>3, <1>4, <1>6, <1>8, FoundAt
    <3> QED
      BY <2>2, <3>1, ContentReadNext DEF ReadsElems
  <2>3. CASE y \notin Special /\ ~(x = m /\ y = k)
    <3>1. \A i \in 1 .. len'[x] : Elems(x)'[i].key = y
              => i \in 1 .. len[x] /\ Elems(x)'[i] = Elems(x)[i]
      BY <1>5, <1>6, <1>7, <2>3
    <3>2. \A i, j \in 1 .. len[x] : i # j => Elems(x)[i].key # Elems(x)[j].key
      BY ElemsFacts
    <3>3. Agree(Elems(x), len[x], Elems(x)', len'[x], y)
      BY <1>5, <1>8, <3>1, <3>2 DEF Agree
    <3> QED
      BY <2>3, <3>3, HeaderKept
  <2> QED
    BY <2>1, <2>2, <2>3
<1> QED
  BY <1>9, <1>10, <1>11, ContentSet DEF Abs!Set, SetNew

(* Reset empties a map and keeps its elements apart.                        *)
LEMMA ResetStep ==
  ASSUME TypeOK, TypeOK', Apart, Named, NEW m \in Maps, Reset(m)
  PROVE  Apart' /\ Named' /\ Abs!Reset(m)
<1>1. /\ UNCHANGED <<cap, slot, mem>> /\ len'[m] = 0 /\ \A x \in Maps : x # m => len'[x] = len[x]
      /\ field' = [field EXCEPT ![m] = [k \in Special |-> Empty]]
  BY DEF Reset, NoLen, TypeOK
<1>2. Apart' /\ Named' /\ \A x \in Maps : Elems(x)' = Elems(x)
  BY <1>1 DEF Apart, Named, Elems, At
<1>3. ASSUME NEW x \in Maps, NEW y \in Names
      PROVE  Content'[x][y] = IF x = m THEN Abs!NoHeaders[y] ELSE Content[x][y]
  <2>1. Found(Elems(m)', 0, y) = Empty
    BY NotFound
  <2> QED
    BY <1>1, <1>2, <2>1, ContentRead, ContentReadNext DEF ReadsElems, Abs!NoHeaders, TypeOK
<1>4. Abs!NoHeaders = [y \in Names |-> Abs!NoHeaders[y]]
  BY DEF Abs!NoHeaders
<1> QED
  BY <1>2, <1>3, <1>4, ContentReplaced DEF Abs!Reset, Reset

(* CopyTo makes the destination equal and shares nothing.                   *)
LEMMA CopyStep ==
  ASSUME TypeOK, TypeOK', Apart, Named, NEW m \in Maps, NEW d \in Maps, m # d, CopyTo(m, d)
  PROVE  Apart' /\ Named' /\ Abs!CopyTo(m, d)
<1> DEFINE n == len[m]
           r == Roomy(d, n)
           s == Allocated(r, 1 .. n)
<1>1. /\ 1 .. n \subseteq Slots /\ r \in [Slots -> Cells \cup {Nil}]
      /\ s \in [Slots -> Cells \cup {Nil}] /\ \A i \in 1 .. n : s[i] \in Cells
      /\ \A i \in Slots : r[i] # Nil \/ i \notin 1 .. n => s[i] = r[i]
      /\ \A i \in 1 .. n, j \in Slots : r[i] = Nil /\ i # j => s[i] # s[j]
      /\ slot' = [slot EXCEPT ![d] = s] /\ len' = [len EXCEPT ![d] = n]
      /\ \A x \in Maps : x # d => mem'[x] = mem[x]
      /\ \A i \in 1 .. n : \E j \in 1 .. n : s[j] = s[i] /\ mem'[d][s[i]] = At(m, j)
  BY CopyCells
<1>2. \A i, j \in Slots : i # j /\ r[i] # Nil => r[i] # r[j]
  BY DEF Roomy, Apart
<1> HIDE DEF r, s
<1>3. \A i, j \in Slots : i # j /\ s[i] # Nil => s[i] # s[j]
  BY <1>1, <1>2
<1>4. /\ len'[d] = n /\ slot'[d] = s
      /\ \A x \in Maps : x # d => len'[x] = len[x] /\ slot'[x] = slot[x]
  BY <1>1 DEF TypeOK
<1>5. \A i \in 1 .. n : Elems(d)'[i] = Elems(m)[i]
  <2> TAKE i \in 1 .. n
  <2>1. PICK j \in 1 .. n : s[j] = s[i] /\ mem'[d][s[i]] = At(m, j)
    BY <1>1
  <2>2. s[i] # Nil /\ s[j] # Nil
    BY <1>1, MapAssumption DEF Cells
  <2>3. j = i
    BY <1>1, <1>3, <2>1, <2>2
  <2> QED
    BY <1>4, <2>1, <2>3, ElemsFacts, ElemsNext
<1>6. \A x \in Maps : x # d => Elems(x)' = Elems(x)
  BY <1>1, <1>4 DEF Elems, At
<1>7. \A x \in Maps : \A i, j \in 1 .. len'[x] : i # j => Elems(x)'[i].key # Elems(x)'[j].key
  BY <1>4, <1>5, <1>6, ElemsFacts
<1>8. Apart' /\ Named'
  <2>1. Apart'
    BY <1>3, <1>4 DEF Apart
  <2> QED
    BY <1>7, <2>1, NamedNext
<1>9. field' = [field EXCEPT ![d] = field[m]]
  BY DEF CopyTo
<1>10. ASSUME NEW x \in Maps, NEW y \in Names
       PROVE  Content'[x][y] = IF x = d THEN Content[m][y] ELSE Content[x][y]
  <2>1. CASE y \in Special
    BY <1>9, <2>1, ContentRead, ContentReadNext DEF ReadsElems, TypeOK
  <2>2. CASE y \notin Special /\ x # d
    BY <1>4, <1>6, <2>2, ContentRead, ContentReadNext DEF ReadsElems
  <2>3. CASE y \notin Special /\ x = d
    <3>1. \A i, j \in 1 .. n : i # j => Elems(m)[i].key # Elems(m)[j].key
      BY ElemsFacts
    <3>2. Agree(Elems(m), n, Elems(d)', n, y)
      BY <1>5, <3>1 DEF Agree
    <3>3. Found(Elems(m), n, y) = Found(Elems(d)', n, y)
      BY <3>2, FoundSame, ElemsFacts
    <3> QED
      BY <1>4, <2>3, <3>3, ContentRead, ContentReadNext DEF ReadsElems
  <2> QED
    BY <2>1, <2>2, <2>3
<1>11. Content[m] = [y \in Names |-> Content[m][y]]
  BY DEF Content
<1>12. Content' = [Content EXCEPT ![d] = Content[m]]
  BY <1>10, <1>11, ContentReplaced
<1> QED
  BY <1>8, <1>12 DEF Abs!CopyTo, CopyTo

-----------------------------------------------------------------------------
(* The rounds of del on a clean map: nothing happens up to the element of   *)
(* the name, and nothing after it has been taken out.                       *)
LEMMA DelLoopClean ==
  ASSUME TypeOK, Named, NEW m \in Maps, NEW k
  PROVE  \/ Hits(m, k) = {} /\ DelLoop(m, k) = Start(m)
         \/ \E h \in 1 .. len[m] : Hits(m, k) = {h} /\ DelLoop(m, k) = Shift(Start(m), h)
<1>1. len[m] \in Nat /\ 1 .. len[m] \subseteq Slots
  BY Sizes
<1>2. PICK f : Rounds(m, k, len[m], f) /\ DelLoop(m, k) = f[len[m]]
  BY <1>1, DelLoopRounds
<1>3. \A i \in 0 .. len[m] : f[i] = IF i = 0 THEN Start(m) ELSE Round(m, k, f[i - 1], i)
  BY <1>2 DEF Rounds
<1>4. /\ f[0] = Start(m)
      /\ \A i \in Nat : i + 1 <= len[m] => f[i + 1] = Round(m, k, f[i], i + 1)
  <2>1. f[0] = Start(m)
    BY <1>1, <1>3
  <2>2. ASSUME NEW i \in Nat, i + 1 <= len[m] PROVE f[i + 1] = Round(m, k, f[i], i + 1)
    <3>1. i + 1 \in 0 .. len[m] /\ i + 1 # 0 /\ (i + 1) - 1 = i
      BY <1>1, <2>2
    <3> QED
      BY <1>3, <3>1
  <2> QED
    BY <2>1, <2>2
<1>5. Start(m).slot = slot[m] /\ Start(m).len = len[m]
  BY DEF Start
<1>6. CASE Hits(m, k) = {}
  <2> DEFINE S == {i \in Nat : i <= len[m] => f[i] = Start(m)}
  <2>1. 0 \in S
    BY <1>4
  <2>2. ASSUME NEW i \in Nat, i \in S PROVE i + 1 \in S
    <3> SUFFICES ASSUME i + 1 <= len[m] PROVE f[i + 1] = Start(m)
      OBVIOUS
    <3>1. f[i] = Start(m) /\ i + 1 \in 1 .. len[m]
      BY <1>1, <2>2
    <3>2. mem[m][slot[m][i + 1]].key # k
      BY <1>6, <3>1 DEF Hits, At
    <3> QED
      BY <1>4, <1>5, <3>1, <3>2 DEF Round
  <2> HIDE DEF S
  <2>3. len[m] \in S
    BY <1>1, <2>1, <2>2, SetInduction
  <2> QED
    BY <1>1, <1>2, <1>6, <2>3 DEF S
<1>7. ASSUME NEW h \in 1 .. len[m], At(m, h).key = k
      PROVE  Hits(m, k) = {h} /\ DelLoop(m, k) = Shift(Start(m), h)
  <2>1. Hits(m, k) = {h}
    BY <1>7 DEF Hits, Named
  <2>2. \A i \in 1 .. len[m] : i # h => mem[m][slot[m][i]].key # k
    BY <2>1 DEF Hits, At
  <2> DEFINE e == Shift(Start(m), h)
             S == {i \in Nat : i <= len[m] => f[i] = IF i < h THEN Start(m) ELSE e}
  <2>3. e.len = len[m] - 1 /\ \A p \in Slots : h <= p /\ p < len[m] => e.slot[p] = slot[m][p + 1]
    BY <1>5 DEF Shift
  <2>4. 0 \in S
    BY <1>4
  <2> HIDE DEF e
  <2>5. ASSUME NEW i \in Nat, i \in S PROVE i + 1 \in S
    <3> SUFFICES ASSUME i + 1 <= len[m] PROVE f[i + 1] = IF i + 1 < h THEN Start(m) ELSE e
      OBVIOUS
    <3>1. /\ f[i] = IF i < h THEN Start(m) ELSE e
          /\ i + 1 \in 1 .. len[m] /\ f[i + 1] = Round(m, k, f[i], i + 1)
      BY <1>1, <1>4, <2>5
    <3>2. CASE i + 1 < h
      <4>1. f[i] = Start(m) /\ mem[m][slot[m][i + 1]].key # k
        BY <1>1, <2>2, <3>1, <3>2
      <4> QED
        BY <1>5, <3>1, <3>2, <4>1 DEF Round
    <3>3. CASE i + 1 = h
      <4>1. f[i] = Start(m) /\ mem[m][slot[m][i + 1]].key = k
        BY <1>1, <1>7, <3>1, <3>3 DEF At
      <4> QED
        BY <1>5, <3>1, <3>3, <4>1 DEF Round, e
    <3>4. CASE i + 1 > h
      <4>1. f[i] = e
        BY <1>1, <3>1, <3>4
      <4>2. ~(i + 1 <= e.len /\ mem[m][e.slot[i + 1]].key = k)
        <5> SUFFICES ASSUME i + 1 <= e.len PROVE mem[m][e.slot[i + 1]].key # k
          OBVIOUS
        <5>1. /\ i + 1 \in Slots /\ h <= i + 1 /\ i + 1 < len[m]
              /\ i + 1 + 1 \in 1 .. len[m] /\ i + 1 + 1 # h
          BY <1>1, <2>3, <3>1, <3>4
        <5>2. e.slot[i + 1] = slot[m][i + 1 + 1]
          BY <2>3, <5>1
        <5> QED
          BY <2>2, <5>1, <5>2
      <4>3. f[i + 1] = e
        BY <3>1, <4>1, <4>2 DEF Round
      <4> QED
        BY <1>1, <3>4, <4>3
    <3> QED
      BY <1>1, <3>2, <3>3, <3>4
  <2> HIDE DEF S
  <2>6. len[m] \in S
    BY <1>1, <2>4, <2>5, SetInduction
  <2>7. f[len[m]] = e
    BY <1>1, <2>6 DEF S
  <2> QED
    BY <1>2, <2>1, <2>7 DEF e
<1>8. CASE Hits(m, k) # {}
  <2>1. PICK h \in 1 .. len[m] : At(m, h).key = k
    BY <1>8 DEF Hits
  <2> QED
    BY <1>7, <2>1
<1> QED
  BY <1>6, <1>8

(* A deletion from a clean map takes out the header and keeps the names     *)
(* apart; the memory too, unless an element behind it moves.                *)
LEMMA DelPlainStep ==
  ASSUME TypeOK, TypeOK', Apart, Named, NEW m \in Maps, NEW k \in Plain, DelPlain(m, k)
  PROVE  Named' /\ Abs!Del(m, k) /\ (Apart' \/ DeletesInside)
<1> DEFINE e == DelLoop(m, k)
<1>1. /\ UNCHANGED <<field, cap, mem>> /\ last' = Abs!Call("del", m, k, Nil, Nil)
      /\ len'[m] = e.len /\ slot'[m] = e.slot
      /\ \A x \in Maps : x # m => len'[x] = len[x] /\ slot'[x] = slot[x]
  BY DEF DelPlain, TypeOK
<1>2. Start(m).slot = slot[m] /\ Start(m).len = len[m]
  BY DEF Start
<1>3. k \in Names /\ k \notin Special
  BY MapAssumption DEF Names
<1> HIDE DEF e
<1>4. \A x \in Maps : x # m => Elems(x)' = Elems(x)
  BY <1>1 DEF Elems, At
<1>5. SUFFICES /\ Apart' \/ DeletesInside
               /\ \A i \in 1 .. len'[m] : /\ Elems(m)'[i].key # k
                                         /\ \E j \in 1 .. len[m] : Elems(m)'[i] = Elems(m)[j]
               /\ \A j \in 1 .. len[m] : Elems(m)[j].key # k
                     => \E i \in 1 .. len'[m] : Elems(m)'[i] = Elems(m)[j]
               /\ \A i, j \in 1 .. len'[m] : i # j => Elems(m)'[i].key # Elems(m)'[j].key
  <2>1. \A x \in Maps : \A i, j \in 1 .. len[x] : i # j => Elems(x)[i].key # Elems(x)[j].key
    BY ElemsFacts
  <2>2. \A x \in Maps : \A i, j \in 1 .. len'[x] : i # j => Elems(x)'[i].key # Elems(x)'[j].key
    BY <1>1, <1>4, <1>5, <2>1
  <2>3. Named'
    BY <2>2, NamedNext
  <2>4. ASSUME NEW x \in Maps, NEW y \in Names
        PROVE  Content'[x][y] = IF x = m /\ y = k THEN Empty ELSE Content[x][y]
    <3>1. CASE y \in Special
      BY <1>1, <1>3, <3>1, ContentRead, ContentReadNext DEF ReadsElems
    <3>2. CASE y \notin Special /\ x = m /\ y = k
      <4>1. Found(Elems(m)', len'[m], k) = Empty
        BY <1>5, NotFound, ElemsNext
      <4> QED
        BY <3>2, <4>1, ContentReadNext DEF ReadsElems
    <3>3. CASE y \notin Special /\ ~(x = m /\ y = k)
      <4>1. Agree(Elems(x), len[x], Elems(x)', len'[x], y)
        <5>1. CASE x = m
          BY <1>5, <2>1, <2>2, <3>3, <5>1 DEF Agree
        <5>2. CASE x # m
          BY <1>1, <1>4, <2>1, <2>2, <5>2 DEF Agree
        <5> QED
          BY <5>1, <5>2
      <4> QED
        BY <3>3, <4>1, HeaderKept
    <3> QED
      BY <3>1, <3>2, <3>3
  <2>5. Content' = [Content EXCEPT ![m][k] = Empty]
    BY <1>3, <2>4, ContentSet
  <2> QED
    BY <1>1, <1>5, <2>3, <2>5 DEF Abs!Del
<1>6. /\ len[m] \in Nat /\ 1 .. len[m] \subseteq Slots /\ len'[m] \in Nat
      /\ \A i \in 1 .. len[m] : Elems(m)[i] = mem[m][slot[m][i]]
      /\ \A i \in 1 .. len'[m] : Elems(m)'[i] = mem[m][e.slot[i]]
      /\ \A i, j \in 1 .. len[m] : i # j => Elems(m)[i].key # Elems(m)[j].key
  BY <1>1, ElemsFacts, ElemsNext DEF At
<1>7. CASE Hits(m, k) = {} /\ e = Start(m)
  <2>1. len'[m] = len[m] /\ slot'[m] = slot[m] /\ e.slot = slot[m]
    BY <1>1, <1>2, <1>7
  <2>2. Apart'
    BY <1>1, <2>1 DEF Apart
  <2>3. \A i \in 1 .. len[m] : Elems(m)[i].key # k
    BY <1>6, <1>7 DEF Hits, At
  <2> QED
    BY <1>6, <2>1, <2>2, <2>3
<1>8. ASSUME NEW h \in 1 .. len[m], Hits(m, k) = {h}, e = Shift(Start(m), h)
      PROVE  /\ Apart' \/ DeletesInside
             /\ \A i \in 1 .. len'[m] : /\ Elems(m)'[i].key # k
                                       /\ \E j \in 1 .. len[m] : Elems(m)'[i] = Elems(m)[j]
             /\ \A j \in 1 .. len[m] : Elems(m)[j].key # k
                   => \E i \in 1 .. len'[m] : Elems(m)'[i] = Elems(m)[j]
             /\ \A i, j \in 1 .. len'[m] : i # j => Elems(m)'[i].key # Elems(m)'[j].key
  <2>1. /\ e.slot = [p \in Slots |-> IF h <= p /\ p < len[m] THEN slot[m][p + 1] ELSE slot[m][p]]
        /\ e.len = len[m] - 1
    BY <1>2, <1>8 DEF Shift
  <2>2. Elems(m)[h].key = k /\ \A i \in 1 .. len[m] : i # h => Elems(m)[i].key # k
    BY <1>6, <1>8 DEF Hits, At
  <2>3. len'[m] = len[m] - 1
    BY <1>1, <2>1
  <2>4. \A i \in 1 .. len'[m] : Elems(m)'[i] = IF i < h THEN Elems(m)[i] ELSE Elems(m)[i + 1]
    <3> TAKE i \in 1 .. len'[m]
    <3>1. i \in 1 .. len[m] /\ i + 1 \in 1 .. len[m] /\ i \in Slots /\ i < len[m]
      BY <1>6, <2>3
    <3>2. e.slot[i] = IF i < h THEN slot[m][i] ELSE slot[m][i + 1]
      BY <1>6, <2>1, <3>1
    <3> QED
      BY <1>6, <3>1, <3>2
  <2>5. Apart' \/ DeletesInside
    <3>1. CASE h = len[m]
      <4>1. e.slot = slot[m]
        <5>1. \A p \in Slots : ~(h <= p /\ p < len[m])
          BY <1>6, <3>1 DEF Slots
        <5>2. slot[m] = [p \in Slots |-> slot[m][p]]
          BY Sizes
        <5> QED
          BY <2>1, <5>1, <5>2
      <4> QED
        BY <1>1, <4>1 DEF Apart
    <3>2. CASE h # len[m]
      <4>1. h < len[m]
        BY <1>6, <3>2
      <4>2. last'.op = "del" /\ last'.key = k /\ last'.map = m
        BY <1>1 DEF Abs!Call
      <4> QED
        BY <1>8, <4>1, <4>2 DEF DeletesInside
    <3> QED
      BY <3>1, <3>2
  <2>6. \A i \in 1 .. len'[m] :
           /\ i \in 1 .. len[m] /\ i + 1 \in 1 .. len[m]
           /\ (i < h => i # h) /\ (~(i < h) => i + 1 # h)
    BY <1>6, <2>3
  <2>7. \A i \in 1 .. len'[m] : /\ Elems(m)'[i].key # k
                               /\ \E j \in 1 .. len[m] : Elems(m)'[i] = Elems(m)[j]
    BY <2>2, <2>4, <2>6
  <2>8. ASSUME NEW j \in 1 .. len[m], Elems(m)[j].key # k
        PROVE  \E i \in 1 .. len'[m] : Elems(m)'[i] = Elems(m)[j]
    <3>1. j # h
      BY <2>2, <2>8
    <3>2. CASE j < h
      <4>1. j \in 1 .. len'[m]
        BY <1>6, <2>3, <3>2
      <4> QED
        BY <2>4, <3>2, <4>1
    <3>3. CASE j > h
      <4>1. j - 1 \in 1 .. len'[m] /\ ~(j - 1 < h) /\ (j - 1) + 1 = j
        BY <1>6, <2>3, <3>3
      <4> QED
        BY <2>4, <4>1
    <3> QED
      BY <1>6, <3>1, <3>2, <3>3
  <2>9. \A i, j \in 1 .. len'[m] : i # j => Elems(m)'[i].key # Elems(m)'[j].key
    <3> DEFINE g(i) == IF i < h THEN i ELSE i + 1
    <3>1. \A i \in 1 .. len'[m] : g(i) \in 1 .. len[m] /\ Elems(m)'[i] = Elems(m)[g(i)]
      BY <2>4, <2>6
    <3>2. \A i, j \in 1 .. len'[m] : i # j => g(i) # g(j)
      BY <1>6
    <3> HIDE DEF g
    <3> QED
      BY <1>6, <3>1, <3>2
  <2> QED
    BY <2>5, <2>7, <2>8, <2>9
<1> QED
  BY <1>7, <1>8, DelLoopClean DEF e

-----------------------------------------------------------------------------
(* From clean maps every step is the one of the abstract map that it is     *)
(* named after.                                                             *)
LEMMA CleanStep ==
  ASSUME TypeOK, TypeOK', AllClean, Next
  PROVE  Abs!Next /\ (AllClean' \/ DeletesInside)
<1>0. Apart /\ Named /\ (Apart' /\ Named' => AllClean')
  BY CleanIs DEF AllClean, Clean, Apart, Named, At
<1>1. ASSUME NEW m \in Maps, NEW k \in Special, NEW v \in Values \cup {Empty},
             SetSpecial(m, k, v)
      PROVE  Apart' /\ Named' /\ Abs!Next
  BY <1>0, <1>1, SetSpecialStep DEF Abs!Next, Names
<1>2. ASSUME NEW m \in Maps, NEW k \in Plain, NEW v \in Values, SetFound(m, k, v)
      PROVE  Apart' /\ Named' /\ Abs!Next
  BY <1>0, <1>2, SetFoundStep DEF Abs!Next, Names
<1>3. ASSUME NEW m \in Maps, NEW k \in Plain, NEW v \in Values, SetNew(m, k, v)
      PROVE  Apart' /\ Named' /\ Abs!Next
  BY <1>0, <1>3, SetNewStep DEF Abs!Next, Names
<1>4. ASSUME NEW m \in Maps, NEW k \in Names, DelSpecial(m, k)
      PROVE  Apart' /\ Named' /\ Abs!Next
  <2>1. k \in Special
    BY <1>4 DEF DelSpecial
  <2> QED
    BY <1>0, <1>4, <2>1, DelSpecialStep DEF Abs!Next
<1>5. ASSUME NEW m \in Maps, NEW k \in Names, DelPlain(m, k)
      PROVE  Named' /\ Abs!Next /\ (Apart' \/ DeletesInside)
  <2>1. k \in Plain
    BY <1>5 DEF DelPlain
  <2> QED
    BY <1>0, <1>5, <2>1, DelPlainStep DEF Abs!Next
<1>6. ASSUME NEW m \in Maps, Reset(m)
      PROVE  Apart' /\ Named' /\ Abs!Next
  BY <1>0, <1>6, ResetStep DEF Abs!Next
<1>7. ASSUME NEW m \in Maps, NEW d \in Maps, m # d, CopyTo(m, d)
      PROVE  Apart' /\ Named' /\ Abs!Next
  BY <1>0, <1>7, CopyStep DEF Abs!Next
<1> QED
  BY <1>0, <1>1, <1>2, <1>3, <1>4, <1>5, <1>6, <1>7 DEF Next

(* Steps of something else.                                                 *)
LEMMA Stutter == ASSUME UNCHANGED vars PROVE (AllClean => AllClean') /\ UNCHANGED Abs!vars
<1>1. UNCHANGED <<field, len, cap, slot, mem, last>>
  BY DEF vars
<1>2. AllClean => AllClean'
  BY <1>1 DEF AllClean, Clean, At
<1>3. Content' = Content
  BY <1>1 DEF Content, Get, Hits, At
<1> QED
  BY <1>1, <1>2, <1>3 DEF Abs!vars

(* New maps are clean and empty.                                            *)
LEMMA CleanInit == Init => AllClean /\ Abs!Init
<1> SUFFICES ASSUME Init PROVE AllClean /\ Abs!Init
  OBVIOUS
<1>1. AllClean
  BY DEF Init, AllClean, Clean
<1>2. ASSUME NEW m \in Maps, NEW k \in Names
      PROVE  Content[m][k] = Empty
  <2>1. Found(Elems(m), 0, k) = Empty
    BY NotFound
  <2> QED
    BY <2>1, TypeInit, ContentRead DEF ReadsElems, Init
<1>3. Content = [m \in Maps |-> [k \in Names |-> Content[m][k]]]
  BY DEF Content
<1>4. Content = [m \in Maps |-> Abs!NoHeaders]
  BY <1>2, <1>3 DEF Abs!NoHeaders
<1> QED
  BY <1>1, <1>4 DEF Abs!Init, Init

(* Without deletions inside kvs cleanliness is inductive.                   *)
LEMMA CleanKept ==
  ASSUME Deletes \subseteq Special
  PROVE  TypeOK /\ AllClean /\ [Next]_vars
            => TypeOK' /\ AllClean' /\ [Abs!Next]_(Abs!vars)
<1> SUFFICES ASSUME TypeOK, AllClean, [Next]_vars
             PROVE  TypeOK' /\ AllClean' /\ [Abs!Next]_(Abs!vars)
  OBVIOUS
<1>1. TypeOK'
  BY TypeStep
<1>2. CASE Next
  <2>1. ~DeletesInside
    <3> SUFFICES ASSUME last'.op = "del", last'.key \in Plain PROVE FALSE
      BY DEF DeletesInside
    <3>1. ASSUME NEW m \in Maps, NEW k \in Names, DelSpecial(m, k) PROVE FALSE
      <4>1. last'.key \in Special
        BY <3>1 DEF DelSpecial, Abs!Call
      <4> QED
        BY <4>1, MapAssumption
    <3>2. ASSUME NEW m \in Maps, NEW k \in Names, DelPlain(m, k) PROVE FALSE
      BY <3>2, MapAssumption DEF DelPlain
    <3> QED
      <4>1. ASSUME NEW op, NEW m, NEW k, NEW v, NEW s, op # "del"
            PROVE  last' # Abs!Call(op, m, k, v, s)
        BY <4>1 DEF Abs!Call
      <4> QED
        BY <1>2, <3>1, <3>2, <4>1 DEF Next, SetSpecial, SetFound, SetNew, Reset, CopyTo
  <2> QED
    BY <1>1, <1>2, <2>1, CleanStep
<1>3. CASE UNCHANGED vars
  BY <1>1, <1>3, Stutter
<1> QED
  BY <1>2, <1>3

-----------------------------------------------------------------------------
(* Every element within the length points to a cell that holds a header,    *)
(* and lengths stay within capacities, over growth, reuse, CopyTo and any   *)
(* deletions, those that make elements share memory too                     *)
(* (fast_simplemap.go:125-144, 250-283, 318-342).                           *)
THEOREM TypeCorrect == Spec => []TypeOK
BY TypeInit, TypeStep, PTL DEF Spec

(* On clean maps every operation, Del too, does what it does to a map from  *)
(* names to values (fast_simplemap.go:91-144, 250-342).                     *)
THEOREM ActsAsMapHolds == Spec => ActsAsMap
<1>1. TypeOK /\ TypeOK' /\ [Next]_vars => [AllClean => Abs!Next]_vars
  BY CleanStep
<1> QED
  BY <1>1, TypeCorrect, PTL DEF Spec, ActsAsMap

(* Nothing but the deletion of a header that is not the last element of kvs *)
(* makes elements share memory or a name appear twice                       *)
(* (fast_simplemap.go:133-139, 276-279).                                    *)
THEOREM StaysCleanHolds == Spec => StaysClean
<1>1. TypeOK /\ TypeOK' /\ [Next]_vars => [AllClean /\ ~DeletesInside => AllClean']_vars
  BY CleanStep
<1> QED
  BY <1>1, TypeCorrect, PTL DEF Spec, StaysClean

(* Maps from which no header in kvs is ever deleted are clean at all times: *)
(* reuse after Reset, growth and CopyTo keep the elements apart             *)
(* (fast_simplemap.go:125-144, 276-283).                                    *)
THEOREM NeverShares == ASSUME Deletes \subseteq Special PROVE Spec => []AllClean
<1>1. Init => TypeOK /\ AllClean
  BY TypeInit, CleanInit
<1>2. TypeOK /\ AllClean /\ [Next]_vars => TypeOK' /\ AllClean'
  BY CleanKept
<1> QED
  BY <1>1, <1>2, PTL DEF Spec

(* Without such deletions the elements and cells of FastSimpleMap implement *)
(* the map from names to values, for any number of maps, names and values   *)
(* (fast_simplemap.go:91-144, 250-342).                                     *)
THEOREM RefinesHeaderMap == ASSUME Deletes \subseteq Special PROVE Spec => Abs!Spec
<1>1. Init => TypeOK /\ AllClean /\ Abs!Init
  BY TypeInit, CleanInit
<1>2. TypeOK /\ AllClean /\ [Next]_vars => TypeOK' /\ AllClean' /\ [Abs!Next]_(Abs!vars)
  BY CleanKept
<1> QED
  BY <1>1, <1>2, PTL DEF Spec, Abs!Spec

=============================================================================
