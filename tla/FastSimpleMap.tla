--------------------------- MODULE FastSimpleMap ---------------------------
(***************************************************************************)
(* simplemap/fastsimplemap: the headers of a command.                      *)
(*                                                                         *)
(* Four special names have a field each; the other headers are in kvs, a   *)
(* slice whose elements are reused.  An element (a kvHeader) does not hold *)
(* bytes but two slices, so that elements that were copied share memory.   *)
(* Here an element is a slot, and what its slices point to is a cell.      *)
(*                                                                         *)
(* The names in kvs are equally long, and so are the values: an append     *)
(* into a used cell then overwrites exactly what it held.  Empty values    *)
(* are set for special names only.  Decode is a sequence of calls of set,  *)
(* which copies; it starts from a map that Command.Reset has reset.        *)
(***************************************************************************)
EXTENDS Integers, FiniteSetsExt

CONSTANTS
  Maps,     \* the headers of a command, of its copy
  Special,  \* host, content-type, service, authorization
  Plain,    \* the other names
  Values,   \* values other than the empty string
  Empty,    \* the empty string
  Nil,      \* a nil slice; no argument
  Deletes,  \* the names that Del is called with
  Chunk,    \* how many elements kvs grows by at least: 4 in the code
  MaxCap    \* bound on the capacity of kvs

Names == Special \cup Plain
Slots == 1 .. MaxCap
Cells == Slots

ASSUME MapAssumption ==
  /\ Special \cap Plain = {}
  /\ Nil \notin Maps \cup Names \cup Values \cup Slots
  /\ Nil \notin [key : Plain, value : Values] /\ Empty \notin Values
  /\ Deletes \subseteq Names
  /\ Chunk \in Nat \ {0} /\ MaxCap \in Nat

VARIABLES
  field,      \* per map: the fields of the special names
  len, cap,   \* per map: the length and the capacity of kvs
  slot,       \* per map: the cells of the elements, those beyond len too
  mem,        \* per map: what the cells hold
  last        \* the operation made last (history)

vars == <<field, len, cap, slot, mem, last>>

KV == [key : Plain, value : Values] \cup {Nil}

(* The header at element i, and the elements that hold name k.              *)
At(m, i) == mem[m][slot[m][i]]

(* Mutant: the search stops before the last element.                        *)
HitsButLast(m, k) == {i \in 1 .. len[m] - 1 : At(m, i).key = k}

Hits(m, k) == {i \in 1 .. len[m] : At(m, i).key = k}

(* get.                                                                     *)
Get(m, k) ==
  IF k \in Special THEN field[m][k]
  ELSE IF Hits(m, k) = {} THEN Empty
  ELSE At(m, Min(Hits(m, k))).value

Content == [m \in Maps |-> [k \in Names |-> Get(m, k)]]

Abs == INSTANCE HeaderMap WITH content <- Content

TypeOK ==
  /\ field \in [Maps -> [Special -> Values \cup {Empty}]]
  /\ len \in [Maps -> 0 .. MaxCap] /\ cap \in [Maps -> 0 .. MaxCap]
  /\ slot \in [Maps -> [Slots -> Cells \cup {Nil}]]
  /\ mem \in [Maps -> [Cells -> KV]]
  /\ \A m \in Maps : /\ len[m] <= cap[m]
                     /\ \A i \in 1 .. len[m] : slot[m][i] # Nil /\ At(m, i) # Nil

Init ==
  /\ field = [m \in Maps |-> [k \in Special |-> Empty]]
  /\ len = [m \in Maps |-> 0] /\ cap = [m \in Maps |-> 0]
  /\ slot = [m \in Maps |-> [i \in Slots |-> Nil]]
  /\ mem = [m \in Maps |-> [c \in Cells |-> Nil]]
  /\ last = Abs!Call("new", Nil, Nil, Nil, Nil)

-----------------------------------------------------------------------------
(* The cells that the elements s point to when those of the set I that are  *)
(* nil have got memory of their own: append allocates for a nil slice.      *)
Allocated(s, I) ==
  LET new  == {i \in I : s[i] = Nil}
      used == {s[i] : i \in Slots \ new}
      name == IF new \cap used = {} THEN [i \in new |-> i]
              ELSE CHOOSE f \in [new -> Cells \ used] :
                      \A i, j \in new : i # j => f[i] # f[j]
  IN  [i \in Slots |-> IF i \in new THEN name[i] ELSE s[i]]

SetSpecial(m, k, v) ==
  /\ k \in Special
  /\ field' = [field EXCEPT ![m][k] = v]
  /\ last' = Abs!Call("set", m, k, v, Nil)
  /\ UNCHANGED <<len, cap, slot, mem>>

(* Mutant: the value goes to the last element.                              *)
LastHit(m, k) == len[m]

(* The element that set overwrites.                                         *)
Hit(m, k) == Min(Hits(m, k))

(* set, of a name that kvs holds.                                           *)
SetFound(m, k, v) ==
  /\ k \in Plain /\ Hits(m, k) # {}
  /\ mem' = [mem EXCEPT ![m][slot[m][Hit(m, k)]].value = v]
  /\ last' = Abs!Call("set", m, k, v, Nil)
  /\ UNCHANGED <<field, len, cap, slot>>

(* Mutant: kvs is taken to have room for one more element.                  *)
NotGrown(n) == n

(* What append makes of capacity n when kvs is full: twice as much, or      *)
(* Chunk more elements.                                                     *)
Grown(n) == IF 2 * n > n + Chunk THEN 2 * n ELSE n + Chunk

(* set, of a name that kvs does not hold: the element after the last one,   *)
(* with whatever memory it still points to, takes the header.               *)
SetNew(m, k, v) ==
  LET n == len[m] + 1
      c == IF cap[m] < n THEN Grown(cap[m]) ELSE cap[m]
      s == Allocated(slot[m], {n})
  IN  /\ k \in Plain /\ Hits(m, k) = {} /\ c <= MaxCap
      /\ len' = [len EXCEPT ![m] = n] /\ cap' = [cap EXCEPT ![m] = c]
      /\ slot' = [slot EXCEPT ![m] = s]
      /\ mem' = [mem EXCEPT ![m][s[n]] = [key |-> k, value |-> v]]
      /\ last' = Abs!Call("set", m, k, v, Nil)
      /\ UNCHANGED field

DelSpecial(m, k) ==
  /\ k \in Special \cap Deletes
  /\ field' = [field EXCEPT ![m][k] = Empty]
  /\ last' = Abs!Call("del", m, k, Nil, Nil)
  /\ UNCHANGED <<len, cap, slot, mem>>

(* append(kvs[:i], kvs[i+1:]...): the elements behind i move down by one,   *)
(* and the one that was last stays where it was as well.                    *)
Shift(e, i) ==
  [slot |-> [p \in Slots |-> IF i <= p /\ p < e.len THEN e.slot[p + 1] ELSE e.slot[p]],
   len  |-> e.len - 1]

(* The loop of del after the elements 1 .. i.                               *)
DelLoop(m, k) ==
  LET after[i \in 0 .. len[m]] ==
        IF i = 0 THEN [slot |-> slot[m], len |-> len[m]]
        ELSE LET e == after[i - 1]
             IN  IF i <= e.len /\ mem[m][e.slot[i]].key = k THEN Shift(e, i) ELSE e
  IN  after[len[m]]

DelPlain(m, k) ==
  /\ k \in Plain \cap Deletes
  /\ len' = [len EXCEPT ![m] = DelLoop(m, k).len]
  /\ slot' = [slot EXCEPT ![m] = DelLoop(m, k).slot]
  /\ last' = Abs!Call("del", m, k, Nil, Nil)
  /\ UNCHANGED <<field, cap, mem>>

(* Mutant: the length is left alone.                                        *)
SameLen(m) == len

(* kvs[:0].                                                                 *)
NoLen(m) == [len EXCEPT ![m] = 0]

(* Reset keeps the elements for later use.                                  *)
Reset(m) ==
  /\ field' = [field EXCEPT ![m] = [k \in Special |-> Empty]]
  /\ len' = NoLen(m)
  /\ last' = Abs!Call("reset", m, Nil, Nil, Nil)
  /\ UNCHANGED <<cap, slot, mem>>

(* The elements of the destination: a new slice gets those within len only. *)
Roomy(d, n) ==
  [i \in Slots |-> IF cap[d] < n /\ i > len[d] THEN Nil ELSE slot[d][i]]

(* CopyTo: the headers are written one by one, so that of elements that     *)
(* share a cell the last one decides.                                       *)
CopyTo(m, d) ==
  LET n == len[m]
      s == Allocated(Roomy(d, n), 1 .. n)
      W(c) == {i \in 1 .. n : s[i] = c}
  IN  /\ field' = [field EXCEPT ![d] = field[m]]
      /\ len' = [len EXCEPT ![d] = n]
      /\ cap' = [cap EXCEPT ![d] = IF cap[d] < n THEN n ELSE @]
      /\ slot' = [slot EXCEPT ![d] = s]
      /\ mem' = [mem EXCEPT ![d] = [c \in Cells |-> IF W(c) = {} THEN mem[d][c]
                                                    ELSE At(m, Max(W(c)))]]
      /\ last' = Abs!Call("copy", d, Nil, Nil, m)

Next ==
  \/ \E m \in Maps, k \in Special, v \in Values \cup {Empty} : SetSpecial(m, k, v)
  \/ \E m \in Maps, k \in Plain, v \in Values : SetFound(m, k, v) \/ SetNew(m, k, v)
  \/ \E m \in Maps, k \in Names : DelSpecial(m, k) \/ DelPlain(m, k)
  \/ \E m \in Maps : Reset(m)
  \/ \E m, d \in Maps : m # d /\ CopyTo(m, d)

Spec == Init /\ [][Next]_vars

-----------------------------------------------------------------------------
(* A map whose elements, the spare ones too, have memory of their own and   *)
(* whose names differ.                                                      *)
Clean(m) ==
  /\ \A i, j \in Slots : i # j /\ slot[m][i] # Nil => slot[m][i] # slot[m][j]
  /\ \A i, j \in 1 .. len[m] : i # j => At(m, i).key # At(m, j).key
AllClean == \A m \in Maps : Clean(m)

(* On clean maps every operation does what it does to a map from names to   *)
(* values: the header it names changes and no other one does, through any   *)
(* history of growth, reset, reuse and copies (fast_simplemap.go:91-144,    *)
(* 250-342).                                                                *)
ActsAsMap == [][AllClean => Abs!Next]_vars

(* Only a deletion of a header that is not the last element of kvs makes    *)
(* elements share memory; growth, reuse after Reset and CopyTo into a       *)
(* smaller or a larger map do not (fast_simplemap.go:133-139, 276-279).     *)
DeletesInside == last'.op = "del" /\ last'.key \in Plain
                 /\ \E i \in Hits(last'.map, last'.key) : i < len[last'.map]
StaysClean == [][AllClean /\ ~DeletesInside => AllClean']_vars

(* What was deleted is gone: Get after Del is empty                         *)
(* (fast_simplemap_test.go:57-72).                                          *)
DeletedIsGone == last.op = "del" => Get(last.map, last.key) = Empty

=============================================================================
