----------------------------- MODULE HeaderMap -----------------------------
(***************************************************************************)
(* What the headers of a command promise: each of the Maps holds one value *)
(* per header name, and an absent header reads as the empty string.  The   *)
(* variable last names the operation that was made.                        *)
(***************************************************************************)
CONSTANTS
  Maps,     \* the header maps: the headers of a command and of its copy
  Names,    \* the header names
  Values,   \* the header values other than the empty string
  Empty,    \* the empty string
  Nil       \* no argument

VARIABLES content, last

vars == <<content, last>>

Ops == {"new", "set", "del", "reset", "copy"}

(* The operation op on map m: its name k and value v, or its source s.      *)
Call(op, m, k, v, s) == [op |-> op, map |-> m, key |-> k, value |-> v, src |-> s]

NoHeaders == [k \in Names |-> Empty]

Init ==
  /\ content = [m \in Maps |-> NoHeaders]
  /\ last = Call("new", Nil, Nil, Nil, Nil)

Set(m, k, v) ==
  /\ content' = [content EXCEPT ![m][k] = v]
  /\ last' = Call("set", m, k, v, Nil)

Del(m, k) ==
  /\ content' = [content EXCEPT ![m][k] = Empty]
  /\ last' = Call("del", m, k, Nil, Nil)

Reset(m) ==
  /\ content' = [content EXCEPT ![m] = NoHeaders]
  /\ last' = Call("reset", m, Nil, Nil, Nil)

CopyTo(m, d) ==
  /\ content' = [content EXCEPT ![d] = content[m]]
  /\ last' = Call("copy", d, Nil, Nil, m)

Next ==
  \/ \E m \in Maps, k \in Names, v \in Values \cup {Empty} : Set(m, k, v)
  \/ \E m \in Maps, k \in Names : Del(m, k)
  \/ \E m \in Maps : Reset(m)
  \/ \E m, d \in Maps : m # d /\ CopyTo(m, d)

Spec == Init /\ [][Next]_vars

=============================================================================
