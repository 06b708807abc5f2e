---------------------------- MODULE MCKeepAliver ----------------------------
(***************************************************************************)
(* An instance of KeepAliver for TLC.                                       *)
(***************************************************************************)
EXTENDS KeepAliver

CONSTANTS c1, c2, u1, raw

(* All clients are of one plain address. *)
AllRaw == [c \in Clients |-> raw]
=============================================================================
