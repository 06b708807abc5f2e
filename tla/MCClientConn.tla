---------------------------- MODULE MCClientConn ----------------------------
(***************************************************************************)
(* Instances of ClientConn for TLC.                                         *)
(***************************************************************************)
EXTENDS ClientConn

CONSTANTS c1, c2, c3

=============================================================================
