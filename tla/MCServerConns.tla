--------------------------- MODULE MCServerConns ---------------------------
(***************************************************************************)
(* Instances of ServerConns for TLC.                                        *)
(***************************************************************************)
EXTENDS ServerConns

CONSTANTS k1, k2
=============================================================================
