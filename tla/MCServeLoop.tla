---------------------------- MODULE MCServeLoop ----------------------------
(***************************************************************************)
(* Instances of ServeLoop for TLC.                                          *)
(***************************************************************************)
EXTENDS ServeLoop

=============================================================================
