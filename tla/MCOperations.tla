---------------------------- MODULE MCOperations ----------------------------
(***************************************************************************)
(* Small instances of Operations.                                          *)
(***************************************************************************)
EXTENDS Operations, TLC
=============================================================================
