----------------------------- MODULE MCLocalRun -----------------------------
(***************************************************************************)
(* Small instances of LocalRun.                                            *)
(***************************************************************************)
EXTENDS LocalRun, TLC
=============================================================================
