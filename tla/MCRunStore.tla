----------------------------- MODULE MCRunStore -----------------------------
(***************************************************************************)
(* Small instances of RunStore.  Identities and executors are              *)
(* interchangeable.                                                        *)
(***************************************************************************)
EXTENDS RunStore, TLC

CONSTANTS e1, e2, i1, i2, i3, i4

FourIds == {i1, i2, i3, i4}
Interchangeable == Permutations(Ids) \cup Permutations(Executors)
=============================================================================
