------------------------------ MODULE MCStores ------------------------------
(***************************************************************************)
(* Small instances of RunStore: a store that locks, with a delete and with *)
(* deadlines of its own, and one that writes conditionally on a revision.  *)
(* Identities and executors are interchangeable.  `part` says which of the *)
(* two an execution is.                                                    *)
(***************************************************************************)
EXTENDS RunStore, TLC

CONSTANTS e1, e2, i1, i2, i3, i4

VARIABLE part

FourIds == {i1, i2, i3, i4}
Interchangeable == Permutations(Ids) \cup Permutations(Executors)

Locked == INSTANCE RunStore WITH Locking <- TRUE
Optimistic == INSTANCE RunStore WITH
    Locking <- FALSE, MaxDeletes <- 0, StoreDeadlines <- FALSE

MCInit == part \in {"locked", "optimistic"} /\ Init

MCNext ==
    \/ part = "locked" /\ Locked!Next /\ UNCHANGED part
    \/ part = "optimistic" /\ Optimistic!Next /\ UNCHANGED part

MCSpec == MCInit /\ [][MCNext]_<<part, vars>>
=============================================================================
