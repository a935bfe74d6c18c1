----------------------------- MODULE AtomicStore -----------------------------
(***************************************************************************)
(* What a run store promises (zhir-core/src/storage): the checkpoints of   *)
(* one run form a chain that grows by one atomic, validated write at a     *)
(* time.  `head` is the durable head and `commits` the commit identities   *)
(* that exist with it.  Nothing here knows how a store reads before it     *)
(* writes, who calls it, or whether the caller still waits.                *)
(***************************************************************************)
EXTENDS Naturals

CONSTANTS Ids,           \* checkpoint identities (new_id())
          None           \* absence: no head, no parent, no snapshot

States == {"Running", "Suspended", "Completed", "Limited"}
Facts  == {"Started", "Attached", "Progress"}

\* The part of a checkpoint that the commit protocol reads.
Checkpoint == [id : Ids, parent : Ids \cup {None}, revision : Nat,
               state : States, fact : Facts]

\* State::terminal
Terminal(state) == state \in {"Completed", "Limited"}

\* Commit::validate_against, on a head that is a checkpoint or None.
Extends(c, previous) ==
    IF previous = None
      THEN c.revision = 0 /\ c.parent = None
      ELSE /\ c.revision = previous.revision + 1
           /\ c.parent = previous.id
           /\ ~Terminal(previous.state)
           /\ previous.state = "Suspended" => c.fact = "Attached"

VARIABLES head, commits

vars == <<head, commits>>

Init == head = None /\ commits = {}

Write ==
    /\ head' \in Checkpoint
    /\ Extends(head', head)
    /\ \A d \in commits : d.id # head'.id
    /\ commits' = commits \cup {head'}

Delete == head' = None /\ commits' = {}

Next == Write \/ Delete

Spec == Init /\ [][Next]_vars
=============================================================================
