----------------------------- MODULE Reachable -----------------------------
(***************************************************************************)
(* The list of stored resources a checkpoint can reach, which a host keeps *)
(* when it deletes the others.  Messages name resources directly.  Each    *)
(* media cursor names a sealed node, which names the data of a segment and *)
(* the node before it; the media archive is a chain of nodes that each     *)
(* name the last sealed node of a stream that ended.                       *)
(*                                                                         *)
(* A message may name a media node too, and chains may join.               *)
(***************************************************************************)
EXTENDS Integers, FiniteSets

CONSTANTS
    None,
    Sealed,          \* keys of sealed nodes, numbered
    Archived         \* keys of archive nodes, numbered above them

VARIABLES
    chain,           \* the links of the stored nodes, and the ones missing
    checkpoint,      \* the keys it names, in messages, cursors and its archive
    found            \* the walk: where it is and what it has listed
reach == <<chain, checkpoint, found>>

Nodes == Sealed \cup Archived
Data(n) == n + 100
Before(set, n) == {m \in set : m < n} \cup {None}

Init ==
    /\ chain \in [previous : {p \in [Nodes -> Nodes \cup {None}] :
                                 /\ \A n \in Sealed : p[n] \in Before(Sealed, n)
                                 /\ \A n \in Archived : p[n] \in Before(Archived, n)},
                  sealed : [Archived -> Sealed],
                  missing : {{}} \cup {{n} : n \in Sealed}]
    /\ checkpoint \in [contents : SUBSET {2, Data(1)},
                       cursors : SUBSET Sealed,
                       archive : Archived \cup {None}]
    /\ found = [at |-> "contents", node |-> None, keys |-> {}, walked |-> {},
                cursors |-> {}, archive |-> None]

-----------------------------------------------------------------------------
\* The walk

\* History, completed content, pending context and updates, listed in one go.
Listed ==
    /\ found.at = "contents"
    /\ found' = [found EXCEPT !.at = "next", !.keys = checkpoint.contents,
                              !.cursors = checkpoint.cursors, !.archive = checkpoint.archive]

\* A variant: a node that is listed needs no walk.
FollowedListed(n) == n \in found.keys

\* A listed node has to be followed unless it has been followed before.
Followed(n) == n \in found.walked

\* One chain after the other: the cursors', then the archive's.
NextCursor ==
    /\ found.at = "next" /\ found.node = None /\ found.cursors # {}
    /\ \E n \in found.cursors :
        found' = [found EXCEPT !.node = n, !.cursors = @ \ {n}]

\* Walking a sealed node reads it from the store, which may not have it.
WalkSealed ==
    /\ found.at = "next" /\ found.node # None
    /\ LET n == found.node IN
        found' = IF Followed(n)
                 THEN [found EXCEPT !.node = None]
                 ELSE IF n \in chain.missing THEN [found EXCEPT !.at = "failed"]
                 ELSE [found EXCEPT !.node = chain.previous[n], !.walked = @ \cup {n},
                                    !.keys = @ \cup {n, Data(n)}]

\* An archive node leads to the chain of its stream, then to the node before.
WalkArchive ==
    /\ found.at = "next" /\ found.node = None /\ found.cursors = {}
    /\ LET n == found.archive IN
        found' = IF n = None THEN [found EXCEPT !.at = "listed"]
                 ELSE IF Followed(n) THEN [found EXCEPT !.at = "listed"]
                 ELSE [found EXCEPT !.node = chain.sealed[n], !.archive = chain.previous[n],
                                    !.walked = @ \cup {n}, !.keys = @ \cup {n}]

Next == /\ Listed \/ NextCursor \/ WalkSealed \/ WalkArchive
        /\ UNCHANGED <<chain, checkpoint>>

-----------------------------------------------------------------------------
\* Properties

Links(n) == {Data(n) : m \in {n} \cap Sealed} \cup {chain.previous[n]}
            \cup {chain.sealed[m] : m \in {n} \cap Archived}

\* The keys a set of nodes leads to, in as many rounds as there are nodes.
Closure(keys) ==
    LET f[i \in 0 .. Cardinality(Nodes)] ==
            IF i = 0 THEN keys
            ELSE f[i - 1] \cup UNION {Links(n) : n \in f[i - 1] \cap Nodes}
    IN f[Cardinality(Nodes)] \ {None}

\* A list without an error names everything that a run resumed from the
\* checkpoint can read, and nothing else; a node that cannot be read is an
\* error and never a shorter list.
ReachableComplete ==
    found.at = "listed" =>
        found.keys = checkpoint.contents
                     \cup Closure(checkpoint.cursors \cup ({checkpoint.archive} \ {None}))
=============================================================================
