---------------------------- MODULE MCComponents ----------------------------
(***************************************************************************)
(* The components that share no state with the others, side by side: calls *)
(* behind a breaker (Circuit), writers, readers and hosts of a store       *)
(* (Resources), runs that open a session (Establishment), requests with    *)
(* one credential (Requests), an operation that runs a child (Agent) and a *)
(* host that lists what a checkpoint can reach (Reachable).                *)
(* `part` says which an execution is; MCNative has the instances.          *)
(***************************************************************************)
EXTENDS Integers, Sequences, FiniteSets

CONSTANTS
    None,
    Calls, Threshold, MaxStarts, MaxOpens,
    Writers, Readers, Keys, Contents, Hosts, Chunks, MaxDeletes,
    Runs, Candidates, Orders, SessionLimit, EstablishAttempts, MaxAttachments,
    Callers, Mixes, Limit, MaxAttempts, MaxGenerations,
    MaxWorkers, MaxRunning, MaxChildReplies, MaxEnds,
    Sealed, Archived

VARIABLE part

VARIABLES circuit, calls
breaker == <<circuit, calls>>

VARIABLES filesystem, entries, writer, reader, issued, deletes, root
resources == <<filesystem, entries, writer, reader, issued, deletes, root>>

VARIABLES local, saved, opener, sessions, touched
establishment == <<local, saved, opener, sessions, touched>>

VARIABLES caller, permits, credential, remote
requests == <<caller, permits, credential, remote>>

VARIABLES parent, child, workers, limit
agent == <<parent, child, workers, limit>>

VARIABLES chain, checkpoint, found
reach == <<chain, checkpoint, found>>

B == INSTANCE Circuit
S == INSTANCE Resources
E == INSTANCE Establishment
Q == INSTANCE Requests
A == INSTANCE Agent
W == INSTANCE Reachable

NoCircuit == circuit = None /\ calls = None
NoResources ==
    /\ filesystem = None /\ entries = None /\ writer = None /\ reader = None
    /\ issued = None /\ deletes = None /\ root = None
NoEstablishment ==
    local = None /\ saved = None /\ opener = None /\ sessions = None /\ touched = None
NoRequests == caller = None /\ permits = None /\ credential = None /\ remote = None
NoAgent == parent = None /\ child = None /\ workers = None /\ limit = None
NoReach == chain = None /\ checkpoint = None /\ found = None

Init ==
    \/ /\ part = "circuit" /\ B!Init
       /\ NoResources /\ NoEstablishment /\ NoRequests /\ NoAgent /\ NoReach
    \/ /\ part = "resources" /\ S!Init
       /\ NoCircuit /\ NoEstablishment /\ NoRequests /\ NoAgent /\ NoReach
    \/ /\ part = "establishment" /\ E!Init
       /\ NoCircuit /\ NoResources /\ NoRequests /\ NoAgent /\ NoReach
    \/ /\ part = "requests" /\ Q!Init
       /\ NoCircuit /\ NoResources /\ NoEstablishment /\ NoAgent /\ NoReach
    \/ /\ part = "agent" /\ A!Init
       /\ NoCircuit /\ NoResources /\ NoEstablishment /\ NoRequests /\ NoReach
    \/ /\ part = "reachable" /\ W!Init
       /\ NoCircuit /\ NoResources /\ NoEstablishment /\ NoRequests /\ NoAgent

\* Once every writer has returned and every host has opened, every session is
\* established, every request answered and the list made, nothing more happens;
\* a child that waits, or is left alone, may stay as it is.
Next ==
    /\ UNCHANGED part
    /\ \/ /\ part = "circuit" /\ B!Next
          /\ UNCHANGED <<resources, establishment, requests, agent, reach>>
       \/ /\ part = "resources" /\ S!Next
          /\ UNCHANGED <<breaker, establishment, requests, agent, reach>>
       \/ /\ part = "establishment" /\ E!Next
          /\ UNCHANGED <<breaker, resources, requests, agent, reach>>
       \/ /\ part = "requests" /\ Q!Next
          /\ UNCHANGED <<breaker, resources, establishment, agent, reach>>
       \/ /\ part = "agent" /\ A!Next
          /\ UNCHANGED <<breaker, resources, establishment, requests, reach>>
       \/ /\ part = "reachable" /\ W!Next
          /\ UNCHANGED <<breaker, resources, establishment, requests, agent>>
       \/ /\ \/ part \in {"resources", "agent"}
             \/ part = "establishment" /\ E!Ended
             \/ part = "requests" /\ Q!Ended
             \/ part = "reachable" /\ found.at \in {"listed", "failed"}
          /\ UNCHANGED <<breaker, resources, establishment, requests, agent, reach>>

vars == <<part, breaker, resources, establishment, requests, agent, reach>>
Spec == Init /\ [][Next]_vars

-----------------------------------------------------------------------------
\* Properties

\* One probe at a time, and given back however its call ends.
ProbeHeld == part = "circuit" => B!ProbeHeld

\* What is published under a key or as the format stays until it is deleted.
PublishedOnce == part = "resources" => S!PublishedOnce

\* A run has an effect on one candidate only.
BoundCandidate == part = "establishment" => E!BoundCandidate

\* A credential is replaced only once it was rejected or has expired.
RefreshedWithCause == part = "requests" => Q!RefreshedWithCause

\* A request takes effect once at most.
NeverReplayed == part = "requests" => Q!NeverReplayed

\* Requests and sessions stay within the limits they share.
WithinLimits ==
    /\ part = "establishment" => E!WithinLimits
    /\ part = "requests" => Q!WithinLimits

\* The parent's outcome of a child is the child's own end.
ChildAgrees == part = "agent" => A!ChildAgrees

\* The list of a checkpoint's resources misses none.
ReachableComplete == part = "reachable" => W!ReachableComplete
=============================================================================
