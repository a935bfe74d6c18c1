------------------------------ MODULE Circuit ------------------------------
(***************************************************************************)
(* A tool behind a circuit breaker and a retry: calls of several runs that *)
(* share the breaker.  After Threshold failures the circuit is open; once  *)
(* its cooldown is over one call at a time probes the tool.  A call counts *)
(* when it settles: at its start, by an event of its handle, or not at all *)
(* when it is cancelled or dropped.                                        *)
(***************************************************************************)
EXTENDS Integers, FiniteSets

CONSTANTS
    Calls,
    Threshold,       \* failures that open the circuit
    MaxStarts,       \* attempts of the retry policy, the first included
    MaxOpens         \* bound: times the circuit opens

VARIABLES
    circuit,         \* failures, whether it is open or cooled, and its probe
    calls            \* each call: how far it is, and its guard
breaker == <<circuit, calls>>

NewCall == [at |-> "new", armed |-> FALSE, settled |-> FALSE, attempt |-> 0]

Init ==
    /\ circuit = [failures |-> 0, opened |-> "closed", probe |-> FALSE, opens |-> 0]
    /\ calls = [c \in Calls |-> NewCall]

At(c, place) == calls[c].at = place

\* One call at a time finds a cooled circuit open to it.
Refused(c) == circuit.opened # "closed" /\ (circuit.opened = "open" \/ circuit.probe)

Refuse(c) ==
    /\ At(c, "new") /\ Refused(c)
    /\ calls' = [calls EXCEPT ![c].at = "done"]
    /\ UNCHANGED circuit

Try(c) ==
    /\ At(c, "new") /\ ~Refused(c)
    /\ LET probing == circuit.opened # "closed" IN
        /\ circuit' = [circuit EXCEPT !.probe = @ \/ probing]
        /\ calls' = [calls EXCEPT ![c].at = "starting", ![c].armed = probing,
                                  ![c].settled = FALSE]

\* A recovered operation is not refused, and never probes.
Recover(c) ==
    /\ At(c, "new") /\ calls[c].attempt = 0
    /\ calls' = [calls EXCEPT ![c].at = "recovering", ![c].armed = FALSE]
    /\ UNCHANGED circuit

\* A variant: only what settles with a result gives the probe back.
GivesBackIfCounted(c, failure) == calls[c].armed /\ failure # "none"

\* The guard's probe ends with it, whatever became of the call.
GivesBack(c, failure) == calls[c].armed

\* Probe::settle, once: a success closes the circuit, a failure may open it,
\* a cancellation counts for nothing.
Settled(c, failure) ==
    IF calls[c].settled THEN circuit
    ELSE LET failures == IF failure = "failure" /\ circuit.failures < Threshold
                         THEN circuit.failures + 1 ELSE circuit.failures
             opens == failure = "failure" /\ failures >= Threshold
         IN [circuit EXCEPT
                !.failures = IF failure = "success" THEN 0 ELSE failures,
                !.opened = IF failure = "success" THEN "closed"
                           ELSE IF opens THEN "open" ELSE @,
                !.opens = IF opens THEN @ + 1 ELSE @,
                !.probe = @ /\ ~GivesBack(c, failure)]

Settle(c, failure, place) ==
    /\ failure = "failure" => circuit.opens < MaxOpens
    /\ circuit' = Settled(c, failure)
    /\ calls' = [calls EXCEPT ![c].at = place, ![c].settled = TRUE, ![c].armed = FALSE]

Results == {"success", "failure", "none"}

\* The inner start returns: finished, active, or with an error.  The retry
\* repeats a retryable error of a start, each attempt with a guard of its own.
Finished(c) ==
    /\ calls[c].at \in {"starting", "recovering"}
    /\ \E failure \in Results : Settle(c, failure, "done")

Active(c) ==
    /\ calls[c].at \in {"starting", "recovering"}
    /\ calls' = [calls EXCEPT ![c].at = "active"]
    /\ UNCHANGED circuit

Retried(c) ==
    /\ At(c, "starting") /\ calls[c].attempt + 1 < MaxStarts
    /\ Settle(c, "failure", "waiting")

Again(c) ==
    /\ At(c, "waiting")
    /\ calls' = [calls EXCEPT ![c].at = "new", ![c].attempt = @ + 1, ![c].settled = FALSE]
    /\ UNCHANGED circuit

\* An event of the handle: an outcome, or the end of the stream, a failure.
\* What comes after an outcome does not count again.
Event(c) ==
    /\ At(c, "active")
    /\ \E failure \in Results, place \in {"active", "done"} : Settle(c, failure, place)

\* The future or the handle is dropped: cancelled, detached or abandoned.
Drop(c) ==
    /\ calls[c].at \in {"starting", "recovering", "active", "waiting"}
    /\ circuit' = [circuit EXCEPT !.probe = @ /\ ~GivesBack(c, "none")]
    /\ calls' = [calls EXCEPT ![c].at = "done", ![c].armed = FALSE]

Cooldown ==
    /\ circuit.opened = "open"
    /\ circuit' = [circuit EXCEPT !.opened = "cooled"]
    /\ UNCHANGED calls

\* A next call takes the place of one that is over.
Next ==
    \/ Cooldown
    \/ \E c \in Calls :
        \/ Refuse(c) \/ Try(c) \/ Recover(c) \/ Finished(c) \/ Active(c)
        \/ Retried(c) \/ Again(c) \/ Event(c) \/ Drop(c)
        \/ At(c, "done") /\ calls' = [calls EXCEPT ![c] = NewCall] /\ UNCHANGED circuit

-----------------------------------------------------------------------------
\* Properties

\* The probe is taken exactly while one call in flight probes: two calls never
\* probe at once, and no end of a call leaves the circuit closed to all others
\* for ever.
ProbeHeld ==
    LET probing == {c \in Calls : calls[c].armed} IN
    /\ Cardinality(probing) <= 1
    /\ circuit.probe <=> probing # {}
=============================================================================
