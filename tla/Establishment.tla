--------------------------- MODULE Establishment ---------------------------
(***************************************************************************)
(* How a run gets its model session: the engine commits that it is opening *)
(* one, the retry decorator repeats a rejected establishment, the fallback *)
(* decorator tries its candidates in the order the host gives, and each    *)
(* candidate admits a bounded number of sessions.  The candidate that      *)
(* opened is committed as the binding of the run before any command.       *)
(*                                                                         *)
(* A candidate is local, a projection that is rebuilt from the history and *)
(* has no effect before its first command, or external: opening it starts  *)
(* a remote session.  Hosts abandon a run and attach to it again, with     *)
(* their candidates in another order or without one of them.               *)
(***************************************************************************)
EXTENDS Integers, Sequences, FiniteSets

CONSTANTS
    None,
    Runs, Candidates,
    Orders,          \* the candidate lists a host may configure
    SessionLimit,    \* sessions each candidate admits
    EstablishAttempts,  \* attempts of the retry policy, the first included
    MaxAttachments   \* bound: times a host attaches to a run

VARIABLES
    local,           \* whether the candidates are local projections
    saved,           \* for each run, its checkpoint
    opener,          \* for each run, its executor
    sessions,        \* for each run, the candidate and the ports of its session
    touched          \* for each run, the candidates it had an effect on
establishment == <<saved, opener, sessions, touched>>

\* Control and media input stay with the engine, the events and the media
\* output have a task each.
Ports == {"engine", "events", "output"}
Off == [at |-> "off", order |-> <<>>, next |-> 0, attempt |-> 0]
NoSession == [candidate |-> None, ports |-> {}]

Init ==
    /\ local \in BOOLEAN
    /\ saved = [r \in Runs |-> [state |-> "new", opening |-> FALSE, binding |-> None,
                                recovery |-> None, sent |-> FALSE, attached |-> 0]]
    /\ opener = [r \in Runs |-> Off]
    /\ sessions = [r \in Runs |-> NoSession]
    /\ touched = [r \in Runs |-> {}]

At(r, place) == opener[r].at = place
Move(r, place) == opener' = [opener EXCEPT ![r].at = place]
Touch(r, candidate) == touched' = [touched EXCEPT ![r] = @ \cup {candidate}]
Commit(r, checkpoint) == saved' = [saved EXCEPT ![r] = checkpoint]

\* A variant: the permit goes with the events.
PermitHeldByEvents(r) == "events" \in sessions[r].ports

\* A session's ports share its permit: the last one dropped gives it back.
PermitHeld(r) == sessions[r].ports # {}

Admitted(c) ==
    {r \in Runs : \/ opener[r].at = "opening" /\ opener[r].order[opener[r].next] = c
                  \/ sessions[r].candidate = c /\ PermitHeld(r)}

\* The executor ends with the run in the given state, and drops what it holds
\* of its session.
Leave(r, state) ==
    /\ saved' = [saved EXCEPT ![r].state = state]
    /\ opener' = [opener EXCEPT ![r] = Off]
    /\ sessions' = [sessions EXCEPT ![r] = NoSession]

-----------------------------------------------------------------------------
\* The engine before the session is open

\* A new run, or one whose executor left it active or waiting.  A session that
\* cannot be told apart from one that is still open somewhere waits for a
\* recovery reference.
Attach(r) ==
    /\ At(r, "off") /\ saved[r].state \in {"new", "active", "waiting"}
    /\ saved[r].attached < MaxAttachments
    /\ \E order \in Orders :
        LET resumed == saved[r].state # "new"
            lost == \/ saved[r].sent
                    \/ saved[r].opening /\ ~local
            waits == resumed /\ saved[r].recovery = None /\ lost
        IN
        /\ Commit(r, [saved[r] EXCEPT !.attached = @ + 1,
                                      !.state = IF waits THEN "waiting" ELSE "active"])
        /\ opener' = IF waits THEN opener
                     ELSE [opener EXCEPT ![r] = [Off EXCEPT !.at = "prepare", !.order = order]]
    /\ UNCHANGED <<sessions, touched>>

\* A variant: the session is recorded only once it is open.
CommitOpeningLater(r) == UNCHANGED saved

\* The boundary before an effect outside: a crash from here on is visible.
CommitOpening(r) ==
    Commit(r, [saved[r] EXCEPT !.opening = @ \/ ~local])

Prepare(r) ==
    /\ At(r, "prepare")
    /\ CommitOpening(r)
    /\ Move(r, "select")
    /\ UNCHANGED <<sessions, touched>>

\* The error an establishment ends with, as the engine takes it.
Fails(r, error) ==
    Leave(r, IF saved[r].recovery # None \/ error = "uncertain" THEN "waiting" ELSE "failed")

-----------------------------------------------------------------------------
\* The decorators

Binding(r) == IF saved[r].binding # None THEN saved[r].binding ELSE saved[r].recovery

\* A bound run opens its candidate or none; the others begin with the first.
Select(r) ==
    /\ At(r, "select")
    /\ LET order == opener[r].order
           bound == Binding(r)
           first == {i \in DOMAIN order : bound = None \/ order[i] = bound}
       IN IF first = {}
          THEN Fails(r, "unavailable")
          ELSE /\ opener' = [opener EXCEPT
                    ![r].at = "admission",
                    ![r].next = CHOOSE i \in first : \A j \in first : i <= j]
               /\ UNCHANGED <<saved, sessions>>
    /\ UNCHANGED touched

\* The semaphore of the candidate, before its session is opened.
Admit(r) ==
    /\ At(r, "admission")
    /\ Cardinality(Admitted(opener[r].order[opener[r].next])) < SessionLimit
    /\ Move(r, "opening")
    /\ UNCHANGED <<saved, sessions, touched>>

\* The candidate opens a session; all its ports share the permit.
Opened(r) ==
    /\ At(r, "opening")
    /\ LET candidate == opener[r].order[opener[r].next] IN
        /\ sessions' = [sessions EXCEPT ![r] = [candidate |-> candidate, ports |-> Ports]]
        /\ IF local THEN UNCHANGED touched ELSE Touch(r, candidate)
    /\ Move(r, "bind")
    /\ UNCHANGED saved

\* A retryable rejection selects the next candidate of an unbound run, and
\* after the last one establishment begins again, without a recovery only.
Rejected(r) ==
    /\ At(r, "opening")
    /\ IF Binding(r) = None /\ opener[r].next < Len(opener[r].order)
       THEN /\ opener' = [opener EXCEPT ![r].at = "admission", ![r].next = @ + 1]
            /\ UNCHANGED <<saved, sessions>>
       ELSE IF saved[r].recovery = None /\ opener[r].attempt + 1 < EstablishAttempts
       THEN /\ opener' = [opener EXCEPT ![r].at = "select", ![r].attempt = @ + 1]
            /\ UNCHANGED <<saved, sessions>>
       ELSE Fails(r, "rejected")
    /\ UNCHANGED touched

\* Any other error is final.  After an uncertain one the session may exist.
Uncertain(r) ==
    /\ At(r, "opening") /\ ~local
    /\ Fails(r, "uncertain")
    /\ UNCHANGED touched \/ Touch(r, opener[r].order[opener[r].next])

Refused(r) ==
    /\ At(r, "opening")
    /\ Fails(r, "refused")
    /\ UNCHANGED touched

-----------------------------------------------------------------------------
\* The engine with an open session

\* The binding is committed before the session is used.
Bind(r) ==
    /\ At(r, "bind")
    /\ IF saved[r].binding \notin {None, sessions[r].candidate}
       THEN Leave(r, "failed")
       ELSE /\ Commit(r, [saved[r] EXCEPT !.opening = TRUE, !.binding = sessions[r].candidate])
            /\ opener' = [opener EXCEPT ![r] = [Off EXCEPT !.at = "live"]]
            /\ UNCHANGED sessions
    /\ UNCHANGED touched

\* A command is marked in the checkpoint before it is submitted.
Send(r) ==
    /\ At(r, "live") /\ sessions[r].ports = Ports /\ ~saved[r].sent
    /\ Commit(r, [saved[r] EXCEPT !.sent = TRUE])
    /\ Touch(r, sessions[r].candidate)
    /\ UNCHANGED <<opener, sessions>>

\* An external session hands out a reference to recover it by.
Reference(r) ==
    /\ At(r, "live") /\ sessions[r].ports = Ports /\ ~local /\ saved[r].recovery = None
    /\ Commit(r, [saved[r] EXCEPT !.recovery = sessions[r].candidate])
    /\ UNCHANGED <<opener, sessions, touched>>

\* A generation of a local session is answered, and nothing is on its way.
Answered(r) ==
    /\ At(r, "live") /\ local /\ saved[r].sent
    /\ Commit(r, [saved[r] EXCEPT !.sent = FALSE])
    /\ UNCHANGED <<opener, sessions, touched>>

\* Each task of the executor ends by itself and drops its port.
DropPort(r) ==
    /\ At(r, "live")
    /\ \E port \in sessions[r].ports \ {"engine"} :
        sessions' = [sessions EXCEPT ![r].ports = @ \ {port}]
    /\ UNCHANGED <<saved, opener, touched>>

\* The events end: the run completes, or waits for its session's recovery.
Finish(r) ==
    /\ At(r, "live") /\ "events" \notin sessions[r].ports
    /\ \E state \in {"completed", "waiting"} : Leave(r, state)
    /\ UNCHANGED touched

\* The run is cancelled or reaches its deadline.
Interrupt(r) ==
    /\ opener[r].at \in {"prepare", "select", "admission", "opening", "live"}
    /\ Leave(r, "ended")
    /\ UNCHANGED touched

\* The executor is abandoned between any two steps.  A request on its way may
\* still open the session.
Abandon(r) ==
    /\ ~At(r, "off")
    /\ opener' = [opener EXCEPT ![r] = Off]
    /\ sessions' = [sessions EXCEPT ![r] = NoSession]
    /\ \/ UNCHANGED touched
       \/ /\ At(r, "opening") /\ ~local
          /\ Touch(r, opener[r].order[opener[r].next])
    /\ UNCHANGED saved

Answer(r) == Opened(r) \/ Rejected(r) \/ Uncertain(r) \/ Refused(r)

\* What an executor that is scheduled, or a service that answers, does.
Advance(r) == \/ Prepare(r) \/ Select(r) \/ Admit(r) \/ Answer(r) \/ Bind(r)
              \/ DropPort(r) \/ Finish(r)

Next ==
    /\ \E r \in Runs : \/ Attach(r) \/ Advance(r) \/ Interrupt(r) \/ Abandon(r)
                       \/ Send(r) \/ Reference(r) \/ Answered(r)
    /\ UNCHANGED local

-----------------------------------------------------------------------------
\* Properties

\* A run has an effect on one candidate only: it opens external sessions at
\* one, or sends its commands to one, whatever was tried, lost, abandoned or
\* reordered in between.
BoundCandidate == \A r \in Runs : Cardinality(touched[r]) <= 1

\* A candidate serves no more sessions than it admits: a session is open until
\* its last port is dropped.
WithinLimits ==
    \A c \in Candidates :
        Cardinality({r \in Runs : sessions[r].candidate = c}) <= SessionLimit

\* Every run leaves its executor.
Ended == \A r \in Runs : At(r, "off")
=============================================================================
