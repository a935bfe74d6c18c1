------------------------------- MODULE Agent -------------------------------
(***************************************************************************)
(* A tool operation that runs a child agent.  The operation and the child  *)
(* are two checkpoints: the parent's executor holds a handle to a worker,  *)
(* and the worker holds an invocation of the child, whose executor commits *)
(* the child with compare-and-swap.  A parent that detaches leaves the     *)
(* worker to pause the child by itself; a recovery reads the child's head  *)
(* meanwhile.  A crash ends all of them and leaves the two checkpoints.    *)
(***************************************************************************)
EXTENDS Integers, Sequences, FiniteSets

CONSTANTS
    None,
    MaxWorkers,      \* bound: workers over time, numbered
    MaxRunning,      \* how many permits a backend may have
    MaxChildReplies, MaxEnds   \* bounds: replies, suspensions of the child

VARIABLES
    parent,          \* the operation record and the parent's executor
    child,           \* the child's head
    workers,         \* each worker and the invocation it holds
    limit            \* permits of the backend
agent == <<parent, child, workers>>

Workers == 1 .. MaxWorkers
Terminal == {"completed", "failed", "cancelled"}
NoWorker == [at |-> "unused", open |-> FALSE, events |-> <<>>, commands |-> <<>>,
             run |-> "none", revision |-> 0, cancelled |-> FALSE, result |-> None]

Init ==
    /\ parent = [state |-> "Queued", outcome |-> None, worker |-> None, seen |-> None,
                 attached |-> TRUE, replying |-> FALSE, replies |-> 0]
    /\ child = [state |-> "none", revision |-> 0, ends |-> 0]
    /\ workers = [w \in Workers |-> NoWorker]
    /\ limit \in 1 .. MaxRunning

Permits == {w \in Workers : workers[w].at \notin {"unused", "ended"}}
Unused == {w \in Workers : workers[w].at = "unused"}

\* child::attach: a permit at once or none, then the worker runs by itself.
\* The invocation starts once its worker asks for the result.
Spawn(w, revision) ==
    /\ workers' = [workers EXCEPT ![w] =
            [NoWorker EXCEPT !.at = "running", !.open = TRUE,
                             !.run = "attaching", !.revision = revision]]
Free == Cardinality(Permits) < limit

Record(state, outcome) ==
    parent' = [parent EXCEPT !.state = state, !.outcome = outcome, !.worker = None]

-----------------------------------------------------------------------------
\* The parent's executor

\* Running is committed first; the tool starts afterwards.
Admit ==
    /\ parent.attached /\ parent.state = "Queued"
    /\ parent' = [parent EXCEPT !.state = "Running", !.seen = [state |-> "start", revision |-> 0]]
    /\ UNCHANGED <<child, workers>>

\* A start without a permit settles the operation, a recovery without one
\* leaves it unknown: recovery_failed is a protocol error.
Start ==
    /\ parent.seen # None /\ parent.seen.state = "start"
    /\ IF Free
       THEN \E w \in Unused :
              /\ \A v \in Unused : w <= v
              /\ Spawn(w, 0)
              /\ parent' = [parent EXCEPT !.worker = w, !.seen = None]
       ELSE /\ parent' = [parent EXCEPT !.state = "Finished", !.outcome = "rejected",
                                        !.seen = None]
            /\ UNCHANGED workers
    /\ UNCHANGED child

\* The parent stops, by a suspension of its own or because it is abandoned:
\* its end of the worker's channel is dropped, the records stay.
Detach ==
    /\ parent.attached /\ parent.state \notin {"Queued", "Finished"}
    /\ parent' = [parent EXCEPT !.attached = FALSE, !.worker = None, !.seen = None,
                                !.replying = FALSE]
    /\ workers' = IF parent.worker = None THEN workers
                  ELSE [workers EXCEPT ![parent.worker].open = FALSE]
    /\ UNCHANGED child

\* The process ends, with every worker and every executor of the child.
Crash ==
    /\ parent.state \notin {"Queued", "Finished"}
    /\ parent' = [parent EXCEPT !.attached = FALSE, !.worker = None, !.seen = None,
                                !.replying = FALSE]
    /\ workers' = [w \in Workers |-> IF workers[w].at = "unused" THEN NoWorker
                                     ELSE [NoWorker EXCEPT !.at = "ended"]]
    /\ UNCHANGED child

\* A new executor of the parent recovers the operation by the child's head.
LoadHead ==
    /\ ~parent.attached /\ Unused # {}
    /\ parent' = [parent EXCEPT !.attached = TRUE,
            !.seen = IF parent.state \in {"Running", "Waiting", "Cancelling"}
                     THEN [state |-> child.state, revision |-> child.revision]
                     ELSE None]
    /\ UNCHANGED <<child, workers>>

Recover ==
    /\ parent.seen # None /\ parent.seen.state # "start"
    /\ IF parent.seen.state \in Terminal
       THEN /\ parent' = [parent EXCEPT !.state = "Finished", !.outcome = parent.seen.state,
                                        !.seen = None]
            /\ UNCHANGED workers
       ELSE IF parent.seen.state = "none" \/ ~Free
       THEN /\ parent' = [parent EXCEPT !.state = "Unknown", !.seen = None]
            /\ UNCHANGED workers
       ELSE \E w \in Unused :
              /\ \A v \in Unused : w <= v
              /\ Spawn(w, parent.seen.revision)
              /\ parent' = [parent EXCEPT !.worker = w, !.seen = None]
    /\ UNCHANGED child

\* The handle's events, in order; a stream that ends early leaves the
\* operation unknown.
ReceiveEvent ==
    /\ parent.worker # None
    /\ LET w == parent.worker
           event == Head(workers[w].events)
       IN
       /\ workers[w].events # <<>>
       /\ workers' = [workers EXCEPT ![w].events = Tail(@)]
       /\ \/ /\ event \in {"Running", "Waiting"}
             /\ parent' = [parent EXCEPT !.state = event]
          \/ /\ event \in Terminal
             /\ Record("Finished", event)
          \/ /\ event = "Unknown"
             /\ Record("Unknown", None)
    /\ UNCHANGED child

EventsEnd ==
    /\ parent.worker # None /\ workers[parent.worker].at = "ended"
    /\ workers[parent.worker].events = <<>>
    /\ Record("Unknown", None)
    /\ UNCHANGED <<child, workers>>

\* The host's reply is unknown until the worker's queue has it.
Reply ==
    /\ parent.worker # None /\ parent.state = "Waiting" /\ parent.replies < MaxChildReplies
    /\ parent' = [parent EXCEPT !.state = "Unknown", !.replying = TRUE, !.replies = @ + 1]
    /\ workers' = [workers EXCEPT ![parent.worker].commands = Append(@, "reply")]
    /\ UNCHANGED child

ReplyDone ==
    /\ parent.replying
    /\ parent' = [parent EXCEPT !.replying = FALSE,
                                !.state = IF @ = "Unknown" THEN "Running" ELSE @]
    /\ UNCHANGED <<child, workers>>

\* A cancellation is recorded, cancels the invocation the worker has at that
\* moment, and is queued for the next one.
Cancel ==
    /\ parent.worker # None /\ parent.state \in {"Running", "Waiting"}
    /\ parent' = [parent EXCEPT !.state = "Cancelling"]
    /\ workers' = [workers EXCEPT ![parent.worker].cancelled = TRUE,
                                  ![parent.worker].commands = Append(@, "cancel")]
    /\ UNCHANGED child

-----------------------------------------------------------------------------
\* The child's executor, one per invocation

Commits(w, state) ==
    IF workers[w].revision = child.revision
    THEN /\ child' = [child EXCEPT !.state = state, !.revision = @ + 1]
         /\ workers' = [workers EXCEPT
                ![w].revision = @ + 1,
                ![w].run = IF state = "active" THEN "live" ELSE "ended",
                ![w].result = IF state = "active" THEN None ELSE state]
    ELSE /\ workers' = [workers EXCEPT ![w].run = "ended", ![w].result = "error"]
         /\ UNCHANGED child

Attach(w) ==
    /\ workers[w].run = "attaching"
    /\ Commits(w, "active")
    /\ UNCHANGED parent

\* The run ends, waits for input, or follows its cancellation or its pause.
End(w) ==
    /\ workers[w].run = "live"
    /\ \/ \E state \in {"completed", "failed"} : Commits(w, state)
       \/ (workers[w].at = "pausing" \/ child.ends < MaxEnds) /\ Commits(w, "suspended")
       \/ workers[w].cancelled /\ Commits(w, "cancelled")
    /\ UNCHANGED parent

-----------------------------------------------------------------------------
\* The worker

\* A variant: an invocation that fails is the child's failure.
UpdateOfError(result) == IF result = "error" THEN "failed" ELSE result

\* Only a committed end is an outcome; a lost commit says nothing of the child.
Update(result) == IF result = "error" THEN "Unknown" ELSE result

Emit(w, event) ==
    IF workers[w].open THEN Append(workers[w].events, event) ELSE <<>>

Completed(w) ==
    /\ workers[w].at = "running" /\ workers[w].result # None
    /\ LET result == workers[w].result IN
        IF result = "suspended"
        THEN /\ workers' = [workers EXCEPT ![w].at = "waiting", ![w].result = None,
                                           ![w].events = Emit(w, "Waiting")]
             /\ child' = [child EXCEPT !.ends = @ + 1]
        ELSE /\ workers' = [workers EXCEPT ![w].at = "ended", ![w].result = None,
                                           ![w].events = Emit(w, Update(result))]
             /\ UNCHANGED child
    /\ UNCHANGED parent

\* The parent is gone: the worker pauses the child and stays until it ends.
Pause(w) ==
    /\ workers[w].at = "running" /\ ~workers[w].open
    /\ workers' = [workers EXCEPT ![w].at = "pausing"]
    /\ UNCHANGED <<parent, child>>

Leave(w) ==
    /\ ~workers[w].open
    /\ \/ workers[w].at = "waiting"
       \/ workers[w].at = "pausing" /\ workers[w].result # None
    /\ workers' = [workers EXCEPT ![w].at = "ended", ![w].result = None]
    /\ UNCHANGED <<parent, child>>

\* The next command resumes the child from the checkpoint it was left at.
TakeCommand(w) ==
    /\ workers[w].at = "waiting" /\ workers[w].commands # <<>>
    /\ workers' = [workers EXCEPT ![w].at = "resuming"]
    /\ UNCHANGED <<parent, child>>

Resume(w) ==
    /\ workers[w].at = "resuming"
    /\ LET command == Head(workers[w].commands) IN
        workers' = [workers EXCEPT
            ![w].at = "running", ![w].run = "attaching", ![w].commands = Tail(@),
            ![w].cancelled = command = "cancel",
            ![w].events = IF command = "reply" THEN Emit(w, "Running") ELSE @]
    /\ UNCHANGED <<parent, child>>

Worker(w) == \/ Attach(w) \/ End(w) \/ Completed(w) \/ Pause(w) \/ Leave(w)
             \/ TakeCommand(w) \/ Resume(w)

Next ==
    /\ \/ Admit \/ Start \/ Detach \/ Crash \/ LoadHead \/ Recover
       \/ ReceiveEvent \/ EventsEnd \/ Reply \/ ReplyDone \/ Cancel
       \/ \E w \in Workers : Worker(w)
    /\ UNCHANGED limit

-----------------------------------------------------------------------------
\* Properties

\* An outcome that the parent recorded is the end its child committed, and
\* stays it: whatever crashed, detached, was recovered or ran on in between.
\* A start that was rejected has no child.
ChildAgrees ==
    parent.state = "Finished" =>
        child.state = IF parent.outcome = "rejected" THEN "none" ELSE parent.outcome
=============================================================================
