------------------------------ MODULE Observer ------------------------------
(***************************************************************************)
(* One invocation as its host observes it: the worker task that emits      *)
(* events into a bounded channel that never blocks it and settles at the   *)
(* end (zhir-kernel/src/invocation.rs), and the host that drives the run   *)
(* with a handler (zhir/src/runs.rs).                                      *)
(*                                                                         *)
(* An event is its number, the losses it reports (0 unless it is an        *)
(* ObservationGap) and, as history, the losses reported up to it.          *)
(***************************************************************************)
EXTENDS Naturals, Sequences

CONSTANTS EventRoom,   \* max_observer_events
          MaxEmits     \* bound on the events a run emits

VARIABLES emitter,  \* EventState, and where emit is while it holds the lock
          channel,  \* every event accepted, and how many of them were received
          worker,   \* the task spawned by start
          host      \* drive
vars == <<emitter, channel, worker, host>>

Init ==
    /\ emitter = [sequence |-> 0, lost |-> 0, open |-> TRUE, at |-> "idle", emits |-> 0]
    /\ channel = [sent |-> <<>>, taken |-> 0, reported |-> 0, dropped |-> FALSE]
    /\ worker = [phase |-> "running", result |-> FALSE, cancelled |-> FALSE]
    /\ host = "reading"

-----------------------------------------------------------------------------
\* Emitter::emit by the engine or by a tool that reports progress, one at a
\* time.  The lock is held throughout, the receiver is not behind it.

HasRoom == ~channel.dropped /\ Len(channel.sent) - channel.taken < EventRoom

Accept(count) ==
    channel' = [channel EXCEPT
        !.reported = @ + count,
        !.sent = Append(@, [sequence |-> emitter.sequence, count |-> count,
                            total |-> channel.reported + count])]

EmitBegin ==
    /\ emitter.open /\ emitter.at = "idle"
    /\ emitter.emits < MaxEmits
    /\ emitter' = [emitter EXCEPT !.sequence = @ + 1, !.emits = @ + 1,
                                  !.at = IF emitter.lost > 0 THEN "gap" ELSE "event"]
    /\ UNCHANGED <<channel, worker, host>>

\* Variant: a gap that found room is still counted as lost.
EmitGapAgain ==
    /\ emitter.at = "gap"
    /\ IF HasRoom
       THEN /\ Accept(emitter.lost)
            /\ emitter' = [emitter EXCEPT !.sequence = @ + 1, !.at = "event"]
       ELSE /\ emitter' = [emitter EXCEPT !.at = "event"]
            /\ UNCHANGED channel
    /\ UNCHANGED <<worker, host>>

\* A gap takes the number, the event the next one; without room the gap waits
\* for a later event.
EmitGap ==
    /\ emitter.at = "gap"
    /\ IF HasRoom
       THEN /\ Accept(emitter.lost)
            /\ emitter' = [emitter EXCEPT !.lost = 0, !.sequence = @ + 1, !.at = "event"]
       ELSE /\ emitter' = [emitter EXCEPT !.at = "event"]
            /\ UNCHANGED channel
    /\ UNCHANGED <<worker, host>>

EmitEvent ==
    /\ emitter.at = "event"
    /\ IF HasRoom
       THEN Accept(0) /\ emitter' = [emitter EXCEPT !.at = "idle"]
       ELSE emitter' = [emitter EXCEPT !.lost = @ + 1, !.at = "idle"] /\ UNCHANGED channel
    /\ UNCHANGED <<worker, host>>

-----------------------------------------------------------------------------
\* The worker

\* Engine's result is published ...
Settle ==
    /\ worker.phase = "running"
    /\ worker' = [worker EXCEPT !.phase = "settled", !.result = TRUE]
    /\ UNCHANGED <<emitter, channel, host>>

\* ... and then the stream of events ends (Emitter::close).
\* Variant: the sender stays with the emitter.
CloseKeeping ==
    /\ worker.phase = "settled" /\ emitter.at = "idle"
    /\ worker' = [worker EXCEPT !.phase = "closed"]
    /\ UNCHANGED <<emitter, channel, host>>
Close ==
    /\ worker.phase = "settled" /\ emitter.at = "idle"
    /\ worker' = [worker EXCEPT !.phase = "closed"]
    /\ emitter' = [emitter EXCEPT !.open = FALSE]
    /\ UNCHANGED <<channel, host>>

\* The task ends without a result: its watch channel closes, the emitter of
\* the Invocation keeps the events open.
Abort ==
    /\ worker.phase = "running"
    /\ worker' = [worker EXCEPT !.phase = "aborted"]
    /\ UNCHANGED <<emitter, channel, host>>

-----------------------------------------------------------------------------
\* The host: drive

Cancel == worker' = [worker EXCEPT !.cancelled = TRUE]

\* EventStream::poll_next: an event, or the end once the sender is gone.
ReceiveEvent ==
    /\ host = "reading" /\ channel.taken < Len(channel.sent)
    /\ channel' = [channel EXCEPT !.taken = @ + 1]
    /\ host' = "handling"
    /\ UNCHANGED <<emitter, worker>>
StreamEnd ==
    /\ host = "reading" /\ channel.taken = Len(channel.sent) /\ ~emitter.open
    /\ host' = "ended"
    /\ UNCHANGED <<emitter, channel, worker>>

\* The handler accepts the event, or fails: the run is cancelled, the stream
\* dropped, and the result awaited all the same.
Handled ==
    /\ host = "handling"
    /\ host' = "reading"
    /\ UNCHANGED <<emitter, channel, worker>>
HandlerFails ==
    /\ host = "handling"
    /\ host' = "failed"
    /\ Cancel
    /\ channel' = [channel EXCEPT !.dropped = TRUE]
    /\ UNCHANGED emitter

\* Invocation::result: the result, or "worker stopped without settlement".
Result ==
    /\ host \in {"ended", "failed"}
    /\ worker.result \/ worker.phase = "aborted"
    /\ host' = "returned"
    /\ UNCHANGED <<emitter, channel, worker>>

\* The future is dropped: EventStream's and Invocation's Drop cancel.
DropDrive ==
    /\ host \notin {"returned", "dropped"}
    /\ host' = "dropped"
    /\ Cancel
    /\ channel' = [channel EXCEPT !.dropped = TRUE]
    /\ UNCHANGED emitter

Over ==
    /\ host \in {"returned", "dropped"} /\ worker.phase \in {"closed", "aborted"}
    /\ UNCHANGED vars

Emit == EmitBegin \/ EmitGap \/ EmitEvent
Worker == Settle \/ Close \/ Abort
Drive == ReceiveEvent \/ StreamEnd \/ Handled \/ HandlerFails \/ Result
Next == Emit \/ Worker \/ Drive \/ DropDrive \/ Over

Spec == Init /\ [][Next]_vars

\* Fairness: the worker's steps are scheduled, and so is a host that reads.
Fairness == WF_vars(Emit) /\ WF_vars(Settle) /\ WF_vars(Close) /\ WF_vars(Drive)
FairSpec == Spec /\ Fairness

-----------------------------------------------------------------------------
\* Properties

Sent == channel.sent

Event == [sequence : Nat, count : Nat, total : Nat]
TypeOK ==
    /\ emitter \in [sequence : Nat, lost : Nat, open : BOOLEAN,
                     at : {"idle", "gap", "event"}, emits : Nat]
    /\ channel \in [sent : Seq(Event), taken : Nat, reported : Nat, dropped : BOOLEAN]

\* Events are numbered in order and every loss is counted once: at each gap,
\* the losses reported so far are exactly the numbers missing below it
\* ("ObservationGap { count }" of Emitter::emit).
GapsAddUp ==
    \A i \in DOMAIN Sent :
        /\ Sent[i].count > 0 => Sent[i].total = Sent[i].sequence - i
        /\ i > 1 => Sent[i].sequence > Sent[i - 1].sequence
        /\ Sent[i].total = (IF i = 1 THEN 0 ELSE Sent[i - 1].total) + Sent[i].count

\* A run that settles returns to its host, also when it outpaces the handler
\* and when the handler fails ("Handler errors request cancellation and await
\* settlement before returning both outcomes").
DriveReturned == host \in {"returned", "dropped"} \/ worker.phase = "aborted"
DriveReturns == <>DriveReturned
=============================================================================
