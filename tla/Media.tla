------------------------------- MODULE Media -------------------------------
(***************************************************************************)
(* The kernel's media plane (zhir-kernel/src/engine/media.rs) of one       *)
(* interactive run over a native session with recovery: output chunks are  *)
(* sealed and their cursor committed before the host gets them, input      *)
(* chunks before the model does, and the session commands that must not    *)
(* overtake accepted input wait for it.                                    *)
(*                                                                         *)
(* `cp` is the durable checkpoint and `store` the resource store; `remote` *)
(* is the provider's side, which survives an executor.  The rest dies with *)
(* the process.  The loop's passes are not modelled: any enabled step of   *)
(* the engine may come next.                                               *)
(***************************************************************************)
EXTENDS Integers, Sequences, FiniteSets, SequencesExt

CONSTANTS None, Streams,  \* stream identities of the model's output
          Instances       \* small instances to check, see Limits

\* What an instance allows: chunks of an output stream, chunks a host sends
\* per invocation, output_epoch, FlushInput controls, max_buffered_media_packets,
\* executors one after another, whether the host seals its input and whether
\* the resource store may fail.
Limits == [chunks : Nat, input : Nat, epoch : Nat, flushes : Nat, packets : Nat \ {0},
           attempts : Nat \ {0}, seals : BOOLEAN, fails : BOOLEAN]

VARIABLES
    limits,   \* the instance: chosen in Init and never changed
    cp,       \* durable checkpoint
    store,    \* sealed segments, in the order they were stored
    eng,      \* the engine's memory
    queue,    \* model output read, not yet taken by the sealer
    sealer,   \* the sealer task
    hostOut,  \* chunks on their way to the host
    hostIn,   \* chunks the host sent, and whether the channel is closed
    sender,   \* the task that seals and forwards one input segment
    remote,   \* the model's side
    seen      \* history: what was accepted, committed and received

vars == <<cp, store, eng, queue, sealer, hostOut, hostIn, sender, remote, seen>>

Chunk(stream, epoch, sequence, end) ==
    [stream |-> stream, epoch |-> epoch, sequence |-> sequence, end |-> end]

\* media_key
Key(direction, chunk) == <<direction, chunk.stream, chunk.epoch>>

\* Channels of media_pipe. Variant: one packet too many.
RoomForMore(q) == Len(q) <= limits.packets
Room(q) == Len(q) < limits.packets

Without(f, keys) == [k \in DOMAIN f \ keys |-> f[k]]
With(f, key, value) == [k \in DOMAIN f \cup {key} |-> IF k = key THEN value ELSE f[k]]

\* The initial checkpoint of an interactive run; response is response_status
\* of its one generation, marks remembers the input accepted before a command.
Initial ==
    [state |-> "Running", epoch |-> 0, cursors |-> <<>>, archive |-> <<>>,
     commands |-> <<>>, prepared |-> 0, flushes |-> 0, opened |-> FALSE,
     response |-> "active", inputClosed |-> FALSE, closing |-> FALSE, closure |-> FALSE]

Engine(sent) ==
    [on |-> TRUE, ready |-> FALSE, sent |-> sent, sending |-> None, inputSending |-> FALSE,
     held |-> None, ended |-> None, mediaPending |-> FALSE, minEpoch |-> cp.epoch]
Down == [on |-> FALSE, minEpoch |-> eng.minEpoch]

Idle(held, previous) ==
    [at |-> "idle", held |-> held, segment |-> <<>>, ref |-> 0, previous |-> previous]
Waiting == [at |-> "idle", segment |-> <<>>, ref |-> 0]

Init ==
    /\ limits \in Instances
    /\ cp = Initial
    /\ store = <<>>
    /\ eng = [Engine({}) EXCEPT !.minEpoch = 0]
    /\ queue = <<>> /\ hostOut = <<>>
    /\ sealer = Idle(None, <<>>)
    /\ hostIn = [queue |-> <<>>, closed |-> FALSE]
    /\ sender = Waiting
    /\ remote = [open |-> FALSE, epoch |-> 0, next |-> [s \in Streams |-> 1], inbox |-> <<>>,
                 events |-> <<>>, in |-> <<>>, reacted |-> <<>>,
                 done |-> {}, finished |-> FALSE, closed |-> FALSE]
    /\ seen = [accepted |-> <<>>, committed |-> <<>>, received |-> <<>>, marks |-> <<>>,
               attempts |-> 1]

-----------------------------------------------------------------------------
\* Leaving the engine: settle commits the state, stop_workers ends the tasks.
\* What the host was sent it may still receive.

StopTasks ==
    /\ eng' = Down
    /\ queue' = <<>>
    /\ sealer' = Idle(None, <<>>)
    /\ hostIn' = [queue |-> <<>>, closed |-> TRUE]
    /\ sender' = Waiting
    /\ remote' = [remote EXCEPT !.open = FALSE, !.inbox = <<>>, !.events = <<>>]

Settle(state) ==
    /\ cp' = [cp EXCEPT !.state = state]
    /\ StopTasks
    /\ UNCHANGED <<store, hostOut, seen>>

\* The process dies; a chunk the host's channel still held is gone with it.
Crash ==
    /\ eng.on /\ seen.attempts < limits.attempts
    /\ StopTasks
    /\ hostOut' = <<>>
    /\ UNCHANGED <<cp, store, seen>>

\* A new executor: `execute` marks the commands sent durably, sets the epoch
\* floor of the new host channels, which are open and empty.
Attach ==
    /\ ~eng.on /\ cp.state \in {"Running", "Suspended"} /\ seen.attempts < limits.attempts
    /\ cp' = [cp EXCEPT !.state = "Running"]
    /\ eng' = Engine({c.id : c \in {d \in ToSet(cp.commands) : d.sent}})
    /\ hostOut' = <<>>
    /\ hostIn' = [queue |-> <<>>, closed |-> FALSE]
    /\ remote' = [remote EXCEPT !.in = <<>>, !.reacted = <<>>]
    /\ seen' = [seen EXCEPT !.attempts = @ + 1, !.accepted = <<>>, !.marks = <<>>]
    /\ UNCHANGED <<store, queue, sealer, sender>>

\* The session opens, or continues from its recovery reference, at the
\* committed epoch, and replays what the checkpoint does not know yet;
\* start_media_output seeds the sealer's links from the cursors.
Replay ==
    LET done == SetToSeq({c.id : c \in ToSet(cp.commands)} \cap remote.done)
    IN  [i \in DOMAIN done |-> [kind |-> "Ack", id |-> done[i]]]
        \o (IF remote.finished /\ cp.response = "active" THEN <<[kind |-> "Finished"]>> ELSE <<>>)
        \o (IF remote.closed /\ ~cp.closure THEN <<[kind |-> "Closed"]>> ELSE <<>>)

Opened ==
    /\ eng.on /\ ~eng.ready
    /\ cp' = [cp EXCEPT !.opened = TRUE]
    /\ eng' = [eng EXCEPT !.ready = TRUE, !.mediaPending = TRUE]
    /\ sealer' = Idle(None, [k \in DOMAIN cp.cursors |-> cp.cursors[k].sealed])
    /\ remote' = [remote EXCEPT
                    !.open = ~remote.closed,
                    !.events = Replay,
                    !.next = IF remote.epoch = cp.epoch THEN @ ELSE [s \in Streams |-> 1],
                    !.epoch = cp.epoch]
    /\ UNCHANGED <<store, queue, hostOut, hostIn, sender, seen>>

-----------------------------------------------------------------------------
\* Sealing a segment

\* A queued chunk continues a segment of the same stream and epoch.
Joins(last, next) == ~last.end /\ last.stream = next.stream /\ last.epoch = next.epoch

\* The segment that starts a queue: chunks that join, at most max_buffered_media_packets;
\* the first one that does not join was received already and is held back.
Segment(q) ==
    LET most == CHOOSE n \in 1..limits.packets :
                    /\ n <= Len(q)
                    /\ \A i \in 1..(n - 1) : Joins(q[i], q[i + 1])
                    /\ n = limits.packets \/ n = Len(q) \/ ~Joins(q[n], q[n + 1])
        stopped == most < limits.packets /\ most < Len(q)
    IN  [segment |-> SubSeq(q, 1, most),
         held |-> IF stopped THEN q[most + 1] ELSE None,
         rest |-> SubSeq(q, most + (IF stopped THEN 2 ELSE 1), Len(q))]
\* Variant: the packet held back is never looked at again.
HeldForgotten(held, q) == q
WithHeld(held, q) == IF held = None THEN q ELSE <<held>> \o q

\* seal_media: bytes, then the node that links to the previous segment.
Sealed(key, segment, previous) ==
    Append(store, [key |-> key, chunks |-> segment, previous |-> previous])
Link(links, key) == IF key \in DOMAIN links THEN links[key] ELSE 0

\* The archive chain, read once per engine and kept up to date afterwards.
Archived(c) == {c.archive[i].key : i \in DOMAIN c.archive}
Ended == IF eng.ended = None THEN Archived(cp) ELSE eng.ended
\* Variant: a stream that ends is not remembered.
EndedForgotten(ended, key) == ended
EndedStream(ended, key) == IF ended = None THEN None ELSE ended \cup {key}

\* archive_media
Archive(c, key, sealed, complete) ==
    [c EXCEPT !.archive = Append(@, [key |-> key, sealed |-> sealed, complete |-> complete])]

\* seal_cursor: may this segment extend its stream?
Extends(key, segment) ==
    /\ \A i \in 1..(Len(segment) - 1) : segment[i].sequence < segment[i + 1].sequence
    /\ IF key \in DOMAIN cp.cursors
       THEN Head(segment).sequence > cp.cursors[key].sequence
       ELSE key \notin Ended

\* Variant: the stream is archived at its cursor, without its last segment.
CursorWithoutEnd(key, segment, ref) ==
    IF Last(segment).end
    THEN [Archive(cp, key, Link([k \in DOMAIN cp.cursors |-> cp.cursors[k].sealed], key), TRUE)
             EXCEPT !.cursors = Without(@, {key})]
    ELSE [cp EXCEPT !.cursors = With(@, key, [sequence |-> Last(segment).sequence, sealed |-> ref])]

Cursor(key, segment, ref) ==
    IF Last(segment).end
    THEN [Archive(cp, key, ref, TRUE) EXCEPT !.cursors = Without(@, {key})]
    ELSE [cp EXCEPT !.cursors = With(@, key, [sequence |-> Last(segment).sequence, sealed |-> ref])]

\* What a commit of a segment does to the engine's memory and the history.
AfterSeal(key, segment) ==
    LET known == IF key \in DOMAIN cp.cursors THEN eng.ended ELSE Ended
    IN  [eng EXCEPT !.ended = IF Last(segment).end THEN EndedStream(known, key) ELSE known]
Committed(key, segment) ==
    [seen EXCEPT !.committed =
        With(@, key, (IF key \in DOMAIN @ THEN @[key] ELSE <<>>) \o segment)]

-----------------------------------------------------------------------------
\* Output: reader, sealer, engine, host

SealerTake ==
    LET q == WithHeld(sealer.held, queue)
        part == Segment(q)
        key == Key("output", Head(q))
    IN  /\ eng.on /\ sealer.at = "idle" /\ q # <<>>
        /\ queue' = part.rest
        /\ \/ /\ store' = Sealed(key, part.segment, Link(sealer.previous, key))
              /\ sealer' = [sealer EXCEPT !.at = "ready", !.held = part.held,
                                          !.segment = part.segment, !.ref = Len(store) + 1]
           \/ /\ limits.fails
              /\ sealer' = [sealer EXCEPT !.at = "failed"]
              /\ UNCHANGED store
        /\ UNCHANGED <<cp, eng, hostOut, hostIn, sender, remote, seen>>

\* Only an accepted segment changes the links: an ended stream has none, and
\* those of older epochs go.
Links(key, segment, ref) ==
    IF Last(segment).end
    THEN Without(sealer.previous, {key})
    ELSE With(Without(sealer.previous, {k \in DOMAIN sealer.previous : k[3] # key[3]}), key, ref)

\* Work::MediaReady: only the current epoch is committed and then delivered.
Current(segment) == Head(segment).epoch = cp.epoch
MediaReady ==
    LET segment == sealer.segment
        key == Key("output", Head(segment))
    IN  /\ eng.on /\ sealer.at = "ready"
        /\ IF ~Current(segment)
           THEN /\ sealer' = Idle(sealer.held, sealer.previous)
                /\ UNCHANGED <<cp, store, eng, queue, hostOut, hostIn, sender, remote, seen>>
           ELSE IF Extends(key, segment)
           THEN /\ cp' = Cursor(key, segment, sealer.ref)
                /\ eng' = AfterSeal(key, segment)
                /\ seen' = Committed(key, segment)
                /\ sealer' = [sealer EXCEPT !.at = "delivering",
                                            !.previous = Links(key, segment, sealer.ref)]
                /\ UNCHANGED <<store, queue, hostOut, hostIn, sender, remote>>
           ELSE Settle("Failed")

\* The sealer sends the segment's chunks while the host's channel has room.
SealerDeliver ==
    /\ eng.on /\ sealer.at = "delivering" /\ Room(hostOut)
    /\ hostOut' = Append(hostOut, Head(sealer.segment))
    /\ sealer' = IF Len(sealer.segment) = 1
                 THEN Idle(sealer.held, sealer.previous)
                 ELSE [sealer EXCEPT !.segment = Tail(@)]
    /\ UNCHANGED <<cp, store, eng, queue, hostIn, sender, remote, seen>>

\* Work::MediaError
MediaError == eng.on /\ sealer.at = "failed" /\ Settle("Failed")

\* Work::MediaDone: the model's output ended and all of it was sealed.
MediaDone ==
    /\ eng.on /\ eng.mediaPending
    /\ sealer.at = "idle" /\ sealer.held = None /\ queue = <<>> /\ eng.ready /\ ~remote.open
    /\ eng' = [eng EXCEPT !.mediaPending = FALSE]
    /\ UNCHANGED <<cp, store, queue, sealer, hostOut, hostIn, sender, remote, seen>>

\* MediaOutput::receive drops packets below the epoch floor.
\* Variant: the receiver trusts the sealer's check.
PassesAlways(chunk) == TRUE
Passes(chunk) == chunk.epoch >= eng.minEpoch

HostReceive ==
    /\ hostOut # <<>>
    /\ hostOut' = Tail(hostOut)
    /\ seen' = [seen EXCEPT !.received =
                   IF Passes(Head(hostOut)) THEN Append(@, Head(hostOut)) ELSE @]
    /\ UNCHANGED <<cp, store, eng, queue, sealer, hostIn, sender, remote>>

-----------------------------------------------------------------------------
\* Input: host, engine, the task that seals and forwards, model

\* A restarted host numbers its chunks from one, on a new stream or an old one.
HostSend(stream, end) ==
    LET chunk == Chunk(stream, 0, Len(seen.accepted) + 1, end)
    IN  /\ ~hostIn.closed
        /\ Room(hostIn.queue) /\ Len(seen.accepted) < limits.input
        /\ hostIn' = [hostIn EXCEPT !.queue = Append(@, chunk)]
        /\ seen' = [seen EXCEPT !.accepted = Append(@, chunk)]
        /\ UNCHANGED <<cp, store, eng, queue, sealer, hostOut, sender, remote>>

\* input_media: receive_work takes a held packet first.
InputMedia ==
    LET q == WithHeld(eng.held, hostIn.queue)
        part == Segment(q)
        key == Key("input", Head(q))
        links == [k \in DOMAIN cp.cursors |-> cp.cursors[k].sealed]
    IN  /\ eng.on /\ eng.ready /\ ~eng.inputSending /\ q # <<>>
        /\ hostIn' = [hostIn EXCEPT !.queue = part.rest]
        /\ eng' = [eng EXCEPT !.held = part.held, !.inputSending = TRUE]
        /\ \/ /\ store' = Sealed(key, part.segment, Link(links, key))
              /\ sender' = [at |-> "ready", segment |-> part.segment, ref |-> Len(store) + 1]
           \/ /\ limits.fails
              /\ sender' = [Waiting EXCEPT !.at = "failed"]
              /\ UNCHANGED store
        /\ UNCHANGED <<cp, queue, sealer, hostOut, remote, seen>>

\* Work::InputReady
InputReady ==
    LET segment == sender.segment
        key == Key("input", Head(segment))
    IN  /\ eng.on /\ sender.at = "ready"
        /\ IF Extends(key, segment)
           THEN /\ cp' = Cursor(key, segment, sender.ref)
                /\ eng' = AfterSeal(key, segment)
                /\ seen' = Committed(key, segment)
                /\ sender' = [sender EXCEPT !.at = "sending"]
                /\ UNCHANGED <<store, queue, sealer, hostOut, hostIn, remote>>
           ELSE Settle("Failed")

\* The model takes one chunk; a closed session fails the send.
InputForward ==
    /\ eng.on /\ sender.at = "sending"
    /\ IF remote.open
       THEN /\ remote' = [remote EXCEPT !.in = Append(@, Head(sender.segment))]
            /\ sender' = IF Len(sender.segment) = 1
                         THEN [Waiting EXCEPT !.at = "sent"]
                         ELSE [sender EXCEPT !.segment = Tail(@)]
       ELSE /\ sender' = [Waiting EXCEPT !.at = "failed"]
            /\ UNCHANGED remote
    /\ UNCHANGED <<cp, store, eng, queue, sealer, hostOut, hostIn, seen>>

\* Work::InputSent: an error suspends for recovery.
InputSent ==
    /\ eng.on /\ sender.at \in {"sent", "failed"}
    /\ IF sender.at = "failed"
       THEN Settle("Suspended")
       ELSE /\ eng' = [eng EXCEPT !.inputSending = FALSE]
            /\ sender' = Waiting
            /\ UNCHANGED <<cp, store, queue, sealer, hostOut, hostIn, remote, seen>>

-----------------------------------------------------------------------------
\* Commands

\* prepare_command: the intent and its effect on the session are one commit.
Command(c, intent, epoch) ==
    [c EXCEPT !.prepared = @ + 1,
              !.commands = Append(@, [id |-> c.prepared + 1, intent |-> intent,
                                      epoch |-> epoch, sent |-> FALSE])]
Marked == [seen EXCEPT !.marks = With(@, cp.prepared + 1, Len(seen.accepted))]

ControlFlush ==
    /\ eng.on /\ ~cp.inputClosed /\ cp.flushes < limits.flushes
    /\ cp' = [Command(cp, "Flush", 0) EXCEPT !.flushes = @ + 1]
    /\ seen' = Marked
    /\ UNCHANGED <<store, eng, queue, sealer, hostOut, hostIn, sender, remote>>

\* SealUserInput closes the host's channel; packets in it stay.
ControlSeal ==
    /\ limits.seals /\ eng.on /\ ~cp.inputClosed
    /\ cp' = [Command(cp, "Seal", 0) EXCEPT !.inputClosed = TRUE]
    /\ hostIn' = [hostIn EXCEPT !.closed = TRUE]
    /\ seen' = Marked
    /\ UNCHANGED <<store, eng, queue, sealer, hostOut, sender, remote>>

\* InterruptOutput archives every unfinished output stream, with the last
\* segment it has, and raises the epoch floor of the host's channel.
Outputs == {k \in DOMAIN cp.cursors : k[1] = "output"}
\* Variant: interrupted streams are dropped without an archive node.
InterruptedUnarchived ==
    [Command(cp, "Interrupt", cp.epoch + 1) EXCEPT
        !.epoch = @ + 1, !.cursors = Without(@, Outputs)]
Interrupted ==
    LET keys == SetToSeq(Outputs)
        retired == [i \in DOMAIN keys |-> [key |-> keys[i], sealed |-> cp.cursors[keys[i]].sealed,
                                           complete |-> FALSE]]
    IN  [Command(cp, "Interrupt", cp.epoch + 1) EXCEPT
            !.epoch = @ + 1, !.archive = @ \o retired, !.cursors = Without(@, Outputs)]

ControlInterrupt ==
    /\ eng.on /\ cp.opened /\ cp.epoch < limits.epoch
    /\ cp' = Interrupted
    /\ eng' = [eng EXCEPT !.minEpoch = cp.epoch + 1,
                          !.ended = IF @ = None THEN None ELSE @ \cup Outputs]
    /\ UNCHANGED <<store, queue, sealer, hostOut, hostIn, sender, remote, seen>>

Cancel == eng.on /\ Settle("Cancelled")

\* can_send: these three wait until accepted input is with the model.
\* Variant: a packet held back is forgotten.
CanSendOverHeld(intent) ==
    intent \in {"Flush", "Seal", "Close"} => ~eng.inputSending /\ hostIn.queue = <<>>
CanSend(intent) ==
    intent \in {"Flush", "Seal", "Close"} =>
        ~eng.inputSending /\ eng.held = None /\ hostIn.queue = <<>>

\* dispatch_commands: the first command not sent yet; its send boundary is
\* durable before it leaves.
FirstUnsent(i) ==
    /\ cp.commands[i].id \notin eng.sent
    /\ \A j \in 1..(i - 1) : cp.commands[j].id \in eng.sent
Dispatch ==
    /\ eng.on /\ eng.ready /\ eng.sending = None
    /\ \E i \in DOMAIN cp.commands :
           LET command == cp.commands[i]
           IN  /\ FirstUnsent(i) /\ CanSend(command.intent)
               /\ cp' = [cp EXCEPT !.commands[i].sent = TRUE]
               /\ eng' = [eng EXCEPT !.sent = @ \cup {command.id}, !.sending = command]
    /\ UNCHANGED <<store, queue, sealer, hostOut, hostIn, sender, remote, seen>>

\* The task that submits and Work::CommandSent: the model admits the command,
\* or its session is closed and the error suspends for recovery.
Submit ==
    /\ eng.on /\ eng.sending # None
    /\ IF remote.open
       THEN /\ remote' = [remote EXCEPT !.inbox = Append(@, eng.sending)]
            /\ eng' = [eng EXCEPT !.sending = None]
            /\ UNCHANGED <<cp, store, queue, sealer, hostOut, hostIn, sender, seen>>
       ELSE Settle("Suspended")

-----------------------------------------------------------------------------
\* The model (external)

\* It speaks at its own epoch until it reacts to an interruption, and may
\* even continue a stream it ended.
Emit(stream, end) ==
    /\ remote.open /\ eng.ready
    /\ remote.next[stream] <= limits.chunks /\ Room(queue)
    /\ queue' = Append(queue, Chunk(stream, remote.epoch, remote.next[stream], end))
    /\ remote' = [remote EXCEPT !.next[stream] = @ + 1]
    /\ UNCHANGED <<cp, store, eng, sealer, hostOut, hostIn, sender, seen>>

Finish ==
    /\ remote.open /\ ~remote.finished
    /\ remote' = [remote EXCEPT !.finished = TRUE,
                                !.events = Append(@, [kind |-> "Finished"])]
    /\ UNCHANGED <<cp, store, eng, queue, sealer, hostOut, hostIn, sender, seen>>

React ==
    /\ remote.open /\ remote.inbox # <<>>
    /\ LET command == Head(remote.inbox)
           close == command.intent = "Close"
           interrupt == command.intent = "Interrupt"
       IN  remote' = [remote EXCEPT
              !.inbox = Tail(@),
              !.done = @ \cup {command.id},
              !.reacted = With(@, command.id, Len(remote.in)),
              !.events = @ \o <<[kind |-> "Ack", id |-> command.id]>>
                           \o (IF close THEN <<[kind |-> "Closed"]>> ELSE <<>>),
              !.epoch = IF interrupt THEN command.epoch ELSE @,
              !.next = IF interrupt THEN [s \in Streams |-> 1] ELSE @,
              !.closed = close, !.open = ~close]
    /\ UNCHANGED <<cp, store, eng, queue, sealer, hostOut, hostIn, sender, seen>>

\* acknowledge_command: the first command with this id is removed. An
\* acknowledgement without one is a protocol error; this model sends none.
Acknowledged(outbox, id) ==
    LET places == {i \in DOMAIN outbox : outbox[i].id = id}
    IN  IF places = {} THEN outbox ELSE RemoveAt(outbox, Min(places))

\* Session events, one batch each: a confirmation retires its command, a
\* closure closes the host's channel, and suspends when work is left open.
Told(event) ==
    CASE event.kind = "Ack" -> [cp EXCEPT !.commands = Acknowledged(@, event.id)]
      [] event.kind = "Finished" -> [cp EXCEPT !.response = "done"]
      [] event.kind = "Closed" -> [cp EXCEPT !.closure = TRUE, !.inputClosed = TRUE]

Receive ==
    /\ eng.on /\ remote.events # <<>>
    /\ LET event == Head(remote.events)
           next == Told(event)
       IN  IF next.closure /\ (next.commands # <<>> \/ next.response = "active")
           THEN /\ cp' = [next EXCEPT !.state = "Suspended"]
                /\ StopTasks
           ELSE /\ cp' = next
                /\ hostIn' = [hostIn EXCEPT !.closed = @ \/ event.kind = "Closed"]
                /\ remote' = [remote EXCEPT !.events = Tail(@)]
                /\ UNCHANGED <<eng, queue, sealer, sender>>
    /\ UNCHANGED <<store, hostOut, seen>>

-----------------------------------------------------------------------------
\* The end of the run

CanAdvance ==
    /\ eng.on /\ eng.ready /\ cp.response = "done"
    /\ cp.commands = <<>> /\ eng.sending = None

PrepareClose ==
    /\ CanAdvance /\ cp.inputClosed
    /\ ~cp.closure /\ ~cp.closing /\ ~eng.inputSending
    /\ cp' = [Command(cp, "Close", 0) EXCEPT !.closing = TRUE]
    /\ seen' = Marked
    /\ UNCHANGED <<store, eng, queue, sealer, hostOut, hostIn, sender, remote>>

\* Variant: completion does not wait for the sealer.
DrainedNow == ~eng.inputSending
Drained == ~eng.mediaPending /\ ~eng.inputSending
Complete == CanAdvance /\ cp.closure /\ Drained /\ Settle("Completed")

Terminal == cp.state \in {"Completed", "Failed", "Cancelled"}
\* A terminal run stays as it is, a stopped one once its host gives up.
Stopped == ~eng.on /\ (Terminal \/ seen.attempts = limits.attempts) /\ UNCHANGED vars

Output == SealerTake \/ MediaReady \/ SealerDeliver \/ MediaError \/ MediaDone
Input == InputMedia \/ InputReady \/ InputForward \/ InputSent
Controls == ControlFlush \/ ControlSeal \/ ControlInterrupt \/ Cancel
Loop == Opened \/ Dispatch \/ Submit \/ Receive \/ PrepareClose \/ Complete
Model == (\E s \in Streams, end \in BOOLEAN : Emit(s, end)) \/ Finish \/ React
Host == HostReceive \/ \E s \in {1, seen.attempts}, end \in BOOLEAN : HostSend(s, end)

Next ==
    /\ Output \/ Input \/ Controls \/ Loop \/ Model \/ Host \/ Attach \/ Crash \/ Stopped
    /\ UNCHANGED limits

Spec == Init /\ [][Next]_<<limits, vars>>

\* Fairness: tasks and the loop are scheduled, the model ends its response
\* and reacts to commands, the host receives its output, seals once and
\* reattaches what stopped.
Fairness ==
    /\ WF_vars(SealerTake) /\ WF_vars(MediaReady) /\ WF_vars(SealerDeliver)
    /\ WF_vars(MediaError) /\ WF_vars(MediaDone)
    /\ WF_vars(Input)
    /\ WF_vars(Opened) /\ WF_vars(Dispatch) /\ WF_vars(Submit) /\ WF_vars(Receive)
    /\ WF_vars(PrepareClose) /\ WF_vars(Complete)
    /\ WF_vars(Finish) /\ WF_vars(React)
    /\ WF_vars(HostReceive) /\ WF_vars(ControlSeal) /\ WF_vars(Attach)
FairSpec == Spec /\ Fairness

-----------------------------------------------------------------------------
\* Properties

\* Channels and queues stay within max_buffered_media_packets (the sealer
\* and the engine hold one packet more each), and every cursor names a
\* stored segment of its own stream.
TypeOK ==
    /\ \A q \in {queue, hostOut, hostIn.queue} : Len(q) <= limits.packets
    /\ sealer.at \in {"idle", "ready", "delivering", "failed"}
    /\ sender.at \in {"idle", "ready", "sending", "sent", "failed"}
    /\ cp.epoch \in 0..limits.epoch /\ eng.minEpoch \in 0..limits.epoch
    /\ \A k \in DOMAIN cp.cursors : store[cp.cursors[k].sealed].key = k

\* The chunks that each stored segment ends, found back along the links.
Chain(nodes) ==
    LET Walk[r \in 0..Len(nodes)] ==
            IF r = 0 THEN <<>> ELSE Walk[nodes[r].previous] \o nodes[r].chunks
    IN  Walk

\* The chunks of a stream that the durable checkpoint leads to, from its
\* cursor or its archive node.
Recorded(key) ==
    LET nodes == {i \in DOMAIN cp.archive : cp.archive[i].key = key}
    IN  IF key \in DOMAIN cp.cursors THEN Chain(store)[cp.cursors[key].sealed]
        ELSE IF nodes # {} THEN Chain(store)[cp.archive[Max(nodes)].sealed]
        ELSE <<>>

\* Whatever is interrupted, ended, refused or restarted in between, the
\* checkpoint leads to exactly the chunks committed to a stream, once each
\* and in order (SealedMedia.previous "links to the prior segment").
RecordIsCommitted ==
    \A key \in DOMAIN seen.committed : Recorded(key) = seen.committed[key]

\* A stream is archived once and never becomes active again ("media after
\* stream end").
ArchivedForGood ==
    /\ \A i, j \in DOMAIN cp.archive : cp.archive[i].key = cp.archive[j].key => i = j
    /\ Archived(cp) \cap DOMAIN cp.cursors = {}

OfKey(chunks, key) == SelectSeq(chunks, LAMBDA c : Key("output", c) = key)

\* What the host received of a stream is the beginning of what the durable
\* checkpoint records of it; a restart may leave gaps, never anything else
\* ("are sealed, and the cursor is committed, before delivery").
ReceivedIsRecorded ==
    \A key \in {Key("output", c) : c \in ToSet(seen.received)} :
        IF seen.attempts = 1
        THEN IsPrefix(OfKey(seen.received, key), Recorded(key))
        ELSE IsInjective(OfKey(seen.received, key))
             /\ ToSet(OfKey(seen.received, key)) \subseteq ToSet(Recorded(key))

\* Once an interruption is committed the host receives no older output
\* ("Old output epochs are not delivered").
NoStaleOutput ==
    [][seen'.received # seen.received => Last(seen'.received).epoch = cp.epoch]_vars

\* Input reaches the model in the order the host's channel accepted it, and
\* a flush, a seal or a close only after all input accepted before it
\* ("SealUserInput cannot overtake accepted input").
InputFirst ==
    /\ IsPrefix(remote.in, seen.accepted)
    /\ \A id \in DOMAIN remote.reacted \cap DOMAIN seen.marks :
            remote.reacted[id] >= seen.marks[id]

\* A run that completes without a restart has handed over every chunk in
\* both directions: current output to the host's channel, input to the model.
CompletedIsDrained ==
    cp.state = "Completed" /\ seen.attempts = 1 =>
        /\ remote.in = seen.accepted
        /\ \A key \in DOMAIN seen.committed :
               key[1] = "output" /\ key[3] = cp.epoch =>
                   OfKey(seen.received \o hostOut, key) = seen.committed[key]

\* A sealed run that is not restarted settles: nothing waits for ever for a
\* full channel, a drain, or the answer to a command the session closed over.
Settled == limits.seals => cp.state # "Running" \/ seen.attempts > 1
Settles == <>Settled

\* "SealUserInput closes media admission".
SealAdmitsNothing == [][cp.inputClosed => Len(seen'.accepted) <= Len(seen.accepted)]_vars
=============================================================================
