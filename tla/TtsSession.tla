----------------------------- MODULE TtsSession -----------------------------
(***************************************************************************)
(* A MiniMax speech session: the WebSocket driver (zhir-models/websocket)  *)
(* with the task protocol (zhir-minimax/tts) between the kernel, which     *)
(* submits session commands and receives events and audio, and the         *)
(* service at the other end of the wire.  Observations of each message     *)
(* (Delta events) and heartbeats are left out.                             *)
(***************************************************************************)
EXTENDS Native, FiniteSets

CONSTANTS CommandRoom,  \* max_control_commands
          TtsInstances  \* small instances to check

VARIABLES
    limits,    \* the instance: chosen in Init and never changed
    kernel,    \* what the kernel knows and has asked for
    commands,  \* submitted, not yet received by the driver
    driver,    \* the driver loop
    s,         \* the protocol's Session
    o,         \* its ports
    wire,      \* frames in both directions
    service,   \* the remote task
    seen       \* events and audio the kernel received

vars == <<kernel, commands, driver, s, o, wire, service, seen>>

\* What an instance allows: texts after the first, interruptions, flushes and
\* seals, whether the host also seals or flushes before the generation (early)
\* or sends texts and interruptions after a seal (late), and whether the link
\* or the service may fail or answer too late.

\* connected: the first confirmation, of no command, is outstanding.
Connected ==
    [phase |-> "Connecting", pending |-> 0, target |-> 0, epoch |-> 0,
     sentence |-> 0, sequence |-> 0, open |-> FALSE]

Init ==
    /\ limits \in TtsInstances
    /\ kernel = [ready |-> FALSE, generated |-> FALSE, finished |-> FALSE, seals |-> 0,
                 closing |-> FALSE, submitted |-> 0, acked |-> 0, epoch |-> 0, texts |-> 0,
                 flushes |-> 0, stray |-> 0, end |-> None]
    /\ commands = <<>>
    /\ driver = [on |-> TRUE, closing |-> FALSE, socketClosed |-> FALSE]
    /\ s = Connected
    /\ o = Ports(0)
    /\ wire = [up |-> <<>>, down |-> <<[event |-> "connected_success"]>>]
    /\ service = [texts |-> 0, open |-> FALSE, cancels |-> 0, spoken |-> 0, over |-> FALSE]
    /\ seen = [events |-> 0, audio |-> <<>>]

-----------------------------------------------------------------------------
\* The driver: one arm of the select of Driver::run, then its actions, then
\* end_media once the task is finished.

Finished(session) == session.phase = "Finished"

\* What an arm does: the protocol's new state, events and audio in order,
\* frames to send, whether the driver starts to close, the error if any.
Step(session, actions, frames) ==
    [session |-> session, actions |-> actions, frames |-> frames, close |-> FALSE,
     error |-> None]
Invalid == [Step(s, <<>>, <<>>) EXCEPT !.error = "protocol"]

End(ports, result) ==
    /\ driver' = [driver EXCEPT !.on = FALSE]
    /\ o' = Settle(ports, result)
    /\ commands' = <<>>
    /\ wire' = [up |-> <<>>, down |-> <<>>]
    /\ UNCHANGED s

Act(ports, outcome, rest, down) ==
    LET after == Perform(ports, outcome.actions)
        error == IF outcome.error # None THEN outcome.error ELSE after.failure
    IN  IF error # None THEN End(after, error)
        ELSE /\ s' = outcome.session
             /\ o' = IF Finished(outcome.session) THEN EndMedia(after) ELSE after
             /\ driver' = [driver EXCEPT !.closing = @ \/ outcome.close]
             /\ commands' = rest
             /\ wire' = [up |-> wire.up \o outcome.frames, down |-> down]

Done == driver.closing /\ ~Pending(o)

DriverDone ==
    /\ driver.on /\ Done
    /\ End(o, "ok")
    /\ UNCHANGED <<limits, kernel, service, seen>>

Busy == driver.on /\ ~Done

FlushOne ==
    /\ Busy
    /\ \/ CanFlushEvent(o) /\ o' = FlushEvent(o)
       \/ CanFlushMedia(o) /\ o' = FlushMedia(o)
    /\ UNCHANGED <<limits, kernel, commands, driver, s, wire, service, seen>>

-----------------------------------------------------------------------------
\* Session::command

Ack(id) == [kind |-> "Ack", id |-> id]
Frame(event) == [event |-> event]
Awaiting(id, phase, frame) ==
    Step([s EXCEPT !.pending = id, !.phase = phase], <<>>, <<Frame(frame)>>)

\* Variant: only the connection and the start of the task are waited for.
AdmittedUnconfirmed == s.phase \notin {"Connecting", "Starting"}
Admits == s.pending = None /\ s.phase \in {"Ready", "Speaking", "Finished"}

Generate(c) ==
    IF s.phase = "Ready" THEN Awaiting(c.id, "Starting", "task_start") ELSE Invalid

Continue(c) ==
    CASE s.phase = "Ready" -> Step(s, <<Ack(c.id)>>, <<>>)
      [] s.phase = "Speaking" -> Step(s, <<Ack(c.id)>>, <<Frame("task_continue")>>)
      [] OTHER -> Invalid

\* Variant: audio is labelled with the new epoch at once.
InterruptAtOnce(c) ==
    IF s.phase # "Speaking" \/ c.epoch <= s.epoch THEN Invalid
    ELSE Step([s EXCEPT !.pending = c.id, !.phase = "Interrupting", !.target = c.epoch,
                        !.epoch = c.epoch],
              <<>>, <<Frame("task_cancel")>>)
Interrupt(c) ==
    IF s.phase # "Speaking" \/ c.epoch <= s.epoch THEN Invalid
    ELSE Step([s EXCEPT !.pending = c.id, !.phase = "Interrupting", !.target = c.epoch],
              <<>>, <<Frame("task_cancel")>>)

Close(c) == [Step(s, <<Ack(c.id), [kind |-> "Closed"]>>, <<>>) EXCEPT !.close = TRUE]

Command(c) ==
    CASE c.kind = "Generate" -> Generate(c)
      [] c.kind = "Append" -> Continue(c)
      [] c.kind = "Interrupt" -> Interrupt(c)
      [] c.kind = "Close" -> Close(c)
      [] c.kind = "Flush" ->
            IF s.phase # "Speaking" THEN Invalid ELSE Awaiting(c.id, "Flushing", "task_flush")
      [] c.kind = "Seal" ->
            IF s.phase # "Speaking" THEN Invalid ELSE Awaiting(c.id, "Finishing", "task_finish")

\* An interruption the protocol accepts retires older epochs in the ports.
ReceiveCommand ==
    /\ Busy /\ ~driver.closing /\ commands # <<>> /\ Admits
    /\ LET c == Head(commands)
           outcome == Command(c)
           ports == IF c.kind = "Interrupt" /\ outcome.error = None
                    THEN InvalidateBefore(o, c.epoch) ELSE o
       IN  Act(ports, outcome, Tail(commands), wire.down)
    /\ UNCHANGED <<limits, kernel, service, seen>>

\* The confirmation deadline passes; the driver polls it in every state.
Expire ==
    /\ limits.slow /\ Busy /\ s.pending # None
    /\ End(o, "uncertain")
    /\ UNCHANGED <<limits, kernel, service, seen>>

-----------------------------------------------------------------------------
\* Session::receive

Synthesizing == s.phase \in {"Speaking", "Interrupting", "Flushing", "Finishing"}
\* Variant: the slot of the confirmation stays taken.
Unconfirmed(phase) == [s EXCEPT !.phase = phase]
Confirmed(phase) == [s EXCEPT !.pending = None, !.phase = phase]

\* Audio::chunk; `tag` is the synthesis the service produced the audio in.
Chunk(end, tag) ==
    [kind |-> "Media", sentence |-> s.sentence, epoch |-> s.epoch, sequence |-> s.sequence,
     end |-> end, tag |-> tag]

Started ==
    IF s.phase # "Starting" THEN Invalid
    ELSE Step(Confirmed("Speaking"), <<Ack(s.pending), [kind |-> "Started"]>>,
              <<Frame("task_continue")>>)

Canceled ==
    IF s.phase # "Interrupting" THEN Invalid
    ELSE Step([Confirmed("Speaking") EXCEPT !.epoch = s.target, !.open = FALSE, !.sequence = 0],
              <<Ack(s.pending)>>, <<>>)

TaskFinished ==
    IF s.phase # "Finishing" \/ s.open THEN Invalid
    ELSE Step(Confirmed("Finished"), <<Ack(s.pending), [kind |-> "Finished"]>>, <<>>)

SentenceStarted == [s EXCEPT !.sentence = @ + 1, !.sequence = 0, !.open = TRUE]

Received(m) ==
    CASE m.event = "connected_success" ->
            IF s.phase = "Connecting" THEN Step(Confirmed("Ready"), <<[kind |-> "Ready"]>>, <<>>)
            ELSE Invalid
      [] m.event = "task_started" -> Started
      [] m.event = "task_canceled" -> Canceled
      [] m.event = "task_flushed" ->
            IF s.phase = "Flushing" THEN Step(Confirmed("Speaking"), <<Ack(s.pending)>>, <<>>)
            ELSE Invalid
      [] m.event = "task_finished" -> TaskFinished
      [] m.event = "sentence_start" ->
            IF ~Synthesizing \/ s.open THEN Invalid ELSE Step(SentenceStarted, <<>>, <<>>)
      [] m.event = "audio" ->
            IF ~Synthesizing \/ ~s.open THEN Invalid
            ELSE Step([s EXCEPT !.sequence = @ + 1], <<Chunk(FALSE, m.tag)>>, <<>>)
      [] m.event = "sentence_end" ->
            IF ~Synthesizing \/ ~s.open THEN Invalid
            ELSE Step([s EXCEPT !.sequence = @ + 1, !.open = FALSE], <<Chunk(TRUE, m.tag)>>, <<>>)

\* A frame is read only while nothing is held back; a queue rejection is
\* uncertain, the end of the wire too unless the task is finished.
ReceiveFrame ==
    /\ Busy /\ ~driver.closing /\ ~driver.socketClosed /\ CanReceive(o) /\ wire.down # <<>>
    /\ LET m == Head(wire.down)
       IN  CASE m.event = "rejected" -> End(o, "uncertain")
             [] m.event = "close" /\ Finished(s) ->
                   /\ driver' = [driver EXCEPT !.socketClosed = TRUE]
                   /\ wire' = [wire EXCEPT !.down = Tail(@)]
                   /\ UNCHANGED <<commands, s, o>>
             [] m.event = "close" /\ ~Finished(s) -> End(o, "uncertain")
             [] OTHER -> Act(o, Received(m), commands, Tail(wire.down))
    /\ UNCHANGED <<limits, kernel, service, seen>>

\* A ping of an idle connection: it changes nothing here, or its write fails.
Heartbeat ==
    /\ Busy /\ ~driver.socketClosed /\ ~Finished(s)
    /\ \/ UNCHANGED <<commands, driver, s, o, wire>>
       \/ limits.faults /\ End(o, "uncertain")
    /\ UNCHANGED <<limits, kernel, service, seen>>

-----------------------------------------------------------------------------
\* The service (external): sentences are spoken in order, a cancellation
\* drops what is left of them, flush and finish answer after the last.

Tell(frames, up) == wire' = [up |-> up, down |-> wire.down \o frames]
Others == <<limits, kernel, commands, driver, s, o, seen>>

ServiceReceive ==
    /\ wire.up # <<>> /\ ~service.over
    /\ LET event == Head(wire.up).event
           rest == Tail(wire.up)
           spoken == service.texts = 0 /\ ~service.open
       IN  CASE event = "task_start" ->
                   Tell(<<Frame("task_started")>>, rest) /\ UNCHANGED service
             [] event = "task_continue" ->
                   Tell(<<>>, rest) /\ service' = [service EXCEPT !.texts = @ + 1]
             [] event = "task_cancel" ->
                   /\ Tell(<<Frame("task_canceled")>>, rest)
                   /\ service' = [texts |-> 0, open |-> FALSE, spoken |-> 0, over |-> FALSE,
                                  cancels |-> service.cancels + 1]
             [] event = "task_flush" ->
                   spoken /\ Tell(<<Frame("task_flushed")>>, rest) /\ UNCHANGED service
             [] event = "task_finish" ->
                   /\ spoken /\ Tell(<<Frame("task_finished"), Frame("close")>>, rest)
                   /\ service' = [service EXCEPT !.over = TRUE]
    /\ UNCHANGED Others

Speak ==
    /\ driver.on /\ ~service.over
    /\ \/ /\ service.texts > 0 /\ ~service.open
          /\ Tell(<<Frame("sentence_start"), [event |-> "audio", tag |-> service.cancels]>>,
                  wire.up)
          /\ service' = [service EXCEPT !.texts = @ - 1, !.open = TRUE, !.spoken = @ + 1]
       \/ /\ service.open
          /\ Tell(<<[event |-> "sentence_end", tag |-> service.cancels]>>, wire.up)
          /\ service' = [service EXCEPT !.open = FALSE, !.spoken = @ + 1]
    /\ UNCHANGED Others

Fault ==
    /\ limits.faults /\ driver.on /\ ~service.over
    /\ \E event \in {"close", "rejected"} : Tell(<<Frame(event)>>, wire.up)
    /\ service' = [service EXCEPT !.over = TRUE]
    /\ UNCHANGED Others

-----------------------------------------------------------------------------
\* The kernel: the commands the engine prepares for the controls it accepts,
\* one channel entry each, and the events and audio it receives.  Of what a
\* host asks it refuses a flush after a seal and an interruption without a
\* generation, and everything once it closes.  A message from outside, an
\* interruption and another seal are accepted after a seal, a flush and a seal
\* before the generation.

Live == kernel.end = None /\ driver.on
Submit(command) ==
    /\ Live /\ kernel.ready /\ ~kernel.closing
    /\ Len(commands) < CommandRoom
    /\ commands' = Append(commands, [id |-> kernel.submitted + 1] @@ command)
    /\ UNCHANGED <<limits, driver, s, o, wire, service, seen>>

InputClosed == kernel.seals > 0
\* `stray` is the first command that comes before the generation or after the
\* seal, 0 while there is none: history, which no step reads.
Submitted(inOrder) ==
    [kernel EXCEPT !.submitted = @ + 1,
                   !.stray = IF inOrder \/ @ # 0 THEN @ ELSE kernel.submitted + 1]

\* A generation is prepared once every earlier command is acknowledged.
SubmitGenerate ==
    /\ ~kernel.generated /\ kernel.acked = kernel.submitted
    /\ Submit([kind |-> "Generate"])
    /\ kernel' = [Submitted(TRUE) EXCEPT !.generated = TRUE]
\* After a seal only a message that is not the user's.
SubmitText ==
    /\ kernel.texts < limits.texts
    /\ InputClosed => limits.late
    /\ Submit([kind |-> "Append"])
    /\ kernel' = [Submitted(~InputClosed) EXCEPT !.texts = @ + 1]
SubmitInterrupt ==
    /\ kernel.generated /\ kernel.epoch < limits.epochs
    /\ InputClosed => limits.late
    /\ Submit([kind |-> "Interrupt", epoch |-> kernel.epoch + 1])
    /\ kernel' = [Submitted(~InputClosed) EXCEPT !.epoch = @ + 1]
SubmitFlush ==
    /\ ~InputClosed /\ kernel.flushes < limits.flushes
    /\ kernel.generated \/ limits.early
    /\ Submit([kind |-> "Flush"])
    /\ kernel' = [Submitted(kernel.generated) EXCEPT !.flushes = @ + 1]
SubmitSeal ==
    /\ kernel.seals < limits.seals
    /\ kernel.generated \/ limits.early
    /\ Submit([kind |-> "Seal"])
    /\ kernel' = [Submitted(kernel.generated /\ ~InputClosed) EXCEPT !.seals = @ + 1]
SubmitClose ==
    /\ InputClosed /\ kernel.finished /\ kernel.acked = kernel.submitted
    /\ Submit([kind |-> "Close"])
    /\ kernel' = [Submitted(TRUE) EXCEPT !.closing = TRUE]

ReceiveEvent ==
    /\ kernel.end = None /\ NextEvent(o) # None
    /\ LET event == NextEvent(o).body
       IN  kernel' = CASE event.kind = "Ready" -> [kernel EXCEPT !.ready = TRUE]
                       [] event.kind = "Ack" -> [kernel EXCEPT !.acked = @ + 1]
                       [] event.kind = "Finished" -> [kernel EXCEPT !.finished = TRUE]
                       [] event.kind = "End" -> [kernel EXCEPT !.end = event.result]
                       [] OTHER -> kernel
    /\ o' = Taken(o)
    /\ seen' = [seen EXCEPT !.events = @ + 1]
    /\ UNCHANGED <<limits, commands, driver, s, wire, service>>

\* The media output: a retired epoch is dropped.
ReceiveAudio ==
    /\ o.media # <<>>
    /\ o' = [o EXCEPT !.media = Tail(@)]
    /\ seen' = IF Heard(o, Head(o.media))
               THEN [seen EXCEPT !.audio = Append(@, Head(o.media))] ELSE seen
    /\ UNCHANGED <<limits, kernel, commands, driver, s, wire, service>>

\* The host cancels: the guard ends the driver where it is.
Cancel ==
    /\ limits.faults /\ driver.on
    /\ End(o, "cancelled")
    /\ UNCHANGED <<limits, kernel, service, seen>>

Stopped == ~driver.on /\ kernel.end # None /\ o.media = <<>> /\ UNCHANGED <<limits, vars>>

Driver == DriverDone \/ FlushOne \/ ReceiveCommand \/ ReceiveFrame \/ Expire \/ Heartbeat
Service == ServiceReceive \/ Speak
Kernel == SubmitGenerate \/ SubmitText \/ SubmitInterrupt \/ SubmitFlush \/ SubmitSeal
          \/ SubmitClose
Next == Driver \/ Service \/ Fault \/ Kernel \/ ReceiveEvent \/ ReceiveAudio \/ Cancel \/ Stopped

Spec == Init /\ [][Next]_<<limits, vars>>

-----------------------------------------------------------------------------
\* Properties

\* After an interruption is admitted, nothing synthesized before the remote
\* cancellation is heard, though it may still arrive ("Until this remote
\* barrier, all in-flight audio keeps its old epoch").
NoOldAudioStep == seen'.audio # seen.audio => Last(seen'.audio).tag >= o.minEpoch

\* Each sentence of an epoch is one stream: its chunks are heard with
\* consecutive sequences from 0, nothing after its end, never mixed with
\* another's ("Group chunks by stream_id and epoch, respecting end markers").
StreamsWellFormed ==
    \A i \in DOMAIN seen.audio :
        LET chunk == seen.audio[i]
            follows == i > 1 /\ seen.audio[i - 1].sentence = chunk.sentence
        IN  /\ chunk.sequence = IF follows THEN seen.audio[i - 1].sequence + 1 ELSE 0
            /\ follows => ~seen.audio[i - 1].end
            /\ i > 1 => chunk.sentence >= seen.audio[i - 1].sentence

\* A session that ends well has handed over all speech of its last epoch.
CloseLosesNothing ==
    kernel.end = "ok" =>
        Cardinality({i \in DOMAIN seen.audio : seen.audio[i].tag = service.cancels})
            + Cardinality({i \in DOMAIN o.media : o.media[i].tag = service.cancels})
        = service.spoken

\* Whatever order commands and remote answers come in, the protocol ends the
\* session only over a command from before the generation or after the seal,
\* and then every command before that one has been acknowledged.
AcksIn(events) == Len(SelectSeq(events, LAMBDA e : e.body.kind = "Ack"))
OrderedControlsServed ==
    o.terminal # None /\ o.terminal.result = "protocol" =>
        /\ kernel.stray # 0
        /\ kernel.acked + AcksIn(o.events) + AcksIn(o.terminal.events) = kernel.stray - 1

\* Whatever control the kernel accepts, the protocol does not end the session
\* over it.
ControlsAreServed == o.terminal = None \/ o.terminal.result # "protocol"
=============================================================================
