---------------------------- MODULE LiveSession ----------------------------
(***************************************************************************)
(* An OpenAI Live session: the WebRTC driver (zhir-models/webrtc) with the *)
(* Live protocol (zhir-openai/live) between the kernel and a remote        *)
(* session at the other end of a peer connection with one control channel  *)
(* and one audio track each way.  Time is left out: a disconnection may    *)
(* end or outlast its grace, a confirmation may come or be too late.       *)
(***************************************************************************)
EXTENDS Native, FiniteSets

CONSTANTS CommandRoom,   \* max_control_commands
          RtpModulus,    \* 2^16, the range of RTP sequence numbers
          LiveInstances  \* small instances to check

VARIABLES
    limits,    \* the instance: chosen in Init and never changed
    kernel,    \* what the kernel knows and has asked for
    commands,  \* submitted, not yet received by the driver
    driver,    \* the driver loop, with the host's audio it has not sent
    s,         \* the protocol's state
    o,         \* its ports
    wire,      \* the peer: connection, received events and audio
    service,   \* the remote session
    seen       \* events and audio the kernel received

vars == <<kernel, commands, driver, s, o, wire, service, seen>>

\* An instance: texts, audio toggles, seals, delegations, chunks of host input
\* and remote packets, whether texts also follow a seal (late), and whether
\* the link may fail or the remote refuse.
Init ==
    /\ limits \in LiveInstances
    /\ kernel = [ready |-> FALSE, sealed |-> 0, seals |-> 0, closing |-> FALSE, submitted |-> 0,
                 acked |-> {}, texts |-> 0, toggles |-> 0, input |-> 0, open |-> {},
                 closed |-> FALSE, stray |-> 0, end |-> None]
    /\ commands = <<>>
    /\ driver = [on |-> TRUE, stopped |-> FALSE, actions |-> <<[kind |-> "Connect"]>>,
                 observations |-> <<>>, write |-> None, tail |-> None,
                 input |-> <<>>, inputOpen |-> TRUE]
    \* Protocol::initial: the session's start is the first confirmation.
    /\ s = [phase |-> "Starting", pending |-> [kind |-> "Start"], end |-> None,
            close |-> None, delegations |-> {}, packet |-> None, sequence |-> 0]
    /\ o = Ports(0)
    /\ wire = [up |-> FALSE, connection |-> "connected", failed |-> FALSE,
               events |-> <<>>, audio |-> <<>>]
    /\ service = [received |-> <<>>, answered |-> 0, delegated |-> 0, arrived |-> 0,
                  packet |-> RtpModulus - 2, breaks |-> 0, closed |-> FALSE]
    /\ seen = [events |-> 0, audio |-> <<>>]

-----------------------------------------------------------------------------
\* The protocol.  Commands and frames are handled with the actions they cause.

Result(session, actions) == [session |-> session, actions |-> actions, error |-> None]
Refused(reason) == [session |-> s, actions |-> <<>>, error |-> reason]

Ack(id) == [kind |-> "Event", body |-> [kind |-> "Ack", id |-> id]]
Told(body) == [kind |-> "Event", body |-> body]
Send(text) == [kind |-> "Send", text |-> text]

Draining == s.phase = "Draining"
Finished == s.phase \in {"Finished", "Closed"}

Admits == s.phase \in {"Active", "Finished"} /\ s.pending = None
AcceptsInput == s.phase = "Active" /\ s.end = None /\ s.close = None

\* Every text is sent in two fragments; its acknowledgement follows them.
Fragments(c, kind) == <<Send([kind |-> kind, id |-> c.id]), Send([kind |-> kind, id |-> c.id])>>

\* Protocol::command
Command(c) ==
    IF ~Admits THEN Refused("invalid")
    ELSE CASE c.kind = "Append" /\ AcceptsInput ->
                Result(s, Fragments(c, "append") \o <<Ack(c.id)>>)
           [] c.kind = "Result" /\ s.phase = "Active" /\ c.delegation \notin s.delegations ->
                Refused("protocol")
           [] c.kind = "Result" /\ s.phase = "Active" /\ c.delegation \in s.delegations ->
                Result([s EXCEPT !.delegations = @ \ {c.delegation}],
                       Fragments(c, "result") \o <<Ack(c.id)>>)
           [] c.kind = "Toggle" /\ AcceptsInput ->
                Result([s EXCEPT !.pending = [kind |-> "Audio", id |-> c.id]],
                       <<Send([kind |-> "toggle", id |-> c.id])>>)
           [] c.kind = "Seal" /\ AcceptsInput ->
                Result([s EXCEPT !.end = c.id], <<[kind |-> "DrainInput"], Ack(c.id)>>)
           [] c.kind = "Close" /\ s.phase = "Finished" ->
                Result([s EXCEPT !.phase = "Closed"], <<Ack(c.id)>>)
           [] c.kind = "Close" /\ s.phase = "Active" ->
                Result([s EXCEPT !.close = c.id, !.pending = [kind |-> "Close", id |-> c.id]],
                       <<Send([kind |-> "close", id |-> c.id])>>)
           [] OTHER -> Refused("invalid")

\* A closure by the remote: it must confirm the Close outstanding, and come
\* unasked only in an idle session without unfinished delegations.
Closes(reason) ==
    IF Finished \/ Draining THEN Refused("protocol")
    ELSE IF \/ s.delegations # {} /\ s.close = None
            \/ s.pending # None /\ s.pending.kind = "Close" /\ reason # "client_request"
            \/ s.pending = None /\ s.phase # "Active"
            \/ s.pending # None /\ s.pending.kind # "Close"
         THEN Refused("uncertain")
    ELSE Result([s EXCEPT !.phase = "Draining", !.pending = None], <<[kind |-> "Disconnect"]>>)

\* Protocol::receive
Receive(event) ==
    CASE event.kind = "started" ->
            IF s.phase # "Starting" THEN Refused("protocol")
            ELSE Result([s EXCEPT !.phase = "Active", !.pending = None],
                        <<Told([kind |-> "Ready"])>>)
      [] event.kind = "toggled" ->
            IF s.pending = None THEN Refused("protocol")
            ELSE IF s.pending.kind # "Audio" THEN Refused("protocol")
            ELSE Result([s EXCEPT !.pending = None], <<Ack(s.pending.id)>>)
      [] event.kind = "delegation" ->
            IF s.phase \notin {"Active", "Draining"} THEN Refused("protocol")
            ELSE IF Draining /\ s.close = None THEN Refused("uncertain")
            ELSE Result([s EXCEPT !.delegations = @ \cup {event.id}],
                        <<Told([kind |-> "Delegation", id |-> event.id])>>)
      [] event.kind = "closed" -> Closes(event.reason)
      [] event.kind = "error" -> Result(s, <<Told([kind |-> "Delta"]), [kind |-> "Fail"]>>)

\* Protocol::finalize
Finalized ==
    Result([s EXCEPT !.phase = IF s.close = None THEN "Finished" ELSE "Closed",
                     !.end = None, !.close = None],
           (IF s.close = None THEN <<>> ELSE <<Ack(s.close)>>) \o <<Told([kind |-> "Closed"])>>)

-----------------------------------------------------------------------------
\* The driver loop: what is due before the select comes first.

End(ports, result) ==
    /\ driver' = [driver EXCEPT !.on = FALSE, !.inputOpen = FALSE, !.input = <<>>, !.write = None]
    /\ o' = Settle(ports, result)
    /\ commands' = <<>>
    /\ wire' = [wire EXCEPT !.up = FALSE]
    /\ UNCHANGED s

\* LiveConnection::evaluate: queued frames are interpreted before a loss.
Lost == wire.connection = "lost" /\ wire.events = <<>>
RemoteOpen == wire.up /\ ~driver.stopped /\ ~Finished
Broken == RemoteOpen /\ (Lost \/ (wire.failed /\ wire.events = <<>>))

Resumes == driver.tail # None /\ driver.write = None /\ driver.input = <<>>

Source == IF driver.observations # <<>> THEN "observations" ELSE "actions"
Effect == Head(driver[Source])
CanAdvance ==
    /\ driver[Source] # <<>>
    /\ Source = "actions" => driver.tail = None /\ driver.write = None
    /\ driver.write # None => Effect.kind \notin {"Send", "Connect", "DrainInput"}
    /\ Effect.kind = "Send" /\ wire.up => wire.connection = "connected" \/ Lost

Idle == driver.write = None /\ driver.tail = None
        /\ driver.actions = <<>> /\ driver.observations = <<>>
\* Variant: packets and frames the peer still holds are left behind.
FinalizesAtOnce == Draining /\ driver.stopped /\ Idle /\ ~Pending(o)
Finalizes == Draining /\ driver.stopped /\ Idle /\ ~Pending(o)
             /\ wire.audio = <<>> /\ wire.events = <<>>
Done == s.phase = "Closed" /\ Idle /\ ~Pending(o)

Due == Resumes \/ CanAdvance \/ Finalizes \/ Done \/ Broken
Selecting == driver.on /\ ~Due

Resume ==
    /\ driver.on /\ Resumes
    /\ driver' = [driver EXCEPT !.actions = driver.tail \o @, !.tail = None]
    /\ UNCHANGED <<limits, kernel, commands, s, o, wire, service, seen>>

\* disconnect: an unfinished drain makes the end uncertain.
Disconnect(rest) ==
    IF driver.tail # None /\ (driver.input # <<>> \/ driver.write # None)
    THEN End(o, "uncertain")
    ELSE /\ driver' = [rest EXCEPT !.stopped = TRUE]
         /\ wire' = [wire EXCEPT !.up = FALSE]
         /\ UNCHANGED <<commands, s, o>>

\* DrainInput closes the host's port and suspends the rest of its batch.
\* Variant: only the port is closed.
DrainAtOnce(rest) ==
    /\ driver' = [rest EXCEPT !.inputOpen = FALSE]
    /\ UNCHANGED <<commands, s, o, wire>>
Drain(rest) ==
    /\ driver' = [rest EXCEPT ![Source] = <<>>, !.tail = rest[Source], !.inputOpen = FALSE]
    /\ UNCHANGED <<commands, s, o, wire>>

\* advance: one effect of the batch
Advance ==
    /\ driver.on /\ ~Resumes /\ CanAdvance
    /\ LET rest == [driver EXCEPT ![Source] = Tail(@)]
       IN  CASE Effect.kind = "Connect" ->
                   /\ driver' = rest
                   /\ wire' = [wire EXCEPT !.up = TRUE, !.events = <<[kind |-> "started"]>>]
                   /\ UNCHANGED <<commands, s, o>>
             [] Effect.kind = "Send" /\ wire.up /\ Lost -> End(o, "uncertain")
             [] Effect.kind = "Send" /\ ~(wire.up /\ Lost) ->
                   /\ driver' = [rest EXCEPT !.write = Effect.text]
                   /\ UNCHANGED <<commands, s, o, wire>>
             [] Effect.kind = "DrainInput" -> Drain(rest)
             [] Effect.kind = "Event" ->
                   LET after == Event(o, Effect.body)
                   IN  IF after.failure # None THEN End(after, after.failure)
                       ELSE o' = after /\ driver' = rest /\ UNCHANGED <<commands, s, wire>>
             [] Effect.kind = "Disconnect" -> Disconnect(rest)
             [] Effect.kind = "Fail" -> End(o, "model")
    /\ UNCHANGED <<limits, kernel, service, seen>>

\* Producers have stopped: the stream ends with its marker, then the closure.
EndChunk == [epoch |-> 0, sequence |-> s.sequence, packet |-> s.packet, end |-> TRUE]
Finalize ==
    /\ driver.on /\ ~Resumes /\ ~CanAdvance /\ Finalizes
    /\ o' = EndMedia(IF s.sequence = 0 THEN o ELSE Media(o, EndChunk))
    /\ s' = Finalized.session
    /\ driver' = [driver EXCEPT !.actions = Finalized.actions]
    /\ UNCHANGED <<limits, kernel, commands, wire, service, seen>>

DriverDone ==
    /\ driver.on /\ ~Resumes /\ ~CanAdvance
    /\ \/ Done /\ End(o, "ok")
       \/ Broken /\ End(o, "uncertain")
    /\ UNCHANGED <<limits, kernel, service, seen>>

-----------------------------------------------------------------------------
\* The select: one arm at a time.

Headroom == 8
Connected == RemoteOpen => wire.connection = "connected"

ReceiveCommand ==
    /\ Selecting /\ commands # <<>> /\ Idle
    /\ Connected /\ Admits /\ CommandsAllowed(o, Headroom)
    /\ LET outcome == Command(Head(commands))
       IN  IF outcome.error # None THEN End(o, outcome.error)
           ELSE /\ s' = outcome.session
                /\ driver' = [driver EXCEPT !.actions = outcome.actions]
                /\ commands' = Tail(commands)
                /\ UNCHANGED <<o, wire>>
    /\ UNCHANGED <<limits, kernel, service, seen>>

\* One chunk of the host's audio becomes the write in flight.
ReceiveInput ==
    /\ Selecting /\ driver.input # <<>> /\ driver.write = None
    /\ RemoteOpen /\ wire.connection = "connected"
    /\ driver.tail # None \/ (Idle /\ AcceptsInput)
    /\ driver' = [driver EXCEPT !.input = Tail(@), !.write = Head(driver.input)]
    /\ UNCHANGED <<limits, kernel, commands, s, o, wire, service, seen>>

ReceiveFrame ==
    /\ Selecting /\ wire.events # <<>> /\ driver.observations = <<>> /\ ~Finished
    /\ LET outcome == Receive(Head(wire.events))
       IN  IF outcome.error # None THEN End(o, outcome.error)
           ELSE /\ s' = outcome.session
                /\ driver' = [driver EXCEPT !.observations = outcome.actions]
                /\ wire' = [wire EXCEPT !.events = Tail(@)]
                /\ UNCHANGED <<commands, o>>
    /\ UNCHANGED <<limits, kernel, service, seen>>

\* RtpTimeline::accept: a sequence not ahead of the last one, modulo the
\* range, is late or a duplicate. Variant: only duplicates are dropped.
Distance(packet) == (packet + RtpModulus - s.packet) % RtpModulus
AheadOrLate(packet) == s.packet = None \/ Distance(packet) > 0
Ahead(packet) ==
    s.packet = None \/ (Distance(packet) > 0 /\ 2 * Distance(packet) < RtpModulus)

\* A packet received keeps its reservation until the host takes it.
ReceivePacket ==
    /\ Selecting /\ wire.audio # <<>> /\ o.pendingMedia = <<>> /\ ~Finished
    /\ LET packet == Head(wire.audio)
           chunk == [epoch |-> 0, sequence |-> s.sequence, packet |-> packet, end |-> FALSE]
       IN  IF Ahead(packet % RtpModulus)
           THEN /\ s' = [s EXCEPT !.packet = packet % RtpModulus, !.sequence = @ + 1]
                /\ o' = Media(o, chunk)
           ELSE UNCHANGED <<s, o>>
    /\ wire' = [wire EXCEPT !.audio = Tail(@)]
    /\ UNCHANGED <<limits, kernel, commands, driver, service, seen>>

\* The write ends: the peer has the text or the chunk, or it is gone.
Written ==
    /\ Selecting /\ driver.write # None
    /\ \/ /\ wire.up
          /\ service' = [service EXCEPT !.received = Append(@, driver.write)]
          /\ driver' = [driver EXCEPT !.write = None]
          /\ UNCHANGED <<commands, s, o, wire>>
       \/ /\ ~wire.up \/ limits.faults
          /\ End(o, IF wire.up THEN "uncertain" ELSE "protocol")
          /\ UNCHANGED service
    /\ UNCHANGED <<limits, kernel, seen>>

\* A packet keeps the reservation it arrived with; the end marker of the
\* stream needs one of its own.
CanHandOver == o.pendingMedia # <<>> /\ (Head(o.pendingMedia).end => CanFlushMedia(o))
FlushOne ==
    /\ Selecting
    /\ \/ CanFlushEvent(o) /\ o' = FlushEvent(o)
       \/ CanHandOver /\ o' = FlushMedia(o)
    /\ UNCHANGED <<limits, kernel, commands, driver, s, wire, service, seen>>

\* The deadline of a confirmation; checked first in every pass.
Expire ==
    /\ limits.faults /\ driver.on /\ s.pending # None
    /\ End(o, "uncertain")
    /\ UNCHANGED <<limits, kernel, service, seen>>

-----------------------------------------------------------------------------
\* The peer: what arrives is queued within bounds, or the session fails.

Arrives(event) ==
    wire' = IF Len(wire.events) >= EventRoom THEN [wire EXCEPT !.failed = TRUE]
            ELSE [wire EXCEPT !.events = Append(@, event)]
Others == <<limits, kernel, commands, driver, s, o, seen>>

\* The remote reads what was written, in order, and answers.
Texts == SelectSeq(service.received, LAMBDA t : t.kind # "audio")
Answer ==
    /\ wire.up /\ service.answered < Len(Texts) /\ ~service.closed
    /\ LET text == Texts[service.answered + 1]
       IN  /\ service' = [service EXCEPT !.answered = @ + 1, !.closed = text.kind = "close"]
           /\ CASE text.kind = "toggle" -> Arrives([kind |-> "toggled"])
                [] text.kind = "close" ->
                      Arrives([kind |-> "closed", reason |-> "client_request"])
                [] OTHER -> UNCHANGED wire
    /\ UNCHANGED Others

Delegate ==
    /\ wire.up /\ ~service.closed /\ service.delegated < limits.delegations
    /\ service' = [service EXCEPT !.delegated = @ + 1]
    /\ Arrives([kind |-> "delegation", id |-> service.delegated + 1])
    /\ UNCHANGED Others

\* An RTP packet arrives: the latest once more, the one before it, the next
\* or the one after that. It needs a reservation in the media budget.
Speak ==
    /\ wire.up /\ ~service.closed /\ service.arrived < limits.packets
    /\ \E packet \in service.packet - 1..service.packet + 2 :
          /\ packet >= RtpModulus - 1
          /\ service' = [service EXCEPT !.packet = IF packet > @ THEN packet ELSE @,
                                        !.arrived = @ + 1]
          /\ wire' = IF Len(wire.audio) + Len(o.pendingMedia) + Len(o.media) >= MediaRoom
                     THEN [wire EXCEPT !.failed = TRUE]
                     ELSE [wire EXCEPT !.audio = Append(@, packet)]
    /\ UNCHANGED Others

\* The remote closes on its own or reports an error.
Refuse ==
    /\ limits.faults /\ wire.up /\ ~service.closed
    /\ service' = [service EXCEPT !.closed = TRUE]
    /\ \/ Arrives([kind |-> "closed", reason |-> "expired"])
       \/ Arrives([kind |-> "error"])
    /\ UNCHANGED Others

\* A disconnection ends within its grace or is a loss.
Disconnects ==
    /\ limits.faults /\ wire.up /\ wire.connection = "connected" /\ service.breaks = 0
    /\ service' = [service EXCEPT !.breaks = 1]
    /\ wire' = [wire EXCEPT !.connection = "disconnected"]
    /\ UNCHANGED Others
Grace ==
    /\ wire.up /\ wire.connection = "disconnected"
    /\ \E state \in {"connected", "lost"} : wire' = [wire EXCEPT !.connection = state]
    /\ UNCHANGED <<limits, kernel, commands, driver, s, o, service, seen>>

-----------------------------------------------------------------------------
\* The kernel: the commands the engine prepares for the controls it accepts,
\* the host's audio, and what is received.  Seal is dispatched after the input
\* accepted before it.  A seal stops audio, toggles and the user's messages,
\* not a message from outside and not another seal.

Live == kernel.end = None /\ driver.on
Submit(command) ==
    /\ Live /\ kernel.ready /\ ~kernel.closing /\ ~kernel.closed
    /\ Len(commands) < CommandRoom
    /\ commands' = Append(commands, [id |-> kernel.submitted + 1] @@ command)
    /\ UNCHANGED <<limits, driver, s, o, wire, service, seen>>

InputClosed == kernel.sealed # 0
\* `stray` is the first input or seal that follows a seal, 0 while there is
\* none: history, which no step reads.
Submitted(inOrder) ==
    [kernel EXCEPT !.submitted = @ + 1,
                   !.stray = IF inOrder \/ @ # 0 THEN @ ELSE kernel.submitted + 1]

SubmitText ==
    /\ kernel.texts < limits.texts
    /\ InputClosed => limits.late
    /\ Submit([kind |-> "Append"])
    /\ kernel' = [Submitted(~InputClosed) EXCEPT !.texts = @ + 1]
SubmitToggle ==
    /\ ~InputClosed /\ kernel.toggles < limits.toggles
    /\ Submit([kind |-> "Toggle"])
    /\ kernel' = [Submitted(TRUE) EXCEPT !.toggles = @ + 1]
SubmitResult ==
    \E d \in kernel.open :
        /\ Submit([kind |-> "Result", delegation |-> d])
        /\ kernel' = [Submitted(TRUE) EXCEPT !.open = @ \ {d}]
\* `sealed` is the first Seal: the one that closes the host's audio port.
SubmitSeal ==
    /\ kernel.seals < limits.seals
    /\ Submit([kind |-> "Seal"])
    /\ kernel' = [Submitted(~InputClosed) EXCEPT
                     !.seals = @ + 1,
                     !.sealed = IF InputClosed THEN @ ELSE kernel.submitted + 1]
SubmitClose ==
    /\ InputClosed /\ kernel.open = {} /\ kernel.acked = 1..kernel.submitted
    /\ Submit([kind |-> "Close"])
    /\ kernel' = [Submitted(TRUE) EXCEPT !.closing = TRUE]

\* AudioInput: a chunk needs room in the budget; a closed port refuses.
SendInput ==
    /\ Live /\ kernel.ready /\ ~InputClosed /\ driver.inputOpen
    /\ kernel.input < limits.input /\ Len(driver.input) < MediaRoom
    /\ kernel' = [kernel EXCEPT !.input = @ + 1]
    /\ driver' = [driver EXCEPT !.input = Append(@, [kind |-> "audio", id |-> kernel.input + 1])]
    /\ UNCHANGED <<limits, commands, s, o, wire, service, seen>>

ReceiveEvent ==
    /\ kernel.end = None /\ NextEvent(o) # None
    /\ LET event == NextEvent(o).body
       IN  kernel' = CASE event.kind = "Ready" -> [kernel EXCEPT !.ready = TRUE]
                       [] event.kind = "Ack" -> [kernel EXCEPT !.acked = @ \cup {event.id}]
                       [] event.kind = "Delegation" -> [kernel EXCEPT !.open = @ \cup {event.id}]
                       [] event.kind = "Closed" -> [kernel EXCEPT !.closed = TRUE]
                       [] event.kind = "End" -> [kernel EXCEPT !.end = event.result]
                       [] OTHER -> kernel
    /\ o' = Taken(o)
    /\ seen' = [seen EXCEPT !.events = @ + 1]
    /\ UNCHANGED <<limits, commands, driver, s, wire, service>>

ReceiveAudio ==
    /\ o.media # <<>>
    /\ o' = [o EXCEPT !.media = Tail(@)]
    /\ seen' = [seen EXCEPT !.audio = Append(@, Head(o.media))]
    /\ UNCHANGED <<limits, kernel, commands, driver, s, wire, service>>

\* After a closure the engine completes or suspends: it drops the session,
\* which ends the driver.
Drop ==
    /\ kernel.closed /\ driver.on
    /\ End(o, "cancelled")
    /\ UNCHANGED <<limits, kernel, service, seen>>

Stopped == ~driver.on /\ kernel.end # None /\ o.media = <<>> /\ UNCHANGED <<limits, vars>>

Loop == Resume \/ Advance \/ Finalize \/ DriverDone
Select == ReceiveCommand \/ ReceiveInput \/ ReceiveFrame \/ ReceivePacket \/ Written \/ FlushOne
Remote == Answer \/ Delegate \/ Speak \/ Refuse \/ Disconnects \/ Grace
Kernel == SubmitText \/ SubmitToggle \/ SubmitResult \/ SubmitSeal \/ SubmitClose \/ SendInput
Next == Loop \/ Select \/ Expire \/ Remote \/ Kernel \/ ReceiveEvent \/ ReceiveAudio \/ Drop
        \/ Stopped

Spec == Init /\ [][Next]_<<limits, vars>>

-----------------------------------------------------------------------------
\* Properties

\* A text or a result is acknowledged once every fragment of it was written,
\* Seal once all audio accepted before it was, in order ("The acknowledgement
\* follows transport acceptance of every fragment", "drains accepted audio").
FragmentsOf(id) == Len(SelectSeq(service.received,
                              LAMBDA t : t.kind \in {"append", "result"} /\ t.id = id))
AckedIsWritten ==
    /\ \A id \in kernel.acked : FragmentsOf(id) \in {0, 2}
    /\ kernel.sealed \in kernel.acked =>
          SelectSeq(service.received, LAMBDA t : t.kind = "audio")
              = [i \in 1..kernel.input |-> [kind |-> "audio", id |-> i]]

\* A session that ends well has handed over what the peer received, closed
\* by exactly one marker.
CloseLosesNothing ==
    kernel.end = "ok" =>
        /\ wire.audio = <<>>
        /\ LET heard == seen.audio \o o.media
           IN  heard # <<>> => \A i \in DOMAIN heard : heard[i].end <=> i = Len(heard)

\* Packets are heard once and in the order of their source, numbered without
\* gaps, whatever the network repeats, delays or loses.
StreamsWellFormed ==
    \A i \in DOMAIN seen.audio :
        /\ seen.audio[i].sequence = i - 1
        /\ i > 1 /\ ~seen.audio[i].end => seen.audio[i].packet > seen.audio[i - 1].packet

\* While the remote session is open, whatever order commands and remote
\* events come in, the protocol ends the session only over an input or a seal
\* that follows a seal, and then every command before that one has been
\* acknowledged.
AcksIn(events) == {e.body.id : e \in {f \in ToSet(events) : f.body.kind = "Ack"}}
OrderedControlsServed ==
    o.terminal # None /\ o.terminal.result \in {"protocol", "invalid"} /\ ~service.closed =>
        /\ kernel.stray # 0
        /\ kernel.acked \cup AcksIn(o.events) \cup AcksIn(o.terminal.events)
             = 1..kernel.stray - 1

\* While the remote session is open, whatever control the kernel accepts, the
\* protocol does not end the session over it.
ControlsAreServed ==
    o.terminal = None \/ o.terminal.result \notin {"protocol", "invalid"} \/ service.closed
=============================================================================
