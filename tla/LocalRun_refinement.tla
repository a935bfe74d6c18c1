-------------------------- MODULE LocalRun_refinement --------------------------
(***************************************************************************)
(* LocalRun keeps the promises of Run: each of its steps is a step of Run  *)
(* or changes nothing the host can see.  And no generation reaches the     *)
(* model service twice, through any number of crashes, suspensions and     *)
(* resumptions: it leaves the outbox once and moves on from place to       *)
(* place (the batch the engine submits, the command queue, the session's   *)
(* call that has not started, the calls made) and is never in two of them. *)
(***************************************************************************)
EXTENDS LocalRun_proofs

-----------------------------------------------------------------------------
\* Why each promise is kept

\* Is a response to accepted input outstanding?
Due(c) == ~(c.status = "Completed" /\ ~c.needs /\ c.covered = c.input)

\* Only a running run has an engine.
UpIsRunning == eng.pc # "down" => cp.state = "Running"

\* The generation a resumption gives up is unanswered.
AbandonIsDue ==
    eng.pc \in {"catalog", "recover"} /\ eng.request \in Resumptions /\ eng.request.abandon
      => cp.status = None

\* What is staged decides no close, and leaves nothing due that was not.
StagedAgrees ==
    eng.pc = "batch" =>
      LET c == eng.staged.cp
      IN  /\ c.closing = cp.closing
          /\ Due(c) => Due(cp)
          /\ c.state = "Running" \/ (c.state = "Failed" /\ Due(c))

\* An event that is sent or waits to be sent.
InFlight(s, e) ==
  (s.sending # None /\ s.sending = e) \/ \E i \in DOMAIN s.controls : s.controls[i] = e
ClosesNot(s) == \A e \in Events : InFlight(s, e) => e.kind # "Closed"
HasNoClose(outbox) == \A i \in DOMAIN outbox : outbox[i].intent # "Close"
OpenEnded(c) == ~c.closure /\ HasNoClose(c.commands)

\* Before the close is decided, nothing on its way between the engine and the
\* session can close the run.
CloseDecided ==
    ~cp.closing =>
      /\ OpenEnded(cp)
      /\ HasNoClose(commands)
      /\ \A i \in DOMAIN work : work[i].type = "Event" => work[i].body.kind # "Closed"
      /\ session.phase = "up" => ClosesNot(session)
      /\ eng.pc # "down" => HasNoClose(eng.batch)
      /\ eng.pc = "opening" => ClosesNot(eng.open)
      /\ eng.pc = "batch" => OpenEnded(eng.staged.cp)

Promised == UpIsRunning /\ AbandonIsDue /\ StagedAgrees /\ CloseDecided

-----------------------------------------------------------------------------
\* What the changes of a checkpoint keep

\* All that Run sees of a checkpoint.
SameRun(c, d) ==
    /\ d.state = c.state /\ d.status = c.status /\ d.needs = c.needs /\ d.covered = c.covered
    /\ d.input = c.input /\ d.closing = c.closing

\* What Run sees of a checkpoint decides whether a response is due.
LEMMA SameIsDue ==
  ASSUME NEW c, NEW d, SameRun(c, d)
  PROVE  Due(d) <=> Due(c)
BY DEF SameRun, Due

\* A new command is the last one.
LEMMA AppendedOutbox ==
  ASSUME NEW outbox \in Outboxes, NEW command \in PendingCommands, command.intent # "Close",
         HasNoClose(outbox)
  PROVE  HasNoClose(Append(outbox, command))
BY DEF HasNoClose, Outboxes

\* prepare_command: Run sees nothing of a command that is added.
LEMMA PreparedKeeps ==
  ASSUME NEW c, Sound(c), NEW command \in PendingCommands
  PROVE  /\ SameRun(c, Prepared(c, command))
         /\ command.intent # "Close" /\ OpenEnded(c) => OpenEnded(Prepared(c, command))
<1>1. c \in Checkpoints /\ c.commands \in Outboxes
  BY DEF Sound, Checkpoints
<1>2. SameRun(c, Prepared(c, command))
      /\ Prepared(c, command).commands = Append(c.commands, command)
      /\ Prepared(c, command).closure = c.closure
  BY <1>1 DEF Prepared, Checkpoints, SameRun
<1> QED BY <1>1, <1>2, AppendedOutbox DEF OpenEnded, SameRun

\* insert: a message needs an answer and closes nothing.
LEMMA InsertedKeeps ==
  ASSUME NEW c, Sound(c), NEW kind \in {"User", "External"}
  PROVE  LET d == Inserted(c, kind)
         IN  /\ d.state = c.state /\ d.status = c.status /\ d.closing = c.closing /\ d.needs
             /\ OpenEnded(c) => OpenEnded(d)
<1> DEFINE command == AppendCommand(c.revision + 1, Len(c.history) + 1, c.input + 1, "Submitted")
           d == Inserted(c, kind)
<1>1. /\ c \in Checkpoints /\ c.input \in Nat /\ c.revision \in Nat /\ Len(c.history) \in Nat
      /\ c.commands \in Outboxes
  BY OutboxType DEF Sound, Checkpoints
<1>2. command \in PendingCommands /\ command.intent = "Append"
  BY <1>1 DEF AppendCommand, PendingCommands, AppendCommands
<1>3. /\ d.state = c.state /\ d.status = c.status /\ d.closing = c.closing /\ d.needs
      /\ d.closure = c.closure /\ d.commands = Append(c.commands, command)
  BY <1>1 DEF Inserted, WithAppend, Checkpoints
<1> HIDE DEF d, command
<1>4. OpenEnded(c) => OpenEnded(d)
  BY <1>1, <1>2, <1>3, AppendedOutbox DEF OpenEnded
<1> QED BY <1>3, <1>4 DEF d

\* stage_entries: Run sees nothing of a history entry.
LEMMA WithEntryKeeps ==
  ASSUME NEW c, Sound(c), NEW entry \in Entries
  PROVE  /\ SameRun(c, WithEntry(c, entry))
         /\ OpenEnded(c) => OpenEnded(WithEntry(c, entry))
<1> DEFINE command == AppendCommand(c.revision + 1, Len(c.history) + 1, c.input, "Accepted")
           d == WithEntry(c, entry)
<1>1. /\ c \in Checkpoints /\ c.input \in Nat /\ c.revision \in Nat /\ Len(c.history) \in Nat
      /\ c.commands \in Outboxes
  BY OutboxType DEF Sound, Checkpoints
<1>2. command \in PendingCommands /\ command.intent = "Append"
  BY <1>1 DEF AppendCommand, PendingCommands, AppendCommands
<1>3. SameRun(c, d) /\ d.commands = Append(c.commands, command) /\ d.closure = c.closure
  BY <1>1 DEF WithEntry, WithAppend, Checkpoints, SameRun
<1> HIDE DEF d, command
<1>4. OpenEnded(c) => OpenEnded(d)
  BY <1>1, <1>2, <1>3, AppendedOutbox DEF OpenEnded, SameRun
<1> QED BY <1>3, <1>4 DEF d

\* request_generation: the next generation, open, with its command at the end of
\* the outbox.
LEMMA GeneratedKeeps ==
  ASSUME NEW c, Sound(c)
  PROVE  LET d == Generated(c)
         IN  /\ d.state = c.state /\ d.closing = c.closing /\ d.status = None /\ d.gen = c.gen + 1
             /\ d.commands = Append(c.commands, GenerateCommand(d))
             /\ GenerateCommand(d) \in GenerateCommands /\ GenerateCommand(d).n = c.gen + 1
             /\ OpenEnded(c) => OpenEnded(d)
<1> DEFINE n == c.gen + 1
           last == Len(c.history)
           m == c.input
           b == [c EXCEPT !.gen = n, !.started = FALSE, !.status = None, !.needs = FALSE,
                          !.covered = m, !.start = last]
           d == Prepared(b, GenerateCommand(b))
<1>1. c \in Checkpoints /\ n \in Nat /\ last \in Nat /\ m \in Nat /\ None \in Responses
      /\ FALSE \in BOOLEAN /\ c.commands \in Outboxes
  BY OutboxType DEF Sound, Checkpoints, Responses
<1>2. Generated(c) = d
  BY DEF Generated
<1>3. /\ b \in Checkpoints /\ b.commands = c.commands /\ b.closure = c.closure
      /\ b.state = c.state /\ b.closing = c.closing /\ b.status = None /\ b.gen = n
  <2> HIDE DEF n, last
  <2> QED BY <1>1 DEF Checkpoints
<1> HIDE DEF b
<1>4. GenerateCommand(b) \in GenerateCommands /\ GenerateCommand(b).n = n
      /\ GenerateCommand(b).intent = "Generate"
  BY <1>3 DEF Checkpoints, GenerateCommand, GenerateCommands
<1>5. /\ d.state = b.state /\ d.closing = b.closing /\ d.status = b.status /\ d.gen = b.gen
      /\ d.revision = b.revision /\ d.input = b.input /\ d.profile = b.profile
      /\ d.closure = b.closure /\ d.commands = Append(c.commands, GenerateCommand(b))
  BY <1>3 DEF Prepared, Checkpoints
<1> HIDE DEF d
<1>6. GenerateCommand(d) = GenerateCommand(b)
  BY <1>5 DEF GenerateCommand
<1>7. OpenEnded(c) => OpenEnded(d)
  <2>1. GenerateCommand(b) \in PendingCommands
    BY <1>4 DEF PendingCommands
  <2> QED BY <1>1, <1>3, <1>4, <1>5, <2>1, AppendedOutbox DEF OpenEnded
<1> QED BY <1>2, <1>3, <1>4, <1>5, <1>6, <1>7 DEF n

\* A command that leaves the outbox leaves the others.
LEMMA DroppedOutbox ==
  ASSUME NEW outbox \in Outboxes, NEW id
  PROVE  /\ Dropped(outbox, id) \in Outboxes
         /\ \A i \in DOMAIN Dropped(outbox, id) :
               \E j \in DOMAIN outbox : Dropped(outbox, id)[i] = outbox[j]
<1> DEFINE k == FirstOf(Places(outbox, id))
<1>1. CASE Places(outbox, id) = {}
  BY <1>1 DEF Dropped
<1>2. CASE Places(outbox, id) # {}
  <2>1. outbox \in Seq(PendingCommands) /\ Len(outbox) \in Nat /\ DOMAIN outbox = 1..Len(outbox)
    BY DEF Outboxes
  <2>2. k \in 1..Len(outbox)
    <3>1. Places(outbox, id) \in SUBSET Nat /\ Places(outbox, id) \subseteq 1..Len(outbox)
      BY <2>1 DEF Places
    <3> QED BY <1>2, <3>1, FirstIsLeast
  <2>3. Dropped(outbox, id) = RemoveAt(outbox, k)
    BY <1>2 DEF Dropped
  <2> HIDE DEF k
  <2>4. /\ RemoveAt(outbox, k) \in Seq(PendingCommands)
        /\ Len(RemoveAt(outbox, k)) = Len(outbox) - 1
        /\ \A i \in 1..(Len(outbox) - 1) :
             RemoveAt(outbox, k)[i] = IF i < k THEN outbox[i] ELSE outbox[i + 1]
    BY <2>1, <2>2, Removal
  <2>5. ASSUME NEW i \in 1..(Len(outbox) - 1)
        PROVE  \E j \in DOMAIN outbox : RemoveAt(outbox, k)[i] = outbox[j]
    <3>1. i \in DOMAIN outbox /\ i + 1 \in DOMAIN outbox
      BY <2>1
    <3> QED BY <2>4, <3>1
  <2>6. DOMAIN RemoveAt(outbox, k) = 1..(Len(outbox) - 1)
    BY <2>1, <2>4
  <2> QED BY <2>3, <2>4, <2>5, <2>6 DEF Outboxes
<1> QED BY <1>1, <1>2

\* apply_event: only a completed response changes what is due, and only
\* Closed closes.
LEMMA HandledKeeps ==
  ASSUME NEW c, Sound(c), NEW e \in Events
  PROVE  LET d == Handled(c, e)
         IN  /\ d.closing = c.closing /\ d.gen = c.gen /\ d.input = c.input
             /\ d.history = c.history
             /\ e.kind # "Finished" => SameRun(c, d)
             /\ e.kind # "Closed" => d.closure = c.closure
             /\ e.kind = "Finished" => d.state = c.state \/ (d.state = "Failed" /\ Due(d))
             /\ OpenEnded(c) /\ e.kind # "Closed" => OpenEnded(d)
             /\ e.kind # "Acknowledged" => d.commands = c.commands
             /\ e.kind = "Acknowledged" => d.commands = Dropped(c.commands, e.id)
<1> DEFINE d == Handled(c, e)
           Goal == /\ d.closing = c.closing /\ d.gen = c.gen /\ d.input = c.input
                   /\ d.history = c.history
                   /\ e.kind # "Finished" => SameRun(c, d)
                   /\ e.kind # "Closed" => d.closure = c.closure
                   /\ e.kind = "Finished" => d.state = c.state \/ (d.state = "Failed" /\ Due(d))
                   /\ OpenEnded(c) /\ e.kind # "Closed" => OpenEnded(d)
                   /\ e.kind # "Acknowledged" => d.commands = c.commands
                   /\ e.kind = "Acknowledged" => d.commands = Dropped(c.commands, e.id)
<1> SUFFICES Goal
  OBVIOUS
<1>0. c \in Checkpoints /\ e.kind \in EventKinds /\ c.commands \in Outboxes
  BY EventTypes DEF Sound, Checkpoints
<1>1. CASE e.kind = "Ready"
  <2>1. d = [c EXCEPT !.ready = TRUE]
    BY <1>1 DEF Handled
  <2> QED BY <1>0, <1>1, <2>1 DEF Checkpoints, SameRun, OpenEnded
<1>2. CASE e.kind = "Started"
  <2>1. d = [c EXCEPT !.started = TRUE]
    BY <1>2 DEF Handled
  <2> QED BY <1>0, <1>2, <2>1 DEF Checkpoints, SameRun, OpenEnded
<1>3. CASE e.kind = "Acknowledged"
  <2> DEFINE o == Dropped(c.commands, e.id)
             n == e.id[2]
             b == [c EXCEPT !.commands = o]
  <2>1. d = IF e.id[1] \in {"Append", "Replace"} THEN [b EXCEPT !.ack = n]
            ELSE IF e.id[1] = "Profile" THEN [b EXCEPT !.profile = n] ELSE b
    BY <1>3 DEF Handled, Retired
  <2>2. o \in Outboxes /\ (HasNoClose(c.commands) => HasNoClose(o))
    BY <1>0, DroppedOutbox DEF HasNoClose
  <2>3. b \in Checkpoints /\ b.commands = o /\ SameRun(c, b) /\ b.gen = c.gen
        /\ b.history = c.history
        /\ b.closure = c.closure
    <3> HIDE DEF o
    <3> QED BY <1>0, <2>2 DEF Checkpoints, SameRun
  <2> HIDE DEF o, b, n
  <2>4. d.commands = o /\ SameRun(b, d) /\ d.gen = b.gen /\ d.history = b.history
        /\ d.closure = b.closure
    <3>1. CASE e.id[1] \in {"Append", "Replace"}
      BY <2>1, <2>3, <3>1 DEF Checkpoints, SameRun
    <3>2. CASE e.id[1] = "Profile"
      BY <2>1, <2>3, <3>2 DEF Checkpoints, SameRun
    <3>3. CASE e.id[1] \notin {"Append", "Replace", "Profile"}
      BY <2>1, <2>3, <3>3 DEF Checkpoints, SameRun
    <3> QED BY <3>1, <3>2, <3>3
  <2> HIDE DEF d
  <2>5. d.closing = c.closing /\ d.input = c.input /\ SameRun(c, d)
    BY <2>3, <2>4 DEF SameRun
  <2>6. OpenEnded(c) => OpenEnded(d)
    BY <2>2, <2>3, <2>4 DEF OpenEnded
  <2> QED BY <1>3, <2>3, <2>4, <2>5, <2>6 DEF o
<1>4. CASE e.kind = "Output"
  BY <1>0, <1>4 DEF Handled, Checkpoints, SameRun, OpenEnded
<1>5. CASE e.kind = "Finished"
  <2>1. d = Answered(c, e)
    BY <1>5 DEF Handled
  <2>2. /\ d.closing = c.closing /\ d.gen = c.gen /\ d.input = c.input /\ d.history = c.history
        /\ d.closure = c.closure /\ d.commands = c.commands /\ d.status = e.status
        /\ d.state = IF e.status = "Failed" THEN "Failed" ELSE c.state
    BY <1>0, <2>1 DEF Answered, Checkpoints
  <2> HIDE DEF d
  <2>3. d.state = c.state \/ (d.state = "Failed" /\ Due(d))
    BY <2>2 DEF Due
  <2>4. OpenEnded(c) => OpenEnded(d)
    BY <2>2 DEF OpenEnded
  <2> QED BY <1>5, <2>2, <2>3, <2>4
<1>6. CASE e.kind = "Closed"
  <2>1. d = [c EXCEPT !.closure = TRUE, !.inputClosed = TRUE]
    BY <1>6 DEF Handled
  <2> QED BY <1>0, <1>6, <2>1 DEF Checkpoints, SameRun
<1> HIDE DEF Goal
<1> QED BY <1>0, <1>1, <1>2, <1>3, <1>4, <1>5, <1>6 DEF EventKinds

\* Run sees nothing of the entry an event adds to the history.
LEMMA RecordedKeeps ==
  ASSUME NEW c, Sound(c), NEW e \in Events
  PROVE  SameRun(c, Recorded(c, e)) /\ (OpenEnded(c) => OpenEnded(Recorded(c, e)))
<1>1. CASE e.kind = "Output"
  <2>1. Entry("Output", e.gen, e.item) \in Entries
    BY <1>1, EventTypes DEF Entry, Entries
  <2> QED BY <1>1, <2>1, WithEntryKeeps DEF Recorded
<1>2. CASE e.kind = "Finished"
  <2>1. Entry("Finished", e.gen, 0) \in Entries
    BY <1>2, EventTypes DEF Entry, Entries
  <2> QED BY <1>2, <2>1, WithEntryKeeps DEF Recorded
<1>3. CASE e.kind \notin {"Output", "Finished"}
  BY <1>3 DEF Recorded, SameRun
<1> QED BY <1>1, <1>2, <1>3

-----------------------------------------------------------------------------
\* The steps of Run, seen from the checkpoint

RunStep == [Promise!Next]_(Promise!vars)
SameDue == Due(cp') <=> Due(cp)
SameClosing == cp'.closing = cp.closing

\* Which changes of state, what is due and the close are steps of Run.
LEMMA RunSteps ==
  /\ cp'.state = cp.state /\ SameDue /\ SameClosing => RunStep
  /\ cp.state = "Running" /\ cp'.state \in {"Suspended", "Failed", "Limited", "Cancelled"}
       /\ SameDue /\ SameClosing => RunStep
  /\ cp.state = "Running" /\ cp'.state = "Completed" /\ cp.closing /\ ~Due(cp)
       /\ SameDue /\ SameClosing => RunStep
  /\ cp.state = "Suspended" /\ cp'.state = "Running" /\ SameDue /\ SameClosing => RunStep
  /\ cp.state = "Running" /\ cp'.state = "Running" /\ ~cp.closing /\ Due(cp') /\ SameClosing
     => RunStep
  /\ cp.state = "Running" /\ cp'.state = "Running" /\ ~Due(cp') /\ SameClosing => RunStep
  /\ cp.state = "Running" /\ cp'.state = "Running" /\ ~Due(cp) /\ SameDue /\ cp'.closing = TRUE
       => RunStep
<1>1. cp'.state = cp.state /\ SameDue /\ SameClosing => RunStep
  BY DEF SameDue, SameClosing, Due, RunStep, Promise!vars
<1>2. cp.state = "Running" /\ cp'.state = "Suspended" /\ SameDue /\ SameClosing => RunStep
  BY DEF SameDue, SameClosing, Due, RunStep, Promise!vars, Promise!Next, Promise!Suspend
<1>3. cp.state = "Running" /\ cp'.state \in {"Failed", "Limited", "Cancelled"} /\ SameDue
      /\ SameClosing
        => RunStep
  BY DEF SameDue, SameClosing, Due, RunStep, Promise!vars, Promise!Next, Promise!Stop
<1>4. cp.state = "Running" /\ cp'.state = "Completed" /\ cp.closing /\ ~Due(cp)
        /\ SameDue /\ SameClosing => RunStep
  BY DEF SameDue, SameClosing, Due, RunStep, Promise!vars, Promise!Next, Promise!Complete
<1>5. cp.state = "Suspended" /\ cp'.state = "Running" /\ SameDue /\ SameClosing => RunStep
  BY DEF SameDue, SameClosing, Due, RunStep, Promise!vars, Promise!Next, Promise!Attach
<1>6. cp.state = "Running" /\ cp'.state = "Running" /\ ~cp.closing /\ Due(cp') /\ SameClosing
      => RunStep
  BY DEF SameClosing, Due, RunStep, Promise!vars, Promise!Next, Promise!Accept
<1>7. cp.state = "Running" /\ cp'.state = "Running" /\ ~Due(cp') /\ SameClosing => RunStep
  BY DEF SameClosing, Due, RunStep, Promise!vars, Promise!Next, Promise!Answer
<1>8. cp.state = "Running" /\ cp'.state = "Running" /\ ~Due(cp) /\ SameDue /\ cp'.closing = TRUE
        => RunStep
  BY DEF SameDue, Due, RunStep, Promise!vars, Promise!Next, Promise!Close
<1> QED BY <1>1, <1>2, <1>3, <1>4, <1>5, <1>6, <1>7, <1>8

-----------------------------------------------------------------------------
\* Each step keeps the promises

\* The execution ends with a commit that decides no close.
LEMMA LeaveKeeps ==
  ASSUME NEW c, Leave(c), ~c.closing => OpenEnded(c)
  PROVE  Promised'
<1>1. /\ cp' = c /\ eng' = Down /\ session' = Absent /\ commands' = <<>> /\ work' = <<>>
  BY DEF Leave, TearDown
<1>2. eng'.pc = "down" /\ session'.phase = "absent" /\ DOMAIN commands' = {} /\ DOMAIN work' = {}
  BY <1>1 DEF Down, Absent
<1> QED BY <1>1, <1>2
          DEF Promised, UpIsRunning, AbandonIsDue, StagedAgrees, CloseDecided, HasNoClose

\* The run stops or is suspended with nothing else changed.
LEMMA StoppedKeeps ==
  ASSUME Shape, Promised, eng.pc # "down"
  PROVE  /\ Suspend => Promised' /\ RunStep
         /\ \A reason \in Failures : Fail(reason) => Promised' /\ RunStep
         /\ \A state \in {"Limited", "Cancelled"} :
               Leave([cp EXCEPT !.state = state]) => Promised' /\ RunStep
<1>0. cp \in Checkpoints /\ cp.state = "Running" /\ (~cp.closing => OpenEnded(cp))
  BY DEF Shape, Sound, Promised, UpIsRunning, CloseDecided
<1>1. ASSUME NEW state \in {"Suspended", "Failed", "Limited", "Cancelled"}, NEW c \in Checkpoints,
             Leave(c), c.state = state, c.status = cp.status, c.needs = cp.needs,
             c.covered = cp.covered, c.input = cp.input, c.closing = cp.closing,
             c.closure = cp.closure, c.commands = cp.commands
      PROVE  Promised' /\ RunStep
  <2>1. Promised'
    BY <1>0, <1>1, LeaveKeeps DEF OpenEnded
  <2>2. cp' = c
    BY <1>1 DEF Leave
  <2>3. cp'.state \in {"Suspended", "Failed", "Limited", "Cancelled"} /\ SameDue /\ SameClosing
    BY <1>1, <2>2 DEF SameDue, SameClosing, Due
  <2> QED BY <1>0, <2>1, <2>3, RunSteps
<1>2. ASSUME NEW state \in {"Suspended", "Limited", "Cancelled"}, Leave([cp EXCEPT !.state = state])
      PROVE  Promised' /\ RunStep
  <2> DEFINE c == [cp EXCEPT !.state = state]
  <2>1. /\ c \in Checkpoints /\ c.state = state /\ c.status = cp.status /\ c.needs = cp.needs
        /\ c.covered = cp.covered /\ c.input = cp.input /\ c.closing = cp.closing
        /\ c.closure = cp.closure /\ c.commands = cp.commands
    BY <1>0 DEF Checkpoints, RunStates
  <2> HIDE DEF c
  <2> QED BY <1>1, <1>2, <2>1 DEF c
<1>3. ASSUME NEW reason \in Failures, Fail(reason)
      PROVE  Promised' /\ RunStep
  <2> DEFINE c == [cp EXCEPT !.state = "Failed", !.failure = reason]
  <2>1. /\ c \in Checkpoints /\ c.state = "Failed" /\ c.status = cp.status /\ c.needs = cp.needs
        /\ c.covered = cp.covered /\ c.input = cp.input /\ c.closing = cp.closing
        /\ c.closure = cp.closure /\ c.commands = cp.commands
    BY <1>0 DEF Checkpoints, RunStates
  <2>2. Leave(c)
    BY <1>3 DEF Fail
  <2> HIDE DEF c
  <2> QED BY <1>1, <2>1, <2>2
<1> QED BY <1>2, <1>3 DEF Suspend

\* The checkpoint and the engine change, the session and its queues do not.
LEMMA SteppedKeeps ==
  ASSUME Promised, UNCHANGED exchangeVars, cp'.state = "Running", AbandonIsDue', eng'.pc # "batch",
         ~cp'.closing => /\ ~cp.closing /\ OpenEnded(cp') /\ HasNoClose(eng'.batch)
                         /\ eng'.pc = "opening" => ClosesNot(eng'.open)
  PROVE  Promised'
BY DEF Promised, UpIsRunning, StagedAgrees, CloseDecided, exchangeVars

\* A control is served: the engine stays where it was or goes to the top.
LEMMA ServedKeeps ==
  ASSUME Shape, Promised, Serving, eng' = Served, UNCHANGED exchangeVars, cp'.state = cp.state,
         cp'.status = cp.status, cp'.closing = cp.closing, OpenEnded(cp) => OpenEnded(cp')
  PROVE  Promised'
<1>1. eng \in UpEngines /\ eng.pc \in {"catalog", "opening", "idle"}
  BY ServedShape DEF Serving
<1>2. /\ eng'.pc = IF eng.pc = "idle" THEN "dispatch" ELSE eng.pc
      /\ eng'.request = eng.request /\ eng'.batch = eng.batch /\ eng'.open = eng.open
  BY <1>1 DEF Served, UpEngines
<1>3. cp'.state = "Running" /\ AbandonIsDue' /\ eng'.pc # "batch"
  BY <1>1, <1>2 DEF Promised, UpIsRunning, AbandonIsDue
<1>4. ~cp'.closing => /\ ~cp.closing /\ OpenEnded(cp') /\ HasNoClose(eng'.batch)
                      /\ eng'.pc = "opening" => ClosesNot(eng'.open)
  BY <1>1, <1>2 DEF Promised, CloseDecided
<1> QED BY <1>3, <1>4, SteppedKeeps

\* Controls, an attach and a crash: a message is accepted, the rest is a
\* suspension, a stop, an attach or nothing that Run sees.
LEMMA HostKeeps ==
  ASSUME Shape, Promised, Host \/ Crash
  PROVE  Promised' /\ RunStep
<1>0. Sound(cp) /\ cp \in Checkpoints
  BY DEF Shape, Sound
<1>1. ASSUME NEW kind \in InputKinds, ControlInput(kind) PROVE Promised' /\ RunStep
  <2>1. kind \in {"User", "External"} /\ cp' = Inserted(cp, kind) /\ Serving /\ eng' = Served
        /\ UNCHANGED exchangeVars /\ ~cp.closing
    BY <1>1, EngineConstants DEF ControlInput, Insertable
  <2>2. /\ cp'.state = cp.state /\ cp'.status = cp.status /\ cp'.closing = cp.closing /\ cp'.needs
        /\ OpenEnded(cp) => OpenEnded(cp')
    BY <1>0, <2>1, InsertedKeeps
  <2>3. Promised'
    BY <2>1, <2>2, ServedKeeps
  <2>4. cp.state = "Running"
    BY <2>1, ServedShape, EngineTypes DEF Promised, UpIsRunning
  <2>5. Due(cp') /\ SameClosing
    BY <2>2 DEF Due, SameClosing
  <2> QED BY <2>1, <2>2, <2>3, <2>4, <2>5, RunSteps
<1>2. ASSUME ControlPause PROVE Promised' /\ RunStep
  BY <1>2, StoppedKeeps DEF ControlPause, Serving
<1>3. ASSUME Interrupt PROVE Promised' /\ RunStep
  BY <1>3, StoppedKeeps DEF Interrupt, Serving
<1>4. ASSUME NEW command \in PendingCommands, command.intent # "Close", Serving, eng' = Served,
             UNCHANGED exchangeVars, SameRun(Prepared(cp, command), cp'),
             cp'.closure = Prepared(cp, command).closure,
             cp'.commands = Prepared(cp, command).commands
      PROVE  Promised' /\ RunStep
  <2> DEFINE c == Prepared(cp, command)
  <2>1. SameRun(cp, c) /\ (OpenEnded(cp) => OpenEnded(c))
    BY <1>0, <1>4, PreparedKeeps
  <2>2. SameRun(cp, cp')
    BY <1>4, <2>1 DEF SameRun
  <2>3. OpenEnded(cp) => OpenEnded(cp')
    BY <1>4, <2>1 DEF OpenEnded
  <2>4. Promised'
    BY <1>4, <2>2, <2>3, ServedKeeps DEF SameRun
  <2>5. cp'.state = cp.state /\ SameDue /\ SameClosing
    BY <2>2, SameIsDue DEF SameDue, SameClosing, SameRun
  <2> QED BY <2>4, <2>5, RunSteps
<1>5. ASSUME ControlSeal PROVE Promised' /\ RunStep
  <2> DEFINE command == Plain("Seal", cp.seals + 1)
             c == Prepared(cp, command)
  <2>1. command \in PendingCommands /\ command.intent # "Close" /\ ~IsNumbered(command)
    <3>1. cp.seals + 1 \in Nat
      BY <1>0 DEF Checkpoints
    <3> QED BY <3>1, CommandTypes DEF Plain, IsNumbered
  <2>2. c \in Checkpoints
    BY <1>0, <2>1, PreparedSound DEF Sound
  <2>3. cp' = [c EXCEPT !.inputClosed = TRUE, !.seals = c.seals + 1] /\ Serving /\ eng' = Served
        /\ UNCHANGED exchangeVars
    BY <1>5, <2>2 DEF ControlSeal, Checkpoints
  <2> HIDE DEF c, command
  <2>4. SameRun(c, cp') /\ cp'.closure = c.closure /\ cp'.commands = c.commands
    BY <2>2, <2>3 DEF SameRun, Checkpoints
  <2> QED BY <1>4, <2>1, <2>3, <2>4 DEF c
<1>6. ASSUME ControlProfile PROVE Promised' /\ RunStep
  <2> DEFINE n == cp.profile + Cardinality(Pending("Profile")) + 1
             command == Plain("Profile", n)
  <2>1. cp' = Prepared(cp, command) /\ Serving /\ eng' = Served /\ UNCHANGED exchangeVars
    BY <1>6 DEF ControlProfile
  <2>2. n \in Nat
    <3>1. cp.profile \in Nat
      BY <1>0 DEF Checkpoints
    <3>2. Cardinality(Pending("Profile")) \in Nat
      BY <1>0, PendingCount
    <3> QED BY <3>1, <3>2
  <2> HIDE DEF n
  <2>3. command \in PendingCommands /\ command.intent # "Close"
    BY <2>2, CommandTypes DEF Plain
  <2>4. SameRun(cp', cp')
    BY DEF SameRun
  <2> QED BY <1>4, <2>1, <2>3, <2>4
<1>7. ASSUME NEW abandon \in BOOLEAN, NEW message, Attach(abandon, message),
             abandon => cp.status = None, cp.state \in {"Running", "Suspended"}
      PROVE  Promised' /\ RunStep
  <2> DEFINE request == [abandon |-> abandon, message |-> message]
  <2>1. /\ cp' = [cp EXCEPT !.state = "Running"] /\ eng.pc = "down" /\ UNCHANGED exchangeVars
        /\ eng'.pc = "catalog" /\ eng'.request = request /\ eng'.batch = <<>>
    BY <1>7 DEF Attach, Running
  <2>2. /\ cp'.state = "Running" /\ cp'.closing = cp.closing /\ cp'.status = cp.status
        /\ cp'.closure = cp.closure /\ cp'.commands = cp.commands /\ cp'.needs = cp.needs
        /\ cp'.covered = cp.covered /\ cp'.input = cp.input
    BY <1>0, <2>1 DEF Checkpoints
  <2>3. AbandonIsDue'
    BY <1>7, <2>1, <2>2 DEF AbandonIsDue
  <2>4. DOMAIN eng'.batch = {}
    BY <2>1
  <2>5. Promised'
    BY <2>1, <2>2, <2>3, <2>4, SteppedKeeps DEF Promised, CloseDecided, OpenEnded, HasNoClose
  <2>6. SameDue /\ SameClosing
    BY <2>2 DEF SameDue, SameClosing, Due
  <2> QED BY <1>7, <2>2, <2>5, <2>6, RunSteps
<1>8. ASSUME Continue PROVE Promised' /\ RunStep
  BY <1>7, <1>8 DEF Continue
<1>9. ASSUME Resume PROVE Promised' /\ RunStep
  <2>1. PICK abandon \in {InGeneration(cp), FALSE},
             message \in {None} \cup (IF cp.input < MaxInputs THEN InputKinds ELSE {}) :
          Attach(abandon, message)
    BY <1>9 DEF Resume
  <2>2. abandon \in BOOLEAN /\ (abandon => cp.status = None)
    BY DEF InGeneration
  <2> QED BY <1>7, <1>9, <2>1, <2>2 DEF Resume
<1>10. ASSUME Crash PROVE Promised' /\ RunStep
  <2>1. Leave(cp) /\ cp' = cp
    BY <1>10 DEF Crash, Leave
  <2>2. Promised'
    BY <2>1, LeaveKeeps DEF Promised, CloseDecided
  <2>3. SameDue /\ SameClosing /\ cp'.state = cp.state
    BY <2>1 DEF SameDue, SameClosing
  <2> QED BY <2>2, <2>3, RunSteps
<1> QED BY <1>1, <1>2, <1>3, <1>5, <1>6, <1>8, <1>9, <1>10 DEF Host

\* A response that has no status yet, or has new input, is due.
LEMMA OpenIsDue ==
  \A c : c.status = None \/ c.needs => Due(c)
BY NoneIsNoValue DEF Due

\* The engine alone moves on.
LEMMA MovedKeeps ==
  ASSUME Shape, Promised, eng.pc # "down", UNCHANGED <<cp, exchangeVars>>, AbandonIsDue',
         eng'.pc # "batch",
         ~cp.closing => HasNoClose(eng'.batch) /\ (eng'.pc = "opening" => ClosesNot(eng'.open))
  PROVE  Promised' /\ RunStep
<1>1. cp'.state = "Running" /\ cp' = cp /\ (~cp.closing => OpenEnded(cp))
  BY DEF Promised, UpIsRunning, CloseDecided
<1>2. Promised'
  BY <1>1, SteppedKeeps
<1>3. SameDue /\ SameClosing /\ cp'.state = cp.state
  BY <1>1 DEF SameDue, SameClosing
<1> QED BY <1>2, <1>3, RunSteps

\* apply_recovery and open_model: a message of the resumption is accepted, a
\* generation that is given up leaves its response due.
LEMMA AttachKeeps ==
  ASSUME Shape, Promised, AttachStep
  PROVE  Promised' /\ RunStep
<1>0. /\ eng \in UpEngines /\ PlaceShape(eng) /\ eng.pc # "down" /\ Sound(cp) /\ cp \in Checkpoints
      /\ cp.state = "Running"
      /\ ~cp.closing => OpenEnded(cp) /\ HasNoClose(eng.batch)
  <2>1. eng.pc # "down"
    BY DEF AttachStep, CatalogOpened, Resolve, ResumeMessage, DecideRecovery, OpenModel,
           SessionOpened, OpenFails
  <2> QED BY <2>1, EngineTypes DEF Shape, Sound, Promised, UpIsRunning, CloseDecided
<1>1. CASE CatalogOpened
  <2>1. /\ eng'.pc = (IF eng.request = None THEN "open" ELSE "recover")
        /\ eng'.batch = eng.batch /\ eng'.request = eng.request /\ UNCHANGED <<cp, exchangeVars>>
        /\ eng.pc = "catalog"
    BY <1>0, <1>1 DEF CatalogOpened, UpEngines
  <2>2. AbandonIsDue'
    BY <2>1 DEF Promised, AbandonIsDue
  <2> QED BY <1>0, <2>1, <2>2, MovedKeeps
<1>2. CASE Resolve
  <2>1. /\ cp' = Abandoned(cp) /\ UNCHANGED exchangeVars /\ eng.request \in Resumptions
        /\ eng.pc = "recover" /\ eng.request.abandon
    BY <1>0, <1>2 DEF Resolve, PlaceShape
  <2>2. eng'.pc = "recover" /\ eng'.batch = eng.batch /\ ~eng'.request.abandon
    <3> DEFINE r == [eng.request EXCEPT !.abandon = FALSE]
    <3>1. eng' = [eng EXCEPT !.request = r] /\ ~r.abandon
      BY <1>0, <1>2, <2>1 DEF Resolve, Resumptions
    <3> HIDE DEF r
    <3> QED BY <1>0, <2>1, <3>1 DEF UpEngines
  <2>3. cp.status = None
    BY <2>1 DEF Promised, AbandonIsDue
  <2>4. /\ cp'.state = cp.state /\ cp'.needs /\ cp'.closing = cp.closing /\ cp'.closure = cp.closure
        /\ cp'.commands = Dropped(cp.commands, <<"Generate", cp.gen>>)
    BY <1>0, <2>1 DEF Abandoned, Checkpoints
  <2>5. OpenEnded(cp) => OpenEnded(cp')
    <3>1. cp.commands \in Outboxes
      BY <1>0 DEF Checkpoints
    <3> QED BY <2>4, <3>1, DroppedOutbox DEF OpenEnded, HasNoClose
  <2>6. Due(cp) /\ Due(cp')
    BY <2>3, <2>4, OpenIsDue
  <2>7. Promised'
    BY <1>0, <2>1, <2>2, <2>4, <2>5, SteppedKeeps DEF AbandonIsDue
  <2>8. SameDue /\ SameClosing
    BY <2>4, <2>6 DEF SameDue, SameClosing
  <2> QED BY <2>4, <2>7, <2>8, RunSteps
<1>3. CASE ResumeMessage
  <2>1. eng.request \in Resumptions /\ eng.pc = "recover" /\ ~eng.request.abandon
    BY <1>0, <1>3 DEF ResumeMessage, PlaceShape
  <2>2. CASE ~Insertable(cp, eng.request.message)
    BY <1>0, <1>3, <2>2, StoppedKeeps DEF ResumeMessage, Failures
  <2>3. CASE Insertable(cp, eng.request.message)
    <3>1. cp' = Inserted(cp, eng.request.message) /\ UNCHANGED exchangeVars /\ ~cp.closing
          /\ eng.request.message \in {"User", "External"}
      BY <1>3, <2>1, <2>3 DEF ResumeMessage, Insertable, Resumptions
    <3>2. /\ cp'.state = cp.state /\ cp'.status = cp.status /\ cp'.closing = cp.closing /\ cp'.needs
          /\ OpenEnded(cp) => OpenEnded(cp')
      BY <1>0, <3>1, InsertedKeeps
    <3>3. eng'.pc = "recover" /\ eng'.batch = eng.batch /\ ~eng'.request.abandon
      <4> DEFINE r == [eng.request EXCEPT !.message = None]
      <4>1. eng' = [eng EXCEPT !.request = r] /\ ~r.abandon
        BY <1>0, <1>3, <2>1, <2>3 DEF ResumeMessage, Resumptions
      <4> HIDE DEF r
      <4> QED BY <1>0, <2>1, <4>1 DEF UpEngines
    <3>4. Promised'
      BY <1>0, <3>1, <3>2, <3>3, SteppedKeeps DEF AbandonIsDue
    <3>5. Due(cp') /\ SameClosing
      BY <3>2, OpenIsDue DEF SameClosing
    <3> QED BY <1>0, <3>1, <3>2, <3>4, <3>5, RunSteps
  <2> QED BY <2>2, <2>3
<1>4. CASE DecideRecovery
  <2>1. CASE Suspend
    BY <1>0, <2>1, StoppedKeeps
  <2>2. CASE eng' = [eng EXCEPT !.pc = "open"] /\ UNCHANGED <<cp, exchangeVars>>
    <3>1. eng'.pc = "open" /\ eng'.batch = eng.batch
      BY <1>0, <2>2 DEF UpEngines
    <3> QED BY <1>0, <2>2, <3>1, MovedKeeps DEF AbandonIsDue
  <2> QED BY <1>4, <2>1, <2>2 DEF DecideRecovery
<1>5. CASE OpenModel
  <2> DEFINE t == SessionTask(SubSeq(cp.history, 1, SeedEnd(cp)), cp.ack,
                                SeedPosition(cp), cp.profile)
  <2>1. eng' = [eng EXCEPT !.pc = "opening", !.open = t] /\ UNCHANGED <<cp, exchangeVars>>
    BY <1>5 DEF OpenModel
  <2>2. t.controls = <<>> /\ t.sending.kind = "Ready"
    BY DEF SessionTask, Ready
  <2> HIDE DEF t
  <2>3. ClosesNot(t)
    <3>1. DOMAIN t.controls = {}
      BY <2>2
    <3> QED BY <2>2, <3>1 DEF ClosesNot, InFlight
  <2>4. eng'.pc = "opening" /\ eng'.batch = eng.batch /\ eng'.open = t
    BY <1>0, <2>1 DEF UpEngines
  <2> QED BY <1>0, <2>1, <2>3, <2>4, MovedKeeps DEF AbandonIsDue
<1>6. CASE SessionOpened
  <2>1. /\ cp' = [cp EXCEPT !.ready = FALSE, !.cursor = None] /\ session' = eng.open
        /\ eng.pc = "opening" /\ UNCHANGED <<commands, work, asked>>
    BY <1>6 DEF SessionOpened
  <2>2. eng'.pc = "dispatch" /\ eng'.batch = eng.batch
    BY <1>0, <1>6 DEF SessionOpened, UpEngines
  <2>3. /\ cp'.state = cp.state /\ cp'.closing = cp.closing /\ cp'.closure = cp.closure
        /\ cp'.commands = cp.commands /\ cp'.status = cp.status /\ cp'.needs = cp.needs
        /\ cp'.covered = cp.covered /\ cp'.input = cp.input
    BY <1>0, <2>1 DEF Checkpoints
  <2>4. CloseDecided'
    BY <2>1, <2>2, <2>3 DEF Promised, CloseDecided, OpenEnded
  <2>5. Promised'
    BY <1>0, <2>2, <2>3, <2>4 DEF Promised, UpIsRunning, AbandonIsDue, StagedAgrees
  <2>6. SameDue /\ SameClosing
    BY <2>3 DEF SameDue, SameClosing, Due
  <2> QED BY <2>3, <2>5, <2>6, RunSteps
<1>7. CASE OpenFails
  BY <1>0, <1>7, StoppedKeeps DEF OpenFails, Failures
<1> QED BY <1>1, <1>2, <1>3, <1>4, <1>5, <1>6, <1>7 DEF AttachStep

\* dispatch_commands and advance: a generation follows a need, a close is
\* decided and a run completes only when no response is due.
LEMMA LoopKeeps ==
  ASSUME Shape, Promised, LoopStep
  PROVE  Promised' /\ RunStep
<1>0. /\ eng \in UpEngines /\ eng.pc \in {"dispatch", "advance"} /\ Sound(cp) /\ cp \in Checkpoints
      /\ cp.state = "Running" /\ eng.pc # "down"
      /\ ~cp.closing => OpenEnded(cp) /\ HasNoClose(eng.batch)
  <2>1. eng.pc \in {"dispatch", "advance"}
    BY DEF LoopStep, Dispatch, RequestsExhausted, Reduce, Generate, PrepareClose, Complete, Rest,
           Advancing
  <2> QED BY <2>1, EngineTypes DEF Shape, Sound, Promised, UpIsRunning, CloseDecided
<1>1. CASE Dispatch
  <2>1. UNCHANGED <<cp, exchangeVars>> /\ eng'.pc = "advance"
    BY <1>0, <1>1 DEF Dispatch, UpEngines
  <2>2. CASE eng.sending \/ ~cp.ready \/ Unsent = {}
    <3>1. eng'.batch = eng.batch
      BY <1>0, <1>1, <2>2 DEF Dispatch, UpEngines
    <3> QED BY <1>0, <2>1, <3>1, MovedKeeps DEF AbandonIsDue
  <2>3. CASE ~(eng.sending \/ ~cp.ready \/ Unsent = {})
    <3>1. eng'.batch = [i \in Sendable |-> Body(cp.commands[i])]
      BY <1>0, <1>1, <2>3 DEF Dispatch, UpEngines
    <3>2. Sendable \subseteq DOMAIN cp.commands
      BY <1>0, <2>3, SendableTypes
    <3>3. \A i \in DOMAIN cp.commands : Body(cp.commands[i]).intent = cp.commands[i].intent
      BY <1>0, BodyType DEF Id
    <3>4. ~cp.closing => HasNoClose(eng'.batch)
      BY <1>0, <3>1, <3>2, <3>3 DEF OpenEnded, HasNoClose
    <3> QED BY <1>0, <2>1, <3>4, MovedKeeps DEF AbandonIsDue
  <2> QED BY <2>2, <2>3
\* What a commit of the loop has to show.
<1>2. ASSUME NEW c, Pass(c), c.state = "Running", ~c.closing => ~cp.closing /\ OpenEnded(c)
      PROVE  Promised' /\ cp' = c
  <2>1. cp' = c /\ eng'.pc = "dispatch" /\ eng'.batch = eng.batch /\ UNCHANGED exchangeVars
    BY <1>0, <1>2 DEF Pass, UpEngines
  <2> QED BY <1>0, <1>2, <2>1, SteppedKeeps DEF AbandonIsDue
<1>3. CASE RequestsExhausted
  BY <1>0, <1>3, StoppedKeeps DEF RequestsExhausted
<1>4. CASE Reduce
  <2> DEFINE n == cp.revision + 1
             h == <<Entry("Summary", n, 0)>>
             o == Append(cp.commands, Plain("Replace", n))
             c == [cp EXCEPT !.history = h, !.start = 1, !.revision = n, !.reduced = n,
                              !.commands = o]
  <2>1. Pass(c)
    BY <1>4 DEF Reduce
  <2>2. HasNoClose(cp.commands) => HasNoClose(o)
    <3>1. cp.commands \in Outboxes /\ n \in Nat
      BY <1>0 DEF Checkpoints
    <3>2. Plain("Replace", n) \in PendingCommands /\ Plain("Replace", n).intent # "Close"
      BY <3>1, CommandTypes DEF Plain
    <3> QED BY <3>1, <3>2, AppendedOutbox
  <2> HIDE DEF h, o, n
  <2>3. SameRun(cp, c) /\ c.closure = cp.closure /\ c.commands = o
    BY <1>0 DEF Checkpoints, SameRun
  <2> HIDE DEF c
  <2>4. Promised' /\ cp' = c
    BY <1>0, <1>2, <2>1, <2>2, <2>3 DEF OpenEnded, SameRun
  <2>5. SameDue /\ SameClosing /\ cp'.state = cp.state
    BY <2>3, <2>4, SameIsDue DEF SameDue, SameClosing, SameRun
  <2> QED BY <2>4, <2>5, RunSteps
<1>5. CASE Generate
  <2>1. Pass(Generated(cp)) /\ cp.needs
    BY <1>5 DEF Generate
  <2>2. /\ Generated(cp).state = cp.state /\ Generated(cp).closing = cp.closing
        /\ Generated(cp).status = None
        /\ OpenEnded(cp) => OpenEnded(Generated(cp))
    BY <1>0, GeneratedKeeps
  <2>3. Promised' /\ cp' = Generated(cp)
    BY <1>0, <1>2, <2>1, <2>2
  <2>4. SameDue /\ SameClosing /\ cp'.state = cp.state
    BY <2>1, <2>2, <2>3, OpenIsDue DEF SameDue, SameClosing
  <2> QED BY <2>3, <2>4, RunSteps
<1>6. CASE PrepareClose
  <2> DEFINE c == Prepared(cp, Plain("Close", 1))
             d == [c EXCEPT !.closing = TRUE]
  <2>1. Pass(d) /\ ~Due(cp)
    BY <1>6 DEF PrepareClose, InputFinished, Due
  <2>2. Plain("Close", 1) \in PendingCommands /\ ~IsNumbered(Plain("Close", 1))
    BY CommandTypes DEF IsNumbered, Plain
  <2>3. Sound(c) /\ SameRun(cp, c)
    BY <1>0, <2>2, PreparedSound, PreparedKeeps
  <2> HIDE DEF c
  <2>4. /\ d.closing = TRUE /\ d.state = c.state /\ d.status = c.status /\ d.needs = c.needs
        /\ d.covered = c.covered /\ d.input = c.input
    BY <2>3 DEF Sound, Checkpoints
  <2> HIDE DEF d
  <2>5. Promised' /\ cp' = d
    BY <1>0, <1>2, <2>1, <2>3, <2>4 DEF SameRun
  <2>6. SameDue /\ cp'.closing = TRUE /\ cp'.state = "Running"
    BY <1>0, <2>3, <2>4, <2>5 DEF SameDue, Due, SameRun
  <2> QED BY <1>0, <2>1, <2>5, <2>6, RunSteps
<1>7. CASE Complete
  <2> DEFINE c == [cp EXCEPT !.state = "Completed"]
  <2>1. Leave(c) /\ ~Due(cp) /\ cp.closing
    <3>1. Leave(c) /\ ~Due(cp) /\ cp.closure
      BY <1>7 DEF Complete, InputFinished, Due
    <3> QED BY <1>0, <3>1 DEF OpenEnded
  <2>2. c.state = "Completed"
        /\ c.closing = cp.closing /\ c.status = cp.status /\ c.needs = cp.needs
        /\ c.covered = cp.covered /\ c.input = cp.input
    BY <1>0 DEF Checkpoints, SameRun
  <2> HIDE DEF c
  <2>3. Promised' /\ cp' = c
    BY <2>1, <2>2, LeaveKeeps DEF Leave
  <2>4. SameDue /\ SameClosing /\ cp'.state = "Completed"
    BY <2>2, <2>3 DEF SameDue, SameClosing, Due
  <2> QED BY <1>0, <2>1, <2>3, <2>4, RunSteps
<1>8. CASE Rest
  <2>1. UNCHANGED <<cp, exchangeVars>> /\ eng'.pc = "idle" /\ eng'.batch = eng.batch
    BY <1>0, <1>8 DEF Rest, UpEngines
  <2> QED BY <1>0, <2>1, MovedKeeps DEF AbandonIsDue
<1> QED BY <1>1, <1>3, <1>4, <1>5, <1>6, <1>7, <1>8 DEF LoopStep

\* control.submit and its report are invisible to Run.
LEMMA SubmitKeeps ==
  ASSUME Shape, Promised, SubmitStep
  PROVE  Promised' /\ RunStep
<1>0. /\ eng \in UpEngines /\ eng.batch \in Batches /\ eng.pc # "down" /\ cp.state = "Running"
      /\ ~cp.closing => HasNoClose(eng.batch) /\ HasNoClose(commands)
      /\ cp' = cp
  BY EngineTypes DEF Shape, SubmitStep, Submit, ReportSent, Promised, UpIsRunning, CloseDecided
<1>1. SameDue /\ SameClosing /\ cp'.state = cp.state
  BY <1>0 DEF SameDue, SameClosing
<1>2. CASE Submit
  <2> DEFINE next == FirstOf(DOMAIN eng.batch)
             batch == [i \in DOMAIN eng.batch \ {next} |-> eng.batch[i]]
  <2>1. /\ commands' = Append(commands, eng.batch[next]) /\ eng' = [eng EXCEPT !.batch = batch]
        /\ UNCHANGED <<cp, work, session, asked>>
    BY <1>2 DEF Submit
  <2>2. next \in DOMAIN eng.batch
    BY <1>0, <1>2, BatchTypes DEF Submit
  <2>3. HasNoClose(eng.batch) => HasNoClose(batch)
    BY DEF HasNoClose
  <2>4. HasNoClose(eng.batch) /\ HasNoClose(commands) => HasNoClose(commands')
    <3>1. commands \in Seq(Carried) /\ eng.batch[next] \in Carried
      BY <1>0, <2>2, BatchTypes DEF Shape
    <3> QED BY <2>1, <2>2, <3>1 DEF HasNoClose
  <2> HIDE DEF batch
  <2>5. /\ eng'.pc = eng.pc /\ eng'.request = eng.request /\ eng'.batch = batch
        /\ eng'.open = eng.open /\ eng'.staged = eng.staged
    BY <1>0, <2>1 DEF UpEngines
  <2>6. CloseDecided'
    BY <1>0, <2>1, <2>3, <2>4, <2>5 DEF Promised, CloseDecided
  <2>7. UpIsRunning' /\ AbandonIsDue' /\ StagedAgrees'
    BY <2>1, <2>5 DEF Promised, UpIsRunning, AbandonIsDue, StagedAgrees
  <2> QED BY <1>1, <2>6, <2>7, RunSteps DEF Promised
<1>3. CASE ReportSent
  <2>1. PICK result \in {"ok", "error"} : work' = Append(work, SentItem(result))
    BY <1>3 DEF ReportSent
  <2>2. SentItem(result).type # "Event" /\ work \in Seq(Items) /\ SentItem(result) \in Items
    BY ItemTypes DEF SentItem, Shape
  <2>3. \A i \in DOMAIN work' : \/ i \in DOMAIN work /\ work'[i] = work[i]
                             \/ work'[i] = SentItem(result)
    BY <2>1, <2>2
  <2>4. CloseDecided'
    BY <1>3, <2>2, <2>3 DEF Promised, CloseDecided, ReportSent
  <2>5. UpIsRunning' /\ AbandonIsDue' /\ StagedAgrees'
    BY <1>3 DEF Promised, UpIsRunning, AbandonIsDue, StagedAgrees, ReportSent
  <2> QED BY <1>1, <2>4, <2>5, RunSteps DEF Promised
<1> QED BY <1>2, <1>3 DEF SubmitStep

-----------------------------------------------------------------------------
\* Work received

\* What Run sees of a checkpoint after an expected event.
LEMMA StagedWithKeeps ==
  ASSUME Shape, Promised, Collecting, ~BatchClosed, NEW item \in Items, item.type = "Event",
         Expected(Staged.cp, item.body)
  PROVE  LET c == StagedWith(item).cp
         IN  /\ c.closing = cp.closing
             /\ Due(c) => Due(cp)
             /\ c.state = "Running" \/ (c.state = "Failed" /\ Due(c))
             /\ ~cp.closing /\ item.body.kind # "Closed" => OpenEnded(c)
<1> DEFINE b == Staged.cp
           c == [b EXCEPT !.cursor = item.sequence]
           h == Handled(c, item.body)
           r == Recorded(h, item.body)
<1>1. item.sequence \in Nat /\ item.body \in Events
  BY ItemTypes
<1>2. Sound(b) /\ eng.pc # "down"
  BY StagedShape, EngineTypes
<1>3. /\ b.closing = cp.closing /\ (Due(b) => Due(cp)) /\ b.state = "Running"
      /\ ~cp.closing => OpenEnded(b)
  <2>1. CASE eng.pc = "batch"
    <3>1. b = eng.staged.cp /\ b.state = "Running"
      BY <2>1 DEF Staged, BatchClosed
    <3> QED BY <2>1, <3>1 DEF Promised, StagedAgrees, CloseDecided
  <2>2. CASE eng.pc # "batch"
    <3>1. b = cp
      BY <2>2, StagedShape
    <3> QED BY <1>2, <3>1 DEF Promised, UpIsRunning, CloseDecided
  <2> QED BY <2>1, <2>2
<1>4. Sound(c) /\ SameRun(b, c) /\ c.closure = b.closure /\ c.commands = b.commands
  <2>1. Sound(c)
    BY <1>1, <1>2, FieldsSound
  <2>2. SameRun(b, c) /\ c.closure = b.closure /\ c.commands = b.commands
    BY <1>2 DEF Sound, Checkpoints, SameRun
  <2> QED BY <2>1, <2>2
<1>5. Expected(c, item.body)
  BY <1>2, ExpectedCursor
<1> HIDE DEF b, c
<1>6. Sound(h)
  BY <1>1, <1>4, <1>5, HandledSound
<1>7. SameRun(h, r) /\ (OpenEnded(h) => OpenEnded(r))
  BY <1>1, <1>6, RecordedKeeps
<1>8. /\ h.closing = c.closing
      /\ item.body.kind # "Finished" => SameRun(c, h)
      /\ item.body.kind = "Finished" => h.state = c.state \/ (h.state = "Failed" /\ Due(h))
      /\ OpenEnded(c) /\ item.body.kind # "Closed" => OpenEnded(h)
  BY <1>1, <1>4, HandledKeeps
<1>9. item.body.kind = "Finished" => Due(c)
  <2>1. item.body.kind = "Finished" => c.status = None
    BY <1>5 DEF Expected, InGeneration
  <2> QED BY <2>1, OpenIsDue
<1>10. Due(c) = Due(b) /\ Due(r) = Due(h) /\ (SameRun(c, h) => Due(h) = Due(c))
  BY <1>4, <1>7, SameIsDue DEF Due
<1> HIDE DEF h, r
<1>11. r.closing = cp.closing /\ (r.state = "Running" \/ (r.state = "Failed" /\ Due(r)))
  BY <1>3, <1>4, <1>7, <1>8, <1>10 DEF SameRun
<1>12. Due(r) => Due(cp)
  BY <1>3, <1>8, <1>9, <1>10
<1>13. ~cp.closing /\ item.body.kind # "Closed" => OpenEnded(r)
  BY <1>3, <1>4, <1>7, <1>8 DEF OpenEnded
<1>14. StagedWith(item).cp = r
  BY DEF StagedWith, r, h, c, b
<1> QED BY <1>11, <1>12, <1>13, <1>14

\* collect: what is staged is invisible until it is committed.
LEMMA CollectKeeps ==
  ASSUME Shape, Promised, Collect
  PROVE  Promised' /\ RunStep
<1> DEFINE item == Head(work)
<1>1. /\ Collecting /\ ~BatchClosed /\ work # <<>> /\ item \in Items /\ item.type = "Event"
      /\ item = work[1] /\ 1 \in DOMAIN work
      /\ \A i \in DOMAIN Tail(work) : i + 1 \in DOMAIN work /\ Tail(work)[i] = work[i + 1]
  BY QueueTypes DEF Collect, NextIsEvent, Shape
<1>2. eng \in UpEngines /\ PlaceShape(eng) /\ eng.pc \in {"batch", "idle"} /\ eng.pc # "down"
      /\ cp.state = "Running"
  BY <1>1, StagedShape DEF Collecting, Promised, UpIsRunning
\* The session and the checkpoint stay, the event is taken.
<1>3. ASSUME work' = Tail(work), UNCHANGED <<cp, commands, session, asked>>,
             eng'.pc \in {"batch", "dispatch"}, eng'.batch = eng.batch, StagedAgrees',
             eng'.pc = "batch" /\ ~cp.closing => OpenEnded(eng'.staged.cp)
      PROVE  Promised' /\ RunStep
  <2>1. UpIsRunning' /\ AbandonIsDue'
    BY <1>2, <1>3 DEF UpIsRunning, AbandonIsDue
  <2>2. CloseDecided'
    BY <1>1, <1>2, <1>3 DEF Promised, CloseDecided
  <2>3. SameDue /\ SameClosing /\ cp'.state = cp.state
    BY <1>3 DEF SameDue, SameClosing
  <2> QED BY <1>3, <2>1, <2>2, <2>3, RunSteps DEF Promised
<1>4. CASE ~Fresh(cp, item)
  <2>1. work' = Tail(work) /\ UNCHANGED <<cp, commands, session, asked>>
        /\ eng' = [eng EXCEPT !.pc = IF eng.pc = "idle" THEN "dispatch" ELSE eng.pc]
    BY <1>2, <1>4 DEF Collect, UpEngines
  <2>2. eng'.pc \in {"batch", "dispatch"} /\ eng'.batch = eng.batch /\ eng'.staged = eng.staged
        /\ (eng'.pc = "batch" => eng.pc = "batch")
    BY <1>2, <2>1 DEF UpEngines
  <2>3. StagedAgrees'
    BY <2>1, <2>2 DEF Promised, StagedAgrees
  <2> QED BY <1>3, <2>1, <2>2, <2>3 DEF Promised, CloseDecided
<1>5. CASE Fresh(cp, item) /\ Expected(Staged.cp, item.body)
  <2> DEFINE staged == StagedWith(item)
             sent == IF item.body.kind = "Acknowledged" THEN eng.sent \ {item.body.id} ELSE eng.sent
  <2>1. eng' = [eng EXCEPT !.pc = "batch", !.staged = staged, !.sent = sent]
        /\ work' = Tail(work) /\ UNCHANGED <<cp, commands, session, asked>>
    BY <1>2, <1>5 DEF Collect, UpEngines
  <2>2. /\ staged.cp.closing = cp.closing
        /\ Due(staged.cp) => Due(cp)
        /\ staged.cp.state = "Running" \/ (staged.cp.state = "Failed" /\ Due(staged.cp))
        /\ ~cp.closing /\ item.body.kind # "Closed" => OpenEnded(staged.cp)
    BY <1>1, <1>5, StagedWithKeeps
  <2> HIDE DEF staged, sent
  <2>3. eng'.pc = "batch" /\ eng'.batch = eng.batch /\ eng'.staged = staged
    BY <1>2, <2>1 DEF UpEngines
  <2>4. StagedAgrees'
    BY <2>1, <2>2, <2>3 DEF StagedAgrees, Due
  <2>5. ~cp.closing => OpenEnded(eng'.staged.cp)
    BY <1>1, <2>2, <2>3 DEF Promised, CloseDecided
  <2> QED BY <1>3, <2>1, <2>3, <2>4, <2>5
<1>6. CASE Fresh(cp, item) /\ ~Expected(Staged.cp, item.body)
  <2>1. CASE eng.pc = "idle"
    BY <1>2, <1>6, <2>1, StoppedKeeps DEF Collect, Failures
  <2>2. CASE eng.pc # "idle"
    <3>1. eng.pc = "batch" /\ eng.staged \in Stagings
      BY <1>2, <2>2 DEF PlaceShape
    <3> DEFINE staged == [eng.staged EXCEPT !.next = "failing"]
    <3>2. eng' = [eng EXCEPT !.staged = staged] /\ UNCHANGED <<cp, exchangeVars>>
      BY <1>6, <2>2 DEF Collect
    <3>3. staged.cp = eng.staged.cp
      BY <3>1 DEF Stagings
    <3> HIDE DEF staged
    <3>4. eng'.pc = "batch" /\ eng'.batch = eng.batch /\ eng'.staged.cp = eng.staged.cp
      BY <1>2, <3>1, <3>2, <3>3 DEF UpEngines
    <3>5. Promised'
      BY <1>2, <3>1, <3>2, <3>4
         DEF Promised, UpIsRunning, AbandonIsDue, StagedAgrees, CloseDecided, exchangeVars
    <3>6. SameDue /\ SameClosing /\ cp'.state = cp.state
      BY <3>2 DEF SameDue, SameClosing
    <3> QED BY <3>5, <3>6, RunSteps
  <2> QED BY <2>1, <2>2
<1> QED BY <1>4, <1>5, <1>6

\* Work that was taken leaves the rest of the queue.
LEMMA TakenWork ==
  ASSUME NEW queue \in Seq(Items), NEW rest, rest = queue \/ (queue # <<>> /\ rest = Tail(queue))
  PROVE  \A i \in DOMAIN rest : \E j \in DOMAIN queue : rest[i] = queue[j]
<1>1. CASE rest = queue
  BY <1>1
<1>2. CASE queue # <<>> /\ rest = Tail(queue)
  <2>1. \A i \in DOMAIN rest : i + 1 \in DOMAIN queue /\ rest[i] = queue[i + 1]
    BY <1>2
  <2> QED BY <2>1
<1> QED BY <1>1, <1>2

\* The commit of a batch answers what is due, or nothing.
LEMMA CommitBatchKeeps ==
  ASSUME Shape, Promised, CommitBatch
  PROVE  Promised' /\ RunStep
<1> DEFINE c == eng.staged.cp
<1>1. /\ eng \in UpEngines /\ cp.state = "Running" /\ eng.pc = "batch"
      /\ eng.staged.next \in {"dispatch", "suspending", "failing"}
      /\ c.closing = cp.closing /\ (Due(c) => Due(cp))
      /\ c.state = "Running" \/ (c.state = "Failed" /\ Due(c))
      /\ ~cp.closing => OpenEnded(c)
  <2>1. eng.pc = "batch" /\ eng.pc # "down"
    BY DEF CommitBatch
  <2> QED BY <2>1, EngineTypes DEF Shape, PlaceShape, Stagings, Promised, UpIsRunning, StagedAgrees,
                                   CloseDecided
<1>2. CASE c.state # "Running"
  <2>1. Leave(c) /\ cp' = c
    BY <1>2 DEF CommitBatch, Leave
  <2>2. Promised'
    BY <1>1, <2>1, LeaveKeeps
  <2>3. SameDue /\ SameClosing /\ cp'.state = "Failed"
    BY <1>1, <1>2, <2>1 DEF SameDue, SameClosing, Due
  <2> QED BY <1>1, <2>2, <2>3, RunSteps
<1>3. CASE c.state = "Running"
  <2>1. /\ cp' = c /\ UNCHANGED <<commands, session, asked>>
        /\ eng'.pc = eng.staged.next /\ eng'.batch = eng.batch
        /\ work' = work \/ (work # <<>> /\ work' = Tail(work))
    BY <1>1, <1>3 DEF CommitBatch, UpEngines
  <2>2. \A i \in DOMAIN work' : \E j \in DOMAIN work : work'[i] = work[j]
    BY <2>1, TakenWork DEF Shape
  <2>3. CloseDecided'
    <3>1. eng.pc # "down" /\ eng'.pc \notin {"opening", "batch"}
      BY <1>1, <2>1
    <3>2. ~cp.closing => /\ HasNoClose(commands) /\ HasNoClose(eng.batch)
                         /\ session.phase = "up" => ClosesNot(session)
                         /\ \A i \in DOMAIN work : work[i].type = "Event"
                            => work[i].body.kind # "Closed"
      BY <3>1 DEF Promised, CloseDecided
    <3> QED BY <1>1, <2>1, <2>2, <3>1, <3>2 DEF CloseDecided
  <2>4. UpIsRunning' /\ AbandonIsDue' /\ StagedAgrees'
    BY <1>1, <1>3, <2>1 DEF UpIsRunning, AbandonIsDue, StagedAgrees
  <2>5. SameClosing /\ cp'.state = "Running" /\ (Due(cp') => Due(cp))
    BY <1>1, <1>3, <2>1 DEF SameClosing, Due
  <2> QED BY <1>1, <2>3, <2>4, <2>5, RunSteps DEF Promised, SameDue
<1> QED BY <1>2, <1>3

\* Work that is neither an event nor an error is invisible to Run.
LEMMA HandleKeeps ==
  ASSUME Shape, Promised, NEW type, Receives(type),
         NEW e \in {eng, [eng EXCEPT !.sending = FALSE]}, Handle(e)
  PROVE  Promised' /\ RunStep
<1>1. eng \in UpEngines /\ eng.pc = "idle" /\ eng.pc # "down" /\ cp.state = "Running" /\ cp' = cp
  BY EngineTypes DEF Shape, Receives, Promised, UpIsRunning, Handle
<1>2. e \in UpEngines /\ e.batch = eng.batch
  BY <1>1 DEF UpEngines
<1>3. eng'.pc = "dispatch" /\ eng'.batch = eng.batch /\ UNCHANGED <<commands, session, asked>>
      /\ (work' = work \/ (work # <<>> /\ work' = Tail(work)))
  BY <1>2 DEF Handle, UpEngines, Receives
<1>4. \A i \in DOMAIN work' : \E j \in DOMAIN work : work'[i] = work[j]
  BY <1>3, TakenWork DEF Shape
<1>5. CloseDecided'
  BY <1>1, <1>3, <1>4 DEF Promised, CloseDecided
<1>6. UpIsRunning' /\ AbandonIsDue' /\ StagedAgrees'
  BY <1>1, <1>3 DEF UpIsRunning, AbandonIsDue, StagedAgrees
<1>7. SameDue /\ SameClosing /\ cp'.state = cp.state
  BY <1>1 DEF SameDue, SameClosing
<1> QED BY <1>5, <1>6, <1>7, RunSteps DEF Promised

\* receive_work and handle are steps of Run.
LEMMA WorkKeeps ==
  ASSUME Shape, Promised, WorkStep
  PROVE  Promised' /\ RunStep
<1>1. CASE Collect
  BY <1>1, CollectKeeps
<1>2. CASE CommitBatch
  BY <1>2, CommitBatchKeeps
<1>3. CASE SuspendAfterBatch
  BY <1>3, StoppedKeeps DEF SuspendAfterBatch, Failures
<1>4. CASE CommandSent
  BY <1>4, StoppedKeeps, HandleKeeps DEF CommandSent, Receives
<1>5. CASE ModelEnded
  <2>1. (Handle(eng) \/ Suspend \/ Fail("model") \/ Fail("protocol")) /\ eng.pc = "idle"
        /\ Receives("Ended")
    BY <1>5 DEF ModelEnded, Receives
  <2> QED BY <2>1, StoppedKeeps, HandleKeeps DEF Failures
<1> QED BY <1>1, <1>2, <1>3, <1>4, <1>5 DEF WorkStep

-----------------------------------------------------------------------------
\* The session

\* The top of the session's loop sends nothing new: what it sends waited to be
\* sent, or belongs to a response.
LEMMA StageKeeps ==
  ASSUME NEW s \in UpSessions, CallOrder(s), Stage(s).phase = "up",
         NEW e \in Events, InFlight(Stage(s), e)
  PROVE  InFlight(s, e) \/ OfResponse(e)
<1>0. s.controls \in Seq(Events) /\ s.finishing \in Seq(Events) /\ s.sending \in Events \cup {None}
  BY SessionTypes
<1>1. CASE s.sending # None
  BY <1>1 DEF Stage
<1>2. CASE s.sending = None /\ s.controls # <<>>
  <2> DEFINE h == Head(s.controls)
             r == Tail(s.controls)
             t == [s EXCEPT !.sending = h, !.controls = r]
  <2>1. /\ h = s.controls[1] /\ 1 \in DOMAIN s.controls
        /\ \A i \in DOMAIN r : i + 1 \in DOMAIN s.controls /\ r[i] = s.controls[i + 1]
    BY <1>0, <1>2
  <2>2. Stage(s) = t
    BY <1>2 DEF Stage
  <2> HIDE DEF h, r
  <2>3. t.sending = h /\ t.controls = r
    BY DEF UpSessions
  <2> HIDE DEF t
  <2> QED BY <2>1, <2>2, <2>3 DEF InFlight
<1>3. CASE s.sending = None /\ s.controls = <<>> /\ s.finishing # <<>>
  <2> DEFINE h == Head(s.finishing)
             r == Tail(s.finishing)
             t == [s EXCEPT !.sending = h, !.finishing = r]
  <2>1. OfResponse(h)
    <3>1. h = s.finishing[1] /\ 1 \in DOMAIN s.finishing
      BY <1>0, <1>3
    <3> QED BY <3>1 DEF CallOrder
  <2>2. Stage(s) = t
    BY <1>3 DEF Stage
  <2> HIDE DEF h, r
  <2>3. t.sending = h /\ t.controls = s.controls
    BY DEF UpSessions
  <2> HIDE DEF t
  <2> QED BY <2>1, <2>2, <2>3 DEF InFlight
<1>4. CASE s.sending = None /\ s.controls = <<>> /\ s.finishing = <<>> /\ s.closing
  <2>1. Stage(s).phase = "ended"
    BY <1>4 DEF Stage, Ended
  <2> QED BY <2>1
<1>5. CASE s.sending = None /\ s.controls = <<>> /\ s.finishing = <<>> /\ ~s.closing
  BY <1>5 DEF Stage
<1> QED BY <1>1, <1>2, <1>3, <1>4, <1>5

\* A session that was not about to close is still not, at the top of its loop.
LEMMA StageClosesNot ==
  ASSUME NEW s \in UpSessions, CallOrder(s), ClosesNot(s), Stage(s).phase = "up"
  PROVE  ClosesNot(Stage(s))
<1>1. ASSUME NEW e \in Events, InFlight(Stage(s), e) PROVE e.kind # "Closed"
  BY <1>1, StageKeeps DEF ClosesNot, OfResponse
<1> QED BY <1>1 DEF ClosesNot

\* A step of the session keeps the promises when it brings no close nearer.
LEMMA SessionKeeps ==
  ASSUME Promised, UNCHANGED <<cp, eng>>,
         ~cp.closing =>
           /\ HasNoClose(commands')
           /\ \A i \in DOMAIN work' : work'[i].type = "Event" => work'[i].body.kind # "Closed"
           /\ session'.phase = "up" => ClosesNot(session')
  PROVE  Promised' /\ RunStep
<1>1. Promised'
  BY DEF Promised, UpIsRunning, AbandonIsDue, StagedAgrees, CloseDecided
<1>2. SameDue /\ SameClosing /\ cp'.state = cp.state
  BY DEF SameDue, SameClosing
<1> QED BY <1>1, <1>2, RunSteps

\* An event delivered, a call that returned and a command applied bring no
\* close nearer before one is decided.
LEMMA ModelKeeps ==
  ASSUME Shape, Promised, ModelStep
  PROVE  Promised' /\ RunStep
<1> DEFINE NoClosedWork(queue) ==
             \A i \in DOMAIN queue : queue[i].type = "Event" => queue[i].body.kind # "Closed"
<1>1. UNCHANGED <<cp, eng>> /\ work \in Seq(Items) /\ commands \in Seq(Carried)
  BY DEF ModelStep, Shape
<1>2. ~cp.closing => /\ HasNoClose(commands) /\ NoClosedWork(work)
                     /\ session.phase = "up" => ClosesNot(session)
  BY DEF Promised, CloseDecided
<1>3. SUFFICES ASSUME ~cp.closing
      PROVE  /\ HasNoClose(commands') /\ NoClosedWork(work')
             /\ session'.phase = "up" => ClosesNot(session')
  BY <1>1, SessionKeeps
<1>4. session.phase = "up" => session \in UpSessions /\ CallOrder(session)
  BY UpIsUp DEF Shape
\* Whatever is appended to the work is not Closed.
<1>5. ASSUME NEW item \in Items, item.type = "Event" => item.body.kind # "Closed",
             work' = Append(work, item)
      PROVE  NoClosedWork(work')
  <2>1. \A i \in DOMAIN work' : (i \in DOMAIN work /\ work'[i] = work[i]) \/ work'[i] = item
    BY <1>1, <1>5
  <2> QED BY <1>2, <1>3, <1>5, <2>1
<1>6. CASE Deliver
  <2> DEFINE e == session.sending
             t == SentOff(session)
  <2>1. session \in UpSessions /\ CallOrder(session) /\ e # None /\ ClosesNot(session)
    BY <1>2, <1>3, <1>4, <1>6 DEF Deliver
  <2>2. e \in Events /\ session.sequence \in Nat /\ e.kind # "Closed"
    BY <2>1, SessionTypes DEF ClosesNot, InFlight
  <2>3. t \in UpSessions /\ CallOrder(t) /\ t.sending = None /\ t.controls = session.controls
    BY <2>1, SentOffOrder
  <2>4. session' = Stage(t) /\ work' = Append(work, EventItem(session.sequence, e))
        /\ commands' = commands
    BY <1>6 DEF Deliver, SentOff
  <2>5. EventItem(session.sequence, e) \in Items /\ EventItem(session.sequence, e).body = e
    BY <2>2, ItemTypes DEF EventItem
  <2> HIDE DEF t, e
  <2>6. ClosesNot(t)
    BY <2>1, <2>3 DEF ClosesNot, InFlight
  <2>7. session'.phase = "up" => ClosesNot(session')
    BY <2>3, <2>4, <2>6, StageClosesNot
  <2>8. NoClosedWork(work')
    BY <1>5, <2>2, <2>4, <2>5
  <2> QED BY <1>2, <1>3, <2>4, <2>7, <2>8
<1>7. CASE Respond
  <2>1. session \in UpSessions /\ CallOrder(session) /\ session.generating /\ ClosesNot(session)
        /\ UNCHANGED <<commands, work>>
    BY <1>2, <1>3, <1>4, <1>7 DEF Respond
  <2>2. PICK n \in Outputs, status \in Statuses : session' = Stage(Returned(session, n, status))
    BY <1>7 DEF Respond, Returned
  <2> DEFINE t == Returned(session, n, status)
  <2>3. t \in UpSessions /\ CallOrder(t) /\ t.sending = session.sending
        /\ t.controls = session.controls
    BY <2>1, ReturnedOrder
  <2> HIDE DEF t
  <2>4. ClosesNot(t)
    BY <2>1, <2>3 DEF ClosesNot, InFlight
  <2>5. session'.phase = "up" => ClosesNot(session')
    BY <2>2, <2>3, <2>4, StageClosesNot DEF t
  <2> QED BY <1>2, <1>3, <2>1, <2>5
<1>8. CASE CallFails
  <2>1. session'.phase = "ended" /\ UNCHANGED <<commands, work>>
    BY <1>8 DEF CallFails, Ended
  <2> QED BY <1>2, <1>3, <2>1
<1>9. CASE Command
  <2> DEFINE c == Head(commands)
             t == Commanded(session, c)
  <2>1. /\ session \in UpSessions /\ CallOrder(session) /\ session.controls = <<>>
        /\ session.sending # None => OfResponse(session.sending)
        /\ ClosesNot(session) /\ commands # <<>> /\ commands' = Tail(commands) /\ work' = work
    BY <1>2, <1>3, <1>4, <1>9 DEF Command
  <2>2. c \in Carried /\ c = commands[1] /\ 1 \in DOMAIN commands
        /\ \A i \in DOMAIN commands' : i + 1 \in DOMAIN commands /\ commands'[i] = commands[i + 1]
    BY <1>1, <2>1
  <2>3. c.intent # "Close" /\ HasNoClose(commands')
    BY <1>2, <1>3, <2>2 DEF HasNoClose
  <2>4. CASE Accepts(session, c)
    <3>1. session' = Stage(t)
      BY <1>9, <2>4 DEF Command, Commanded
    <3>2. /\ t \in UpSessions /\ CallOrder(t) /\ t.sending = session.sending
          /\ t.controls = Answer(c)
          /\ \A i \in DOMAIN Answer(c) : Answer(c)[i].kind # "Closed"
      BY <2>1, <2>2, <2>3, <2>4, CommandedOrder
    <3> HIDE DEF t, c
    <3>3. ClosesNot(t)
      BY <2>1, <3>2 DEF ClosesNot, InFlight
    <3>4. session'.phase = "up" => ClosesNot(session')
      BY <3>1, <3>2, <3>3, StageClosesNot
    <3> QED BY <1>2, <1>3, <2>1, <2>3, <3>4
  <2>5. CASE ~Accepts(session, c)
    <3>1. session'.phase = "ended"
      BY <1>9, <2>5 DEF Command, Ended
    <3> QED BY <1>2, <1>3, <2>1, <2>3, <3>1
  <2> QED BY <2>4, <2>5
<1>10. CASE ReportEnd
  <2>1. session'.phase = "ended" /\ commands' = commands
        /\ work' = Append(work, EndItem(session.result))
    <3>1. session \in EndedSessions
      BY <1>10, UpIsUp DEF Shape, ReportEnd
    <3> QED BY <1>10, <3>1 DEF ReportEnd, EndedSessions
  <2>2. EndItem(session.result) \in Items /\ EndItem(session.result).type # "Event"
    <3>1. session \in EndedSessions /\ session.result # None
      BY <1>10, UpIsUp DEF Shape, ReportEnd
    <3>2. session.result \in Results
      BY <3>1 DEF EndedSessions
    <3> QED BY <3>2, ItemTypes DEF EndItem
  <2>3. NoClosedWork(work')
    BY <1>5, <2>1, <2>2
  <2> QED BY <1>2, <1>3, <2>1, <2>3
<1> QED BY <1>6, <1>7, <1>8, <1>9, <1>10 DEF ModelStep, ExchangeStep

-----------------------------------------------------------------------------
\* LocalRun implements Run

\* A new run has nothing on its way, and its first message is due.
LEMMA InitPromised ==
  Init => Promised /\ Promise!Init
<1> SUFFICES ASSUME Init PROVE Promised /\ Promise!Init
  OBVIOUS
<1>1. /\ cp = Initial(Mode) /\ eng = Running("catalog", None, {}) /\ commands = <<>> /\ work = <<>>
      /\ session = Absent
  BY DEF Init
<1>2. /\ cp.state = "Running" /\ cp.closing = FALSE /\ cp.closure = FALSE /\ cp.needs = TRUE
      /\ cp.status = None /\ cp.commands = <<>>
  BY <1>1 DEF Initial
<1>3. /\ eng.pc = "catalog" /\ eng.batch = <<>> /\ session.phase = "absent"
  BY <1>1 DEF Running, Absent
<1>4. DOMAIN <<>> = {}
  OBVIOUS
<1>5. Promised
  BY <1>1, <1>2, <1>3, <1>4
     DEF Promised, UpIsRunning, AbandonIsDue, StagedAgrees, CloseDecided, OpenEnded, HasNoClose
<1> QED BY <1>2, <1>5 DEF Promise!Init

\* Every step of the engine, the session and the host is a step of Run.
LEMMA NextPromised ==
  ASSUME Shape, Promised, [Next]_vars
  PROVE  Promised' /\ RunStep
<1>1. CASE Host \/ Crash
  BY <1>1, HostKeeps
<1>2. CASE EngineStep
  BY <1>2, AttachKeeps, LoopKeeps, SubmitKeeps, WorkKeeps DEF EngineStep
<1>3. CASE ModelStep
  BY <1>3, ModelKeeps
<1>4. CASE Done \/ UNCHANGED vars
  <2>1. UNCHANGED vars
    BY <1>4 DEF Done
  <2>2. Promised'
    BY <2>1 DEF vars, Promised, UpIsRunning, AbandonIsDue, StagedAgrees, CloseDecided
  <2>3. SameDue /\ SameClosing /\ cp'.state = cp.state
    BY <2>1 DEF vars, SameDue, SameClosing
  <2> QED BY <2>2, <2>3, RunSteps
<1> QED BY <1>1, <1>2, <1>3, <1>4 DEF Next

\* The engine, its outbox and its session keep the promises of Run to the host
\* (behavior rules 1, 17 and 36), for any history, limits, faults and controls.
THEOREM RunIsKept == Spec => ImplementsRun
<1>1. Init => Promised /\ Promise!Init
  BY InitPromised
<1>2. Shape /\ Promised /\ [Next]_vars => Promised' /\ [Promise!Next]_(Promise!vars)
  BY NextPromised DEF RunStep
<1> QED BY <1>1, <1>2, Shaped, PTL DEF Spec, ImplementsRun, Promise!Spec

-----------------------------------------------------------------------------
\* Where a generation can be

OfGen(c, g) == c.intent = "Generate" /\ c.n = g
Holds(outbox, g) == \E i \in DOMAIN outbox : OfGen(outbox[i], g)
Distinct(outbox) ==
    \A g \in Nat : \A i, j \in DOMAIN outbox : OfGen(outbox[i], g) /\ OfGen(outbox[j], g) => i = j

InBatch(g) == eng.pc # "down" /\ Holds(eng.batch, g)
InQueue(g) == Holds(commands, g)
InCall(s, g) == s.phase = "up" /\ s.active # None /\ ~s.generating /\ s.active.gen = g
InTask(g) == InCall(session, g)
IsAsked(g) == \E i \in DOMAIN asked : asked[i].gen = g
Passed(g) == InBatch(g) \/ InQueue(g) \/ InTask(g) \/ IsAsked(g)

OnePlace ==
    \A g \in Nat :
      /\ InBatch(g) => ~InQueue(g) /\ ~InTask(g) /\ ~IsAsked(g)
      /\ InQueue(g) => ~InTask(g) /\ ~IsAsked(g)
      /\ InTask(g) => ~IsAsked(g)
OnceEach == (eng.pc # "down" => Distinct(eng.batch)) /\ Distinct(commands) /\ AskedOnce

\* The outbox the engine works on, and what it has not sent: new generations.
Latest == IF eng.pc = "batch" THEN eng.staged.cp ELSE cp
OutboxOnce(c) == Distinct(c.commands) /\ \A g \in Nat : Holds(c.commands, g) => g <= c.gen
NoneAhead == \A g \in Nat : Passed(g) => g <= cp.gen
IsNew(g) == Holds(Latest.commands, g) /\ <<"Generate", g>> \notin eng.sent
UnsentIsNew == eng.pc # "down" => \A g \in Nat : IsNew(g) => ~Passed(g)
StagedOnce == eng.pc = "batch" => OutboxOnce(eng.staged.cp) /\ eng.staged.cp.gen = cp.gen
OpensIdle == eng.pc = "opening" => eng.open.active = None

Once ==
    /\ OnePlace
    /\ OnceEach
    /\ NoneAhead
    /\ OutboxOnce(cp)
    /\ StagedOnce
    /\ UnsentIsNew
    /\ OpensIdle

-----------------------------------------------------------------------------
\* Outboxes

\* What is added to an outbox is its last command.
LEMMA LongerOutbox ==
  ASSUME NEW outbox \in Outboxes, NEW command \in PendingCommands
  PROVE  LET longer == Append(outbox, command)
         IN  /\ \A g \in Nat : Holds(longer, g) => Holds(outbox, g) \/ OfGen(command, g)
             /\ Distinct(outbox) /\ (\A g \in Nat : OfGen(command, g) => ~Holds(outbox, g))
                  => Distinct(longer)
<1> DEFINE longer == Append(outbox, command)
           last == Len(outbox) + 1
<1>1. outbox \in Seq(PendingCommands) /\ Len(outbox) \in Nat
  BY DEF Outboxes
<1>2. /\ \A i \in DOMAIN longer : i = last \/ i \in DOMAIN outbox
      /\ longer[last] = command /\ \A i \in DOMAIN outbox : longer[i] = outbox[i] /\ i # last
  BY <1>1
<1> HIDE DEF longer, last
<1>3. \A g \in Nat : Holds(longer, g) => Holds(outbox, g) \/ OfGen(command, g)
  BY <1>2 DEF Holds
<1>4. ASSUME Distinct(outbox), \A g \in Nat : OfGen(command, g) => ~Holds(outbox, g)
      PROVE  Distinct(longer)
  BY <1>2, <1>4 DEF Distinct, Holds
<1> QED BY <1>3, <1>4 DEF longer

\* A command that leaves an outbox leaves the others, and no second one of its
\* generation.
LEMMA ShorterOutbox ==
  ASSUME NEW outbox \in Outboxes, NEW id, Distinct(outbox)
  PROVE  /\ \A g \in Nat : Holds(Dropped(outbox, id), g) => Holds(outbox, g)
         /\ Distinct(Dropped(outbox, id))
         /\ \A g \in Nat : id = <<"Generate", g>> => ~Holds(Dropped(outbox, id), g)
<1> DEFINE k == FirstOf(Places(outbox, id))
           r == Dropped(outbox, id)
<1>1. CASE Places(outbox, id) = {}
  <2>1. r = outbox
    BY <1>1 DEF Dropped
  <2>2. \A g \in Nat : id = <<"Generate", g>> => ~Holds(outbox, g)
    BY <1>1 DEF Holds, OfGen, Places, Id
  <2> QED BY <2>1, <2>2
<1>2. CASE Places(outbox, id) # {}
  <2>1. outbox \in Seq(PendingCommands) /\ Len(outbox) \in Nat /\ DOMAIN outbox = 1..Len(outbox)
    BY DEF Outboxes
  <2>2. k \in 1..Len(outbox) /\ Id(outbox[k]) = id
    <3>1. Places(outbox, id) \in SUBSET Nat /\ Places(outbox, id) \subseteq 1..Len(outbox)
      BY <2>1 DEF Places
    <3>2. k \in Places(outbox, id)
      BY <1>2, <3>1, FirstIsLeast
    <3> QED BY <3>1, <3>2 DEF Places
  <2>3. r = RemoveAt(outbox, k)
    BY <1>2 DEF Dropped
  <2> HIDE DEF k, r
  <2>4. /\ r \in Seq(PendingCommands)
        /\ Len(r) = Len(outbox) - 1
        /\ \A i \in 1..(Len(outbox) - 1) : r[i] = IF i < k THEN outbox[i] ELSE outbox[i + 1]
    BY <2>1, <2>2, <2>3, Removal
  <2> DEFINE at == [i \in DOMAIN r |-> IF i < k THEN i ELSE i + 1]
  <2>5. DOMAIN r = 1..(Len(outbox) - 1)
    BY <2>1, <2>4
  <2>6. \A i \in DOMAIN r : at[i] = IF i < k THEN i ELSE i + 1
    OBVIOUS
  <2> HIDE DEF at
  <2>7. \A i \in DOMAIN r : at[i] \in DOMAIN outbox /\ at[i] # k /\ r[i] = outbox[at[i]]
    BY <2>1, <2>2, <2>4, <2>5, <2>6
  <2>8. \A i, j \in DOMAIN r : at[i] = at[j] => i = j
    BY <2>2, <2>5, <2>6
  <2>9. \A g \in Nat : Holds(r, g) => Holds(outbox, g)
    BY <2>7 DEF Holds
  <2>10. Distinct(r)
    BY <2>7, <2>8 DEF Distinct
  <2>11. ASSUME NEW g \in Nat, id = <<"Generate", g>> PROVE ~Holds(r, g)
    <3>1. OfGen(outbox[k], g) /\ k \in DOMAIN outbox
      BY <2>1, <2>2, <2>11 DEF OfGen, Id
    <3> QED BY <2>7, <3>1 DEF Holds, Distinct
  <2> QED BY <2>9, <2>10, <2>11 DEF r
<1> QED BY <1>1, <1>2

\* Nothing but a new generation adds a Generate.
Adds(c, d) ==
    /\ d.gen = c.gen
    /\ \A g \in Nat : Holds(d.commands, g) => Holds(c.commands, g)
    /\ OutboxOnce(c) => OutboxOnce(d)

\* A command that is not a Generate.
LEMMA OtherAdds ==
  ASSUME NEW c \in Checkpoints, NEW d, NEW command \in PendingCommands,
         command.intent # "Generate", d.gen = c.gen, d.commands = Append(c.commands, command)
  PROVE  Adds(c, d)
<1>1. c.commands \in Outboxes
  BY DEF Checkpoints
<1>2. \A g \in Nat : ~OfGen(command, g)
  BY DEF OfGen
<1> QED BY <1>1, <1>2, LongerOutbox DEF Adds, OutboxOnce

\* A message is inserted.
LEMMA InsertedAdds ==
  ASSUME NEW c, Sound(c), NEW kind \in {"User", "External"}
  PROVE  Adds(c, Inserted(c, kind))
<1> DEFINE command == AppendCommand(c.revision + 1, Len(c.history) + 1, c.input + 1, "Submitted")
           d == Inserted(c, kind)
<1>1. /\ c \in Checkpoints /\ c.input \in Nat /\ c.revision \in Nat /\ Len(c.history) \in Nat
  BY OutboxType DEF Sound, Checkpoints
<1>2. command \in PendingCommands /\ command.intent = "Append"
  BY <1>1 DEF AppendCommand, PendingCommands, AppendCommands
<1>3. d.gen = c.gen /\ d.commands = Append(c.commands, command)
  BY <1>1 DEF Inserted, WithAppend, Checkpoints
<1> HIDE DEF d, command
<1> QED BY <1>1, <1>2, <1>3, OtherAdds DEF d

\* An entry is recorded.
LEMMA WithEntryAdds ==
  ASSUME NEW c, Sound(c), NEW entry \in Entries
  PROVE  Adds(c, WithEntry(c, entry))
<1> DEFINE command == AppendCommand(c.revision + 1, Len(c.history) + 1, c.input, "Accepted")
           d == WithEntry(c, entry)
<1>1. /\ c \in Checkpoints /\ c.input \in Nat /\ c.revision \in Nat /\ Len(c.history) \in Nat
  BY OutboxType DEF Sound, Checkpoints
<1>2. command \in PendingCommands /\ command.intent = "Append"
  BY <1>1 DEF AppendCommand, PendingCommands, AppendCommands
<1>3. d.gen = c.gen /\ d.commands = Append(c.commands, command)
  BY <1>1 DEF WithEntry, WithAppend, Checkpoints
<1> HIDE DEF d, command
<1> QED BY <1>1, <1>2, <1>3, OtherAdds DEF d

\* A checkpoint with the same outbox and generation.
LEMMA SameAdds ==
  ASSUME NEW c, NEW d, d.gen = c.gen, d.commands = c.commands
  PROVE  Adds(c, d)
BY DEF Adds, OutboxOnce

\* Two changes that add no Generate add none.
LEMMA AddsTwice ==
  ASSUME NEW c, NEW d, NEW e, Adds(c, d), Adds(d, e)
  PROVE  Adds(c, e)
BY DEF Adds

\* apply_event, with the history entry of the event.
LEMMA HandledAdds ==
  ASSUME NEW c, Sound(c), NEW e \in Events, OutboxOnce(c), Expected(c, e)
  PROVE  LET d == Recorded(Handled(c, e), e)
         IN  /\ Adds(c, d)
             /\ \A g \in Nat : e.kind = "Acknowledged" /\ e.id = <<"Generate", g>>
                                 => ~Holds(d.commands, g)
<1> DEFINE h == Handled(c, e)
           d == Recorded(h, e)
<1>1. /\ h.gen = c.gen
      /\ e.kind # "Acknowledged" => h.commands = c.commands
      /\ e.kind = "Acknowledged" => h.commands = Dropped(c.commands, e.id)
  BY HandledKeeps
<1>2. c.commands \in Outboxes /\ Distinct(c.commands)
  BY DEF Sound, Checkpoints, OutboxOnce
<1>3. Sound(h)
  BY HandledSound
<1> HIDE DEF h
<1>4. Adds(c, h)
  <2>1. CASE e.kind # "Acknowledged"
    BY <1>1, <2>1, SameAdds
  <2>2. CASE e.kind = "Acknowledged"
    BY <1>1, <1>2, <2>2, ShorterOutbox DEF Adds, OutboxOnce
  <2> QED BY <2>1, <2>2
<1>5. Adds(h, d)
  <2>1. CASE e.kind = "Output"
    <3>1. Entry("Output", e.gen, e.item) \in Entries
      BY <2>1, EventTypes DEF Entry, Entries
    <3> QED BY <1>3, <2>1, <3>1, WithEntryAdds DEF Recorded
  <2>2. CASE e.kind = "Finished"
    <3>1. Entry("Finished", e.gen, 0) \in Entries
      BY <2>2, EventTypes DEF Entry, Entries
    <3> QED BY <1>3, <2>2, <3>1, WithEntryAdds DEF Recorded
  <2>3. CASE e.kind \notin {"Output", "Finished"}
    BY <2>3, SameAdds DEF Recorded
  <2> QED BY <2>1, <2>2, <2>3
<1>6. ASSUME NEW g \in Nat, e.kind = "Acknowledged", e.id = <<"Generate", g>>
      PROVE  ~Holds(d.commands, g)
  <2>1. d = h
    BY <1>6 DEF Recorded
  <2> QED BY <1>1, <1>2, <1>6, <2>1, ShorterOutbox
<1> HIDE DEF d
<1> QED BY <1>4, <1>5, <1>6, AddsTwice DEF d, h

\* A new generation is beyond all there were.
LEMMA GeneratedAdds ==
  ASSUME NEW c, Sound(c), OutboxOnce(c)
  PROVE  LET d == Generated(c)
         IN  /\ d.gen = c.gen + 1 /\ OutboxOnce(d)
             /\ \A g \in Nat : Holds(d.commands, g) => Holds(c.commands, g) \/ g = c.gen + 1
<1> DEFINE d == Generated(c)
           command == GenerateCommand(d)
<1>1. /\ d.gen = c.gen + 1 /\ d.commands = Append(c.commands, command)
      /\ command \in GenerateCommands /\ command.n = c.gen + 1
  BY GeneratedKeeps
<1>2. c.commands \in Outboxes /\ c.gen \in Nat
  BY DEF Sound, Checkpoints
<1> HIDE DEF d, command
<1>3. command \in PendingCommands /\ \A g \in Nat : OfGen(command, g) => g = c.gen + 1
  BY <1>1 DEF PendingCommands, OfGen
<1>4. \A g \in Nat : Holds(c.commands, g) => g <= c.gen
  BY DEF OutboxOnce
<1>5. \A g \in Nat : Holds(d.commands, g) => Holds(c.commands, g) \/ g = c.gen + 1
  BY <1>1, <1>2, <1>3, LongerOutbox
<1>6. Distinct(d.commands)
  <2>1. \A g \in Nat : OfGen(command, g) => ~Holds(c.commands, g)
    BY <1>2, <1>3, <1>4
  <2> QED BY <1>1, <1>2, <1>3, <2>1, LongerOutbox DEF OutboxOnce
<1>7. OutboxOnce(d)
  BY <1>1, <1>2, <1>4, <1>5, <1>6 DEF OutboxOnce
<1> QED BY <1>1, <1>5, <1>7 DEF d

-----------------------------------------------------------------------------
\* Steps that move no generation

\* A generation that has not moved is where it was.
LEMMA NothingMoved ==
  ASSUME OnePlace, OnceEach, UNCHANGED asked, commands' = commands \/ commands' = <<>>,
         session' = session \/ session'.phase # "up" \/ session'.active = None,
         eng'.pc = "down" \/ (eng.pc # "down" /\ eng'.batch = eng.batch) \/ eng'.batch = <<>>
  PROVE  /\ OnePlace' /\ OnceEach'
         /\ \A g \in Nat : Passed(g)' => Passed(g)
<1>1. \A g \in Nat : ~Holds(<<>>, g) /\ Distinct(<<>>)
  BY DEF Holds, Distinct
<1>2. \A g \in Nat : InBatch(g)' => InBatch(g)
  BY <1>1 DEF InBatch
<1>3. \A g \in Nat : InQueue(g)' => InQueue(g)
  BY <1>1 DEF InQueue
<1>4. \A g \in Nat : InTask(g)' => InTask(g)
  BY DEF InTask, InCall
<1>5. \A g \in Nat : IsAsked(g)' = IsAsked(g)
  BY DEF IsAsked
<1>6. OnePlace'
  BY <1>2, <1>3, <1>4, <1>5 DEF OnePlace
<1>7. OnceEach'
  <2>1. 0 \in Nat
    OBVIOUS
  <2>2. Distinct(commands')
    BY <1>1, <2>1 DEF OnceEach
  <2>3. eng'.pc # "down" => Distinct(eng'.batch)
    BY <1>1, <2>1 DEF OnceEach
  <2>4. AskedOnce'
    BY DEF OnceEach, AskedOnce
  <2> QED BY <2>2, <2>3, <2>4 DEF OnceEach
<1> QED BY <1>2, <1>3, <1>4, <1>5, <1>6, <1>7 DEF Passed

\* The engine goes on and what it has sent stays sent.
LEMMA CarriedOn ==
  ASSUME Once, cp.gen \in Nat, UNCHANGED <<commands, asked>>,
         session' = session \/ session'.active = None,
         eng.pc # "down", eng'.pc # "down", eng'.batch = eng.batch,
         cp'.gen \in Nat, cp'.gen >= cp.gen, OutboxOnce(cp'), StagedOnce', OpensIdle',
         \A g \in Nat : IsNew(g)' => IsNew(g) \/ g > cp.gen
  PROVE  Once'
<1>1. OnePlace' /\ OnceEach' /\ \A g \in Nat : Passed(g)' => Passed(g)
  BY NothingMoved DEF Once
<1>2. NoneAhead'
  BY <1>1 DEF Once, NoneAhead
<1>3. UnsentIsNew'
  <2>1. \A g \in Nat : Passed(g)' => g <= cp.gen
    BY <1>1 DEF Once, NoneAhead
  <2>2. \A g \in Nat : g > cp.gen => ~(g <= cp.gen)
    OBVIOUS
  <2>3. ASSUME NEW g \in Nat, IsNew(g)' PROVE ~Passed(g)'
    <3>1. CASE IsNew(g)
      BY <1>1, <3>1 DEF Once, UnsentIsNew
    <3>2. CASE g > cp.gen
      BY <2>1, <2>2, <3>2
    <3> QED BY <2>3, <3>1, <3>2
  <2> QED BY <2>3 DEF UnsentIsNew
<1> QED BY <1>1, <1>2, <1>3 DEF Once

\* The engine leaves: nothing of the session remains.
LEMMA LeaveOnce ==
  ASSUME Once, NEW c, Leave(c), OutboxOnce(c), c.gen = cp.gen
  PROVE  Once'
<1>1. cp' = c /\ eng'.pc = "down" /\ session'.phase # "up" /\ commands' = <<>> /\ UNCHANGED asked
  BY DEF Leave, TearDown, Down, Absent
<1>2. OnePlace' /\ OnceEach' /\ \A g \in Nat : Passed(g)' => Passed(g)
  BY <1>1, NothingMoved DEF Once
<1>3. NoneAhead'
  BY <1>1, <1>2 DEF Once, NoneAhead
<1> QED BY <1>1, <1>2, <1>3 DEF Once, StagedOnce, UnsentIsNew, OpensIdle

\* A suspension, a failure, a cancellation or a limit keeps the outbox.
LEMMA StoppedOnce ==
  ASSUME Shape, Once
  PROVE  /\ Suspend => Once'
         /\ \A reason \in Failures : Fail(reason) => Once'
         /\ \A state \in RunStates : Leave([cp EXCEPT !.state = state]) => Once'
<1>1. cp \in Checkpoints /\ OutboxOnce(cp)
  BY DEF Shape, Sound, Once
<1>2. ASSUME NEW c, c.gen = cp.gen, c.commands = cp.commands, Leave(c) PROVE Once'
  BY <1>1, <1>2, LeaveOnce DEF OutboxOnce
<1>3. ASSUME NEW state \in RunStates, Leave([cp EXCEPT !.state = state]) PROVE Once'
  <2> DEFINE c == [cp EXCEPT !.state = state]
  <2>1. c.gen = cp.gen /\ c.commands = cp.commands
    BY <1>1 DEF Checkpoints
  <2> HIDE DEF c
  <2> QED BY <1>2, <1>3, <2>1 DEF c
<1>4. ASSUME NEW reason \in Failures, Fail(reason) PROVE Once'
  <2> DEFINE c == [cp EXCEPT !.state = "Failed", !.failure = reason]
  <2>1. c.gen = cp.gen /\ c.commands = cp.commands
    BY <1>1 DEF Checkpoints
  <2>2. Leave(c)
    BY <1>4 DEF Fail
  <2> HIDE DEF c
  <2> QED BY <1>2, <2>1, <2>2
<1>5. "Suspended" \in RunStates
  BY DEF RunStates
<1> QED BY <1>3, <1>4, <1>5 DEF Suspend

\* The engine commits a checkpoint that adds no Generate, outside a batch.
LEMMA CommittedOnce ==
  ASSUME Shape, Once, Adds(cp, cp'), UNCHANGED <<commands, session, asked>>,
         eng.pc \notin {"down", "batch"}, eng'.pc \notin {"down", "batch"},
         eng'.batch = eng.batch, eng'.sent = eng.sent, OpensIdle'
  PROVE  Once'
<1>1. cp.gen \in Nat /\ cp'.gen = cp.gen /\ OutboxOnce(cp')
  BY DEF Shape, Sound, Checkpoints, Adds, Once
<1>2. \A g \in Nat : IsNew(g)' => IsNew(g)
  BY DEF IsNew, Latest, Adds
<1> QED BY <1>1, <1>2, CarriedOn DEF StagedOnce

-----------------------------------------------------------------------------
\* The host

\* Controls add no Generate; an attaching engine takes those of the outbox for
\* sent.
LEMMA HostOnce ==
  ASSUME Shape, Once, Host \/ Crash
  PROVE  Once'
<1>0. Sound(cp) /\ cp \in Checkpoints /\ cp.commands \in Outboxes
  BY DEF Shape, Sound, Checkpoints
<1>1. ASSUME Serving, eng' = Served, UNCHANGED exchangeVars, Adds(cp, cp') PROVE Once'
  <2>1. eng \in UpEngines /\ eng.pc \in {"catalog", "opening", "idle"}
    BY <1>1, ServedShape DEF Serving
  <2>2. /\ eng'.pc = (IF eng.pc = "idle" THEN "dispatch" ELSE eng.pc) /\ eng'.batch = eng.batch
        /\ eng'.sent = eng.sent /\ eng'.open = eng.open
    BY <1>1, <2>1 DEF Served, UpEngines
  <2>3. OpensIdle'
    BY <2>1, <2>2 DEF Once, OpensIdle
  <2> QED BY <1>1, <2>1, <2>2, <2>3, CommittedOnce DEF exchangeVars
<1>2. ASSUME NEW kind \in InputKinds, ControlInput(kind) PROVE Once'
  <2>1. kind \in {"User", "External"} /\ cp' = Inserted(cp, kind) /\ Serving /\ eng' = Served
        /\ UNCHANGED exchangeVars
    BY <1>2, EngineConstants DEF ControlInput
  <2> QED BY <1>0, <1>1, <2>1, InsertedAdds
<1>3. ASSUME ControlPause PROVE Once'
  BY <1>3, StoppedOnce DEF ControlPause
<1>4. ASSUME Interrupt PROVE Once'
  BY <1>4, StoppedOnce DEF Interrupt, RunStates
<1>5. ASSUME ControlSeal PROVE Once'
  <2> DEFINE command == Plain("Seal", cp.seals + 1)
             c == Prepared(cp, command)
  <2>1. command \in PendingCommands /\ command.intent = "Seal"
    <3>1. cp.seals + 1 \in Nat
      BY <1>0 DEF Checkpoints
    <3> QED BY <3>1, CommandTypes DEF Plain
  <2>2. cp' = [c EXCEPT !.inputClosed = TRUE, !.seals = c.seals + 1] /\ Serving /\ eng' = Served
        /\ UNCHANGED exchangeVars
    BY <1>0, <1>5 DEF ControlSeal, Checkpoints, Prepared
  <2>3. c.gen = cp.gen /\ c.commands = Append(cp.commands, command)
    BY <1>0 DEF Prepared, Checkpoints
  <2> HIDE DEF c, command
  <2>4. cp'.gen = cp.gen /\ cp'.commands = Append(cp.commands, command)
    BY <2>2, <2>3
  <2> QED BY <1>0, <1>1, <2>1, <2>2, <2>4, OtherAdds
<1>6. ASSUME ControlProfile PROVE Once'
  <2> DEFINE n == cp.profile + Cardinality(Pending("Profile")) + 1
             command == Plain("Profile", n)
  <2>1. cp' = Prepared(cp, command) /\ Serving /\ eng' = Served /\ UNCHANGED exchangeVars
    BY <1>6 DEF ControlProfile
  <2>2. n \in Nat
    <3>1. cp.profile \in Nat
      BY <1>0 DEF Checkpoints
    <3>2. Cardinality(Pending("Profile")) \in Nat
      BY <1>0, PendingCount
    <3> QED BY <3>1, <3>2
  <2> HIDE DEF n
  <2>3. command \in PendingCommands /\ command.intent = "Profile"
    BY <2>2, CommandTypes DEF Plain
  <2> HIDE DEF command
  <2>4. cp'.gen = cp.gen /\ cp'.commands = Append(cp.commands, command)
    BY <1>0, <2>1 DEF Prepared, Checkpoints
  <2> QED BY <1>0, <1>1, <2>1, <2>3, <2>4, OtherAdds
<1>7. ASSUME NEW abandon, NEW message, Attach(abandon, message) PROVE Once'
  <2>1. /\ cp' = [cp EXCEPT !.state = "Running"] /\ eng.pc = "down" /\ UNCHANGED exchangeVars
        /\ eng'.pc = "catalog" /\ eng'.batch = <<>>
        /\ eng'.sent = {Id(cp.commands[i]) : i \in {j \in DOMAIN cp.commands :
                                                     SentDurably(cp.commands[j])}}
    BY <1>7 DEF Attach, Running
  <2>2. cp'.gen = cp.gen /\ cp'.commands = cp.commands
    BY <1>0, <2>1 DEF Checkpoints
  <2>3. OnePlace' /\ OnceEach' /\ \A g \in Nat : Passed(g)' => Passed(g)
    BY <2>1, NothingMoved DEF Once, exchangeVars
  <2>4. NoneAhead'
    BY <2>2, <2>3 DEF Once, NoneAhead
  <2>5. \A g \in Nat : ~IsNew(g)'
    <3>1. ASSUME NEW g \in Nat, NEW i \in DOMAIN cp.commands, OfGen(cp.commands[i], g)
          PROVE  <<"Generate", g>> \in eng'.sent
      <4>1. SentDurably(cp.commands[i]) /\ Id(cp.commands[i]) = <<"Generate", g>>
        BY <3>1 DEF OfGen, SentDurably, Id
      <4> QED BY <2>1, <4>1
    <3> QED BY <2>1, <2>2, <3>1 DEF IsNew, Latest, Holds
  <2> QED BY <2>1, <2>2, <2>3, <2>4, <2>5 DEF Once, StagedOnce, UnsentIsNew, OpensIdle, OutboxOnce
<1>8. CASE Crash
  <2>1. Leave(cp)
    BY <1>8 DEF Crash, Leave
  <2> QED BY <2>1, LeaveOnce DEF Once
<1> QED BY <1>2, <1>3, <1>4, <1>5, <1>6, <1>7, <1>8 DEF Host, Continue, Resume

-----------------------------------------------------------------------------
\* Attach, recovery and the loop

\* Recovery gives up a generation and inserts messages; it sends nothing.
LEMMA AttachOnce ==
  ASSUME Shape, Once, AttachStep
  PROVE  Once'
<1>0. /\ eng \in UpEngines /\ PlaceShape(eng) /\ eng.pc \notin {"down", "batch"}
      /\ Sound(cp) /\ cp \in Checkpoints /\ cp.gen \in Nat
  <2>1. eng.pc \notin {"down", "batch"}
    BY DEF AttachStep, CatalogOpened, Resolve, ResumeMessage, DecideRecovery, OpenModel,
           SessionOpened, OpenFails
  <2> QED BY <2>1, EngineTypes DEF Shape, Sound, Checkpoints
<1>1. ASSUME Adds(cp, cp'), UNCHANGED exchangeVars, eng'.pc \in {"open", "recover"},
             eng'.batch = eng.batch, eng'.sent = eng.sent
      PROVE  Once'
  BY <1>0, <1>1, CommittedOnce DEF OpensIdle, exchangeVars
<1>2. CASE CatalogOpened
  <2>1. /\ eng'.pc \in {"open", "recover"} /\ eng'.batch = eng.batch /\ eng'.sent = eng.sent
        /\ UNCHANGED <<cp, exchangeVars>>
    BY <1>0, <1>2 DEF CatalogOpened, UpEngines
  <2> QED BY <1>1, <2>1, SameAdds
<1>3. CASE Resolve
  <2>1. /\ cp' = Abandoned(cp) /\ UNCHANGED exchangeVars /\ eng.request \in Resumptions
        /\ eng.pc = "recover"
    BY <1>0, <1>3 DEF Resolve, PlaceShape
  <2>2. eng'.pc = "recover" /\ eng'.batch = eng.batch /\ eng'.sent = eng.sent
    <3> DEFINE r == [eng.request EXCEPT !.abandon = FALSE]
    <3>1. eng' = [eng EXCEPT !.request = r]
      BY <1>0, <1>3, <2>1 DEF Resolve, Resumptions
    <3> HIDE DEF r
    <3> QED BY <1>0, <2>1, <3>1 DEF UpEngines
  <2>3. cp'.gen = cp.gen /\ cp'.commands = Dropped(cp.commands, <<"Generate", cp.gen>>)
    BY <1>0, <2>1 DEF Abandoned, Checkpoints
  <2>4. Adds(cp, cp')
    <3>1. cp.commands \in Outboxes /\ OutboxOnce(cp)
      BY <1>0 DEF Checkpoints, Once
    <3> QED BY <2>3, <3>1, ShorterOutbox DEF Adds, OutboxOnce
  <2> QED BY <1>1, <2>1, <2>2, <2>4
<1>4. CASE ResumeMessage
  <2>1. eng.request \in Resumptions /\ eng.pc = "recover"
    BY <1>0, <1>4 DEF ResumeMessage, PlaceShape
  <2>2. CASE ~Insertable(cp, eng.request.message)
    BY <1>4, <2>2, StoppedOnce DEF ResumeMessage, Failures
  <2>3. CASE Insertable(cp, eng.request.message)
    <3>1. cp' = Inserted(cp, eng.request.message) /\ UNCHANGED exchangeVars
          /\ eng.request.message \in {"User", "External"}
      BY <1>4, <2>1, <2>3 DEF ResumeMessage, Resumptions
    <3>2. eng'.pc = "recover" /\ eng'.batch = eng.batch /\ eng'.sent = eng.sent
      <4> DEFINE r == [eng.request EXCEPT !.message = None]
      <4>1. eng' = [eng EXCEPT !.request = r]
        BY <1>4, <2>1, <2>3 DEF ResumeMessage, Resumptions
      <4> HIDE DEF r
      <4> QED BY <1>0, <2>1, <4>1 DEF UpEngines
    <3> QED BY <1>0, <1>1, <3>1, <3>2, InsertedAdds
  <2> QED BY <2>2, <2>3
<1>5. CASE DecideRecovery
  <2>1. CASE Suspend
    BY <2>1, StoppedOnce
  <2>2. CASE eng' = [eng EXCEPT !.pc = "open"] /\ UNCHANGED <<cp, exchangeVars>>
    <3>1. eng'.pc = "open" /\ eng'.batch = eng.batch /\ eng'.sent = eng.sent
      BY <1>0, <2>2 DEF UpEngines
    <3> QED BY <1>1, <2>2, <3>1, SameAdds
  <2> QED BY <1>5, <2>1, <2>2 DEF DecideRecovery
<1>6. CASE OpenModel
  <2> DEFINE t == SessionTask(SubSeq(cp.history, 1, SeedEnd(cp)), cp.ack,
                                SeedPosition(cp), cp.profile)
  <2>1. eng' = [eng EXCEPT !.pc = "opening", !.open = t] /\ UNCHANGED <<cp, exchangeVars>>
    BY <1>6 DEF OpenModel
  <2>2. t.active = None
    BY DEF SessionTask
  <2> HIDE DEF t
  <2>3. eng'.pc = "opening" /\ eng'.batch = eng.batch /\ eng'.open = t /\ eng'.sent = eng.sent
    BY <1>0, <2>1 DEF UpEngines
  <2> QED BY <1>0, <2>1, <2>2, <2>3, CommittedOnce, SameAdds DEF OpensIdle, exchangeVars
<1>7. CASE SessionOpened
  <2>1. /\ cp' = [cp EXCEPT !.ready = FALSE, !.cursor = None] /\ session' = eng.open
        /\ eng.pc = "opening" /\ UNCHANGED <<commands, work, asked>>
    BY <1>7 DEF SessionOpened
  <2>2. eng'.pc = "dispatch" /\ eng'.batch = eng.batch /\ eng'.sent = eng.sent
    BY <1>0, <1>7 DEF SessionOpened, UpEngines
  <2>3. cp'.gen = cp.gen /\ cp'.commands = cp.commands
    BY <1>0, <2>1 DEF Checkpoints
  <2>4. OutboxOnce(cp') /\ session'.active = None
    BY <2>1, <2>3 DEF Once, OutboxOnce, OpensIdle
  <2>5. \A g \in Nat : IsNew(g)' => IsNew(g)
    BY <2>1, <2>2, <2>3 DEF IsNew, Latest
  <2> QED BY <1>0, <2>1, <2>2, <2>3, <2>4, <2>5, CarriedOn DEF StagedOnce, OpensIdle
<1>8. CASE OpenFails
  BY <1>8, StoppedOnce DEF OpenFails, Failures
<1> QED BY <1>2, <1>3, <1>4, <1>5, <1>6, <1>7, <1>8 DEF AttachStep

\* What a command carries is of the same generation.
LEMMA BodyOfGen ==
  ASSUME Sound(cp), NEW i \in DOMAIN cp.commands, NEW g
  PROVE  OfGen(Body(cp.commands[i]), g) <=> OfGen(cp.commands[i], g)
<1>1. Id(Body(cp.commands[i])) = Id(cp.commands[i])
  BY BodyType
<1> QED BY <1>1 DEF Id, OfGen

\* dispatch_commands: a Generate leaves the outbox once, and goes alone.
LEMMA DispatchOnce ==
  ASSUME Shape, Once, Dispatch
  PROVE  Once'
<1>0. eng \in UpEngines /\ eng.pc = "dispatch" /\ Sound(cp) /\ cp.gen \in Nat
      /\ UNCHANGED <<cp, exchangeVars>>
  BY EngineTypes DEF Shape, Sound, Checkpoints, Dispatch
<1>1. CASE eng.sending \/ ~cp.ready \/ Unsent = {}
  <2>1. eng'.pc = "advance" /\ eng'.batch = eng.batch /\ eng'.sent = eng.sent
    BY <1>0, <1>1 DEF Dispatch, UpEngines
  <2> QED BY <1>0, <2>1, CommittedOnce, SameAdds DEF OpensIdle, exchangeVars
<1>2. CASE ~(eng.sending \/ ~cp.ready \/ Unsent = {})
  <2> DEFINE batch == [i \in Sendable |-> Body(cp.commands[i])]
             sent == eng.sent \cup {Id(cp.commands[i]) : i \in Sendable}
  <2>1. eng'.pc = "advance" /\ eng'.batch = batch /\ eng'.sent = sent
    BY <1>0, <1>2 DEF Dispatch, UpEngines
  <2>2. /\ Sendable \subseteq Unsent /\ Sendable \subseteq DOMAIN cp.commands
        /\ \A i, j \in Sendable : SentDurably(cp.commands[i]) => i = j
    BY <1>0, <1>2, SendableTypes
  <2>3. ASSUME NEW g \in Nat, Holds(batch, g)
        PROVE  Holds(cp.commands, g) /\ IsNew(g) /\ <<"Generate", g>> \in sent
    <3>1. PICK i \in Sendable : OfGen(cp.commands[i], g)
      BY <1>0, <2>2, <2>3, BodyOfGen DEF Holds
    <3>2. Id(cp.commands[i]) = <<"Generate", g>> /\ i \in Unsent
      BY <2>2, <3>1 DEF OfGen, Id
    <3>3. <<"Generate", g>> \in sent /\ <<"Generate", g>> \notin eng.sent
      BY <3>1, <3>2 DEF Unsent
    <3> QED BY <1>0, <2>2, <3>1, <3>3 DEF IsNew, Latest, Holds
  <2>4. Distinct(batch)
    BY <1>0, <2>2, BodyOfGen DEF Distinct, OfGen, SentDurably
  <2> HIDE DEF batch, sent
  <2>5. \A g \in Nat : /\ InBatch(g)' => ~Passed(g) /\ Holds(cp.commands, g)
                          /\ <<"Generate", g>> \in sent
                       /\ InQueue(g)' = InQueue(g) /\ InTask(g)' = InTask(g)
                       /\ IsAsked(g)' = IsAsked(g)
    <3>1. \A g \in Nat : IsNew(g) => ~Passed(g)
      BY <1>0 DEF Once, UnsentIsNew
    <3> QED BY <1>0, <2>1, <2>3, <3>1 DEF InBatch, InQueue, InTask, IsAsked, exchangeVars
  <2>6. OnePlace'
    BY <2>5 DEF Once, OnePlace, Passed
  <2>7. OnceEach'
    BY <1>0, <2>1, <2>4 DEF Once, OnceEach, AskedOnce, exchangeVars
  <2>8. NoneAhead'
    BY <1>0, <2>5 DEF Once, NoneAhead, Passed, OutboxOnce
  <2>9. UnsentIsNew'
    <3>1. ASSUME NEW g \in Nat, IsNew(g)' PROVE ~Passed(g)'
      <4>1. Holds(cp.commands, g) /\ <<"Generate", g>> \notin sent
            /\ <<"Generate", g>> \notin eng.sent
        BY <1>0, <2>1, <3>1 DEF IsNew, Latest, sent
      <4>2. ~Passed(g)
        BY <1>0, <4>1 DEF Once, UnsentIsNew, IsNew, Latest
      <4> QED BY <2>5, <4>1, <4>2 DEF Passed
    <3> QED BY <3>1 DEF UnsentIsNew
  <2> QED BY <1>0, <2>1, <2>6, <2>7, <2>8, <2>9 DEF Once, OutboxOnce, StagedOnce, OpensIdle
<1> QED BY <1>1, <1>2

\* A pass of the loop: a new generation is beyond all before it.
LEMMA LoopOnce ==
  ASSUME Shape, Once, LoopStep
  PROVE  Once'
<1>0. /\ eng \in UpEngines /\ eng.pc \in {"dispatch", "advance"} /\ Sound(cp) /\ cp \in Checkpoints
      /\ cp.gen \in Nat /\ cp.commands \in Outboxes /\ eng.pc \notin {"down", "batch"}
  <2>1. eng.pc \in {"dispatch", "advance"}
    BY DEF LoopStep, Dispatch, RequestsExhausted, Reduce, Generate, PrepareClose, Complete, Rest,
           Advancing
  <2> QED BY <2>1, EngineTypes DEF Shape, Sound, Checkpoints
<1>1. ASSUME NEW c, Pass(c)
      PROVE  /\ cp' = c /\ eng'.pc = "dispatch" /\ eng'.batch = eng.batch /\ eng'.sent = eng.sent
             /\ UNCHANGED exchangeVars
             /\ Adds(cp, c) => Once'
  <2>1. cp' = c /\ eng'.pc = "dispatch" /\ eng'.batch = eng.batch /\ eng'.sent = eng.sent
        /\ UNCHANGED exchangeVars
    BY <1>0, <1>1 DEF Pass, UpEngines
  <2> QED BY <1>0, <2>1, CommittedOnce DEF OpensIdle, exchangeVars
<1>2. CASE RequestsExhausted
  BY <1>2, StoppedOnce DEF RequestsExhausted, RunStates
<1>3. CASE Complete
  BY <1>3, StoppedOnce DEF Complete, RunStates
<1>4. CASE Rest
  <2>1. UNCHANGED <<cp, exchangeVars>> /\ eng'.pc = "idle" /\ eng'.batch = eng.batch
        /\ eng'.sent = eng.sent
    BY <1>0, <1>4 DEF Rest, UpEngines
  <2> QED BY <1>0, <2>1, CommittedOnce, SameAdds DEF OpensIdle, exchangeVars
<1>5. CASE Reduce
  <2> DEFINE n == cp.revision + 1
             h == <<Entry("Summary", n, 0)>>
             o == Append(cp.commands, Plain("Replace", n))
             c == [cp EXCEPT !.history = h, !.start = 1, !.revision = n, !.reduced = n,
                              !.commands = o]
  <2>1. Pass(c)
    BY <1>5 DEF Reduce
  <2>2. Plain("Replace", n) \in PendingCommands /\ Plain("Replace", n).intent # "Generate"
    <3>1. n \in Nat
      BY <1>0 DEF Checkpoints
    <3> QED BY <3>1, CommandTypes DEF Plain
  <2> HIDE DEF h, o, n
  <2>3. c.gen = cp.gen /\ c.commands = o
    BY <1>0 DEF Checkpoints
  <2> HIDE DEF c
  <2>4. Adds(cp, c)
    BY <1>0, <2>2, <2>3, OtherAdds DEF o
  <2> QED BY <1>1, <2>1, <2>4
<1>6. CASE PrepareClose
  <2> DEFINE command == Plain("Close", 1)
             c == Prepared(cp, command)
             d == [c EXCEPT !.closing = TRUE]
  <2>1. Pass(d)
    BY <1>6 DEF PrepareClose
  <2>2. command \in PendingCommands /\ command.intent # "Generate"
    BY CommandTypes DEF Plain
  <2> HIDE DEF command
  <2>3. c.gen = cp.gen /\ c.commands = Append(cp.commands, command)
    BY <1>0 DEF Prepared, Checkpoints
  <2> HIDE DEF c
  <2>4. d.gen = cp.gen /\ d.commands = Append(cp.commands, command)
    BY <2>3
  <2> HIDE DEF d
  <2>5. Adds(cp, d)
    BY <1>0, <2>2, <2>4, OtherAdds
  <2> QED BY <1>1, <2>1, <2>5
<1>7. CASE Generate
  <2>1. Pass(Generated(cp))
    BY <1>7 DEF Generate
  <2>2. cp' = Generated(cp) /\ eng'.pc = "dispatch" /\ eng'.batch = eng.batch
        /\ eng'.sent = eng.sent
        /\ UNCHANGED exchangeVars
    BY <1>1, <2>1
  <2>3. /\ cp'.gen = cp.gen + 1 /\ OutboxOnce(cp')
        /\ \A g \in Nat : Holds(cp'.commands, g) => Holds(cp.commands, g) \/ g = cp.gen + 1
    BY <1>0, <2>2, GeneratedAdds DEF Once
  <2>4. \A g \in Nat : IsNew(g)' => IsNew(g) \/ g > cp.gen
    BY <1>0, <2>2, <2>3 DEF IsNew, Latest
  <2>5. cp'.gen \in Nat /\ cp'.gen >= cp.gen
    BY <1>0, <2>3
  <2> QED BY <1>0, <2>2, <2>3, <2>4, <2>5, CarriedOn DEF StagedOnce, OpensIdle, exchangeVars
<1> QED BY <1>2, <1>3, <1>4, <1>5, <1>6, <1>7, DispatchOnce DEF LoopStep

-----------------------------------------------------------------------------
\* The task that submits, and the work received

\* control.submit: the command leaves the batch and joins the queue.
LEMMA SubmitOnce ==
  ASSUME Shape, Once, SubmitStep
  PROVE  Once'
<1>0. eng \in UpEngines /\ eng.pc # "down" /\ commands \in Seq(Carried) /\ cp.gen \in Nat
  BY EngineTypes DEF Shape, Sound, Checkpoints, SubmitStep, Submit, ReportSent
<1>1. CASE ReportSent
  <2>1. UNCHANGED <<cp, eng, commands, session, asked>>
    BY <1>1 DEF ReportSent
  <2> QED BY <1>0, <2>1, CarriedOn DEF Once, OutboxOnce, StagedOnce, OpensIdle, IsNew, Latest
<1>2. CASE Submit
  <2> DEFINE next == FirstOf(DOMAIN eng.batch)
             command == eng.batch[next]
             batch == [i \in DOMAIN eng.batch \ {next} |-> eng.batch[i]]
  <2>1. /\ commands' = Append(commands, command) /\ eng' = [eng EXCEPT !.batch = batch]
        /\ UNCHANGED <<cp, work, session, asked>>
    BY <1>2 DEF Submit
  <2>2. next \in DOMAIN eng.batch /\ command \in Carried
    BY <1>0, <1>2, EngineTypes, BatchTypes DEF Submit
  <2> HIDE DEF next
  <2>3. DOMAIN batch = DOMAIN eng.batch \ {next} /\ \A i \in DOMAIN batch : batch[i] = eng.batch[i]
    OBVIOUS
  <2> HIDE DEF batch
  <2>4. /\ eng'.pc = eng.pc /\ eng'.batch = batch /\ eng'.sent = eng.sent /\ eng'.open = eng.open
        /\ eng'.staged = eng.staged
    BY <1>0, <2>1 DEF UpEngines
  <2>5. /\ \A i \in DOMAIN commands' : i = Len(commands) + 1 \/ i \in DOMAIN commands
        /\ commands'[Len(commands) + 1] = command /\ Len(commands) + 1 \in DOMAIN commands'
        /\ \A i \in DOMAIN commands : commands'[i] = commands[i] /\ i \in DOMAIN commands'
    BY <1>0, <2>1, <2>2
  <2>6. \A g \in Nat : /\ OfGen(command, g) => InBatch(g)
                       /\ InBatch(g)' => InBatch(g) /\ ~OfGen(command, g)
                       /\ InQueue(g)' => InQueue(g) \/ OfGen(command, g)
                       /\ InTask(g)' = InTask(g) /\ IsAsked(g)' = IsAsked(g)
    <3>1. \A g \in Nat : OfGen(command, g) => InBatch(g)
      BY <1>0, <2>2 DEF InBatch, Holds
    <3>2. \A g \in Nat : InBatch(g)' => InBatch(g)
      BY <1>0, <2>3, <2>4 DEF InBatch, Holds
    <3>3. \A g \in Nat : InBatch(g)' => ~OfGen(command, g)
      <4>1. Distinct(eng.batch)
        BY <1>0 DEF Once, OnceEach
      <4> QED BY <2>2, <2>3, <2>4, <4>1 DEF InBatch, Holds, Distinct
    <3>4. \A g \in Nat : InQueue(g)' => InQueue(g) \/ OfGen(command, g)
      BY <2>5 DEF InQueue, Holds
    <3>5. \A g \in Nat : InTask(g)' = InTask(g) /\ IsAsked(g)' = IsAsked(g)
      BY <2>1 DEF InTask, IsAsked
    <3> QED BY <3>1, <3>2, <3>3, <3>4, <3>5
  <2>7. OnePlace'
    BY <2>6 DEF Once, OnePlace
  <2>8. OnceEach'
    <3>1. Distinct(eng'.batch)
      BY <1>0, <2>3, <2>4 DEF Once, OnceEach, Distinct
    <3>2. Distinct(commands')
      <4>1. \A g \in Nat : OfGen(command, g) => ~Holds(commands, g)
        BY <2>6 DEF Once, OnePlace, InQueue
      <4>2. Distinct(commands)
        BY DEF Once, OnceEach
      <4> HIDE DEF command
      <4> QED BY <2>5, <4>1, <4>2 DEF Distinct, Holds
    <3> QED BY <2>1, <3>1, <3>2 DEF Once, OnceEach, AskedOnce
  <2>9. \A g \in Nat : Passed(g)' => Passed(g)
    BY <2>6 DEF Passed
  <2>10. NoneAhead' /\ UnsentIsNew'
    BY <1>0, <2>1, <2>4, <2>9 DEF Once, NoneAhead, UnsentIsNew, IsNew, Latest
  <2> QED BY <2>1, <2>4, <2>7, <2>8, <2>10 DEF Once, OutboxOnce, StagedOnce, OpensIdle
<1> QED BY <1>1, <1>2 DEF SubmitStep

\* collect: an acknowledged Generate leaves the staged outbox.
LEMMA CollectOnce ==
  ASSUME Shape, Once, Collect
  PROVE  Once'
<1> DEFINE item == Head(work)
<1>1. Collecting /\ work # <<>> /\ item \in Items /\ item.type = "Event" /\ item.sequence \in Nat
      /\ item.body \in Events
  BY QueueTypes, ItemTypes DEF Collect, NextIsEvent, Shape
<1>2. /\ eng \in UpEngines /\ PlaceShape(eng) /\ Staged \in Stagings /\ Sound(Staged.cp)
      /\ eng.pc \in {"batch", "idle"} /\ eng.pc # "down" /\ cp.gen \in Nat
  BY <1>1, StagedShape DEF Collecting, Shape, Sound, Checkpoints
<1>3. Latest = Staged.cp /\ OutboxOnce(Latest) /\ Latest.gen = cp.gen
  <2>1. CASE eng.pc = "batch"
    BY <2>1 DEF Latest, Staged, Once, StagedOnce
  <2>2. CASE eng.pc = "idle"
    BY <1>1, <2>2, StagedShape DEF Latest, Once
  <2> QED BY <1>2, <2>1, <2>2
<1>4. CASE ~Fresh(cp, item)
  <2>1. UNCHANGED <<cp, commands, session, asked>>
        /\ eng' = [eng EXCEPT !.pc = IF eng.pc = "idle" THEN "dispatch" ELSE eng.pc]
    BY <1>2, <1>4 DEF Collect, UpEngines
  <2>2. /\ eng'.pc = (IF eng.pc = "idle" THEN "dispatch" ELSE eng.pc) /\ eng'.batch = eng.batch
        /\ eng'.staged = eng.staged /\ eng'.sent = eng.sent
    BY <1>2, <2>1 DEF UpEngines
  <2>3. \A g \in Nat : IsNew(g)' => IsNew(g)
    BY <1>2, <2>1, <2>2 DEF IsNew, Latest
  <2> QED BY <1>2, <2>1, <2>2, <2>3, CarriedOn DEF Once, OutboxOnce, StagedOnce, OpensIdle
<1>5. CASE Fresh(cp, item) /\ Expected(Staged.cp, item.body)
  <2> DEFINE staged == StagedWith(item)
             sent == IF item.body.kind = "Acknowledged" THEN eng.sent \ {item.body.id} ELSE eng.sent
             c == [Staged.cp EXCEPT !.cursor = item.sequence]
  <2>1. eng' = [eng EXCEPT !.pc = "batch", !.staged = staged, !.sent = sent]
        /\ UNCHANGED <<cp, commands, session, asked>>
    BY <1>2, <1>5 DEF Collect, UpEngines
  <2>2. Sound(c) /\ Adds(Staged.cp, c) /\ Expected(c, item.body)
    <3>1. c.gen = Staged.cp.gen /\ c.commands = Staged.cp.commands
      BY <1>2 DEF Sound, Checkpoints
    <3>2. Adds(Staged.cp, c)
      BY <3>1, SameAdds
    <3> QED BY <1>1, <1>2, <1>5, <3>2, FieldsSound, ExpectedCursor
  <2>3. staged.cp = Recorded(Handled(c, item.body), item.body)
    BY DEF StagedWith
  <2> HIDE DEF c, staged
  <2>4. /\ Adds(c, staged.cp)
        /\ \A g \in Nat : item.body.kind = "Acknowledged" /\ item.body.id = <<"Generate", g>>
                            => ~Holds(staged.cp.commands, g)
    <3>1. OutboxOnce(c)
      BY <1>3, <2>2 DEF Adds
    <3> QED BY <1>1, <2>2, <2>3, <3>1, HandledAdds
  <2>5. Adds(Latest, staged.cp)
    BY <1>3, <2>2, <2>4, AddsTwice
  <2> HIDE DEF sent
  <2>6. eng'.pc = "batch" /\ eng'.batch = eng.batch /\ eng'.staged = staged /\ eng'.sent = sent
    BY <1>2, <2>1 DEF UpEngines
  <2>7. \A g \in Nat : IsNew(g)' => IsNew(g)
    BY <2>4, <2>5, <2>6 DEF IsNew, Latest, Adds, sent
  <2>8. StagedOnce'
    BY <1>3, <2>1, <2>5, <2>6 DEF StagedOnce, Adds, OutboxOnce
  <2> QED BY <1>2, <2>1, <2>6, <2>7, <2>8, CarriedOn DEF Once, OutboxOnce, OpensIdle
<1>6. CASE Fresh(cp, item) /\ ~Expected(Staged.cp, item.body)
  <2>1. CASE eng.pc = "idle"
    BY <1>6, <2>1, StoppedOnce DEF Collect, Failures
  <2>2. CASE eng.pc # "idle"
    <3>1. eng.pc = "batch" /\ eng.staged \in Stagings
      BY <1>2, <2>2 DEF PlaceShape
    <3> DEFINE staged == [eng.staged EXCEPT !.next = "failing"]
    <3>2. eng' = [eng EXCEPT !.staged = staged] /\ UNCHANGED <<cp, exchangeVars>>
      BY <1>6, <2>2 DEF Collect
    <3>3. staged.cp = eng.staged.cp
      BY <3>1 DEF Stagings
    <3> HIDE DEF staged
    <3>4. eng'.pc = "batch" /\ eng'.batch = eng.batch /\ eng'.staged.cp = eng.staged.cp
          /\ eng'.sent = eng.sent
      BY <1>2, <3>1, <3>2, <3>3 DEF UpEngines
    <3>5. \A g \in Nat : IsNew(g)' => IsNew(g)
      BY <3>1, <3>2, <3>4 DEF IsNew, Latest
    <3> QED BY <1>2, <3>1, <3>2, <3>4, <3>5, CarriedOn
            DEF Once, OutboxOnce, StagedOnce, OpensIdle, exchangeVars
  <2> QED BY <2>1, <2>2
<1> QED BY <1>4, <1>5, <1>6

\* The batch is committed, other work is handled.
LEMMA WorkOnce ==
  ASSUME Shape, Once, WorkStep
  PROVE  Once'
<1>0. Sound(cp) /\ cp.gen \in Nat
  BY DEF Shape, Sound, Checkpoints
<1>1. CASE CommitBatch
  <2>1. eng.pc = "batch" /\ eng \in UpEngines /\ OutboxOnce(eng.staged.cp)
        /\ eng.staged.cp.gen = cp.gen /\ eng.staged.next \in {"dispatch", "suspending", "failing"}
    <3>1. eng.pc = "batch" /\ eng.pc # "down"
      BY <1>1 DEF CommitBatch
    <3> QED BY <3>1, EngineTypes DEF Shape, PlaceShape, Stagings, Once, StagedOnce
  <2>2. CASE eng.staged.cp.state # "Running"
    BY <1>1, <2>1, <2>2, LeaveOnce DEF CommitBatch
  <2>3. CASE eng.staged.cp.state = "Running"
    <3>1. /\ cp' = eng.staged.cp /\ UNCHANGED <<commands, session, asked>>
          /\ eng'.pc = eng.staged.next /\ eng'.batch = eng.batch /\ eng'.sent = eng.sent
      BY <1>1, <2>1, <2>3 DEF CommitBatch, UpEngines
    <3>2. \A g \in Nat : IsNew(g)' => IsNew(g)
      BY <2>1, <3>1 DEF IsNew, Latest
    <3> QED BY <1>0, <2>1, <3>1, <3>2, CarriedOn DEF StagedOnce, OpensIdle
  <2> QED BY <2>2, <2>3
<1>2. ASSUME NEW type, Receives(type), NEW e \in {eng, [eng EXCEPT !.sending = FALSE]}, Handle(e)
      PROVE  Once'
  <2>1. eng \in UpEngines /\ eng.pc = "idle"
    BY <1>2, EngineTypes DEF Shape, Receives
  <2>2. e \in UpEngines /\ e.batch = eng.batch /\ e.sent = eng.sent
    BY <1>2, <2>1 DEF UpEngines
  <2>3. eng'.pc = "dispatch" /\ eng'.batch = eng.batch /\ eng'.sent = eng.sent
        /\ UNCHANGED <<cp, commands, session, asked>>
    BY <1>2, <2>2 DEF Handle, UpEngines
  <2> QED BY <2>1, <2>3, CommittedOnce, SameAdds DEF OpensIdle
<1>3. CASE SuspendAfterBatch
  BY <1>3, StoppedOnce DEF SuspendAfterBatch, Failures
<1>4. CASE CommandSent
  BY <1>2, <1>4, StoppedOnce DEF CommandSent
<1>5. CASE ModelEnded
  <2>1. (Handle(eng) \/ Suspend \/ Fail("model") \/ Fail("protocol")) /\ Receives("Ended")
    BY <1>5 DEF ModelEnded
  <2> QED BY <1>2, <2>1, StoppedOnce DEF Failures
<1> QED BY <1>1, <1>3, <1>4, <1>5, CollectOnce DEF WorkStep

-----------------------------------------------------------------------------
\* The session

\* The top of the session's loop starts no call and forgets none.
LEMMA StageSameCall ==
  ASSUME NEW s \in UpSessions, Stage(s).phase = "up"
  PROVE  Stage(s).active = s.active /\ Stage(s).generating = s.generating
<1>1. CASE s.sending # None
  BY <1>1 DEF Stage
<1>2. CASE s.sending = None /\ s.controls # <<>>
  <2> DEFINE h == Head(s.controls)
             r == Tail(s.controls)
  <2>1. Stage(s) = [s EXCEPT !.sending = h, !.controls = r]
    BY <1>2 DEF Stage
  <2> HIDE DEF h, r
  <2> QED BY <2>1 DEF UpSessions
<1>3. CASE s.sending = None /\ s.controls = <<>> /\ s.finishing # <<>>
  <2> DEFINE h == Head(s.finishing)
             r == Tail(s.finishing)
  <2>1. Stage(s) = [s EXCEPT !.sending = h, !.finishing = r]
    BY <1>3 DEF Stage
  <2> HIDE DEF h, r
  <2> QED BY <2>1 DEF UpSessions
<1>4. CASE s.sending = None /\ s.controls = <<>> /\ s.finishing = <<>>
  BY <1>4 DEF Stage, Ended
<1> QED BY <1>1, <1>2, <1>3, <1>4

\* A step of the session keeps the invariant when generations only move on.
LEMMA MovedOn ==
  ASSUME Once, UNCHANGED <<cp, eng>>, OnePlace', OnceEach', \A g \in Nat : Passed(g)' => Passed(g)
  PROVE  Once'
<1>1. NoneAhead' /\ UnsentIsNew'
  BY DEF Once, NoneAhead, UnsentIsNew, IsNew, Latest
<1> QED BY <1>1 DEF Once, OutboxOnce, StagedOnce, OpensIdle

\* Deliver: ResponseStarted turns the waiting call into a call made.
LEMMA DeliverOnce ==
  ASSUME Shape, Once, Deliver, UNCHANGED <<cp, eng>>
  PROVE  Once'
<1> DEFINE e == session.sending
           t == SentOff(session)
           starts == e.kind = "Started"
<1>1. session \in UpSessions /\ CallOrder(session) /\ e # None /\ session.phase = "up"
  BY UpIsUp DEF Shape, Deliver
<1>2. /\ t \in UpSessions /\ t.active = session.active
      /\ t.generating = (session.generating \/ starts) /\ (starts => session.active \in Calls)
  BY <1>1, SentOffOrder
<1>3. session' = Stage(t) /\ commands' = commands
  BY DEF Deliver, SentOff
<1> HIDE DEF t
<1>4. session'.phase = "up" => session'.active = session.active
                               /\ session'.generating = (session.generating \/ starts)
  BY <1>2, <1>3, StageSameCall
<1>5. \A g \in Nat : /\ InTask(g)' => InTask(g) /\ ~starts
                     /\ InBatch(g)' = InBatch(g) /\ InQueue(g)' = InQueue(g)
  BY <1>1, <1>3, <1>4 DEF InTask, InCall, InBatch, InQueue
<1>6. CASE ~starts
  <2>1. asked' = asked
    BY <1>6 DEF Deliver
  <2>2. \A g \in Nat : IsAsked(g)' = IsAsked(g)
    BY <2>1 DEF IsAsked
  <2>3. OnePlace' /\ \A g \in Nat : Passed(g)' => Passed(g)
    BY <1>5, <2>2 DEF Once, OnePlace, Passed
  <2>4. OnceEach'
    BY <1>3, <2>1 DEF Once, OnceEach, AskedOnce
  <2> QED BY <2>3, <2>4, MovedOn
<1>7. CASE starts
  <2> DEFINE n == session.active.gen
             call == [gen |-> n, content |-> session.active.content]
  <2>1. asked' = Append(asked, call) /\ call.gen = n /\ n \in Nat
        /\ call \in [gen : Nat, content : Histories]
    BY <1>2, <1>7, CallsAreCalls DEF Deliver
  <2>2. InTask(n)
    BY <1>1, <1>2, <1>7, CallsAreCalls DEF CallOrder, StartPending, Sends, InTask, InCall
  <2> HIDE DEF call, n
  <2>3. /\ \A i \in DOMAIN asked' : i = Len(asked) + 1
                                  \/ (i \in DOMAIN asked /\ asked'[i] = asked[i])
        /\ asked'[Len(asked) + 1] = call
    BY <2>1 DEF Shape
  <2>4. \A g \in Nat : IsAsked(g)' => IsAsked(g) \/ g = n
    BY <2>1, <2>3 DEF IsAsked
  <2>5. ~IsAsked(n)
    BY <2>1, <2>2 DEF Once, OnePlace
  <2>6. OnePlace' /\ \A g \in Nat : Passed(g)' => Passed(g)
    BY <1>5, <1>7, <2>1, <2>2, <2>4 DEF Once, OnePlace, Passed
  <2>7. AskedOnce'
    <3>1. ASSUME NEW i \in DOMAIN asked', NEW j \in DOMAIN asked', asked'[i].gen = asked'[j].gen
          PROVE  i = j
      BY <2>1, <2>3, <2>5, <3>1 DEF IsAsked, Once, OnceEach, AskedOnce
    <3> QED BY <3>1 DEF AskedOnce
  <2>8. OnceEach'
    BY <1>3, <2>7 DEF Once, OnceEach
  <2> QED BY <2>6, <2>8, MovedOn
<1> QED BY <1>6, <1>7

\* Command: a Generate leaves the queue for the session's call.
LEMMA CommandOnce ==
  ASSUME Shape, Once, Command, UNCHANGED <<cp, eng>>
  PROVE  Once'
<1> DEFINE c == Head(commands)
<1>1. /\ session \in UpSessions /\ CallOrder(session) /\ session.controls = <<>>
      /\ session.sending # None => OfResponse(session.sending)
      /\ session.phase = "up" /\ commands # <<>> /\ commands' = Tail(commands) /\ asked' = asked
      /\ commands \in Seq(Carried)
  BY UpIsUp DEF Shape, Command
<1>2. /\ c \in Carried /\ c = commands[1] /\ 1 \in DOMAIN commands
      /\ \A i \in DOMAIN commands' : /\ i + 1 \in DOMAIN commands /\ i \in Nat /\ i + 1 # 1
                                     /\ commands'[i] = commands[i + 1]
  BY <1>1
<1>3. \A i, j \in DOMAIN commands' : i + 1 = j + 1 => i = j
  BY <1>2
<1>4. Distinct(commands)
  BY DEF Once, OnceEach
<1> HIDE DEF c
<1>5. /\ Distinct(commands')
      /\ \A g \in Nat : InQueue(g)' => InQueue(g) /\ ~OfGen(c, g)
      /\ \A g \in Nat : OfGen(c, g) => InQueue(g)
  <2>1. Distinct(commands')
    BY <1>2, <1>3, <1>4 DEF Distinct
  <2>2. \A g \in Nat : InQueue(g)' => InQueue(g) /\ ~OfGen(c, g)
    BY <1>2, <1>4 DEF InQueue, Holds, Distinct
  <2>3. \A g \in Nat : OfGen(c, g) => InQueue(g)
    BY <1>2 DEF InQueue, Holds
  <2> QED BY <2>1, <2>2, <2>3
<1>6. \A g \in Nat : InTask(g)' => InTask(g) \/ (OfGen(c, g) /\ session.active = None)
  <2>1. CASE Accepts(session, c)
    <3> DEFINE t == Commanded(session, c)
    <3>1. session' = Stage(t)
      BY <2>1 DEF Command, Commanded, c
    <3>2. /\ t \in UpSessions /\ t.generating = session.generating
          /\ t.active = (IF c.intent = "Generate"
                           THEN [gen |-> c.n, pos |-> c.pos, content |-> Projection(session)]
                           ELSE session.active)
          /\ c.intent = "Generate" => session.active = None
      BY <1>1, <1>2, <2>1, CommandedOrder
    <3> HIDE DEF t
    <3>3. session'.phase = "up" => session'.active = t.active
          /\ session'.generating = session.generating
      BY <3>1, <3>2, StageSameCall
    <3>4. CASE c.intent = "Generate"
      <4>1. session'.phase = "up" => session'.active.gen = c.n
        BY <3>2, <3>3, <3>4
      <4> QED BY <3>2, <3>4, <4>1 DEF InTask, InCall, OfGen
    <3>5. CASE c.intent # "Generate"
      BY <1>1, <3>2, <3>3, <3>5 DEF InTask, InCall
    <3> QED BY <3>4, <3>5
  <2>2. CASE ~Accepts(session, c)
    <3>1. session'.phase = "ended"
      BY <2>2 DEF Command, Ended, c
    <3> QED BY <3>1 DEF InTask, InCall
  <2> QED BY <2>1, <2>2
<1>7. \A g \in Nat : InBatch(g)' = InBatch(g) /\ IsAsked(g)' = IsAsked(g)
  BY <1>1 DEF InBatch, IsAsked
<1>8. OnePlace' /\ \A g \in Nat : Passed(g)' => Passed(g)
  BY <1>5, <1>6, <1>7 DEF Once, OnePlace, Passed
<1>9. OnceEach'
  BY <1>1, <1>5 DEF Once, OnceEach, AskedOnce
<1> QED BY <1>8, <1>9, MovedOn

\* The session moves a generation on, or drops it.
LEMMA ModelOnce ==
  ASSUME Shape, Once, ModelStep
  PROVE  Once'
<1>1. UNCHANGED <<cp, eng>>
  BY DEF ModelStep
<1>2. ASSUME UNCHANGED <<commands, asked>>, session'.phase # "up" \/ session'.active = None
      PROVE  Once'
  <2>1. OnePlace' /\ OnceEach' /\ \A g \in Nat : Passed(g)' => Passed(g)
    BY <1>1, <1>2, NothingMoved DEF Once
  <2> QED BY <1>1, <2>1, MovedOn
<1>3. CASE Respond
  <2>1. session \in UpSessions /\ CallOrder(session) /\ session.generating
    BY <1>3, UpIsUp DEF Shape, Respond
  <2>2. PICK n \in Outputs, status \in Statuses : session' = Stage(Returned(session, n, status))
    BY <1>3 DEF Respond, Returned
  <2>3. session'.phase # "up" \/ session'.active = None
    BY <2>1, <2>2, ReturnedOrder, StageSameCall
  <2> QED BY <1>2, <1>3, <2>3 DEF Respond
<1>4. CASE CallFails
  BY <1>2, <1>4 DEF CallFails, Ended
<1>5. CASE ReportEnd
  <2>1. session'.phase = "ended"
    <3>1. session \in EndedSessions
      BY <1>5, UpIsUp DEF Shape, ReportEnd
    <3> QED BY <1>5, <3>1 DEF ReportEnd, EndedSessions
  <2> QED BY <1>2, <1>5, <2>1 DEF ReportEnd
<1> QED BY <1>1, <1>3, <1>4, <1>5, DeliverOnce, CommandOnce DEF ModelStep, ExchangeStep

-----------------------------------------------------------------------------
\* The theorem

\* A new run has no generation.
LEMMA InitOnce ==
  Init => Once
<1> SUFFICES ASSUME Init PROVE Once
  OBVIOUS
<1>1. /\ cp = Initial(Mode) /\ eng = Running("catalog", None, {}) /\ commands = <<>>
      /\ session = Absent /\ asked = <<>>
  BY DEF Init
<1>2. cp.commands = <<>> /\ eng.pc = "catalog" /\ eng.batch = <<>> /\ session.phase = "absent"
  BY <1>1 DEF Initial, Running, Absent
<1>3. DOMAIN <<>> = {}
  OBVIOUS
<1>4. \A g \in Nat : ~Holds(<<>>, g) /\ ~Passed(g)
  BY <1>1, <1>2, <1>3 DEF Holds, Passed, InBatch, InQueue, InTask, InCall, IsAsked
<1>5. Distinct(<<>>) /\ AskedOnce
  BY <1>1, <1>3 DEF Distinct, AskedOnce
<1> QED BY <1>1, <1>2, <1>4, <1>5
        DEF Once, OnePlace, OnceEach, NoneAhead, OutboxOnce, StagedOnce, UnsentIsNew,
            OpensIdle, Passed

\* Every step keeps each generation in one place.
LEMMA NextOnce ==
  ASSUME Shape, Once, [Next]_vars
  PROVE  Once'
<1>1. CASE Done \/ UNCHANGED vars
  <2>1. UNCHANGED vars
    BY <1>1 DEF Done
  <2>2. \A g \in Nat : Passed(g)' = Passed(g) /\ IsNew(g)' = IsNew(g)
    BY <2>1 DEF vars, Passed, InBatch, InQueue, InTask, InCall, IsAsked, IsNew, Latest
  <2> QED BY <2>1, <2>2
          DEF vars, Once, OnePlace, OnceEach, AskedOnce, NoneAhead, OutboxOnce, StagedOnce,
              UnsentIsNew, OpensIdle, InBatch, InQueue, InTask, InCall, IsAsked
<1> QED BY <1>1, HostOnce, AttachOnce, LoopOnce, SubmitOnce, WorkOnce, ModelOnce
        DEF Next, EngineStep

\* A generation reaches the model service at most once, whatever crashes,
\* suspensions, resumptions and lost sessions come in between (durable sent
\* marks, checkpoint::initial and dispatch_commands).
THEOREM NeverAskedTwice == Spec => []AskedOnce
<1>1. Init => Once
  BY InitOnce
<1>2. Shape /\ Once /\ [Next]_vars => Once'
  BY NextOnce
<1>3. Once => AskedOnce
  BY DEF Once, OnceEach
<1> QED BY <1>1, <1>2, <1>3, Shaped, PTL DEF Spec
================================================================================
