---------------------------- MODULE LocalRun_content ----------------------------
(***************************************************************************)
(* The model is called with what was committed, and a completed run has    *)
(* answered every input.  Without a reducer the history grows by one entry *)
(* with each context revision, so the revision of a session says which     *)
(* part of the history it holds.                                           *)
(***************************************************************************)
EXTENDS LocalRun_flow

-----------------------------------------------------------------------------
\* The invariant

\* p is the first n entries of h.
Begins(p, n, h) == Len(p) = n /\ n <= Len(h) /\ \A i \in 1..n : p[i] = h[i]

\* A command says which part of the history it is about.
Cites(c, command) ==
    /\ command.intent # "Replace"
    /\ IsAppend(command) => command.entry = command.n + 1
    /\ command.intent = "Generate" => command.revision + 1 = c.start

\* The generation covers the inputs up to where it starts, and no others.
Covers(c) ==
    \A i \in DOMAIN c.history : IsInput(c.history[i]) =>
      /\ c.history[i].n <= c.input
      /\ c.gen # 0 /\ i > c.start => c.history[i].n > c.covered

Coherent(c) ==
    /\ Len(c.history) = c.revision + 1
    /\ \A i \in DOMAIN c.commands : Cites(c, c.commands[i])
    /\ Covers(c)
    /\ c.status \notin {None, "Continuation"} => c.started

\* What the model service was called with for the generation of c.
Made(calls, g) == \E i \in DOMAIN calls : calls[i].gen = g
Asks(calls, c) ==
    /\ \A i \in DOMAIN calls : /\ calls[i].gen \in 1..c.gen
                               /\ calls[i].gen = c.gen
                                     => Begins(calls[i].content, c.start, c.history)
    /\ c.started => Made(calls, c.gen)

\* d is a later checkpoint of the same generation.
Grows(c, d) ==
    /\ d.gen = c.gen /\ d.start = c.start
    /\ Len(c.history) <= Len(d.history)
    /\ \A i \in DOMAIN c.history : d.history[i] = c.history[i]

\* The session holds the history of c up to its revision.
Projects(c, s) ==
    /\ Begins(Projection(s), s.revision + 1, c.history)
    /\ s.active # None => Begins(s.active.content, c.start, c.history)

CallsInOrder(calls) == \A i, j \in DOMAIN calls : i < j => calls[i].gen < calls[j].gen
\* What is told to have started has been asked for.
StartsMade(queue, calls) ==
    \A i \in DOMAIN queue : queue[i].type = "Event" /\ queue[i].body.kind = "Started"
      => Made(calls, queue[i].body.gen)

Content ==
    /\ Coherent(cp) /\ Asks(asked, cp)
    /\ Coherent(Latest) /\ Asks(asked, Latest)
    /\ Grows(cp, Latest)
    /\ eng.pc = "opening" => Projects(cp, eng.open)
    /\ session.phase = "up" => Projects(Latest, session)
    /\ CallsInOrder(asked)
    /\ StartsMade(work, asked)

\* Nothing is due when a run has completed.
DoneIsAnswered == cp.state = "Completed" => ~Due(cp)

-----------------------------------------------------------------------------
\* Checkpoints of one generation

\* The fields of a checkpoint that the invariant is about.
LEMMA CheckpointTypes ==
  ASSUME NEW c, Sound(c)
  PROVE  /\ c \in Checkpoints /\ c.history \in Histories /\ c.history \in Seq(Entries)
         /\ Len(c.history) \in Nat /\ DOMAIN c.history = 1..Len(c.history)
         /\ c.commands \in Seq(PendingCommands) /\ Len(c.commands) \in Nat
         /\ DOMAIN c.commands = 1..Len(c.commands)
         /\ c.gen \in Nat /\ c.start \in Nat /\ c.revision \in Nat /\ c.ack \in Nat
         /\ c.input \in Nat /\ c.covered \in Nat /\ c.covered <= c.input
         /\ c.start <= Len(c.history) /\ c.ack <= c.revision
         /\ \A i \in DOMAIN c.history : c.history[i] \in Entries /\ c.history[i].n \in Nat
<1>1. c \in Checkpoints /\ c.covered <= c.input /\ c.start <= Len(c.history) /\ c.ack <= c.revision
  BY DEF Sound
<1>2. /\ c.history \in Histories /\ c.commands \in Outboxes
      /\ c.gen \in Nat /\ c.start \in Nat /\ c.revision \in Nat /\ c.ack \in Nat
      /\ c.input \in Nat /\ c.covered \in Nat
  BY <1>1 DEF Checkpoints
<1>3. c.history \in Seq(Entries) /\ c.commands \in Seq(PendingCommands)
  BY <1>2 DEF Histories, Outboxes
<1>4. \A i \in DOMAIN c.history : c.history[i] \in Entries
  BY <1>3
<1>5. \A entry \in Entries : entry.n \in Nat
  BY DEF Entries
<1> QED BY <1>1, <1>2, <1>3, <1>4, <1>5

\* A checkpoint is a later one of its own generation, and of those before.
LEMMA GrowsOn ==
  /\ \A c : Sound(c) => Grows(c, c)
  /\ \A c, d, e : Sound(c) /\ Sound(d) /\ Sound(e) /\ Grows(c, d) /\ Grows(d, e) => Grows(c, e)
<1>1. ASSUME NEW c, Sound(c) PROVE Grows(c, c)
  BY <1>1, CheckpointTypes DEF Grows
<1>2. ASSUME NEW c, NEW d, NEW e, Sound(c), Sound(d), Sound(e), Grows(c, d), Grows(d, e)
      PROVE  Grows(c, e)
  <2>1. /\ Len(c.history) \in Nat /\ DOMAIN c.history = 1..Len(c.history)
        /\ Len(d.history) \in Nat /\ DOMAIN d.history = 1..Len(d.history) /\ Len(e.history) \in Nat
    BY <1>2, CheckpointTypes
  <2> QED BY <1>2, <2>1 DEF Grows
<1> QED BY <1>1, <1>2

\* What begins with a part of the history begins with the same part later.
LEMMA BeginsOn ==
  ASSUME NEW c, Sound(c), NEW d, Sound(d), Grows(c, d), NEW p, NEW n \in Nat
  PROVE  /\ Begins(p, n, c.history) => Begins(p, n, d.history)
         /\ n <= Len(c.history) /\ Begins(p, n, d.history) => Begins(p, n, c.history)
<1>1. /\ Len(c.history) \in Nat /\ DOMAIN c.history = 1..Len(c.history)
      /\ Len(d.history) \in Nat
  BY CheckpointTypes
<1> QED BY <1>1 DEF Grows, Begins

\* The model has been asked for it, whatever the checkpoint grows to.
LEMMA AsksOn ==
  ASSUME NEW c, Sound(c), NEW d, Sound(d), Grows(c, d), NEW calls, Asks(calls, c),
         d.started => c.started \/ Made(calls, c.gen)
  PROVE  Asks(calls, d)
<1>1. /\ c.start \in Nat /\ d.start = c.start /\ d.gen = c.gen
  BY CheckpointTypes DEF Grows
<1>2. \A p : Begins(p, c.start, c.history) => Begins(p, d.start, d.history)
  BY <1>1, BeginsOn
<1> QED BY <1>1, <1>2 DEF Asks

\* The session holds it, whatever the checkpoint grows to.
LEMMA ProjectsOn ==
  ASSUME NEW c, Sound(c), NEW d, Sound(d), Grows(c, d), NEW s \in UpSessions, Projects(c, s)
  PROVE  Projects(d, s)
<1>1. c.start \in Nat /\ d.start = c.start /\ s.revision + 1 \in Nat
  BY CheckpointTypes, SessionTypes DEF Grows
<1>2. \A p : Begins(p, c.start, c.history) => Begins(p, d.start, d.history)
  BY <1>1, BeginsOn
<1>3. Begins(Projection(s), s.revision + 1, d.history)
  BY <1>1, BeginsOn DEF Projects
<1> QED BY <1>2, <1>3 DEF Projects

-----------------------------------------------------------------------------
\* What the commits of a generation keep

\* An entry and its Append.
LEMMA AppendedContent ==
  ASSUME NEW c, Sound(c), Coherent(c), NEW d, NEW entry \in Entries, NEW command,
         d.history = Append(c.history, entry), d.commands = Append(c.commands, command),
         command.intent = "Append", command.entry = Len(c.history) + 1,
         command.n = c.revision + 1, d.revision = c.revision + 1,
         d.gen = c.gen, d.start = c.start, d.covered = c.covered, d.started = c.started,
         d.status = c.status, d.input \in Nat, c.input <= d.input,
         IsInput(entry) => entry.n <= d.input /\ entry.n > c.covered
  PROVE  Coherent(d) /\ Grows(c, d)
<1> USE CheckpointTypes
<1>1. /\ Len(d.history) = Len(c.history) + 1
      /\ DOMAIN d.history = DOMAIN c.history \cup {Len(c.history) + 1}
      /\ \A i \in DOMAIN c.history : d.history[i] = c.history[i]
      /\ d.history[Len(c.history) + 1] = entry
  <2> HIDE CheckpointTypes
  <2>1. c.history \in Seq(Entries) /\ Len(c.history) \in Nat
    BY CheckpointTypes
  <2> QED BY <2>1
<1>2. /\ DOMAIN d.commands = DOMAIN c.commands \cup {Len(c.commands) + 1}
      /\ \A i \in DOMAIN c.commands : d.commands[i] = c.commands[i]
      /\ d.commands[Len(c.commands) + 1] = command
  <2>1. c.commands \in Seq(PendingCommands) /\ Len(c.commands) \in Nat
    BY CheckpointTypes
  <2> QED BY <2>1, SMTT(30)
<1>3. Len(c.history) = c.revision + 1 /\ c.revision \in Nat /\ Len(c.history) \in Nat
  BY DEF Coherent
<1>4. Len(d.history) = d.revision + 1
  BY <1>1, <1>3
<1>5. \A i \in DOMAIN d.commands : Cites(d, d.commands[i])
  <2>1. \A i \in DOMAIN c.commands : Cites(d, c.commands[i])
    BY DEF Coherent, Cites
  <2>2. Cites(d, command)
    BY <1>3 DEF Cites
  <2> QED BY <1>2, <2>1, <2>2
<1>6. Covers(d)
  <2>1. SUFFICES ASSUME NEW i \in DOMAIN d.history, IsInput(d.history[i])
                 PROVE  /\ d.history[i].n <= d.input
                        /\ d.gen # 0 /\ i > d.start => d.history[i].n > d.covered
    BY DEF Covers
  <2>2. CASE i \in DOMAIN c.history
    <3>1. d.history[i] = c.history[i] /\ c.history[i].n \in Nat /\ c.input \in Nat
      BY <1>1, <2>2
    <3>2. c.history[i].n <= c.input /\ (c.gen # 0 /\ i > c.start => c.history[i].n > c.covered)
      BY <2>1, <2>2, <3>1 DEF Coherent, Covers
    <3>3. c.input \in Nat /\ d.input \in Nat /\ c.input <= d.input
      OBVIOUS
    <3>4. d.gen = c.gen /\ d.start = c.start /\ d.covered = c.covered
      OBVIOUS
    <3> HIDE CheckpointTypes
    <3> QED BY ONLY <3>1, <3>2, <3>3, <3>4
  <2>3. CASE i = Len(c.history) + 1
    BY <1>1, <2>1, <2>3
  <2> QED BY <1>1, <2>2, <2>3
<1>7. Coherent(d)
  BY <1>4, <1>5, <1>6 DEF Coherent
<1> QED BY <1>1, <1>3, <1>7 DEF Grows

\* A change that leaves the history alone: it may add commands that are not
\* about it, or drop some.
LEMMA UpdatedContent ==
  ASSUME NEW c, Sound(c), Coherent(c), NEW d,
         d.history = c.history, d.revision = c.revision, d.gen = c.gen, d.start = c.start,
         d.covered = c.covered, d.input = c.input,
         \A i \in DOMAIN d.commands :
            \/ \E j \in DOMAIN c.commands : d.commands[i] = c.commands[j]
            \/ d.commands[i].intent \in {"Profile", "Seal", "Close"},
         d.status \notin {None, "Continuation"} => d.started
  PROVE  Coherent(d) /\ Grows(c, d)
<1>1. \A i \in DOMAIN d.commands : Cites(d, d.commands[i])
  BY DEF Coherent, Cites, IsAppend
<1>2. Covers(d)
  BY DEF Coherent, Covers
<1>3. Grows(c, d)
  BY CheckpointTypes DEF Grows
<1> QED BY <1>1, <1>2, <1>3 DEF Coherent

\* insert: the input's number is beyond what the generation covers.
LEMMA InsertedContent ==
  ASSUME NEW c, Sound(c), Coherent(c), NEW kind \in {"User", "External"}
  PROVE  LET d == Inserted(c, kind)
         IN  Coherent(d) /\ Grows(c, d) /\ d.started = c.started
<1> DEFINE l == Len(c.history) + 1
           command == AppendCommand(c.revision + 1, l, c.input + 1, "Submitted")
           entry == Entry(kind, c.input + 1, 0)
           d == Inserted(c, kind)
<1>1. /\ c \in Checkpoints /\ c.input \in Nat /\ c.covered \in Nat /\ c.covered <= c.input
      /\ c.revision \in Nat /\ Len(c.history) \in Nat
      /\ c.history \in Seq(Entries) /\ c.commands \in Outboxes /\ entry \in Entries
  BY CheckpointTypes DEF Entry, Entries, Outboxes
<1>2. /\ d.commands = Append(c.commands, command) /\ d.history = Append(c.history, entry)
      /\ d.revision = c.revision + 1 /\ d.input = c.input + 1
      /\ d.gen = c.gen /\ d.start = c.start /\ d.covered = c.covered
      /\ d.started = c.started /\ d.status = c.status
  BY <1>1 DEF Inserted, WithAppend, Checkpoints
<1>3. command.intent = "Append" /\ command.n = c.revision + 1 /\ command.entry = l
  BY DEF AppendCommand
<1>4. entry.n = c.input + 1
  BY DEF Entry
<1> HIDE DEF command, entry, d
<1>5. d.input \in Nat /\ c.input <= d.input /\ entry.n <= d.input /\ entry.n > c.covered
  BY <1>1, <1>2, <1>4
<1>6. Coherent(d) /\ Grows(c, d)
  BY <1>1, <1>2, <1>3, <1>5, AppendedContent
<1> QED BY <1>2, <1>6 DEF d

\* stage_entries: what the model said is no input.
LEMMA RecordedContent ==
  ASSUME NEW c, Sound(c), Coherent(c), NEW e \in Events
  PROVE  LET d == Recorded(c, e)
         IN  Coherent(d) /\ Grows(c, d) /\ d.started = c.started
<1>1. ASSUME NEW entry \in Entries, ~IsInput(entry)
      PROVE  LET d == WithEntry(c, entry)
             IN  Coherent(d) /\ Grows(c, d) /\ d.started = c.started
  <2> DEFINE l == Len(c.history) + 1
             command == AppendCommand(c.revision + 1, l, c.input, "Accepted")
             d == WithEntry(c, entry)
  <2>1. /\ c \in Checkpoints /\ c.input \in Nat /\ c.revision \in Nat /\ Len(c.history) \in Nat
        /\ c.history \in Seq(Entries) /\ c.commands \in Outboxes
    BY CheckpointTypes DEF Outboxes
  <2>2. /\ d.commands = Append(c.commands, command) /\ d.history = Append(c.history, entry)
        /\ d.revision = c.revision + 1 /\ d.input = c.input
        /\ d.gen = c.gen /\ d.start = c.start /\ d.covered = c.covered
        /\ d.started = c.started /\ d.status = c.status
    BY <2>1 DEF WithEntry, WithAppend, Checkpoints
  <2>3. command.intent = "Append" /\ command.n = c.revision + 1 /\ command.entry = l
    BY DEF AppendCommand
  <2> HIDE DEF command, d
  <2>4. d.input \in Nat /\ c.input <= d.input
    BY <2>1, <2>2
  <2>5. Coherent(d) /\ Grows(c, d)
    BY <1>1, <2>2, <2>3, <2>4, AppendedContent
  <2> QED BY <2>2, <2>5 DEF d
<1>2. CASE e.kind = "Output"
  <2>1. Entry("Output", e.gen, e.item) \in Entries /\ ~IsInput(Entry("Output", e.gen, e.item))
    BY <1>2, EventTypes DEF Entry, Entries, IsInput
  <2>2. Recorded(c, e) = WithEntry(c, Entry("Output", e.gen, e.item))
    BY <1>2 DEF Recorded
  <2> QED BY <1>1, <2>1, <2>2
<1>3. CASE e.kind = "Finished"
  <2>1. Entry("Finished", e.gen, 0) \in Entries /\ ~IsInput(Entry("Finished", e.gen, 0))
    BY <1>3, EventTypes DEF Entry, Entries, IsInput
  <2>2. Recorded(c, e) = WithEntry(c, Entry("Finished", e.gen, 0))
    BY <1>3 DEF Recorded
  <2> QED BY <1>1, <2>1, <2>2
<1>4. CASE e.kind \notin {"Output", "Finished"}
  <2>1. Recorded(c, e) = c
    BY <1>4 DEF Recorded
  <2> QED BY <2>1, GrowsOn
<1> QED BY <1>2, <1>3, <1>4

\* acknowledge_command drops the command and confirms its revision.
LEMMA RetiredContent ==
  ASSUME NEW c, Sound(c), Coherent(c), NEW id \in Ident
  PROVE  LET d == Retired(c, id)
         IN  Coherent(d) /\ Grows(c, d) /\ d.started = c.started
<1> DEFINE o == Dropped(c.commands, id)
           b == [c EXCEPT !.commands = o]
           d == Retired(c, id)
           n == id[2]
<1>1. c \in Checkpoints /\ c.commands \in Outboxes /\ n \in Nat
  BY CheckpointTypes DEF Outboxes, Ident
<1>2. o \in Outboxes /\ \A i \in DOMAIN o : \E j \in DOMAIN c.commands : o[i] = c.commands[j]
  BY <1>1, DroppedOutbox
<1>3. d = IF id[1] \in {"Append", "Replace"} THEN [b EXCEPT !.ack = n]
          ELSE IF id[1] = "Profile" THEN [b EXCEPT !.profile = n] ELSE b
  BY DEF Retired
<1> HIDE DEF o, d, n
<1>4. /\ b \in Checkpoints /\ b.commands = o
      /\ b.history = c.history /\ b.revision = c.revision /\ b.gen = c.gen /\ b.start = c.start
      /\ b.covered = c.covered /\ b.input = c.input /\ b.status = c.status
      /\ b.started = c.started
  BY <1>1, <1>2 DEF Checkpoints
<1> HIDE DEF b
<1>5. /\ d.commands = b.commands /\ d.history = b.history /\ d.revision = b.revision
      /\ d.gen = b.gen /\ d.start = b.start /\ d.covered = b.covered /\ d.input = b.input
      /\ d.status = b.status /\ d.started = b.started
  BY <1>1, <1>3, <1>4 DEF Checkpoints
<1>6. d.status \notin {None, "Continuation"} => d.started
  BY <1>4, <1>5 DEF Coherent
<1>7. Coherent(d) /\ Grows(c, d)
  BY <1>2, <1>4, <1>5, <1>6, UpdatedContent
<1> QED BY <1>4, <1>5, <1>7 DEF d

\* Fields that the invariant is not about.
LEMMA FieldsContent ==
  ASSUME NEW c, Sound(c), Coherent(c), NEW d,
         d.history = c.history, d.revision = c.revision, d.gen = c.gen, d.start = c.start,
         d.covered = c.covered, d.input = c.input, d.commands = c.commands,
         d.status = c.status, d.started = c.started
  PROVE  Coherent(d) /\ Grows(c, d)
BY UpdatedContent DEF Coherent

\* apply_event up to its history entries: a generation is only finished once
\* it has started, with the inputs it was asked about.
LEMMA HandledContent ==
  ASSUME NEW c, Sound(c), Coherent(c), NEW e \in Events, Expected(c, e),
         e.kind = "Finished" => e.pos = c.covered
  PROVE  LET d == Handled(c, e)
         IN  /\ Coherent(d) /\ Grows(c, d)
             /\ d.started => c.started \/ (e.kind = "Started" /\ e.gen = c.gen)
<1> DEFINE d == Handled(c, e)
<1>1. c \in Checkpoints /\ e.kind \in EventKinds /\ c.covered \in Nat
  BY CheckpointTypes, EventTypes
<1>2. CASE e.kind = "Acknowledged"
  <2>1. d = Retired(c, e.id) /\ e.id \in Ident
    BY <1>2, EventTypes DEF Handled
  <2> QED BY <2>1, RetiredContent
<1>3. CASE e.kind = "Started"
  <2>1. d = [c EXCEPT !.started = TRUE]
    BY <1>3 DEF Handled
  <2>2. /\ d.history = c.history /\ d.revision = c.revision /\ d.gen = c.gen /\ d.start = c.start
        /\ d.covered = c.covered /\ d.input = c.input /\ d.commands = c.commands
        /\ d.status = c.status /\ d.started
    BY <1>1, <2>1 DEF Checkpoints
  <2>3. e.gen = c.gen
    BY <1>3 DEF Expected
  <2> HIDE DEF d
  <2>4. Coherent(d) /\ Grows(c, d)
    BY <2>2, UpdatedContent
  <2> QED BY <1>3, <2>3, <2>4 DEF d
<1>4. CASE e.kind = "Finished"
  <2>1. /\ d.history = c.history /\ d.revision = c.revision /\ d.gen = c.gen /\ d.start = c.start
        /\ d.covered = e.pos /\ d.input = c.input /\ d.commands = c.commands
        /\ d.started = c.started
    BY <1>1, <1>4, Zenon DEF Handled, Answered, Checkpoints
  <2>2. c.started
    BY <1>4 DEF Expected
  <2> HIDE DEF d
  <2>3. Coherent(d) /\ Grows(c, d)
    BY <1>4, <2>1, <2>2, UpdatedContent
  <2> QED BY <2>2, <2>3 DEF d
<1>5. CASE e.kind \in {"Ready", "Output", "Closed"}
  <2>1. d \in {c, [c EXCEPT !.ready = TRUE], [c EXCEPT !.closure = TRUE, !.inputClosed = TRUE]}
    BY <1>5 DEF Handled
  <2>2. /\ d.history = c.history /\ d.revision = c.revision /\ d.gen = c.gen /\ d.start = c.start
        /\ d.covered = c.covered /\ d.input = c.input /\ d.commands = c.commands
        /\ d.status = c.status /\ d.started = c.started
    BY <1>1, <2>1 DEF Checkpoints
  <2> HIDE DEF d
  <2>3. Coherent(d) /\ Grows(c, d)
    BY <2>2, FieldsContent
  <2> QED BY <2>2, <2>3 DEF d
<1> QED BY <1>1, <1>2, <1>3, <1>4, <1>5 DEF EventKinds

\* apply_event with its history entries.
LEMMA StagedContent ==
  ASSUME NEW c, Sound(c), Coherent(c), NEW e \in Events, Expected(c, e),
         e.kind = "Finished" => e.pos = c.covered, NEW n \in Nat
  PROVE  LET d == Recorded(Handled([c EXCEPT !.cursor = n], e), e)
         IN  /\ Sound(d) /\ Coherent(d) /\ Grows(c, d)
             /\ d.started => c.started \/ (e.kind = "Started" /\ e.gen = c.gen)
<1> DEFINE a == [c EXCEPT !.cursor = n]
           b == Handled(a, e)
           d == Recorded(b, e)
<1>1. Sound(a) /\ Expected(a, e)
  BY FieldsSound, ExpectedCursor
<1>2. c \in Checkpoints
  BY CheckpointTypes
<1>3. /\ a.history = c.history /\ a.revision = c.revision /\ a.gen = c.gen /\ a.start = c.start
      /\ a.covered = c.covered /\ a.input = c.input /\ a.commands = c.commands
      /\ a.status = c.status /\ a.started = c.started
  BY <1>2 DEF Checkpoints
<1> HIDE DEF a
<1>4. Coherent(a) /\ Grows(c, a)
  BY <1>3, FieldsContent
<1>5. Sound(b) /\ Sound(d)
  BY <1>1, HandledSound, RecordedSound
<1>6. /\ Coherent(b) /\ Grows(a, b)
      /\ b.started => a.started \/ (e.kind = "Started" /\ e.gen = a.gen)
  BY <1>1, <1>3, <1>4, HandledContent
<1> HIDE DEF b
<1>7. Coherent(d) /\ Grows(b, d) /\ d.started = b.started
  BY <1>5, <1>6, RecordedContent
<1> HIDE DEF d
<1>8. Grows(c, d)
  <2>1. Grows(c, b)
    BY <1>1, <1>4, <1>5, <1>6, GrowsOn
  <2> QED BY <2>1, <1>5, <1>7, GrowsOn
<1> QED BY <1>3, <1>5, <1>6, <1>7, <1>8 DEF a, b, d

\* The generation is about the whole history, and covers every input.
LEMMA GeneratedContent ==
  ASSUME NEW c, Sound(c), Coherent(c), c.commands = <<>>
  PROVE  LET d == Generated(c)
         IN  /\ Coherent(d) /\ d.gen = c.gen + 1 /\ d.history = c.history /\ ~d.started
<1> DEFINE n == c.gen + 1
           last == Len(c.history)
           m == c.input
           b == [c EXCEPT !.gen = n, !.started = FALSE, !.status = None, !.needs = FALSE,
                          !.covered = m, !.start = last]
           command == GenerateCommand(b)
           d == Prepared(b, command)
<1>1. c \in Checkpoints /\ n \in Nat /\ last \in Nat /\ m \in Nat /\ None \in Responses
      /\ FALSE \in BOOLEAN /\ c.commands \in Outboxes
  BY CheckpointTypes DEF Responses, Outboxes
<1>2. Generated(c) = d
  BY DEF Generated
<1>3. /\ b \in Checkpoints /\ b.commands = <<>> /\ b.gen = n /\ b.history = c.history
      /\ b.status = None /\ b.covered = m /\ b.start = last /\ b.input = m /\ b.started = FALSE
      /\ b.revision = c.revision
  <2> HIDE DEF n, last, m
  <2>1. b \in Checkpoints /\ b.commands = c.commands /\ b.gen = n /\ b.history = c.history
      /\ b.status = None /\ b.covered = m /\ b.start = last /\ b.input = c.input
      /\ b.started = FALSE /\ b.revision = c.revision
    BY <1>1 DEF Checkpoints
  <2> QED BY <2>1 DEF m
<1> HIDE DEF b
<1>4. command.intent = "Generate" /\ command.revision = c.revision
  BY <1>3 DEF GenerateCommand
<1>5. /\ d.commands = <<command>> /\ d.gen = n /\ d.history = c.history
      /\ d.status = None /\ d.covered = m /\ d.start = last /\ d.input = m /\ d.started = FALSE
      /\ d.revision = c.revision
  <2> HIDE DEF command, n, last, m
  <2> QED BY <1>3 DEF Prepared, Checkpoints
<1> HIDE DEF command, d
<1>6. \A i \in DOMAIN d.commands : Cites(d, d.commands[i])
  <2>1. Cites(d, command)
    BY <1>4, <1>5 DEF Cites, IsAppend, Coherent
  <2> QED BY <1>5, <2>1
<1>7. Covers(d)
  <2>1. SUFFICES ASSUME NEW i \in DOMAIN d.history, IsInput(d.history[i])
                 PROVE  /\ d.history[i].n <= d.input
                        /\ ~(i > d.start)
    BY DEF Covers
  <2>2. i \in 1..last
    BY <1>5, <2>1, CheckpointTypes
  <2> QED BY <1>1, <1>5, <2>1, <2>2 DEF Coherent, Covers
<1> QED BY <1>2, <1>5, <1>6, <1>7 DEF Coherent

\* The unfinished generation is given up: it needs no start any more.
LEMMA AbandonedContent ==
  ASSUME NEW c, Sound(c), Coherent(c)
  PROVE  LET d == Abandoned(c)
         IN  Coherent(d) /\ Grows(c, d) /\ d.started = c.started
<1> DEFINE id == <<"Generate", c.gen>>
           o == Dropped(c.commands, id)
           d == Abandoned(c)
<1>1. c \in Checkpoints /\ c.commands \in Outboxes
  BY CheckpointTypes DEF Outboxes
<1>2. o \in Outboxes /\ \A i \in DOMAIN o : \E j \in DOMAIN c.commands : o[i] = c.commands[j]
  BY <1>1, DroppedOutbox
<1>3. d = [c EXCEPT !.commands = o, !.status = "Continuation", !.needs = TRUE]
  BY DEF Abandoned
<1> HIDE DEF o, d
<1>4. /\ d.history = c.history /\ d.revision = c.revision /\ d.gen = c.gen /\ d.start = c.start
      /\ d.covered = c.covered /\ d.input = c.input /\ d.commands = o
      /\ d.status = "Continuation" /\ d.started = c.started
  BY <1>1, <1>3 DEF Checkpoints
<1>5. Coherent(d) /\ Grows(c, d)
  BY <1>2, <1>4, UpdatedContent
<1> QED BY <1>4, <1>5 DEF d

\* open_model: the seed is what the acknowledged revision holds.
LEMMA SeedContent ==
  ASSUME NEW c, Sound(c), Coherent(c)
  PROVE  SeedEnd(c) = c.ack + 1
<1> DEFINE A == Appends(c)
           E == {c.commands[i].entry : i \in A}
<1>1. /\ c.ack \in Nat /\ c.revision \in Nat /\ c.ack <= c.revision /\ RevisionsOf(c)
      /\ Len(c.history) = c.revision + 1
  BY CheckpointTypes DEF Sound, OutboxOf, Coherent
<1>2. \A i \in DOMAIN c.commands : IsNumbered(c.commands[i]) => i \in A
  BY DEF Coherent, Cites, IsNumbered, Appends
<1>3. \A i \in A : /\ i \in DOMAIN c.commands /\ IsNumbered(c.commands[i])
                   /\ c.commands[i].entry = c.commands[i].n + 1
  BY DEF Coherent, Cites, IsNumbered, IsAppend, Appends
<1> HIDE DEF A
<1>4. \A i \in A : c.commands[i].n \in (c.ack + 1)..c.revision
  BY <1>1, <1>3 DEF RevisionsOf
<1>5. \A n \in (c.ack + 1)..c.revision : \E i \in A : c.commands[i].n = n
  BY <1>1, <1>2 DEF RevisionsOf
<1>6. CASE A = {}
  <2>1. c.ack = c.revision
    <3>1. ~(c.ack + 1 \in (c.ack + 1)..c.revision)
      BY <1>5, <1>6
    <3> QED BY <1>1, <3>1
  <2> QED BY <1>1, <1>6, <2>1 DEF SeedEnd, A
<1>7. CASE A # {}
  <2>1. PICK i \in A : TRUE
    BY <1>7
  <2>2. c.ack + 1 \in (c.ack + 1)..c.revision
    BY <1>1, <1>4, <2>1
  <2>3. PICK j \in A : c.commands[j].n = c.ack + 1
    BY <1>5, <2>2
  <2>4. /\ \A x \in E : x \in Nat /\ x >= c.ack + 2
        /\ c.ack + 2 \in E
    <3>1. \A k \in A : c.commands[k].entry \in Nat /\ c.commands[k].entry >= c.ack + 2
      BY <1>1, <1>3, <1>4
    <3>2. c.commands[j].entry = c.ack + 2
      BY <1>1, <1>3, <2>3
    <3> QED BY <3>1, <3>2
  <2>5. E \in SUBSET Nat /\ E # {}
    BY <2>4
  <2> HIDE DEF E
  <2>6. FirstOf(E) \in E /\ \A x \in E : FirstOf(E) <= x
    BY <2>5, FirstIsLeast
  <2>7. FirstOf(E) = c.ack + 2
    BY <1>1, <2>4, <2>6
  <2>8. SeedEnd(c) = FirstOf(E) - 1
    BY <1>7 DEF SeedEnd, E, A
  <2> QED BY <1>1, <2>7, <2>8
<1> QED BY <1>6, <1>7

-----------------------------------------------------------------------------
\* The session

\* The top of the loop leaves the projection alone.
LEMMA StageProjection ==
  ASSUME NEW s \in UpSessions, Stage(s).phase = "up"
  PROVE  LET t == Stage(s)
         IN  /\ t \in UpSessions /\ Projection(t) = Projection(s)
             /\ t.revision = s.revision /\ t.active = s.active
<1> DEFINE t == Stage(s)
           a == [s EXCEPT !.sending = Head(s.controls), !.controls = Tail(s.controls)]
           b == [s EXCEPT !.sending = Head(s.finishing), !.finishing = Tail(s.finishing)]
<1>1. Ended("ok").phase = "ended"
  BY DEF Ended
<1>2. s.controls \in Seq(Events) /\ s.finishing \in Seq(Events)
  BY SessionTypes
<1>3. /\ s.controls # <<>> => Head(s.controls) \in Events /\ Tail(s.controls) \in Seq(Events)
      /\ s.finishing # <<>> => Head(s.finishing) \in Events /\ Tail(s.finishing) \in Seq(Events)
  BY <1>2, QueueTypes
<1>4. \/ t = s
      \/ s.controls # <<>> /\ t = a
      \/ s.finishing # <<>> /\ t = b
  <2> HIDE DEF a, b
  <2> QED BY <1>1 DEF Stage, a, b
<1>5. s.controls # <<>> => /\ a \in UpSessions /\ a.seed = s.seed /\ a.history = s.history
                           /\ a.revision = s.revision /\ a.active = s.active
  BY <1>3 DEF UpSessions
<1>6. s.finishing # <<>> => /\ b \in UpSessions /\ b.seed = s.seed /\ b.history = s.history
                            /\ b.revision = s.revision /\ b.active = s.active
  BY <1>3 DEF UpSessions
<1> HIDE DEF a, b, t
<1>7. /\ t \in UpSessions /\ t.seed = s.seed /\ t.history = s.history
      /\ t.revision = s.revision /\ t.active = s.active
  BY <1>4, <1>5, <1>6
<1> QED BY <1>7 DEF Projection, t

\* What a session that moved on holds.
LEMMA StagedProjects ==
  ASSUME NEW s \in UpSessions, NEW c, Projects(c, s), Stage(s).phase = "up"
  PROVE  Projects(c, Stage(s))
BY StageProjection DEF Projects

\* A session that made no call and told the engine nothing new.
LEMMA SessionContent ==
  ASSUME Content, UNCHANGED <<cp, eng, asked>>, StartsMade(work', asked),
         session'.phase = "up" => Projects(Latest, session')
  PROVE  Content'
<1>1. Latest' = Latest
  BY DEF Latest
<1> QED BY <1>1 DEF Content

\* What is queued behind the rest.
LEMMA QueuedStarts ==
  ASSUME NEW queue \in Seq(Items), NEW calls, NEW more, StartsMade(queue, calls),
         \A g : Made(calls, g) => Made(more, g), NEW item \in Items,
         item.type = "Event" /\ item.body.kind = "Started" => Made(more, item.body.gen)
  PROVE  /\ StartsMade(Append(queue, item), more)
         /\ queue # <<>> => StartsMade(Tail(queue), calls)
<1>1. \A i \in DOMAIN Append(queue, item) :
         Append(queue, item)[i] = item \/ (i \in DOMAIN queue /\ Append(queue, item)[i] = queue[i])
  OBVIOUS
<1>2. StartsMade(Append(queue, item), more)
  <2> DEFINE longer == Append(queue, item)
  <2> HIDE DEF longer
  <2>1. \A i \in DOMAIN longer : longer[i] = item \/ (i \in DOMAIN queue /\ longer[i] = queue[i])
    BY <1>1 DEF longer
  <2> QED BY <2>1 DEF StartsMade, longer
<1>3. ASSUME queue # <<>> PROVE StartsMade(Tail(queue), calls)
  <2>1. \A i \in DOMAIN Tail(queue) : i + 1 \in DOMAIN queue /\ Tail(queue)[i] = queue[i + 1]
    BY <1>3
  <2> QED BY <2>1 DEF StartsMade
<1> QED BY <1>2, <1>3

\* The model is called with what the session held when it was asked.
LEMMA DeliverContent ==
  ASSUME Shape, Once, Flow, Content, Deliver, UNCHANGED <<cp, eng>>
  PROVE  Content'
<1> DEFINE e == session.sending
           t == SentOff(session)
           item == EventItem(session.sequence, e)
<1>1. session \in UpSessions /\ CallOrder(session) /\ e # None /\ session.phase = "up"
      /\ session.sequence \in Nat /\ work \in Seq(Items) /\ Sound(cp) /\ Sound(Latest)
  BY LatestTypes DEF Deliver, Shape
<1>2. t \in UpSessions /\ t.active = session.active
      /\ (e.kind = "Started" => session.active \in Calls)
  BY <1>1, SentOffOrder
<1>3. session' = Stage(t) /\ work' = Append(work, item)
  BY DEF Deliver, SentOff
<1>4. Projection(t) = Projection(session) /\ t.revision = session.revision
  BY <1>1 DEF SentOff, UpSessions, Projection
<1> HIDE DEF t
<1>5. session'.phase = "up" => Projects(Latest, session')
  BY <1>1, <1>2, <1>3, <1>4, StagedProjects DEF Content, Projects
<1>6. e \in Events /\ item \in Items /\ item.type = "Event" /\ item.body = e
  <2>1. e \in Events
    BY <1>1, SessionTypes
  <2> QED BY <1>1, <2>1, ItemTypes DEF EventItem
<1> HIDE DEF item
<1>7. CASE e.kind # "Started"
  <2>1. asked' = asked
    BY <1>7 DEF Deliver
  <2>2. StartsMade(work', asked)
    BY <1>1, <1>3, <1>6, <1>7, QueuedStarts DEF Content
  <2> QED BY <1>5, <2>1, <2>2, SessionContent
<1>8. CASE e.kind = "Started"
  <2> DEFINE n == session.active.gen
             p == session.active.content
             call == [gen |-> n, content |-> p]
  <2>1. /\ asked' = Append(asked, call) /\ call.gen = n /\ call.content = p /\ n \in Nat
        /\ session.active # None
    BY <1>2, <1>8, CallsAreCalls DEF Deliver
  <2>2. ~IsAsked(n)
    <3>1. InTask(n)
      BY <1>1, <1>2, <1>8, CallsAreCalls DEF CallOrder, StartPending, Sends, InTask, InCall
    <3> QED BY <2>1, <3>1 DEF Once, OnePlace
  <2>3. PICK k \in Nat : Flowing(Latest, Flight, k)
                         /\ Meets(Latest, Flight, k, session, commands, eng.batch, eng.sent)
    BY <1>1 DEF Flow, Preparing, Conversing, Meeting, Absent
  <2>4. InGeneration(Latest) /\ n = Latest.gen
    BY <2>1, <2>3 DEF Meets, Calling
  <2>5. e.gen = Latest.gen
    <3>1. \E x \in DOMAIN Flight : Flight[x] = e
      <4> DEFINE a == Arrived(work)
                 rest == session.controls \o session.finishing
      <4>1. Emissions(session) = <<e>> \o rest /\ rest \in Seq(Events)
        BY <1>1, EmissionTypes
      <4>2. a \in Seq(Signals) /\ Emissions(session) \in Seq(Signals)
        BY FlightTypes
      <4> HIDE DEF rest
      <4>3. 1 \in DOMAIN Emissions(session) /\ Emissions(session)[1] = e
        BY <1>6, <4>1
      <4>4. Flight = a \o Emissions(session)
        BY DEF Flight
      <4> DEFINE b == Emissions(session)
                 x == Len(a) + 1
      <4> HIDE DEF a, b
      <4>5. a \in Seq(Signals) /\ b \in Seq(Signals) /\ 1 \in DOMAIN b /\ b[1] = e
        BY <4>2, <4>3 DEF b
      <4>6. x \in DOMAIN (a \o b) /\ (a \o b)[x] = b[1]
        BY <4>5, Parts
      <4> QED BY <4>4, <4>5, <4>6 DEF b
    <3> QED BY <1>8, <2>3, <3>1 DEF Flowing, Fitting, Responding
  <2>6. Latest.gen = cp.gen /\ Latest.start = cp.start /\ Grows(cp, Latest) /\ cp.gen \in Nat
        /\ cp.gen # 0 /\ cp.start \in Nat /\ cp.start <= Len(cp.history)
    BY <1>1, <2>4, CheckpointTypes DEF Content, Grows, InGeneration
  <2>7. Begins(p, Latest.start, Latest.history) /\ Begins(p, cp.start, cp.history)
    <3>1. Begins(p, Latest.start, Latest.history)
      BY <1>1, <2>1 DEF Content, Projects
    <3> QED BY <1>1, <2>6, <3>1, BeginsOn
  <2> HIDE DEF call, n, p
  <2>8. /\ asked \in Seq([gen : Nat, content : Histories])
        /\ DOMAIN asked' = DOMAIN asked \cup {Len(asked) + 1} /\ asked'[Len(asked) + 1] = call
        /\ \A i \in DOMAIN asked : asked'[i] = asked[i] /\ i < Len(asked) + 1 /\ i \in Nat
        /\ Len(asked) \in Nat /\ DOMAIN asked = 1..Len(asked)
    <3>1. asked \in Seq([gen : Nat, content : Histories])
      BY DEF Shape
    <3> QED BY <2>1, <3>1
  <2>9. \A g : Made(asked', g) <=> Made(asked, g) \/ g = n
    BY <2>1, <2>8 DEF Made
  <2>10. ASSUME NEW c, Asks(asked, c), n = c.gen, c.gen \in Nat, c.gen # 0,
                Begins(p, c.start, c.history)
         PROVE  Asks(asked', c)
    BY <2>1, <2>8, <2>9, <2>10 DEF Asks
  <2>11. Asks(asked', cp) /\ Asks(asked', Latest)
    BY <2>4, <2>6, <2>7, <2>10 DEF Content
  <2>12. CallsInOrder(asked')
    <3>1. \A i \in DOMAIN asked : asked[i].gen < n
      <4> SUFFICES ASSUME NEW i \in DOMAIN asked PROVE asked[i].gen < n
        OBVIOUS
      <4>1. asked[i].gen \in 1..cp.gen
        BY DEF Content, Asks
      <4>2. asked[i].gen # n
        BY <2>2 DEF IsAsked
      <4> QED BY <2>4, <2>6, <4>1, <4>2
    <3>2. CallsInOrder(asked)
      BY DEF Content
    <3> QED BY <2>1, <2>8, <3>1, <3>2 DEF CallsInOrder
  <2>13. StartsMade(work', asked')
    BY <1>1, <1>3, <1>6, <2>4, <2>5, <2>9, QueuedStarts DEF Content
  <2>14. Latest' = Latest
    BY DEF Latest
  <2> QED BY <1>5, <2>11, <2>12, <2>13, <2>14 DEF Content
<1> QED BY <1>7, <1>8

\* A finished, failed or reported call leaves the projection alone.
LEMMA RespondContent ==
  ASSUME Shape, Content, Respond \/ CallFails \/ ReportEnd, UNCHANGED <<cp, eng>>
  PROVE  Content'
<1>1. CASE Respond
  <2>1. session \in UpSessions /\ CallOrder(session) /\ session.generating
        /\ session.phase = "up" /\ work' = work /\ asked' = asked
    BY <1>1, LatestTypes DEF Respond
  <2>2. PICK n \in Outputs, status \in Statuses : session' = Stage(Returned(session, n, status))
    BY <1>1 DEF Respond, Returned
  <2> DEFINE t == Returned(session, n, status)
  <2>3. t \in UpSessions /\ t.active = None
    BY <2>1, ReturnedOrder
  <2>4. Projection(t) = Projection(session) /\ t.revision = session.revision
    BY <2>1 DEF Returned, UpSessions, Projection
  <2> HIDE DEF t
  <2>5. Projects(Latest, t)
    BY <2>1, <2>3, <2>4 DEF Content, Projects
  <2>6. session'.phase = "up" => Projects(Latest, session')
    BY <2>2, <2>3, <2>5, StagedProjects DEF t
  <2> QED BY <2>1, <2>6, SessionContent DEF Content
<1>2. CASE CallFails
  <2>1. session'.phase # "up" /\ work' = work /\ asked' = asked
    BY <1>2 DEF CallFails, Ended
  <2> QED BY <2>1, SessionContent DEF Content
<1>3. CASE ReportEnd
  <2> DEFINE item == EndItem(session.result)
  <2>1. session \in EndedSessions /\ session.result # None
    BY <1>3, UpIsUp DEF ReportEnd, Shape
  <2>2. item \in Items /\ item.type = "Ended"
    BY <2>1, ItemTypes DEF EndedSessions, EndItem
  <2>3. work' = Append(work, item) /\ asked' = asked /\ session'.phase # "up"
    BY <1>3, <2>1 DEF ReportEnd, EndedSessions
  <2> HIDE DEF item
  <2>4. StartsMade(work', asked)
    BY <2>2, <2>3, QueuedStarts DEF Content, Shape
  <2> QED BY <2>3, <2>4, SessionContent
<1> QED BY <1>1, <1>2, <1>3

\* An entry behind the session's history.
LEMMA EntryBehind ==
  ASSUME NEW a \in Seq(Entries), NEW b \in Seq(Entries), NEW entry \in Entries
  PROVE  a \o Append(b, entry) = Append(a \o b, entry) /\ a \o b \in Seq(Entries)
<1> DEFINE x == <<entry>>
<1>1. x \in Seq(Entries) /\ a \o b \in Seq(Entries)
  OBVIOUS
<1>2. Append(b, entry) = b \o x /\ Append(a \o b, entry) = (a \o b) \o x
  BY <1>1
<1> HIDE DEF x
<1>3. a \o (b \o x) = (a \o b) \o x
  BY <1>1
<1> QED BY <1>1, <1>2, <1>3

\* SessionTask::command: an Append extends the projection by the next entry of
\* the history; a Generate takes it as it is.
LEMMA CommandedProjects ==
  ASSUME NEW c, Sound(c), Coherent(c), NEW s \in UpSessions, CallOrder(s), Projects(c, s),
         NEW j \in DOMAIN c.commands, NEW x \in Carried, Carries(c, x, c.commands[j]),
         Accepts(s, x), s.controls = <<>>, s.sending # None => OfResponse(s.sending)
  PROVE  Projects(c, Commanded(s, x))
<1> DEFINE command == c.commands[j]
           t == Commanded(s, x)
<1>1. t \in UpSessions
      /\ t.active = (IF x.intent = "Generate"
                       THEN [gen |-> x.n, pos |-> x.pos, content |-> Projection(s)]
                       ELSE s.active)
  BY CommandedOrder
<1>2. t.revision = IF x.intent \in {"Append", "Replace"} THEN x.n ELSE s.revision
  BY CommandedFields
<1>3. /\ command \in PendingCommands /\ x.intent = command.intent /\ x.n = command.n
      /\ Cites(c, command) /\ x.intent # "Replace" /\ x.intent \in IntentNames
  BY CheckpointTypes, CommandTypes DEF Carries, Coherent, Cites
<1>4. /\ s.revision \in Nat /\ s.seed \in Seq(Entries) /\ s.history \in Seq(Entries)
  BY SessionTypes DEF Histories
<1>5. CASE x.intent = "Append"
  <2>1. /\ x.entry = c.history[x.n + 1] /\ x.n = s.revision + 1 /\ x.entry \in Entries
    BY <1>3, <1>5, CarriedTypes DEF Carries, Cites, IsAppend, Accepts
  <2>2. x.n \in (c.ack + 1)..c.revision /\ c.ack \in Nat /\ c.revision \in Nat
        /\ Len(c.history) = c.revision + 1
    BY <1>3, <1>5, CheckpointTypes DEF Sound, OutboxOf, RevisionsOf, IsNumbered, Coherent
  <2>3. t.seed = s.seed /\ t.history = Append(s.history, x.entry) /\ t.active = s.active
    BY <1>1, <1>5 DEF Commanded, Applied, UpSessions
  <2>4. Projection(t) = Append(Projection(s), x.entry) /\ Projection(s) \in Seq(Entries)
    <3>1. /\ s.seed \o Append(s.history, x.entry) = Append(s.seed \o s.history, x.entry)
          /\ s.seed \o s.history \in Seq(Entries)
      BY <1>4, <2>1, EntryBehind
    <3> QED BY <2>3, <3>1 DEF Projection
  <2>5. Begins(Projection(s), s.revision + 1, c.history)
    BY DEF Projects
  <2> DEFINE p == Projection(s)
             q == Projection(t)
             entry == x.entry
             h == c.history
             n == x.n
  <2>6. p \in Seq(Entries) /\ entry \in Entries /\ q = Append(p, entry) /\ entry = h[n + 1]
        /\ n \in Nat /\ Begins(p, n, h) /\ n + 1 <= Len(h)
    BY <2>1, <2>2, <2>4, <2>5
  <2> HIDE DEF p, q, entry, h, n
  <2>7. Begins(q, n + 1, h)
    <3>1. Len(q) = n + 1 /\ \A i \in 1..n : q[i] = p[i]
      BY <2>6 DEF Begins
    <3>2. q[n + 1] = h[n + 1]
      BY <2>6 DEF Begins
    <3> QED BY <2>6, <3>1, <3>2 DEF Begins
  <2> QED BY <1>2, <1>5, <2>3, <2>7 DEF Projects, q, n, h
<1>6. CASE x.intent = "Generate"
  <2>1. x = command /\ x.revision = s.revision /\ x.revision + 1 = c.start
    BY <1>3, <1>6 DEF Carries, Cites, Accepts
  <2>2. Projection(t) = Projection(s) /\ t.active.content = Projection(s)
        /\ t.revision = s.revision
    BY <1>1, <1>2, <1>6 DEF Commanded, Applied, UpSessions, Projection
  <2> QED BY <2>1, <2>2 DEF Projects
<1>7. CASE x.intent \in {"Profile", "Seal", "Close"}
  <2>1. Projection(t) = Projection(s) /\ t.active = s.active /\ t.revision = s.revision
    <3>1. CASE x.intent = "Profile"
      BY <1>1, <1>2, <3>1 DEF Commanded, Applied, UpSessions, Projection
    <3>2. CASE x.intent = "Seal"
      BY <1>1, <1>2, <3>2 DEF Commanded, Applied, UpSessions, Projection
    <3>3. CASE x.intent = "Close"
      BY <1>1, <1>2, <3>3 DEF Commanded, Applied, UpSessions, Projection
    <3> QED BY <1>7, <3>1, <3>2, <3>3
  <2> QED BY <2>1 DEF Projects
<1> QED BY <1>3, <1>5, <1>6, <1>7 DEF IntentNames

\* A command is taken from the queue.
LEMMA CommandContent ==
  ASSUME Shape, Flow, Content, Command, UNCHANGED <<cp, eng>>
  PROVE  Content'
<1> DEFINE x == Head(commands)
           t == Commanded(session, x)
<1>1. /\ session \in UpSessions /\ CallOrder(session) /\ session.phase = "up"
      /\ session.controls = <<>>
      /\ session.sending # None => OfResponse(session.sending)
      /\ commands \in Seq(Carried) /\ commands # <<>> /\ Sound(Latest)
      /\ work' = work /\ asked' = asked
  BY LatestTypes DEF Command
<1>2. PICK k \in Nat : Meets(Latest, Flight, k, session, commands, eng.batch, eng.sent)
  BY <1>1 DEF Flow, Preparing, Conversing, Meeting, Absent
<1>3. k + 1 \in DOMAIN Latest.commands /\ x \in Carried
      /\ Carries(Latest, x, Latest.commands[k + 1])
  BY <1>1, <1>2, HeadOfLine DEF Meets
<1>4. CASE Accepts(session, x)
  <2>1. session' = Stage(t)
    BY <1>4 DEF Command, Commanded
  <2>2. t \in UpSessions
    BY <1>1, <1>3, <1>4, CommandedOrder
  <2>3. Projects(Latest, t)
    BY <1>1, <1>3, <1>4, CommandedProjects DEF Content
  <2> HIDE DEF t
  <2>4. session'.phase = "up" => Projects(Latest, session')
    BY <2>1, <2>2, <2>3, StagedProjects
  <2> QED BY <1>1, <2>4, SessionContent DEF Content
<1>5. CASE ~Accepts(session, x)
  <2>1. session'.phase # "up"
    BY <1>5 DEF Command, Ended
  <2> QED BY <1>1, <2>1, SessionContent DEF Content
<1> QED BY <1>4, <1>5

\* Every step of the session task.
LEMMA ModelContent ==
  ASSUME Shape, Once, Flow, Content, ModelStep
  PROVE  Content'
BY DeliverContent, RespondContent, CommandContent DEF ModelStep, ExchangeStep

-----------------------------------------------------------------------------
\* The engine

\* A step that commits nothing.
LEMMA UnmovedContent ==
  ASSUME Content, UNCHANGED <<cp, asked, session>>, Latest' = Latest, StartsMade(work', asked),
         eng'.pc = "opening" => eng.pc = "opening" /\ eng'.open = eng.open
  PROVE  Content'
BY DEF Content

\* A step that commits, or gives the engine a session.
LEMMA CommittedContent ==
  ASSUME Shape, Content, Sound(cp'), Coherent(cp'), Asks(asked, cp'), UNCHANGED asked,
         eng'.pc # "batch", StartsMade(work', asked),
         eng'.pc = "opening" => Projects(cp', eng'.open),
         session'.phase = "up" => Projects(cp', session')
  PROVE  Content'
<1>1. Latest' = cp'
  BY DEF Latest
<1>2. Grows(cp', cp')
  BY GrowsOn
<1> QED BY <1>1, <1>2 DEF Content

\* A commit of the same generation, with no batch before or after it.
LEMMA GrownContent ==
  ASSUME Shape, Content, Sound(cp'), Coherent(cp'), Grows(cp, cp'), cp'.started => cp.started,
         UNCHANGED <<asked, session>>, eng.pc # "batch", eng'.pc # "batch",
         StartsMade(work', asked),
         eng'.pc = "opening" =>
             \/ eng.pc = "opening" /\ eng'.open = eng.open
             \/ Projects(cp', eng'.open)
  PROVE  Content'
<1>1. Sound(cp) /\ Latest = cp /\ (session.phase = "up" => session \in UpSessions)
  BY LatestTypes DEF Shape, Latest
<1>2. Asks(asked, cp')
  BY <1>1, AsksOn DEF Content
<1>3. session'.phase = "up" => Projects(cp', session')
  BY <1>1, ProjectsOn DEF Content
<1>4. eng.pc = "opening" => eng.open \in UpSessions
  BY DEF Shape, EngineShape, PlaceShape, Down
<1>5. eng'.pc = "opening" => Projects(cp', eng'.open)
  BY <1>1, <1>4, ProjectsOn DEF Content
<1> QED BY <1>2, <1>3, <1>5, CommittedContent

\* A commit that ends the execution.
LEMMA LeaveContent ==
  ASSUME Shape, Content, NEW c, Sound(c), Coherent(c), Asks(asked, c), Leave(c)
  PROVE  Content'
<1>1. /\ cp' = c /\ eng' = Down /\ session' = Absent /\ work' = <<>> /\ asked' = asked
  BY DEF Leave, TearDown
<1>2. eng'.pc = "down" /\ session'.phase = "absent"
  BY <1>1 DEF Down, Absent
<1>3. StartsMade(work', asked)
  BY <1>1 DEF StartsMade
<1> QED BY <1>1, <1>2, <1>3, CommittedContent

\* Suspend, Fail, and the terminal states.
LEMMA StoppedContent ==
  ASSUME Shape, Content
  PROVE  /\ Suspend => Content'
         /\ \A reason \in Failures : Fail(reason) => Content'
         /\ \A state \in RunStates : Leave([cp EXCEPT !.state = state]) => Content'
<1>1. Sound(cp) /\ cp \in Checkpoints /\ Coherent(cp) /\ Asks(asked, cp)
  BY CheckpointTypes DEF Shape, Content
<1>2. ASSUME NEW d, Sound(d), Leave(d),
             d.history = cp.history, d.revision = cp.revision, d.gen = cp.gen,
             d.start = cp.start, d.covered = cp.covered, d.input = cp.input,
             d.commands = cp.commands, d.status = cp.status, d.started = cp.started
      PROVE  Content'
  <2>1. Coherent(d) /\ Grows(cp, d)
    BY <1>1, <1>2, FieldsContent
  <2>2. Asks(asked, d)
    BY <1>1, <1>2, <2>1, AsksOn
  <2> QED BY <1>2, <2>1, <2>2, LeaveContent
<1>3. ASSUME NEW state \in RunStates, Leave([cp EXCEPT !.state = state]) PROVE Content'
  <2> DEFINE d == [cp EXCEPT !.state = state]
  <2>1. Sound(d)
    BY <1>1, FieldsSound
  <2>2. /\ d.history = cp.history /\ d.revision = cp.revision /\ d.gen = cp.gen
        /\ d.start = cp.start /\ d.covered = cp.covered /\ d.input = cp.input
        /\ d.commands = cp.commands /\ d.status = cp.status /\ d.started = cp.started
    BY <1>1 DEF Checkpoints
  <2> QED BY <1>2, <1>3, <2>1, <2>2
<1>4. ASSUME NEW reason \in Failures, Fail(reason) PROVE Content'
  <2> DEFINE d == [cp EXCEPT !.state = "Failed", !.failure = reason]
  <2>1. Sound(d)
    BY <1>1, FieldsSound DEF RunStates
  <2>2. /\ d.history = cp.history /\ d.revision = cp.revision /\ d.gen = cp.gen
        /\ d.start = cp.start /\ d.covered = cp.covered /\ d.input = cp.input
        /\ d.commands = cp.commands /\ d.status = cp.status /\ d.started = cp.started
    BY <1>1 DEF Checkpoints
  <2>3. Leave(d)
    BY <1>4 DEF Fail
  <2> QED BY <1>2, <2>1, <2>2, <2>3
<1>5. Suspend => Content'
  BY <1>3 DEF Suspend, RunStates
<1> QED BY <1>3, <1>4, <1>5

\* Controls, resumptions and crashes.
LEMMA HostContent ==
  ASSUME Shape, Flow, Content, Shape', Host \/ Crash
  PROVE  Content'
<1>1. Sound(cp) /\ cp \in Checkpoints /\ Coherent(cp) /\ Asks(asked, cp) /\ StartsMade(work, asked)
  BY CheckpointTypes DEF Shape, Content
<1>2. Sound(cp')
  BY DEF Shape
<1>3. Serving => eng.pc \in {"catalog", "opening", "idle"} /\ eng \in UpEngines
  BY EngineTypes DEF Serving, Shape
<1>4. Serving => Served.pc # "batch" /\ (Served.pc = "opening" => eng.pc = "opening")
                 /\ Served.open = eng.open
  BY <1>3 DEF Served, UpEngines
<1>5. ASSUME NEW kind \in InputKinds, ControlInput(kind) PROVE Content'
  <2>1. kind \in {"User", "External"} /\ cp' = Inserted(cp, kind)
        /\ Serving /\ eng' = Served /\ UNCHANGED exchangeVars
    BY <1>5, EngineConstants DEF ControlInput
  <2>2. Coherent(cp') /\ Grows(cp, cp') /\ cp'.started = cp.started
    BY <1>1, <2>1, InsertedContent
  <2> QED BY <1>1, <1>2, <1>3, <1>4, <2>1, <2>2, GrownContent DEF exchangeVars
<1>6. ASSUME NEW d, NEW command, command.intent \in {"Seal", "Profile"},
             d.commands = Append(cp.commands, command),
             d.history = cp.history, d.revision = cp.revision, d.gen = cp.gen,
             d.start = cp.start, d.covered = cp.covered, d.input = cp.input,
             d.status = cp.status, d.started = cp.started,
             cp' = d, Serving, eng' = Served, UNCHANGED exchangeVars
      PROVE  Content'
  <2>1. cp.commands \in Seq(PendingCommands)
    BY <1>1, CheckpointTypes
  <2>2. \A i \in DOMAIN d.commands :
            \/ \E j \in DOMAIN cp.commands : d.commands[i] = cp.commands[j]
            \/ d.commands[i].intent \in {"Profile", "Seal", "Close"}
    <3>1. \A i \in DOMAIN Append(cp.commands, command) :
             \/ i \in DOMAIN cp.commands /\ Append(cp.commands, command)[i] = cp.commands[i]
             \/ Append(cp.commands, command)[i] = command
      BY <2>1
    <3> QED BY <1>6, <3>1
  <2>3. Coherent(d) /\ Grows(cp, d)
    BY <1>1, <1>6, <2>2, UpdatedContent, SMTT(30) DEF Coherent
  <2> QED BY <1>1, <1>2, <1>3, <1>4, <1>6, <2>3, GrownContent DEF exchangeVars
<1>7. ASSUME ControlSeal PROVE Content'
  <2> DEFINE command == Plain("Seal", cp.seals + 1)
             longer == Append(cp.commands, command)
             d == [[cp EXCEPT !.commands = longer] EXCEPT !.inputClosed = TRUE, !.seals = @ + 1]
  <2>1. Serving /\ cp' = d /\ eng' = Served /\ UNCHANGED exchangeVars
    BY <1>7 DEF ControlSeal, Prepared
  <2>2. command.intent = "Seal"
    BY DEF Plain
  <2> HIDE DEF command, longer
  <2>3. /\ d.commands = longer
        /\ d.history = cp.history /\ d.revision = cp.revision /\ d.gen = cp.gen
        /\ d.start = cp.start /\ d.covered = cp.covered /\ d.input = cp.input
        /\ d.status = cp.status /\ d.started = cp.started
    BY <1>1 DEF Checkpoints
  <2> HIDE DEF d
  <2>4. d.commands = Append(cp.commands, command)
    BY <2>3 DEF longer
  <2> QED BY <1>6, <2>1, <2>2, <2>3, <2>4
<1>8. ASSUME ControlProfile PROVE Content'
  <2> DEFINE n == cp.profile + Cardinality(Pending("Profile")) + 1
             command == Plain("Profile", n)
             longer == Append(cp.commands, command)
             d == [cp EXCEPT !.commands = longer]
  <2>1. Serving /\ cp' = d /\ eng' = Served /\ UNCHANGED exchangeVars
    BY <1>8 DEF ControlProfile, Prepared
  <2>2. command.intent = "Profile"
    BY DEF Plain
  <2> HIDE DEF command, longer
  <2>3. /\ d.commands = longer
        /\ d.history = cp.history /\ d.revision = cp.revision /\ d.gen = cp.gen
        /\ d.start = cp.start /\ d.covered = cp.covered /\ d.input = cp.input
        /\ d.status = cp.status /\ d.started = cp.started
    BY <1>1 DEF Checkpoints
  <2> HIDE DEF d
  <2>4. d.commands = Append(cp.commands, command)
    BY <2>3 DEF longer
  <2> QED BY <1>6, <2>1, <2>2, <2>3, <2>4
<1>9. CASE ControlPause
  BY <1>9, StoppedContent DEF ControlPause
<1>10. CASE Interrupt
  BY <1>10, StoppedContent DEF Interrupt, RunStates
<1>11. ASSUME NEW abandon, NEW message, Attach(abandon, message) PROVE Content'
  <2> DEFINE d == [cp EXCEPT !.state = "Running"]
  <2>1. /\ eng.pc = "down" /\ cp' = d /\ UNCHANGED exchangeVars
        /\ eng'.pc = "catalog"
    BY <1>11 DEF Attach, Running
  <2>2. /\ d.history = cp.history /\ d.revision = cp.revision /\ d.gen = cp.gen
        /\ d.start = cp.start /\ d.covered = cp.covered /\ d.input = cp.input
        /\ d.commands = cp.commands /\ d.status = cp.status /\ d.started = cp.started
    BY <1>1 DEF Checkpoints
  <2> HIDE DEF d
  <2>3. Coherent(d) /\ Grows(cp, d)
    BY <1>1, <2>2, FieldsContent
  <2> QED BY <1>1, <1>2, <2>1, <2>2, <2>3, GrownContent DEF exchangeVars
<1>12. CASE Crash
  <2>1. cp' = cp /\ Leave(cp)
    BY <1>12 DEF Crash, Leave
  <2> QED BY <1>1, <2>1, LeaveContent
<1> QED BY <1>5, <1>7, <1>8, <1>9, <1>10, <1>11, <1>12 DEF Host, Continue, Resume

\* apply_recovery
LEMMA RecoveryContent ==
  ASSUME Shape, Content, Shape', CatalogOpened \/ Resolve \/ ResumeMessage \/ DecideRecovery
  PROVE  Content'
<1>1. Sound(cp) /\ Coherent(cp) /\ Asks(asked, cp) /\ StartsMade(work, asked) /\ Sound(cp')
  BY DEF Shape, Content
<1>2. eng.pc \in {"catalog", "recover"} /\ eng \in UpEngines
  BY EngineTypes DEF Shape, CatalogOpened, Resolve, ResumeMessage, DecideRecovery
<1>3. ASSUME UNCHANGED <<cp, exchangeVars>>, eng'.pc \in {"recover", "open"} PROVE Content'
  <2>1. Latest' = Latest
    BY <1>2, <1>3 DEF Latest
  <2> QED BY <1>1, <1>3, <2>1, UnmovedContent DEF exchangeVars
<1>4. CASE CatalogOpened
  <2>1. eng'.pc \in {"recover", "open"}
    BY <1>2, <1>4 DEF CatalogOpened, UpEngines
  <2> QED BY <1>3, <1>4, <2>1 DEF CatalogOpened
<1>5. CASE Resolve
  <2>1. cp' = Abandoned(cp) /\ UNCHANGED exchangeVars /\ eng'.pc = "recover" /\ eng.pc = "recover"
    BY <1>2, <1>5 DEF Resolve, UpEngines
  <2>2. Coherent(cp') /\ Grows(cp, cp') /\ cp'.started = cp.started
    BY <1>1, <2>1, AbandonedContent
  <2> QED BY <1>1, <2>1, <2>2, GrownContent DEF exchangeVars
<1>6. CASE ResumeMessage
  <2>1. CASE Insertable(cp, eng.request.message)
    <3> DEFINE kind == eng.request.message
    <3>1. kind \in {"User", "External"}
      BY <1>2, <1>6 DEF ResumeMessage, Shape, EngineShape, PlaceShape, Down, Resumptions
    <3>2. cp' = Inserted(cp, kind) /\ UNCHANGED exchangeVars /\ eng'.pc = "recover"
          /\ eng.pc = "recover"
      BY <1>2, <1>6, <2>1 DEF ResumeMessage, UpEngines
    <3> HIDE DEF kind
    <3>3. Coherent(cp') /\ Grows(cp, cp') /\ cp'.started = cp.started
      BY <1>1, <3>1, <3>2, InsertedContent
    <3> QED BY <1>1, <3>2, <3>3, GrownContent DEF exchangeVars
  <2>2. CASE ~Insertable(cp, eng.request.message)
    BY <1>6, <2>2, StoppedContent DEF ResumeMessage, Failures
  <2> QED BY <2>1, <2>2
<1>7. CASE DecideRecovery
  <2>1. Suspend \/ (UNCHANGED <<cp, exchangeVars>> /\ eng'.pc = "open")
    BY <1>2, <1>7 DEF DecideRecovery, UpEngines
  <2> QED BY <1>3, <2>1, StoppedContent
<1> QED BY <1>4, <1>5, <1>6, <1>7

\* open_model, and the session it opens.
LEMMA OpeningContent ==
  ASSUME Shape, Content, Shape', OpenModel \/ SessionOpened \/ OpenFails
  PROVE  Content'
<1>1. /\ Sound(cp) /\ Coherent(cp) /\ Asks(asked, cp) /\ StartsMade(work, asked) /\ Sound(cp')
      /\ cp \in Checkpoints
  BY CheckpointTypes DEF Shape, Content
<1>2. eng \in UpEngines
  BY EngineTypes DEF Shape, OpenModel, SessionOpened, OpenFails
<1>3. CASE OpenModel
  <2> DEFINE seed == SubSeq(cp.history, 1, SeedEnd(cp))
             s == SessionTask(seed, cp.ack, SeedPosition(cp), cp.profile)
  <2>1. /\ eng.pc = "open" /\ eng'.pc = "opening" /\ eng'.open = s /\ cp' = cp
        /\ UNCHANGED exchangeVars
    BY <1>2, <1>3 DEF OpenModel, UpEngines
  <2>2. s.seed = seed /\ s.history = <<>> /\ s.revision = cp.ack /\ s.active = None
    BY DEF SessionTask
  <2>3. /\ SeedEnd(cp) = cp.ack + 1 /\ cp.ack + 1 \in Nat /\ cp.ack + 1 <= Len(cp.history)
        /\ cp.history \in Seq(Entries)
    BY <1>1, SeedContent, CheckpointTypes DEF Coherent
  <2>4. /\ seed \in Seq(Entries) /\ Len(seed) = cp.ack + 1
        /\ \A i \in 1..(cp.ack + 1) : seed[i] = cp.history[i]
    BY <2>3
  <2> HIDE DEF s, seed
  <2>5. Projection(s) = seed
    BY <2>2, <2>4 DEF Projection
  <2>6. Projects(cp, s)
    BY <2>2, <2>3, <2>4, <2>5 DEF Projects, Begins
  <2>7. Grows(cp, cp')
    BY <1>1, <2>1, GrowsOn
  <2> QED BY <1>1, <2>1, <2>6, <2>7, GrownContent DEF exchangeVars
<1>4. CASE SessionOpened
  <2> DEFINE d == [cp EXCEPT !.ready = FALSE, !.cursor = None]
  <2>1. /\ eng.pc = "opening" /\ eng'.pc = "dispatch" /\ cp' = d /\ session' = eng.open
        /\ work' = work /\ asked' = asked
    BY <1>2, <1>4 DEF SessionOpened, UpEngines
  <2>2. /\ d.history = cp.history /\ d.revision = cp.revision /\ d.gen = cp.gen
        /\ d.start = cp.start /\ d.covered = cp.covered /\ d.input = cp.input
        /\ d.commands = cp.commands /\ d.status = cp.status /\ d.started = cp.started
    BY <1>1 DEF Checkpoints
  <2> HIDE DEF d
  <2>3. Coherent(cp') /\ Grows(cp, cp')
    BY <1>1, <2>1, <2>2, FieldsContent
  <2>4. Asks(asked, cp')
    BY <1>1, <2>1, <2>2, <2>3, AsksOn
  <2>5. eng.open \in UpSessions
    BY <2>1 DEF Shape, EngineShape, PlaceShape, Down
  <2>6. Projects(cp', session')
    BY <1>1, <2>1, <2>3, <2>5, ProjectsOn DEF Content
  <2> QED BY <1>1, <2>1, <2>3, <2>4, <2>6, CommittedContent
<1>5. CASE OpenFails
  BY <1>5, StoppedContent DEF OpenFails, Failures
<1> QED BY <1>3, <1>4, <1>5

\* Every step of an attachment.
LEMMA AttachContent ==
  ASSUME Shape, Content, Shape', AttachStep
  PROVE  Content'
BY RecoveryContent, OpeningContent DEF AttachStep

\* A pass of the loop, without a reducer.
LEMMA LoopContent ==
  ASSUME ~Reducing, Shape, Flow, Content, Shape', LoopStep
  PROVE  Content'
<1>1. /\ Sound(cp) /\ Coherent(cp) /\ Asks(asked, cp) /\ StartsMade(work, asked) /\ Sound(cp')
      /\ cp \in Checkpoints
  BY CheckpointTypes DEF Shape, Content
<1>2. /\ eng.pc \in {"dispatch", "advance"} /\ eng \in UpEngines /\ ~Reduce
  <2>1. eng.pc \in {"dispatch", "advance"}
    BY DEF LoopStep, Dispatch, RequestsExhausted, Reduce, Generate, PrepareClose, Complete, Rest,
       Advancing
  <2> QED BY <2>1, EngineTypes DEF Shape, Reduce, MayReduce
<1>3. CASE Dispatch \/ Rest
  <2>1. /\ UNCHANGED <<cp, exchangeVars>> /\ eng'.pc \in {"advance", "idle"}
    BY <1>2, <1>3 DEF Dispatch, Rest, UpEngines
  <2>2. Latest' = Latest
    BY <1>2, <2>1 DEF Latest
  <2> QED BY <1>1, <2>1, <2>2, UnmovedContent DEF exchangeVars
<1>4. CASE RequestsExhausted \/ Complete
  BY <1>4, StoppedContent DEF RequestsExhausted, Complete, RunStates
<1>5. CASE Generate
  <2>1. /\ eng.pc = "advance" /\ ~InGeneration(cp) /\ cp.commands = <<>>
        /\ cp' = Generated(cp) /\ eng'.pc = "dispatch" /\ UNCHANGED exchangeVars
    BY <1>2, <1>5 DEF Generate, Advancing, CanAdvance, Pass, UpEngines
  <2>2. /\ Coherent(cp') /\ cp'.gen = cp.gen + 1 /\ cp'.history = cp.history /\ ~cp'.started
    BY <1>1, <2>1, GeneratedContent
  <2>3. Asks(asked, cp')
    <3>1. cp.gen \in Nat
      BY <1>1, CheckpointTypes
    <3> QED BY <1>1, <2>2, <3>1 DEF Asks
  <2>4. session.phase = "up" => Projects(cp', session)
    <3>1. Latest = cp /\ Conversing
      BY <2>1 DEF Latest, Flow, Attaching
    <3>2. session.phase = "up" => session.active = None
      BY <2>1, <3>1 DEF Conversing, Meeting, Meets, Calling
    <3> QED BY <2>2, <3>1, <3>2 DEF Content, Projects
  <2> QED BY <1>1, <2>1, <2>2, <2>3, <2>4, CommittedContent DEF exchangeVars
<1>6. CASE PrepareClose
  <2> DEFINE command == Plain("Close", 1)
             longer == Append(cp.commands, command)
             d == [[cp EXCEPT !.commands = longer] EXCEPT !.closing = TRUE]
  <2>1. /\ eng.pc = "advance" /\ cp.commands = <<>> /\ cp' = d /\ eng'.pc = "dispatch"
        /\ UNCHANGED exchangeVars
    BY <1>2, <1>6 DEF PrepareClose, Advancing, CanAdvance, Pass, Prepared, UpEngines
  <2>2. \A i \in DOMAIN longer : longer[i].intent = "Close"
    BY <2>1 DEF Plain
  <2> HIDE DEF longer
  <2>3. /\ d.commands = longer
        /\ d.history = cp.history /\ d.revision = cp.revision /\ d.gen = cp.gen
        /\ d.start = cp.start /\ d.covered = cp.covered /\ d.input = cp.input
        /\ d.status = cp.status /\ d.started = cp.started
    BY <1>1 DEF Checkpoints
  <2> HIDE DEF d
  <2>4. d.status \notin {None, "Continuation"} => d.started
    BY <1>1, <2>3 DEF Coherent
  <2>5. Coherent(d) /\ Grows(cp, d)
    BY <1>1, <2>2, <2>3, <2>4, UpdatedContent
  <2> QED BY <1>1, <2>1, <2>3, <2>5, GrownContent DEF exchangeVars
<1> QED BY <1>2, <1>3, <1>4, <1>5, <1>6 DEF LoopStep

-----------------------------------------------------------------------------
\* What the engine receives

\* collect: a generation starts in the checkpoint only once it was asked for.
LEMMA CollectContent ==
  ASSUME Shape, Flow, Content, Collect
  PROVE  Content'
<1> DEFINE item == Head(work)
           c == Latest
           e == item.body
           d == Recorded(Handled([c EXCEPT !.cursor = item.sequence], e), e)
           staged == StagedWith(item)
<1>1. /\ eng.pc \in {"idle", "batch"} /\ Conversing /\ Staged.cp = c
      /\ work # <<>> /\ item.type = "Event" /\ item.sequence \in Nat /\ e \in Events
      /\ Flight[1] = e /\ Fresh(cp, item) /\ Expected(c, e)
  BY CollectsNext
<1>2. /\ eng' = [eng EXCEPT !.pc = "batch", !.staged = staged,
                            !.sent = IF e.kind = "Acknowledged" THEN @ \ {e.id} ELSE @]
      /\ work' = Tail(work) /\ cp' = cp /\ session' = session /\ asked' = asked
  BY <1>1 DEF Collect
<1>3. staged.cp = d
  BY <1>1 DEF StagedWith
<1>4. /\ eng \in UpEngines /\ work \in Seq(Items) /\ Sound(c) /\ Sound(cp)
      /\ session.phase = "up" => session \in UpSessions
  BY <1>1, LatestTypes DEF Shape
<1> HIDE DEF staged
<1>5. eng'.pc = "batch" /\ eng'.staged = staged
  BY <1>2, <1>4 DEF UpEngines
<1>6. Latest' = d
  BY <1>3, <1>5 DEF Latest
<1>7. e.kind = "Finished" => e.pos = c.covered
  <2>1. PICK k \in Nat : Flowing(c, Flight, k)
    BY <1>1 DEF Conversing, Meeting
  <2>2. 1 \in DOMAIN Flight
    BY <1>1, NextSignal, BehindHead
  <2> QED BY <1>1, <2>1, <2>2 DEF Flowing, Fitting
<1>8. Coherent(c) /\ Asks(asked, c) /\ Grows(cp, c)
  BY DEF Content
<1>9. /\ Sound(d) /\ Coherent(d) /\ Grows(c, d)
      /\ d.started => c.started \/ (e.kind = "Started" /\ e.gen = c.gen)
  BY <1>1, <1>4, <1>7, <1>8, StagedContent
<1>10. e.kind = "Started" => Made(asked, e.gen)
  <2>1. item = work[1] /\ 1 \in DOMAIN work
    BY <1>1, NextSignal
  <2> QED BY <1>1, <2>1 DEF Content, StartsMade
<1> HIDE DEF d, e, c, item
<1>11. Asks(asked, d)
  BY <1>4, <1>8, <1>9, <1>10, AsksOn
<1>12. Grows(cp, d)
  BY <1>4, <1>8, <1>9, GrowsOn
<1>13. session.phase = "up" => Projects(d, session)
  BY <1>4, <1>9, ProjectsOn DEF Content, c
<1>14. StartsMade(work', asked)
  <2>1. \A i \in DOMAIN work' : i + 1 \in DOMAIN work /\ work'[i] = work[i + 1]
    BY <1>1, <1>2, <1>4
  <2> QED BY <2>1 DEF Content, StartsMade
<1> QED BY <1>2, <1>5, <1>6, <1>9, <1>11, <1>12, <1>13, <1>14 DEF Content

\* What is left in the queue after the next item was taken, or none.
LEMMA TakenStarts ==
  ASSUME Shape, Content, work' = work \/ (work # <<>> /\ work' = Tail(work))
  PROVE  StartsMade(work', asked)
<1>1. work \in Seq(Items) /\ StartsMade(work, asked)
  BY DEF Shape, Content
<1>2. ASSUME work # <<>>, work' = Tail(work)
      PROVE  \A i \in DOMAIN work' : i + 1 \in DOMAIN work /\ work'[i] = work[i + 1]
  BY <1>1, <1>2
<1> QED BY <1>1, <1>2 DEF StartsMade

\* The batch becomes the checkpoint.
LEMMA CommitBatchContent ==
  ASSUME Shape, Flow, Content, CommitBatch
  PROVE  Content'
<1> DEFINE c == eng.staged.cp
           stashes == ~BatchClosed /\ work # <<>>
<1>1. eng.pc = "batch" /\ Latest = c /\ eng \in UpEngines /\ Sound(c) /\ Conversing
      /\ eng.staged \in Stagings
  <2>1. eng.pc = "batch" /\ Latest = c
    BY DEF CommitBatch, Latest
  <2> QED BY <2>1, LatestTypes DEF Flow, Attaching, Shape, EngineShape, PlaceShape, Down
<1>2. Coherent(c) /\ Asks(asked, c)
  BY <1>1 DEF Content
<1>3. CASE eng.staged.cp.state # "Running"
  BY <1>1, <1>2, <1>3, LeaveContent DEF CommitBatch
<1>4. CASE ~(eng.staged.cp.state # "Running")
  <2>1. /\ cp' = c /\ work' = (IF stashes THEN Tail(work) ELSE work)
        /\ eng' = [eng EXCEPT !.pc = eng.staged.next, !.staged = None,
                              !.stash = IF stashes THEN Head(work) ELSE None]
        /\ session' = session /\ asked' = asked
    BY <1>4 DEF CommitBatch
  <2>2. eng'.pc \in {"dispatch", "suspending", "failing"}
    BY <1>1, <2>1 DEF UpEngines, Stagings
  <2>3. StartsMade(work', asked)
    BY <2>1, TakenStarts
  <2>4. session'.phase = "up" => Projects(cp', session')
    BY <1>1, <2>1 DEF Content
  <2> HIDE DEF c
  <2> QED BY <1>1, <1>2, <2>1, <2>2, <2>3, <2>4, CommittedContent
<1> QED BY <1>3, <1>4

\* Work that is no event.
LEMMA HandleContent ==
  ASSUME Shape, Content, NEW type, Receives(type),
         NEW e \in {eng, [eng EXCEPT !.sending = FALSE]}, Handle(e)
  PROVE  Content'
<1>1. eng.pc = "idle" /\ eng \in UpEngines
  BY EngineTypes DEF Receives, Shape
<1>2. /\ eng'.pc = "dispatch" /\ cp' = cp /\ session' = session /\ asked' = asked
      /\ work' = work \/ (work # <<>> /\ work' = Tail(work))
  BY <1>1 DEF Handle, Receives, UpEngines
<1>3. Latest' = Latest
  BY <1>1, <1>2 DEF Latest
<1> QED BY <1>2, <1>3, TakenStarts, UnmovedContent

\* Every step that takes work from the queue.
LEMMA WorkContent ==
  ASSUME Shape, Flow, Content, WorkStep
  PROVE  Content'
<1>1. CASE SuspendAfterBatch
  BY <1>1, StoppedContent DEF SuspendAfterBatch, Failures
<1>2. CASE CommandSent
  BY <1>2, HandleContent, StoppedContent DEF CommandSent
<1>3. CASE ModelEnded
  <2>1. Handle(eng) \/ Suspend \/ Fail("model") \/ Fail("protocol")
    BY <1>3 DEF ModelEnded
  <2>2. Receives("Ended")
    BY <1>3 DEF ModelEnded
  <2> QED BY <2>1, <2>2, HandleContent, StoppedContent DEF Failures
<1> QED BY <1>1, <1>2, <1>3, CollectContent, CommitBatchContent DEF WorkStep

\* The task that submits commands.
LEMMA SubmitContent ==
  ASSUME Shape, Content, SubmitStep
  PROVE  Content'
<1>1. eng.pc # "down" /\ eng \in UpEngines
  BY EngineTypes DEF Shape, SubmitStep, Submit, ReportSent
<1>2. /\ cp' = cp /\ session' = session /\ asked' = asked
      /\ eng'.pc = eng.pc /\ eng'.open = eng.open /\ eng'.staged = eng.staged
  BY <1>1 DEF SubmitStep, Submit, ReportSent, UpEngines
<1>3. Latest' = Latest
  BY <1>2 DEF Latest
<1>4. StartsMade(work', asked)
  <2>1. CASE Submit
    BY <2>1 DEF Submit, Content
  <2>2. CASE ReportSent
    <3>1. PICK result \in {"ok", "error"} : work' = Append(work, SentItem(result))
      BY <2>2 DEF ReportSent
    <3>2. SentItem(result) \in Items /\ SentItem(result).type # "Event"
      BY ItemTypes DEF SentItem
    <3> QED BY <3>1, <3>2, QueuedStarts DEF Shape, Content
  <2> QED BY <2>1, <2>2 DEF SubmitStep
<1> QED BY <1>2, <1>3, <1>4, UnmovedContent

-----------------------------------------------------------------------------
\* What is asked, and what is answered

\* A new run: the history is the first message, and nothing was asked.
LEMMA InitContent ==
  Init => Content /\ DoneIsAnswered
<1> SUFFICES ASSUME Init PROVE Content /\ DoneIsAnswered
  OBVIOUS
<1> DEFINE entry == Entry("User", 0, 0)
<1>1. /\ cp.history = <<entry>> /\ cp.revision = 0 /\ cp.commands = <<>> /\ cp.status = None
      /\ cp.gen = 0 /\ cp.start = 0 /\ cp.covered = 0 /\ cp.input = 0 /\ ~cp.started
      /\ cp.state = "Running"
  BY DEF Init, Initial
<1>2. eng.pc = "catalog" /\ session.phase = "absent" /\ work = <<>> /\ asked = <<>>
  BY DEF Init, Running, Absent
<1>3. entry.n = 0
  BY DEF Entry
<1> HIDE DEF entry
<1>4. Coherent(cp)
  BY <1>1, <1>3 DEF Coherent, Covers
<1>5. Asks(asked, cp) /\ CallsInOrder(asked) /\ StartsMade(work, asked)
  BY <1>1, <1>2 DEF Asks, CallsInOrder, StartsMade
<1>6. Latest = cp /\ Grows(cp, cp)
  BY <1>2 DEF Latest, Grows
<1> QED BY <1>1, <1>2, <1>4, <1>5, <1>6 DEF Content, DoneIsAnswered

\* Every step keeps the content, unless a reducer replaces it.
LEMMA NextContent ==
  ASSUME ~Reducing, Shape, Once, Flow, Content, [Next]_vars
  PROVE  Content'
<1>1. Shape'
  BY NextShape
<1>2. CASE UNCHANGED vars
  BY <1>2 DEF vars, Content, Latest
<1>3. CASE Host \/ Crash
  BY <1>1, <1>3, HostContent
<1>4. CASE EngineStep
  BY <1>1, <1>4, AttachContent, LoopContent, SubmitContent, WorkContent DEF EngineStep
<1>5. CASE ModelStep
  BY <1>5, ModelContent
<1> QED BY <1>2, <1>3, <1>4, <1>5 DEF Next, Done

\* A run completes only when nothing is due, and stays as it is.
LEMMA NextDone ==
  ASSUME Shape, Promised, DoneIsAnswered, [Next]_vars
  PROVE  DoneIsAnswered'
<1>1. RunStep
  BY NextPromised
<1> QED BY <1>1 DEF RunStep, DoneIsAnswered, Due, Promise!Next, Promise!vars, Promise!Accept,
       Promise!Answer, Promise!Close, Promise!Suspend, Promise!Attach, Promise!Complete,
       Promise!Stop


\* The last call the model service got.
LEMMA LastCall ==
  ASSUME Shape, asked # <<>>
  PROVE  asked[Len(asked)].content \in Histories
<1> DEFINE R == [gen : Nat, content : Histories]
<1>1. asked \in Seq(R)
  BY DEF Shape
<1>2. \A r \in R : r.content \in Histories
  OBVIOUS
<1> HIDE DEF R
<1>3. asked[Len(asked)] \in R
  BY <1>1
<1> QED BY <1>2, <1>3

\* The last call is for the generation of the run, when that was asked for.
LEMMA LastIsLatest ==
  ASSUME Shape, Content, Made(asked, cp.gen)
  PROVE  /\ asked # <<>> /\ asked[Len(asked)].gen = cp.gen
         /\ Begins(asked[Len(asked)].content, cp.start, cp.history)
<1>1. /\ asked \in Seq([gen : Nat, content : Histories]) /\ cp.gen \in Nat
      /\ Asks(asked, cp) /\ CallsInOrder(asked)
  BY CheckpointTypes DEF Shape, Sound, Content
<1>2. PICK i \in DOMAIN asked : asked[i].gen = cp.gen
  BY DEF Made
<1>3. Len(asked) \in Nat \ {0} /\ Len(asked) \in DOMAIN asked /\ i <= Len(asked) /\ i \in Nat
  BY <1>1, <1>2
<1>4. asked[Len(asked)].gen \in 1..cp.gen
  BY <1>1, <1>3 DEF Asks
<1>5. asked[Len(asked)].gen = cp.gen
  <2>1. CASE i = Len(asked)
    BY <1>2, <2>1
  <2>2. CASE i < Len(asked)
    BY <1>1, <1>2, <1>3, <1>4, <2>2 DEF CallsInOrder
  <2> QED BY <1>3, <2>1, <2>2
<1> QED BY <1>1, <1>3, <1>5 DEF Asks

\* What begins a history is a part of it.
LEMMA BeginningIsPart ==
  ASSUME NEW p \in Histories, NEW n \in Nat, NEW h \in Histories, Begins(p, n, h)
  PROVE  p = SubSeq(h, 1, n)
<1>1. p \in Seq(Entries) /\ h \in Seq(Entries) /\ Len(p) = n /\ n <= Len(h)
  BY DEF Histories, Begins
<1>2. SubSeq(h, 1, n) \in Seq(Entries) /\ Len(SubSeq(h, 1, n)) = n
      /\ \A i \in 1..n : SubSeq(h, 1, n)[i] = h[i]
  BY <1>1
<1>3. \A i \in 1..n : p[i] = h[i]
  BY DEF Begins
<1> DEFINE q == SubSeq(h, 1, n)
<1>4. q \in Seq(Entries) /\ Len(q) = n /\ \A i \in 1..n : p[i] = q[i]
  BY <1>2, <1>3
<1> HIDE DEF q
<1>5. p = q
  BY <1>1, <1>4
<1> QED BY <1>5 DEF q

\* The content of the last call, for the generation that is open.
LEMMA ContentIsProjection ==
  ASSUME Shape, Content
  PROVE  ProjectionIsHistory
<1> SUFFICES ASSUME asked # <<>>, asked[Len(asked)].gen = cp.gen
             PROVE  asked[Len(asked)].content = SubSeq(cp.history, 1, cp.start)
  BY DEF ProjectionIsHistory
<1>1. asked \in Seq([gen : Nat, content : Histories])
  BY DEF Shape
<1>2. Len(asked) \in DOMAIN asked
  BY <1>1
<1>3. Made(asked, cp.gen)
  BY <1>2 DEF Made
<1>4. asked[Len(asked)].content \in Histories /\ cp.start \in Nat /\ cp.history \in Histories
  <2>1. asked[Len(asked)].content \in Histories
    BY LastCall
  <2>2. cp \in Checkpoints
    BY DEF Shape, Sound
  <2> QED BY <2>1, <2>2 DEF Checkpoints
<1> QED BY <1>3, <1>4, LastIsLatest, BeginningIsPart

\* A run that has nothing due has shown every input to the model.
LEMMA ContentIsAnswered ==
  ASSUME Shape, Content, DoneIsAnswered
  PROVE  EveryInputAnswered
<1> SUFFICES ASSUME cp.state = "Completed"
             PROVE  /\ asked[Len(asked)].gen = cp.gen
                    /\ \A i \in DOMAIN cp.history : IsInput(cp.history[i]) =>
                         \E j \in DOMAIN asked[Len(asked)].content :
                            asked[Len(asked)].content[j] = cp.history[i]
  BY DEF EveryInputAnswered
<1> DEFINE last == asked[Len(asked)]
<1>1. cp.status = "Completed" /\ cp.covered = cp.input
  BY DEF DoneIsAnswered, Due
<1>2. Sound(cp) /\ cp \in Checkpoints /\ Coherent(cp) /\ Asks(asked, cp)
  BY DEF Shape, Sound, Content
<1>3. Made(asked, cp.gen)
  BY <1>1, <1>2, NoneIsNoValue DEF Coherent, Asks
<1>4. last.gen = cp.gen /\ Begins(last.content, cp.start, cp.history)
  BY <1>3, LastIsLatest
<1>5. cp.gen # 0
  BY <1>2, <1>3, CheckpointTypes DEF Made, Asks
<1>6. last.content \in Seq(Entries)
  <2>1. asked # <<>>
    BY <1>3, LastIsLatest
  <2> QED BY <2>1, LastCall DEF Histories
<1> HIDE DEF last
<1>7. ASSUME NEW i \in DOMAIN cp.history, IsInput(cp.history[i])
      PROVE  \E j \in DOMAIN last.content : last.content[j] = cp.history[i]
  <2>1. /\ cp.history \in Seq(Entries) /\ i \in 1..Len(cp.history) /\ cp.start \in Nat
        /\ cp.history[i].n \in Nat /\ cp.covered \in Nat
    BY <1>2, CheckpointTypes
  <2>2. cp.history[i].n <= cp.covered
    BY <1>1, <1>2, <1>7 DEF Coherent, Covers
  <2>3. i <= cp.start
    BY <1>2, <1>5, <1>7, <2>1, <2>2 DEF Coherent, Covers
  <2> QED BY <1>4, <1>6, <2>1, <2>3 DEF Begins
<1> QED BY <1>4, <1>7 DEF last

\* The model is called with what was committed: whatever is appended, crashes
\* or is rebuilt meanwhile, the content of the call for the open generation is
\* the history up to where that generation started (projection_from and the
\* outbox).  A reducer replaces the history of the session, see the README.
THEOREM CallsAreHistory ==
  ASSUME ~Reducing PROVE Spec => []ProjectionIsHistory
<1>1. Init => Once /\ Flow /\ Content
  BY InitOnce, InitFlow, InitContent
<1>2. Shape /\ Once /\ Flow /\ Content /\ [Next]_vars => Once' /\ Flow' /\ Content'
  BY NextOnce, NextFlow, NextContent
<1>3. Shape /\ Content => ProjectionIsHistory
  BY ContentIsProjection
<1> QED BY <1>1, <1>2, <1>3, Shaped, PTL DEF Spec

\* A run that completed has put every input before the model: no message that
\* was accepted while it generated is left out of the last call (advance).
THEOREM InputsAreAnswered ==
  ASSUME ~Reducing PROVE Spec => []EveryInputAnswered
<1>1. Init => Once /\ Promised /\ Flow /\ Content /\ DoneIsAnswered
  BY InitOnce, InitPromised, InitFlow, InitContent
<1>2. Shape /\ Once /\ Promised /\ Flow /\ Content /\ DoneIsAnswered /\ [Next]_vars
        => Once' /\ Promised' /\ Flow' /\ Content' /\ DoneIsAnswered'
  BY NextOnce, NextPromised, NextFlow, NextContent, NextDone
<1>3. Shape /\ Content /\ DoneIsAnswered => EveryInputAnswered
  BY ContentIsAnswered
<1> QED BY <1>1, <1>2, <1>3, Shaped, PTL DEF Spec
=============================================================================
