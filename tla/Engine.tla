------------------------------- MODULE Engine -------------------------------
(***************************************************************************)
(* The kernel's engine (zhir-kernel/src/engine) driving an exchange        *)
(* session: attach and recovery, opening, the pass of the main loop        *)
(* (dispatch, advance, receive), session events applied in batches, and    *)
(* host controls.  No tools, delegations or media: see Operations.         *)
(*                                                                         *)
(* `cp` is the durable checkpoint.  A commit is one assignment to it; the  *)
(* store below it is RunStore's subject.  Everything else of the engine is *)
(* volatile.                                                               *)
(***************************************************************************)
EXTENDS Exchange, SequencesExt

CONSTANTS Mode,         \* RunMode: "Task" or "Interactive"
          InputKinds,   \* messages the host sends: "User", "External"
          MaxInputs,    \* bound on the input position
          MaxProfiles,  \* bound on profile updates
          MaxSeals,     \* bound on SealUserInput controls
          MaxRequests,  \* limits.max_generation_requests
          Reducing      \* is a history reducer configured?

ASSUME EngineConstants ==
    /\ Mode \in {"Task", "Interactive"}
    /\ InputKinds \subseteq {"User", "External"}
    /\ MaxInputs \in Nat /\ MaxProfiles \in Nat /\ MaxSeals \in Nat /\ MaxRequests \in Nat
    /\ Reducing \in BOOLEAN

\* Option::None is no resume request.
ASSUME NoneIsNoRequest == None \notin [abandon : BOOLEAN, message : {None, "User", "External"}]

\* Nor a failure.
ASSUME NoneIsNoFailure == None \notin {"model", "protocol", "invalid", "generation"}

VARIABLES cp, eng

vars == <<cp, eng, commands, work, session, asked>>

\* A history entry: the n-th input, an output or completion of generation n,
\* or the summary that replaced the history at revision n.
Entry(kind, n, item) == [kind |-> kind, n |-> n, item |-> item]
IsInput(entry) == entry.kind \in {"User", "External"}

\* PendingCommand.  Only Generate is ever durable with sent = true.
AppendCommand(revision, entry, pos, source) ==
    [intent |-> "Append", n |-> revision, entry |-> entry, pos |-> pos, source |-> source]
GenerateCommand(c) ==
    [intent |-> "Generate", n |-> c.gen, revision |-> c.revision, pos |-> c.input,
     profile |-> c.profile]
Plain(intent, n) == [intent |-> intent, n |-> n]

SentDurably(c) == c.intent = "Generate"

\* checkpoint::initial for a new run of that mode with one user message.
Initial(mode) ==
    [state |-> "Running", failure |-> None,
     gen |-> 0, started |-> FALSE, status |-> None, needs |-> TRUE,
     revision |-> 0, ack |-> 0, input |-> 0, covered |-> 0, start |-> 0,
     ready |-> FALSE, inputClosed |-> mode = "Task", closing |-> FALSE,
     closure |-> FALSE, cursor |-> None, profile |-> 0, seals |-> 0,
     reduced |-> None,
     history |-> <<Entry("User", 0, 0)>>, commands |-> <<>>]

InGeneration(c) == c.gen # 0 /\ c.status = None

\* The engine between attach and settlement.
Running(pc, request, sent) ==
    [pc |-> pc, request |-> request, open |-> None, sent |-> sent,
     sending |-> FALSE, batch |-> <<>>, staged |-> None, stash |-> None]
Down == [pc |-> "down"]

\* append_command: one more context revision, one more pending Append.
WithAppend(c, index, source) ==
    [c EXCEPT !.revision = @ + 1,
              !.commands = Append(@, AppendCommand(c.revision + 1, index, c.input, source))]

\* stage_entries of one entry.
WithEntry(c, entry) ==
    WithAppend([c EXCEPT !.history = Append(@, entry)], Len(c.history) + 1, "Accepted")

-----------------------------------------------------------------------------
\* Leaving the engine

\* stop_workers: the session, its channels and every worker task go.
TearDown ==
    /\ eng' = Down
    /\ session' = Absent
    /\ commands' = <<>>
    /\ work' = <<>>
    /\ UNCHANGED asked

\* A commit that leaves Running ends the execution.
Leave(c) == cp' = c /\ TearDown

Suspend == Leave([cp EXCEPT !.state = "Suspended"])

\* settle of an error that is neither Storage nor Conflict.
Fail(reason) == Leave([cp EXCEPT !.state = "Failed", !.failure = reason])

-----------------------------------------------------------------------------
\* Controls, served while the catalog and the model open and by receive_work,
\* there before other work but after stashed work.

Serving == \/ eng.pc \in {"catalog", "opening"}
           \/ eng.pc = "idle" /\ eng.stash = None
Served == [eng EXCEPT !.pc = IF @ = "idle" THEN "dispatch" ELSE @]

\* Variant: a message after Close.
InsertableWhileClosing(c, kind) == ~(c.inputClosed /\ kind = "User")

\* insert: the message, its input position and its Append are one commit.
Insertable(c, kind) == ~c.closing /\ ~(c.inputClosed /\ kind = "User")
Inserted(c, kind) ==
    WithAppend([c EXCEPT !.history = Append(@, Entry(kind, c.input + 1, 0)),
                         !.input = @ + 1,
                         !.needs = TRUE],
               Len(c.history) + 1, "Submitted")

ControlInput(kind) ==
    /\ Serving
    /\ cp.input < MaxInputs
    /\ Insertable(cp, kind)
    /\ cp' = Inserted(cp, kind)
    /\ eng' = Served
    /\ UNCHANGED exchangeVars

ControlPause == Serving /\ Suspend

\* prepare_command
Prepared(c, command) == [c EXCEPT !.commands = Append(@, command)]
Pending(intent) == {i \in DOMAIN cp.commands : cp.commands[i].intent = intent}

\* The outbox without the command of that identity.
FirstOf(S) == CHOOSE i \in S : \A j \in S : i <= j
Places(outbox, id) == {i \in DOMAIN outbox : Id(outbox[i]) = id}
Dropped(outbox, id) ==
    IF Places(outbox, id) = {} THEN outbox ELSE RemoveAt(outbox, FirstOf(Places(outbox, id)))

ControlSeal ==
    /\ Serving
    /\ cp.seals < MaxSeals
    /\ cp' = [Prepared(cp, Plain("Seal", cp.seals + 1)) EXCEPT !.inputClosed = TRUE,
                                                              !.seals = @ + 1]
    /\ eng' = Served
    /\ UNCHANGED exchangeVars

\* update_profile: one revision after the last pending or acknowledged one.
ControlProfile ==
    LET revision == cp.profile + Cardinality(Pending("Profile")) + 1
    IN  /\ Serving
        /\ revision <= MaxProfiles
        /\ cp' = Prepared(cp, Plain("Profile", revision))
        /\ eng' = Served
        /\ UNCHANGED exchangeVars

\* check: the host cancels, or the deadline of the run passes.
Interrupt ==
    /\ Serving \/ eng.pc = "dispatch"
    /\ \E state \in {"Cancelled", "Limited"} : Leave([cp EXCEPT !.state = state])

-----------------------------------------------------------------------------
\* apply_recovery: the host's resolution, its message, then the decision.
\* A request is None for a new run.

CatalogOpened ==
    /\ eng.pc = "catalog"
    /\ eng' = [eng EXCEPT !.pc = IF eng.request = None THEN "open" ELSE "recover"]
    /\ UNCHANGED <<cp, exchangeVars>>

\* The unfinished generation becomes a Continuation and loses its command.
Abandoned(c) ==
    [c EXCEPT !.commands = Dropped(@, <<"Generate", c.gen>>),
              !.status = "Continuation",
              !.needs = TRUE]

Resolve ==
    /\ eng.pc = "recover"
    /\ eng.request.abandon
    /\ cp' = Abandoned(cp)
    /\ eng' = [eng EXCEPT !.request.abandon = FALSE]
    /\ UNCHANGED exchangeVars

ResumeMessage ==
    /\ eng.pc = "recover"
    /\ ~eng.request.abandon
    /\ eng.request.message # None
    /\ IF Insertable(cp, eng.request.message)
         THEN /\ cp' = Inserted(cp, eng.request.message)
              /\ eng' = [eng EXCEPT !.request.message = None]
              /\ UNCHANGED exchangeVars
         ELSE Fail("invalid")

\* Variant: an unanswered generation is sent again.
DecideRecoveryByResending ==
    /\ eng.pc = "recover"
    /\ ~eng.request.abandon
    /\ eng.request.message = None
    /\ eng' = [eng EXCEPT !.pc = "open", !.sent = {}]
    /\ UNCHANGED <<cp, exchangeVars>>

DecideRecovery ==
    /\ eng.pc = "recover"
    /\ ~eng.request.abandon
    /\ eng.request.message = None
    /\ IF InGeneration(cp) \/ \E i \in DOMAIN cp.commands : SentDurably(cp.commands[i])
         THEN Suspend
         ELSE /\ eng' = [eng EXCEPT !.pc = "open"]
              /\ UNCHANGED <<cp, exchangeVars>>

-----------------------------------------------------------------------------
\* open_model

Appends(c) == {i \in DOMAIN c.commands : c.commands[i].intent = "Append"}

\* Variant: the seed includes the first pending entry.
SeedEndInclusive(c) == IF Appends(c) = {} THEN Len(c.history)
                       ELSE FirstOf({c.commands[i].entry : i \in Appends(c)})

\* The seed: history before the first pending Append.
SeedEnd(c) == IF Appends(c) = {} THEN Len(c.history)
              ELSE FirstOf({c.commands[i].entry : i \in Appends(c)}) - 1

\* Variant: one input too many is left out.
SeedPositionShort(c) ==
    LET inputs == {i \in Appends(c) : c.commands[i].source = "Submitted"}
    IN  IF inputs = {} THEN c.input ELSE c.commands[FirstOf(inputs)].pos - 2

\* The input position before the first pending input.
SeedPosition(c) ==
    LET inputs == {i \in Appends(c) : /\ c.commands[i].source = "Submitted"
                                      /\ IsInput(c.history[c.commands[i].entry])}
    IN  IF inputs = {} THEN c.input ELSE c.commands[FirstOf(inputs)].pos - 1

OpenModel ==
    /\ eng.pc = "open"
    /\ eng' = [eng EXCEPT !.pc = "opening",
                          !.open = SessionTask(SubSeq(cp.history, 1, SeedEnd(cp)),
                                               cp.ack, SeedPosition(cp), cp.profile)]
    /\ UNCHANGED <<cp, exchangeVars>>

\* Variant: the readiness of the lost session is kept.
SessionOpenedStillReady ==
    /\ eng.pc = "opening"
    /\ cp' = [cp EXCEPT !.cursor = None]
    /\ session' = eng.open
    /\ eng' = [eng EXCEPT !.pc = "dispatch", !.open = None]
    /\ UNCHANGED <<commands, work, asked>>

SessionOpened ==
    /\ eng.pc = "opening"
    /\ cp' = [cp EXCEPT !.ready = FALSE, !.cursor = None]
    /\ session' = eng.open
    /\ eng' = [eng EXCEPT !.pc = "dispatch", !.open = None]
    /\ UNCHANGED <<commands, work, asked>>

OpenFails ==
    /\ ServiceFaults
    /\ eng.pc = "opening"
    /\ Suspend \/ Fail("model")

-----------------------------------------------------------------------------
\* One pass of the loop: dispatch_commands, then advance, then receive_work
\* when neither committed anything.

\* command_body: what a command carries is read when it is dispatched.
Body(c) ==
    CASE c.intent = "Append"  -> [c EXCEPT !.entry = cp.history[c.entry]]
      [] c.intent = "Replace" -> [intent |-> "Replace", n |-> c.n, entries |-> cp.history]
      [] OTHER                -> c

Unsent == {i \in DOMAIN cp.commands : Id(cp.commands[i]) \notin eng.sent}

\* A Generate goes alone; other commands up to the next Generate go together.
\* can_send holds for an exchange session without media.
Sendable ==
    LET generates == {i \in Unsent : SentDurably(cp.commands[i])}
    IN  IF FirstOf(Unsent) \in generates THEN {FirstOf(Unsent)}
        ELSE {i \in Unsent : \A j \in generates : i < j}

\* The batch: by its place in the outbox, what each command carries.
Dispatch ==
    /\ eng.pc = "dispatch"
    /\ eng' = IF eng.sending \/ ~cp.ready \/ Unsent = {}
                THEN [eng EXCEPT !.pc = "advance"]
                ELSE [eng EXCEPT
                       !.pc = "advance",
                       !.sending = TRUE,
                       !.sent = @ \cup {Id(cp.commands[i]) : i \in Sendable},
                       !.batch = [i \in Sendable |-> Body(cp.commands[i])]]
    /\ UNCHANGED <<cp, exchangeVars>>

\* Variant: a generation in progress is not looked at.
CanAdvanceEarly == cp.ready /\ cp.commands = <<>> /\ ~eng.sending

\* can_advance, without operations.
CanAdvance == /\ cp.ready
              /\ ~InGeneration(cp)
              /\ cp.commands = <<>>
              /\ ~eng.sending

\* input_finished
InputFinished == /\ cp.status = "Completed" /\ ~cp.needs /\ cp.covered = cp.input
                 /\ Mode = "Task" \/ cp.inputClosed

Advancing == eng.pc = "advance" /\ CanAdvance
Pass(c) == cp' = c /\ eng' = [eng EXCEPT !.pc = "dispatch"] /\ UNCHANGED exchangeVars

RequestsExhausted ==
    /\ Advancing /\ cp.needs
    /\ cp.gen >= MaxRequests
    /\ Leave([cp EXCEPT !.state = "Limited"])

\* The reducer rewrites the history, at most once per context revision.
MayReduce == Reducing /\ cp.reduced # cp.revision

Reduce ==
    /\ Advancing /\ cp.needs
    /\ cp.gen < MaxRequests
    /\ MayReduce
    /\ LET revision == cp.revision + 1
       IN  Pass([cp EXCEPT !.history = <<Entry("Summary", revision, 0)>>,
                           !.start = 1,
                           !.revision = revision,
                           !.reduced = revision,
                           !.commands = Append(@, Plain("Replace", revision))])

\* The generation and its command are one commit.
Generated(c) ==
    LET d == [c EXCEPT !.gen = @ + 1,
                       !.started = FALSE,
                       !.status = None,
                       !.needs = FALSE,
                       !.covered = c.input,
                       !.start = Len(c.history)]
    IN  Prepared(d, GenerateCommand(d))

Generate ==
    /\ Advancing /\ cp.needs
    /\ cp.gen < MaxRequests
    /\ Pass(Generated(cp))

\* Variant: the close does not wait for the answer.
PrepareCloseUnanswered ==
    /\ Advancing
    /\ ~cp.closure /\ ~cp.closing
    /\ Pass([Prepared(cp, Plain("Close", 1)) EXCEPT !.closing = TRUE])

PrepareClose ==
    /\ Advancing /\ ~cp.needs /\ InputFinished
    /\ ~cp.closure /\ ~cp.closing
    /\ Pass([Prepared(cp, Plain("Close", 1)) EXCEPT !.closing = TRUE])

Complete ==
    /\ Advancing /\ ~cp.needs /\ InputFinished
    /\ cp.closure
    /\ Leave([cp EXCEPT !.state = "Completed"])

\* advance returns false: nothing to do before the next piece of work.
Rest ==
    /\ eng.pc = "advance"
    /\ CanAdvance => ~cp.needs /\ (InputFinished => ~cp.closure /\ cp.closing)
    /\ eng' = [eng EXCEPT !.pc = "idle"]
    /\ UNCHANGED <<cp, exchangeVars>>

\* The task spawned by dispatch_commands: control.submit for each command,
\* then Work::CommandSent.
Submit ==
    /\ eng.pc # "down"
    /\ eng.sending
    /\ eng.batch # <<>>
    /\ session.phase = "up"
    /\ LET next == FirstOf(DOMAIN eng.batch)
       IN  /\ commands' = Append(commands, eng.batch[next])
           /\ eng' = [eng EXCEPT !.batch = [i \in DOMAIN @ \ {next} |-> @[i]]]
    /\ UNCHANGED <<cp, work, session, asked>>

ReportSent ==
    /\ eng.pc # "down"
    /\ eng.sending
    /\ \A i \in DOMAIN work : work[i].type # "CommandSent"
    /\ eng.stash # None => eng.stash.type # "CommandSent"
    /\ Room
    /\ \/ eng.batch = <<>> /\ work' = Append(work, SentItem("ok"))
       \/ session.phase # "up" /\ eng.batch # <<>> /\ work' = Append(work, SentItem("error"))
    /\ UNCHANGED <<cp, eng, commands, session, asked>>

-----------------------------------------------------------------------------
\* receive_work: session events

\* fresh_sequence: new, or a replay of an event before the saved cursor.
Fresh(c, item) == c.cursor # None => item.sequence > c.cursor

\* What apply_event rejects as a protocol error.
Expected(c, e) ==
    CASE e.kind = "Ready"        -> ~c.ready /\ e.revision = c.ack
      [] e.kind = "Started"      -> ~c.started /\ e.gen = c.gen /\ e.pos = c.covered
      [] e.kind = "Acknowledged" ->
            /\ Places(c.commands, e.id) # {}
            /\ e.id[1] \in {"Append", "Replace"} => e.id[2] = c.ack + 1
      [] e.kind = "Output"       -> e.gen = c.gen /\ InGeneration(c) /\ c.started
      [] e.kind = "Finished"     -> /\ e.gen = c.gen /\ InGeneration(c) /\ c.started
                                    /\ e.pos \in c.covered..c.input
      [] e.kind = "Closed"       -> ~c.closure

\* Variant: the context revision is not confirmed.
RetiredOnly(c, id) == [c EXCEPT !.commands = Dropped(@, id)]

\* acknowledge_command: the command is retired and its revision confirmed.
Retired(c, id) ==
    LET d == [c EXCEPT !.commands = Dropped(@, id)]
    IN  CASE id[1] \in {"Append", "Replace"} -> [d EXCEPT !.ack = id[2]]
          [] id[1] = "Profile"               -> [d EXCEPT !.profile = id[2]]
          [] OTHER                           -> d

\* Variant: an input that arrived during the generation is forgotten.
AnsweredForgettingInput(c, e) ==
    [c EXCEPT !.covered = c.input,
              !.status = e.status,
              !.needs = e.status = "Continuation",
              !.state = IF e.status = "Failed" THEN "Failed" ELSE @,
              !.failure = IF e.status = "Failed" THEN "generation" ELSE @]

\* complete_response, before its history entry.
Answered(c, e) ==
    [c EXCEPT !.covered = e.pos,
              !.status = e.status,
              !.needs = e.status = "Continuation" \/ c.input > e.pos,
              !.state = IF e.status = "Failed" THEN "Failed" ELSE @,
              !.failure = IF e.status = "Failed" THEN "generation" ELSE @]

\* apply_event up to its history entries.
Handled(c, e) ==
    CASE e.kind = "Ready"        -> [c EXCEPT !.ready = TRUE]
      [] e.kind = "Started"      -> [c EXCEPT !.started = TRUE]
      [] e.kind = "Acknowledged" -> Retired(c, e.id)
      [] e.kind = "Output"       -> c
      [] e.kind = "Finished"     -> Answered(c, e)
      [] e.kind = "Closed"       -> [c EXCEPT !.closure = TRUE, !.inputClosed = TRUE]

\* The history entry an output or a completion adds, with its Append.
Recorded(c, e) ==
    CASE e.kind = "Output"   -> WithEntry(c, Entry("Output", e.gen, e.item))
      [] e.kind = "Finished" -> WithEntry(c, Entry("Finished", e.gen, 0))
      [] OTHER               -> c

\* An event that arrives with the session closed and work unfinished.
Unsettled(c, e) ==
    /\ e.kind # "Output"
    /\ c.closure
    /\ c.commands # <<>> \/ InGeneration(c)

\* collect: queued events are applied to one staged checkpoint until the queue
\* is empty, something else is next, or an event closes the batch.
Collecting == eng.pc = "batch" \/ (eng.pc = "idle" /\ eng.stash = None)
Staged == IF eng.pc = "batch" THEN eng.staged ELSE [cp |-> cp, next |-> "dispatch", events |-> 0]
BatchClosed == /\ eng.pc = "batch"
               /\ \/ eng.staged.next # "dispatch"
                  \/ eng.staged.cp.state # "Running"
                  \/ eng.staged.events = Capacity
NextIsEvent == work # <<>> /\ Head(work).type = "Event"

StagedWith(item) ==
    LET handled == Handled([Staged.cp EXCEPT !.cursor = item.sequence], item.body)
    IN  [cp |-> Recorded(handled, item.body),
         next |-> IF Unsettled(handled, item.body) THEN "suspending" ELSE Staged.next,
         events |-> Staged.events + 1]

\* A replayed event is dropped.  An unexpected one fails the run, after the
\* commit of what was staged before it.
Collect ==
    /\ Collecting /\ ~BatchClosed /\ NextIsEvent
    /\ LET item == Head(work)
       IN  IF Fresh(cp, item) => Expected(Staged.cp, item.body)
             THEN /\ eng' = IF ~Fresh(cp, item)
                             THEN [eng EXCEPT !.pc = IF @ = "idle" THEN "dispatch" ELSE @]
                             ELSE [eng EXCEPT
                                    !.pc = "batch",
                                    !.staged = StagedWith(item),
                                    !.sent = IF item.body.kind = "Acknowledged"
                                               THEN @ \ {item.body.id} ELSE @]
                  /\ work' = Tail(work)
                  /\ UNCHANGED <<cp, commands, session, asked>>
             ELSE IF eng.pc = "idle" THEN Fail("protocol")
             ELSE /\ eng' = [eng EXCEPT !.staged.next = "failing"]
                  /\ UNCHANGED <<cp, exchangeVars>>

\* The batch is one commit; a suspension is a second one.  What ended the
\* batch without being an event is stashed.
CommitBatch ==
    /\ eng.pc = "batch"
    /\ BatchClosed \/ ~NextIsEvent
    /\ LET stashes == ~BatchClosed /\ work # <<>>
       IN  IF eng.staged.cp.state # "Running"
             THEN Leave(eng.staged.cp)
             ELSE /\ cp' = eng.staged.cp
                  /\ eng' = [eng EXCEPT
                               !.pc = eng.staged.next,
                               !.staged = None,
                               !.stash = IF stashes THEN Head(work) ELSE None]
                  /\ work' = IF stashes THEN Tail(work) ELSE work
                  /\ UNCHANGED <<commands, session, asked>>

SuspendAfterBatch == IF eng.pc = "failing" THEN Fail("protocol")
                                           ELSE eng.pc = "suspending" /\ Suspend

\* handle: stashed work goes first.
Receives(type) ==
    /\ eng.pc = "idle"
    /\ IF eng.stash # None THEN eng.stash.type = type
                           ELSE work # <<>> /\ Head(work).type = type
Received == IF eng.stash # None THEN eng.stash.result ELSE Head(work).result
Handle(next) ==
    /\ eng' = [next EXCEPT !.pc = "dispatch", !.stash = None]
    /\ work' = IF eng.stash # None THEN work ELSE Tail(work)
    /\ UNCHANGED <<cp, commands, session, asked>>

\* Variant: the sender is still taken to be busy.
CommandSentStillSending ==
    /\ Receives("CommandSent")
    /\ IF Received = "ok" THEN Handle(eng) ELSE Suspend

\* Work::CommandSent
CommandSent ==
    /\ Receives("CommandSent")
    /\ IF Received = "ok" THEN Handle([eng EXCEPT !.sending = FALSE]) ELSE Suspend

\* Work::Model(Ok(None)) and Work::Model(Err): an uncertain outcome, or an end
\* without Closed, suspends; any other error fails the run.
ModelEnded ==
    /\ Receives("Ended")
    /\ IF Received = "ok" /\ cp.closure THEN Handle(eng)
       ELSE IF Received \in {"ok", "uncertain"} THEN Suspend
       ELSE Fail(IF Received = "error" THEN "model" ELSE "protocol")

AttachStep ==
    CatalogOpened \/ Resolve \/ ResumeMessage \/ DecideRecovery
      \/ OpenModel \/ SessionOpened \/ OpenFails

LoopStep ==
    Dispatch \/ RequestsExhausted \/ Reduce \/ Generate \/ PrepareClose
      \/ Complete \/ Rest

SubmitStep == Submit \/ ReportSent

WorkStep ==
    Collect \/ CommitBatch \/ SuspendAfterBatch \/ CommandSent \/ ModelEnded
=============================================================================
