------------------------------ MODULE LocalRun ------------------------------
(***************************************************************************)
(* One run over an exchange model: the engine, the exchange session, the   *)
(* host that attaches, resumes and controls it, and process crashes.       *)
(***************************************************************************)
EXTENDS Engine

CONSTANTS CanCrash, CanPause, CanStop  \* which host events occur

ASSUME HostConstants == CanCrash \in BOOLEAN /\ CanPause \in BOOLEAN /\ CanStop \in BOOLEAN

Init ==
    /\ cp = Initial(Mode)
    /\ eng = Running("catalog", None, {})
    /\ commands = <<>>
    /\ work = <<>>
    /\ session = Absent
    /\ asked = <<>>

\* The process dies, or a commit fails for the engine: the last durable
\* checkpoint is all that is left.
Crash ==
    /\ CanCrash
    /\ eng.pc # "down"
    /\ TearDown
    /\ UNCHANGED cp

\* The Recover arm of checkpoint::initial: Attached is durable before any
\* recovery work, and what was sent before is not sent again.
Attach(abandon, message) ==
    /\ eng.pc = "down"
    /\ cp' = [cp EXCEPT !.state = "Running"]
    /\ eng' = Running("catalog", [abandon |-> abandon, message |-> message],
                      {Id(cp.commands[i]) : i \in {j \in DOMAIN cp.commands :
                                                     SentDurably(cp.commands[j])}})
    /\ UNCHANGED exchangeVars

\* Runtime::continue_from of a run whose executor is gone.
Continue == cp.state = "Running" /\ Attach(FALSE, None)

\* Runtime::resume: the host gives up an unfinished generation or not, and
\* may add a message.
Resume ==
    /\ cp.state = "Suspended"
    /\ \E abandon \in {InGeneration(cp), FALSE},
          message \in {None} \cup (IF cp.input < MaxInputs THEN InputKinds ELSE {}) :
         Attach(abandon, message)

Host ==
    \/ \E kind \in InputKinds : ControlInput(kind)
    \/ CanPause /\ ControlPause
    \/ CanStop /\ Interrupt
    \/ ControlSeal
    \/ ControlProfile
    \/ Continue
    \/ Resume

EngineStep == AttachStep \/ LoopStep \/ SubmitStep \/ WorkStep
ModelStep == ExchangeStep /\ UNCHANGED <<cp, eng>>

\* A terminal run stays as it is.
Terminal == cp.state \notin {"Running", "Suspended"}
Done == eng.pc = "down" /\ Terminal /\ UNCHANGED vars

Next == Host \/ EngineStep \/ ModelStep \/ Crash \/ Done

Spec == Init /\ [][Next]_vars

\* Fairness: the loop, the task that submits commands and the session task
\* are scheduled; model calls return (a client timeout at the latest); the
\* host seals the input once, reattaches what stopped, and in the end gives
\* up an unfinished generation instead of resuming into it for ever.
ResumeResolved == cp.state = "Suspended" /\ Attach(InGeneration(cp), None)
SealOnce == ~cp.inputClosed /\ ControlSeal

Fairness ==
    /\ WF_vars(AttachStep \/ LoopStep \/ WorkStep)
    /\ WF_vars(SubmitStep)
    /\ WF_vars(ModelStep)
    /\ WF_vars(Continue)
    /\ SF_vars(ResumeResolved)
    /\ SF_vars(SealOnce)

FairSpec == Spec /\ Fairness

-----------------------------------------------------------------------------
\* Properties

IntentNames == {"Append", "Replace", "Generate", "Profile", "Seal", "Close"}

\* The checkpoint and the session stay within their types.
TypeOK ==
    /\ cp.state \in {"Running", "Suspended", "Completed", "Failed", "Limited", "Cancelled"}
    /\ cp.failure \in {None, "model", "protocol", "invalid", "generation"}
    /\ {cp.gen, cp.revision, cp.ack, cp.input, cp.covered, cp.start, cp.profile} \subseteq Nat
    /\ cp.ack <= cp.revision
    /\ cp.covered <= cp.input
    /\ cp.start <= Len(cp.history)
    /\ cp.status \in Statuses \cup {None, "Continuation"}
    /\ \A i \in DOMAIN cp.commands : cp.commands[i].intent \in IntentNames
    /\ session.phase = "up" =>
          {session.revision, session.position, session.profile, session.sequence} \subseteq Nat

\* The outbox is what the projection lacks: its context revisions go on from
\* the acknowledged one without a gap, and its Appends are the last entries
\* of the history, each once and in order.  A crash between any two commits
\* can therefore rebuild the projection from the two.
Numbered == {i \in DOMAIN cp.commands : cp.commands[i].intent \in {"Append", "Replace"}}
Unprojected == {i \in DOMAIN cp.commands : cp.commands[i].intent = "Append"}
OutboxCompletesProjection ==
    /\ {cp.commands[i].n : i \in Numbered} = (cp.ack + 1)..cp.revision
    /\ \A i, j \in Numbered : i < j => cp.commands[i].n < cp.commands[j].n
    /\ \E projected \in 0..Len(cp.history) :
          {cp.commands[i].entry : i \in Unprojected} = (projected + 1)..Len(cp.history)
    /\ \A i, j \in Unprojected : i < j => cp.commands[i].entry < cp.commands[j].entry

\* The model is called with exactly the history that was committed with the
\* generation, whatever was lost, replayed and rebuilt before (runtime.md
\* rule 6: "A LocalProjection session is rebuilt from committed history").
ProjectionIsHistory ==
    asked # <<>> =>
      LET last == asked[Len(asked)]
      IN  InGeneration(cp) /\ last.gen = cp.gen =>
            last.content = SubSeq(cp.history, 1, cp.start)

\* A generation reaches the model service at most once: a crash, a suspension
\* or a resume never sends a Generate again.
AskedOnce == \A i, j \in DOMAIN asked : asked[i].gen = asked[j].gen => i = j

\* Engine and session never disagree: no event is unexpected to the engine
\* and no command is refused by the projection, in any interleaving of host
\* inputs, batches, late acknowledgements and rebuilt sessions.
NoProtocolFailure == cp.failure # "protocol"

\* A completed run has answered every message it accepted: the last model
\* call saw all of them (runtime.md rule 36).
EveryInputAnswered ==
    cp.state = "Completed" =>
      LET last == asked[Len(asked)]
      IN  /\ last.gen = cp.gen
          /\ \A i \in DOMAIN cp.history :
                IsInput(cp.history[i]) => \E j \in DOMAIN last.content :
                                            last.content[j] = cp.history[i]

\* The run keeps the promises of Run.
Promise == INSTANCE Run WITH
    state <- cp.state,
    due <- ~(cp.status = "Completed" /\ ~cp.needs /\ cp.covered = cp.input),
    closing <- cp.closing
ImplementsRun == Promise!Spec

\* A run that is interrupted only finitely often reaches a terminal state:
\* after any crash, pause or failed model call the rebuilt session finishes
\* what was pending (rule 1: "Suspended is resumable").
Interruption == Crash \/ (CanPause /\ ControlPause) \/ OpenFails \/ (ModelStep /\ CallFails)
Settles == []<><<Interruption>>_vars \/ <>Terminal
=============================================================================
