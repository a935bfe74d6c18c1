----------------------------- MODULE Operations -----------------------------
(***************************************************************************)
(* Runtime tool operations of a run: queued by the model's calls, admitted *)
(* by the scheduler and the approval policy, started or recovered by tool  *)
(* tasks, updated by the tool's event stream, cancelled and replied to by  *)
(* the host, finished once and delivered to the model (zhir-kernel/src/    *)
(* engine: admission.rs, operations.rs, completion.rs, workers.rs).        *)
(*                                                                         *)
(* `run` and `ops` are durable; `eng` dies with the process; `tools` is    *)
(* the world outside, which neither a crash nor a suspension stops.        *)
(* Operations are numbered in the emission order of their calls.           *)
(***************************************************************************)
EXTENDS Naturals, Sequences, FiniteSets, FiniteSetsExt

CONSTANTS N,              \* calls the model may emit
          Serial,         \* operations whose tool is not parallel
          Unbound,        \* operations the catalog cannot bind
          Mode,           \* RunMode
          MaxConcurrency, \* limits.max_operation_concurrency
          MaxInflight,    \* limits.max_inflight_operations
          MaxCommands,    \* limits.max_control_commands
          MaxCalls,       \* limits.max_runtime_tool_calls
          MaxUpdates,     \* bound on a tool's updates before it finishes
          Decisions,      \* what the approval policy may decide
          MaxReplies,     \* bound on the host's replies to an operation
          Prompts,        \* may a tool wait for a reply?
          ToolFaults,     \* uncertain starts, lost streams, failing cancels
          CanCancel, CanPause, CanCrash

Ops == 1..N

ASSUME OperationsConstants ==
    /\ N \in Nat /\ MaxConcurrency \in Nat \ {0} /\ MaxInflight \in Nat \ {0}
    /\ MaxCommands \in Nat \ {0} /\ MaxCalls \in Nat /\ MaxUpdates \in Nat
    /\ MaxReplies \in Nat
    /\ Serial \subseteq Ops /\ Unbound \subseteq Ops
    /\ Mode \in {"Task", "Interactive"}
    /\ Decisions \subseteq {"Allow", "Deny", "Suspend"}
    /\ {Prompts, ToolFaults, CanCancel, CanPause, CanCrash} \subseteq BOOLEAN

VARIABLES run,    \* state, calls admitted, calls emitted, response finished
          ops,    \* OperationRecord of each call
          eng,    \* the engine's volatile part
          tools   \* what the tools really do

vars == <<run, ops, eng, tools>>

\* OperationOutcome, with its reason where the kernel chooses it.
Outcomes == {"Success", "Failure", "Cancelled", "Undispatched", "Denied",
             "Unavailable", "HostResult", "Abandoned"}
StateOf(outcome) ==
    CASE outcome \in {"Success", "HostResult"}             -> "Succeeded"
      [] outcome \in {"Failure", "Denied", "Unavailable"}  -> "Failed"
      [] outcome \in {"Cancelled", "Undispatched", "Abandoned"} -> "Cancelled"

TerminalStates == {"Succeeded", "Failed", "Cancelled"}
Finished(o) == ops[o].state \in TerminalStates

\* OperationRecords of the checkpoint, those that are not finished, and those
\* whose result is still to be delivered.
Emitted == 1..run.emitted
Records == {o \in Emitted : ~ops[o].delivered}
Unfinished == {o \in Emitted : ~Finished(o)}
Delivering == {o \in Records : Finished(o)}
InState(states) == {o \in Emitted : ops[o].state \in states}

Unstarted == [state |-> "Queued", seq |-> 0, outcome |-> "none", delivered |-> FALSE]

\* The task of an operation inside the engine: its start or recover call, what
\* that returned, or the forwarding of its events.
Idle == [at |-> "none"]
Starting == [at |-> "starting"]
Recovering == [at |-> "recovering"]
Returned(value, pos) == [at |-> "returned", value |-> value, pos |-> pos]
Streaming(pos) == [at |-> "streaming", pos |-> pos]

Attached(pc, resolve, abandon) ==
    [pc |-> pc, resolve |-> resolve, abandon |-> abandon, admitting |-> {}, decisions |-> {},
     task |-> [o \in Ops |-> Idle], tokens |-> {}, handles |-> {},
     cancels |-> {}, replies |-> {}]
Down == Attached("down", <<>>, FALSE)

Init ==
    /\ run = [state |-> "Running", calls |-> 0, emitted |-> 0, responded |-> FALSE]
    /\ ops = [o \in Ops |-> Unstarted]
    /\ eng = Attached("pass", <<>>, FALSE)
    /\ tools = [o \in Ops |-> [starts |-> 0, live |-> FALSE, cancel |-> FALSE, answer |-> FALSE,
                           replies |-> 0, log |-> <<>>]]

PendingStarts == {o \in Ops : eng.task[o].at \in {"starting", "recovering", "returned"}}

-----------------------------------------------------------------------------
\* Commits.  Each of these ends one commit; `next` is the engine after it.

Update(o, state) == ops' = [ops EXCEPT ![o].state = state]

\* finish_at: result, terminal state and delivery command are one commit; its
\* token and control go.
WithResult(records, o, outcome, seq) ==
    [records EXCEPT ![o] = [@ EXCEPT !.state = StateOf(outcome), !.outcome = outcome,
                                     !.seq = IF seq = 0 THEN records[o].seq ELSE seq]]
Released(next, o) ==
    [next EXCEPT !.task[o] = Idle, !.tokens = @ \ {o}, !.handles = @ \ {o}]

\* stop_workers: tasks end and their cancellation tokens are set.
Stop(state) ==
    /\ run' = [run EXCEPT !.state = state]
    /\ eng' = Down
    /\ tools' = [o \in Ops |-> [tools[o] EXCEPT !.cancel = @ \/ eng.task[o] # Idle]]

\* settle: what still runs becomes Unknown.
Settle(state) ==
    /\ Stop(state)
    /\ ops' = [o \in Ops |-> IF ops[o].state \in {"Running", "Cancelling"}
                               THEN [ops[o] EXCEPT !.state = "Unknown"] ELSE ops[o]]

Leave(state) == Stop(state) /\ UNCHANGED ops

\* A second completion must agree with the first, and the checkpoint must
\* have room for the delivery command.
Finish(o, outcome, seq, next) ==
    IF ~Finished(o) /\ Cardinality(Delivering) < MaxCommands
      THEN /\ ops' = WithResult(ops, o, outcome, seq)
           /\ eng' = Released(next, o)
           /\ UNCHANGED <<run, tools>>
    ELSE IF ops[o].outcome = outcome THEN eng' = next /\ UNCHANGED <<run, ops, tools>>
    ELSE Settle("Failed")

\* local_operation_update
SetState(o, state, next) ==
    IF Finished(o) THEN Settle("Failed")
                   ELSE Update(o, state) /\ eng' = next /\ UNCHANGED <<run, tools>>

Passing(next) == [next EXCEPT !.pc = "pass"]

-----------------------------------------------------------------------------
\* The model

\* record_output of a RuntimeToolCall: it is durable as Queued.  Checkpoint::validate counts every
\* record, delivered results excepted.
CallArrives ==
    /\ eng.pc = "idle"
    /\ run.emitted < N /\ ~run.responded
    /\ IF Cardinality(Records) < MaxInflight
         THEN /\ run' = [run EXCEPT !.emitted = @ + 1]
              /\ eng' = Passing(eng)
              /\ UNCHANGED <<ops, tools>>
         ELSE Settle("Failed")

ResponseFinished ==
    /\ eng.pc = "idle"
    /\ ~run.responded
    /\ run' = [run EXCEPT !.responded = TRUE]
    /\ eng' = Passing(eng)
    /\ UNCHANGED <<ops, tools>>

\* acknowledge_command of a result's Append: the record goes.
Delivered(o) ==
    /\ eng.pc = "idle"
    /\ o \in Delivering
    /\ ops' = [ops EXCEPT ![o].delivered = TRUE]
    /\ eng' = Passing(eng)
    /\ UNCHANGED <<run, tools>>

-----------------------------------------------------------------------------
\* admit

Active == InState({"Running", "Cancelling"})
Queued == InState({"Queued"})

\* DefaultScheduling::select: the leading serial call, or the leading run of
\* parallel calls; then at most as many as there is room for.
Group ==
    LET first == Min(Queued)
        chosen == IF first \in Serial THEN {first}
                  ELSE {o \in Queued : \A p \in Queued \cap Serial : o < p}
    IN  {o \in chosen : Cardinality({p \in chosen : p < o}) < MaxConcurrency - Cardinality(Active)}

\* Variant: only a serial call waits.
BlockedAhead == Active # {} /\ Min(Queued) \in Serial

\* A serial call waits for everything that is active, everything waits for an
\* active serial call.
Blocked == Active # {} /\ (Min(Queued) \in Serial \/ Active \cap Serial # {})

\* The calls that are looked at: up to the first bound one that is blocked.
Reached == IF Blocked THEN {o \in Group : \A p \in Group \ Unbound : o < p} ELSE Group

Room == /\ Cardinality(Active) + Cardinality(Delivering) < MaxCommands
        /\ Cardinality(Active) < MaxConcurrency

Admit ==
    /\ eng.pc = "pass"
    /\ IF eng.admitting # {} \/ ~Room \/ Queued = {}
         THEN eng' = [eng EXCEPT !.pc = "advance"] /\ UNCHANGED ops
         ELSE /\ ops' = [o \in Ops |-> IF o \in Reached \cap Unbound
                                         THEN WithResult(ops, o, "Unavailable", 0)[o]
                                         ELSE ops[o]]
              /\ eng' = [eng EXCEPT !.admitting = Reached \ Unbound,
                                    !.pc = IF Reached \cap Unbound # {} THEN @ ELSE "advance"]
    /\ UNCHANGED <<run, tools>>

\* Variant: the batch is never taken out.
DecidedStillAdmitting ==
    /\ eng.pc = "idle"
    /\ eng.admitting # {}
    /\ \E decide \in [eng.admitting -> Decisions] :
         eng' = [eng EXCEPT
                   !.pc = "admitting",
                   !.decisions = {[op |-> o, decision |-> decide[o]] : o \in eng.admitting}]
    /\ UNCHANGED <<run, ops, tools>>

\* Work::Admitted: the decisions arrive, one suspension suspends all of them.
Decided ==
    /\ eng.pc = "idle"
    /\ eng.admitting # {}
    /\ \E decide \in [eng.admitting -> Decisions] :
         IF \E o \in eng.admitting : decide[o] = "Suspend"
           THEN Leave("Suspended")
           ELSE /\ eng' = [eng EXCEPT
                             !.pc = "admitting",
                             !.admitting = {},
                             !.decisions = {[op |-> o, decision |-> decide[o]] : o \in eng.admitting}]
                /\ UNCHANGED <<run, ops, tools>>

\* The Running state is durable before the tool is called.
Dispatched(o, next) ==
    /\ Update(o, "Running")
    /\ run' = [run EXCEPT !.calls = @ + 1]
    /\ eng' = [next EXCEPT !.task[o] = Starting]
    /\ UNCHANGED tools

First(decisions) == CHOOSE d \in decisions : \A e \in decisions : d.op <= e.op

\* Variant: what changed since the policy was asked is not looked at.
AdmitStale ==
    /\ eng.pc = "admitting"
    /\ eng.decisions # {}
    /\ LET d == First(eng.decisions)
           next == [eng EXCEPT !.decisions = @ \ {d}]
       IN  IF d.decision = "Deny" THEN Finish(d.op, "Denied", 0, next)
           ELSE IF run.calls >= MaxCalls THEN Leave("Limited")
           ELSE Dispatched(d.op, next)

\* admitted: decision by decision, each with a commit of its own.  A call that
\* is no longer queued is passed over.
AdmitNext ==
    /\ eng.pc = "admitting"
    /\ eng.decisions # {}
    /\ LET d == First(eng.decisions)
           next == [eng EXCEPT !.decisions = @ \ {d}]
       IN  IF ops[d.op].state # "Queued"
             THEN eng' = next /\ UNCHANGED <<run, ops, tools>>
           ELSE IF d.decision = "Deny" THEN Finish(d.op, "Denied", 0, next)
           ELSE IF run.calls >= MaxCalls THEN Leave("Limited")
           ELSE Dispatched(d.op, next)

AdmissionDone ==
    /\ eng.pc = "admitting"
    /\ eng.decisions = {}
    /\ eng' = Passing([eng EXCEPT !.decisions = {}])
    /\ UNCHANGED <<run, ops, tools>>

\* advance: a Task run, or one with unknown work, that only waits is suspended.
\* When every result is delivered the generation is over: what follows is
\* Engine's subject and stands here for completion.
WaitingForInput ==
    /\ Unfinished # {} /\ Unfinished \subseteq InState({"Waiting", "Unknown"})
    /\ Delivering = {}
    /\ Mode = "Task" \/ InState({"Unknown"}) # {}
    /\ eng.replies = {} /\ PendingStarts = {}
    /\ run.responded

Advance ==
    /\ eng.pc = "advance"
    /\ IF WaitingForInput                         THEN Leave("Suspended")
       ELSE IF run.responded /\ Records = {}      THEN Leave("Completed")
       ELSE eng' = [eng EXCEPT !.pc = "idle"] /\ UNCHANGED <<run, ops, tools>>

-----------------------------------------------------------------------------
\* Work of tool tasks

AsTask(o, task) == Passing([eng EXCEPT !.task[o] = task])

\* install_operation: a cancellation that came before the handle is passed on.
Install(o) ==
    /\ eng' = [AsTask(o, Streaming(eng.task[o].pos)) EXCEPT
                 !.handles = @ \cup {o},
                 !.cancels = IF ops[o].state = "Cancelling" THEN @ \cup {o} ELSE @]
    /\ UNCHANGED <<run, ops, tools>>

\* Work::Started
Started(o) ==
    LET value == eng.task[o].value
        next == AsTask(o, Idle)
    IN  /\ eng.pc = "idle"
        /\ eng.task[o].at = "returned"
        /\ CASE value = "Active"    -> Install(o)
             [] value = "Uncertain" -> SetState(o, "Unknown", next)
             [] value = "Stopped"   -> IF ops[o].state = "Cancelling"
                                         THEN Finish(o, "Cancelled", 0, next)
                                         ELSE SetState(o, "Unknown", next)
             [] OTHER               -> Finish(o, value, 0, next)

\* operation_event: a replayed sequence number changes nothing.
OperationEvent(o) ==
    LET seq == eng.task[o].pos + 1
        update == tools[o].log[seq]
        next == AsTask(o, Streaming(seq))
    IN  /\ eng.pc = "idle"
        /\ eng.task[o].at = "streaming"
        /\ eng.task[o].pos < Len(tools[o].log)
        /\ IF seq <= ops[o].seq
             THEN eng' = next /\ UNCHANGED <<run, ops, tools>>
           ELSE IF update \in Outcomes
             THEN Finish(o, update, seq, next)
           ELSE IF Finished(o)
             THEN Settle("Failed")
           ELSE /\ ops' = [ops EXCEPT ![o] = [@ EXCEPT !.state = update, !.seq = seq]]
                /\ eng' = next
                /\ UNCHANGED <<run, tools>>

Unresolved(o, next) ==
    IF Finished(o) THEN eng' = next /\ UNCHANGED <<run, ops, tools>>
                   ELSE SetState(o, "Unknown", next)

\* The stream ends, or fails, without a final result.
StreamEnds(o) ==
    /\ ToolFaults
    /\ eng.pc = "idle"
    /\ eng.task[o].at = "streaming"
    /\ Unresolved(o, AsTask(o, Idle))

\* Variant: the confirmation overrides what the tool has reported.
ReplyDoneAlways(o) ==
    /\ eng.pc = "idle"
    /\ \E reply \in eng.replies :
         /\ reply.op = o /\ reply.at # "sent"
         /\ SetState(o, IF reply.at = "done" THEN "Running" ELSE "Unknown",
                     Passing([eng EXCEPT !.replies = @ \ {reply}]))

\* Work::ReplyDone: the boundary is confirmed, unless a tool update came first.
ReplyDone(o) ==
    /\ eng.pc = "idle"
    /\ \E reply \in eng.replies :
         LET next == Passing([eng EXCEPT !.replies = @ \ {reply}])
         IN  /\ reply.op = o /\ reply.at # "sent"
             /\ IF ops[o].state = "Unknown"
                  THEN SetState(o, IF reply.at = "done" THEN "Running" ELSE "Unknown", next)
                  ELSE eng' = next /\ UNCHANGED <<run, ops, tools>>

-----------------------------------------------------------------------------
\* Controls, served while the catalog and the model open and between passes.

Serving == eng.pc \in {"catalog", "opening", "idle"}
Served(next) == IF next.pc = "idle" THEN Passing(next) ELSE next

\* cancel_operation (a second one changes nothing more).
CancelOperation(o) ==
    /\ CanCancel /\ Serving
    /\ o \in Unfinished \ InState({"Cancelling"})
    /\ IF ops[o].state = "Queued"
         THEN Finish(o, "Undispatched", 0, Served(eng))
         ELSE /\ Update(o, "Cancelling")
              /\ eng' = Served([eng EXCEPT !.tokens = @ \cup {o},
                                           !.cancels = @ \cup ({o} \cap eng.handles)])
              /\ UNCHANGED <<run, tools>>

\* reply_operation: whatever has a live handle is Unknown until its reply is
\* confirmed.
ReplyOperation(o) ==
    /\ Serving
    /\ o \in eng.handles
    /\ tools[o].replies < MaxReplies
    /\ Update(o, "Unknown")
    /\ eng' = Served([eng EXCEPT !.replies = @ \cup {[op |-> o, at |-> "sent"]}])
    /\ tools' = [tools EXCEPT ![o].replies = @ + 1]
    /\ UNCHANGED run

\* ControlPause, and the cancellation of the run or its deadline.
Pause == CanPause /\ Serving /\ Leave("Suspended")
Interrupt == CanPause /\ (Serving \/ eng.pc = "pass") /\ Settle("Cancelled")

-----------------------------------------------------------------------------
\* Crash and recovery

Crash ==
    /\ CanCrash
    /\ eng.pc # "down"
    /\ eng' = Down
    /\ UNCHANGED <<run, ops, tools>>

Attach(resolve, abandon) ==
    /\ eng.pc = "down"
    /\ run' = [run EXCEPT !.state = "Running"]
    /\ eng' = Attached("catalog", resolve, abandon)
    /\ UNCHANGED <<ops, tools>>

\* Runtime::continue_from
Continue == run.state = "Running" /\ Attach(<<>>, FALSE)

\* Runtime::resume: the host gives an unfinished generation up and resolves
\* some of the operations that wait or are unknown.
Resolutions == {"HostResult", "Abandoned", "Attach"}
Resume ==
    /\ run.state = "Suspended"
    /\ \E S \in SUBSET InState({"Unknown", "Waiting"}) :
         \E how \in [S -> Resolutions] : Attach(how, ~run.responded)

CatalogOpened ==
    /\ eng.pc = "catalog"
    /\ eng' = [eng EXCEPT !.pc = "resolving"]
    /\ UNCHANGED <<run, ops, tools>>

Resolve ==
    /\ eng.pc = "resolving"
    /\ eng.resolve # <<>>
    /\ LET o == Min(DOMAIN eng.resolve)
           next == [eng EXCEPT !.resolve = [p \in DOMAIN @ \ {o} |-> @[p]]]
       IN  IF eng.resolve[o] = "Attach"
             THEN SetState(o, "Running", next)
             ELSE Finish(o, eng.resolve[o], 0, next)

\* AbandonGeneration: no call follows.
ResolveGeneration ==
    /\ eng.pc = "resolving"
    /\ eng.resolve = <<>> /\ eng.abandon
    /\ run' = [run EXCEPT !.responded = TRUE]
    /\ eng' = [eng EXCEPT !.abandon = FALSE]
    /\ UNCHANGED <<ops, tools>>

\* apply_recovery: an open generation or what is still unknown suspends the run again.
DecideRecovery ==
    /\ eng.pc = "resolving"
    /\ eng.resolve = <<>> /\ ~eng.abandon
    /\ IF InState({"Unknown"}) # {} \/ ~run.responded
         THEN Leave("Suspended")
         ELSE eng' = [eng EXCEPT !.pc = "opening"] /\ UNCHANGED <<run, ops, tools>>

\* Variant: what was running is started again.
RecoverByStarting ==
    /\ eng.pc = "opening"
    /\ eng' = [Passing(eng) EXCEPT
                 !.task = [o \in Ops |->
                   IF o \in InState({"Running", "Waiting", "Cancelling"})
                     THEN Starting ELSE Idle]]
    /\ UNCHANGED <<run, ops, tools>>

\* Variant: a waiting operation is forgotten.
RecoverWithoutWaiting ==
    /\ eng.pc = "opening"
    /\ eng' = [Passing(eng) EXCEPT
                 !.task = [o \in Ops |->
                   IF o \in InState({"Running", "Cancelling"}) THEN Recovering ELSE Idle]]
    /\ UNCHANGED <<run, ops, tools>>

\* recover_operations: started work is attached to, never started again.
RecoverOperations ==
    /\ eng.pc = "opening"
    /\ eng' = [Passing(eng) EXCEPT
                 !.task = [o \in Ops |->
                   IF o \in InState({"Running", "Waiting", "Cancelling"})
                     THEN Recovering ELSE Idle]]
    /\ UNCHANGED <<run, ops, tools>>

-----------------------------------------------------------------------------
\* The world: RuntimeTool::start and recover, and the work they stand for.

Return(o, value, pos) == eng' = [eng EXCEPT !.task[o] = Returned(value, pos)]

\* The tool is called and reports at once, goes on, or its answer is lost.
ToolStart(o) ==
    /\ eng.task[o].at = "starting"
    /\ \/ /\ \E live \in BOOLEAN, outcome \in {"Success", "Failure"} :
               /\ tools' = [tools EXCEPT ![o].starts = @ + 1,
                                         ![o].live = live,
                                         ![o].log = IF live THEN @ ELSE <<outcome>>]
               /\ \/ Return(o, IF live THEN "Active" ELSE outcome, 0)
                  \/ ToolFaults /\ Return(o, "Uncertain", 0)
       \/ o \in eng.tokens /\ Return(o, "Stopped", 0) /\ UNCHANGED tools
    /\ UNCHANGED <<run, ops>>

\* It attaches to what was started, with its events from the last recorded one
\* or from the beginning; what it knows nothing about, it cannot attach to.
ToolRecover(o) ==
    /\ eng.task[o].at = "recovering"
    /\ \/ tools[o].starts > 0 /\ \E pos \in {0, ops[o].seq} : Return(o, "Active", pos)
       \/ /\ ~tools[o].live /\ tools[o].log # <<>>
          /\ Return(o, tools[o].log[Len(tools[o].log)], 0)
       \/ (ToolFaults \/ tools[o].starts = 0) /\ Return(o, "Uncertain", 0)
    /\ UNCHANGED <<run, ops, tools>>

Says(o, update, live) ==
    tools' = [tools EXCEPT ![o].log = Append(@, update), ![o].live = live, ![o].answer = FALSE]

\* A tool that asked goes on when it is answered or cancelled.
Asking(o) == /\ tools[o].log # <<>> /\ tools[o].log[Len(tools[o].log)] = "Waiting"
             /\ ~tools[o].answer /\ ~tools[o].cancel

ToolUpdates(o) ==
    /\ tools[o].live /\ ~Asking(o)
    /\ Len(tools[o].log) < MaxUpdates
    /\ \E update \in {"Running"} \cup (IF Prompts THEN {"Waiting"} ELSE {}) : Says(o, update, TRUE)
    /\ UNCHANGED <<run, ops, eng>>

ToolFinishes(o) ==
    /\ tools[o].live /\ ~Asking(o)
    /\ \E outcome \in {"Success", "Failure"} \cup (IF tools[o].cancel THEN {"Cancelled"} ELSE {}) :
         Says(o, outcome, FALSE)
    /\ UNCHANGED <<run, ops, eng>>

\* The prompt is answered outside the kernel.
ToolAnswered(o) ==
    /\ tools[o].live /\ Asking(o)
    /\ tools' = [tools EXCEPT ![o].answer = TRUE]
    /\ UNCHANGED <<run, ops, eng>>

\* OperationControl::cancel; a failure is reported as Work::CancelFailed.
ToolCancel(o) ==
    /\ o \in eng.cancels
    /\ tools' = [tools EXCEPT ![o].cancel = TRUE]
    /\ eng' = [eng EXCEPT !.cancels = @ \ {o}]
    /\ UNCHANGED <<run, ops>>

CancelFails(o) ==
    /\ ToolFaults
    /\ eng.pc = "idle"
    /\ o \in eng.cancels
    /\ Unresolved(o, Passing([eng EXCEPT !.cancels = @ \ {o}]))

\* OperationControl::reply
ToolReply(o) ==
    LET sent == [op |-> o, at |-> "sent"]
    IN  /\ sent \in eng.replies
        /\ \E result \in {"done"} \cup (IF ToolFaults THEN {"failed"} ELSE {}) :
             /\ tools' = [tools EXCEPT ![o].answer = @ \/ result = "done"]
             /\ eng' = [eng EXCEPT !.replies = (@ \ {sent}) \cup {[op |-> o, at |-> result]}]
        /\ UNCHANGED <<run, ops>>

-----------------------------------------------------------------------------
Model == CallArrives \/ ResponseFinished \/ \E o \in Ops : Delivered(o)

Loop == \/ Admit \/ Decided \/ AdmitNext \/ AdmissionDone \/ Advance
        \/ CatalogOpened \/ Resolve \/ ResolveGeneration \/ DecideRecovery \/ RecoverOperations

Work(o) == Started(o) \/ OperationEvent(o) \/ StreamEnds(o) \/ ReplyDone(o) \/ CancelFails(o)

Call(o) == ToolStart(o) \/ ToolRecover(o) \/ ToolCancel(o) \/ ToolReply(o)

Tool(o) == ToolUpdates(o) \/ ToolFinishes(o) \/ ToolAnswered(o)

Host == \/ \E o \in Ops : CancelOperation(o) \/ ReplyOperation(o)
        \/ Pause \/ Interrupt
        \/ Continue \/ Resume

Terminal == run.state \notin {"Running", "Suspended"}
Done == eng.pc = "down" /\ Terminal /\ UNCHANGED vars

Next == Model \/ Loop \/ Host \/ Crash \/ Done
          \/ \E o \in Ops : Work(o) \/ Call(o) \/ Tool(o)

Spec == Init /\ [][Next]_vars

\* Fairness: the loop, the tasks and the tools are scheduled, results are
\* delivered, prompts answered, and the host attaches again, giving up what is
\* unknown.
ResumeResolved ==
    /\ run.state = "Suspended"
    /\ Attach([o \in InState({"Unknown"}) |-> "Abandoned"], ~run.responded)

Fairness ==
    /\ WF_vars(Loop) /\ WF_vars(ResponseFinished) /\ WF_vars(Continue)
    /\ \A o \in Ops : /\ WF_vars(Work(o)) /\ WF_vars(Call(o)) /\ WF_vars(Delivered(o))
                      /\ WF_vars(ToolFinishes(o)) /\ WF_vars(ToolAnswered(o))
    /\ SF_vars(ResumeResolved)

FairSpec == Spec /\ Fairness

-----------------------------------------------------------------------------
\* Properties

Refused == {"Undispatched", "Denied", "Unavailable"}

TypeOK ==
    /\ run.calls \in Nat /\ run.emitted \in 0..N
    /\ run.state \in {"Running", "Suspended", "Completed", "Failed", "Limited", "Cancelled"}
    /\ \A o \in Ops :
          /\ ops[o].state \in TerminalStates \cup
                {"Queued", "Running", "Waiting", "Cancelling", "Unknown"}
          /\ ops[o].outcome \in Outcomes \cup {"none"}
          /\ IF Finished(o) THEN ops[o].state = StateOf(ops[o].outcome)
                            ELSE ops[o].outcome = "none"

\* The tool is called at most once for a call, whatever crashes, suspensions,
\* resolutions and cancellations come between its admission and its result.
StartedOnce == \A o \in Ops : tools[o].starts <= 1

\* A call that was denied, or cancelled while its approval was pending, never
\* reaches its tool; nor does a call beyond the budget of tool calls.
RefusedNeverStarts ==
    /\ \A o \in Ops : ops[o].outcome \in Refused => tools[o].starts = 0
    /\ Cardinality({o \in Ops : tools[o].starts > 0}) <= run.calls
    /\ run.calls <= MaxCalls

\* A serial call starts when everything before it is finished and keeps what
\* comes after it waiting until it is finished itself (scheduling.rs: "A serial
\* call is a barrier: calls emitted after it wait until it settles.").
SerialBarrier ==
    \A o, p \in Emitted :
      o < p /\ {o, p} \cap Serial # {} /\ tools[p].starts > 0 => Finished(o)

\* Between two pieces of work, whatever is recorded as running, waiting or
\* being cancelled has a task that will report on it: nothing is forgotten.
WorkIsWatched ==
    eng.pc = "idle" =>
      \A o \in InState({"Running", "Waiting", "Cancelling"}) : eng.task[o] # Idle

\* Tools, host and loop never make a run fail: no update follows a result and
\* no two results conflict.
NoProtocolFailure == run.state # "Failed"

\* A run that is interrupted finitely often delivers all its results.
Interruption == Pause \/ Crash
Settles == []<><<Interruption>>_vars \/ <>Terminal
=============================================================================
