-------------------------- MODULE Operations_proofs --------------------------
(***************************************************************************)
(* Proofs about Operations, for any number of calls, any limits, and any   *)
(* history of crashes, suspensions, cancellations, replies and resolutions:*)
(* a tool is called at most once for a call, and never for one that was    *)
(* refused or that exceeds the budget of calls.  Then what depends on      *)
(* limits and faults: with room for every call no step fails the run, and  *)
(* a serial call is a barrier as long as nothing waits, is lost or is      *)
(* suspended.                                                              *)
(***************************************************************************)
EXTENDS Operations, TLAPS, FiniteSetTheorems, WellFoundedInduction

-----------------------------------------------------------------------------
\* The shape of the state

States == TerminalStates \cup {"Queued", "Running", "Waiting", "Cancelling", "Unknown"}
RunStates == {"Running", "Suspended", "Completed", "Failed", "Limited", "Cancelled"}
Record == [state : States, seq : Nat, outcome : Outcomes \cup {"none"}, delivered : BOOLEAN]

Results == {"Success", "Failure", "Cancelled"}
Reports == {"Running", "Waiting"} \cup Results
World == [starts : Nat, live : BOOLEAN, cancel : BOOLEAN, answer : BOOLEAN,
          replies : Nat, log : Seq(Reports)]

Values == {"Active", "Uncertain", "Stopped"} \cup Results
Task == {Idle, Starting, Recovering} \cup {Streaming(p) : p \in Nat}
          \cup {Returned(v, p) : v \in Values, p \in Nat}

Resolving == UNION {[S -> Resolutions] : S \in SUBSET Ops}
Tasks == [Ops -> Task]
Decision == [op : Ops, decision : Decisions]
Reply == [op : Ops, at : {"sent", "done", "failed"}]
Places == {"catalog", "resolving", "opening", "pass", "advance", "idle", "admitting", "down"}
EngineState ==
    [pc : Places, resolve : Resolving, abandon : BOOLEAN, admitting : SUBSET Ops,
     decisions : SUBSET Decision, task : Tasks, tokens : SUBSET Ops, handles : SUBSET Ops,
     cancels : SUBSET Ops, replies : SUBSET Reply]

Shape ==
    /\ run \in [state : RunStates, calls : Nat, emitted : 0..N, responded : BOOLEAN]
    /\ ops \in [Ops -> Record]
    /\ eng \in EngineState
    /\ tools \in [Ops -> World]

-----------------------------------------------------------------------------
\* The inductive invariant

\* An outcome and a terminal state come together.
ResultsAgree ==
    \A o \in Ops : IF Finished(o) THEN ops[o].state = StateOf(ops[o].outcome)
                                  ELSE ops[o].outcome = "none"

Open == {"Running", "Waiting", "Cancelling", "Unknown"}

\* Only work that was admitted and is not finished has a task or a handle.
WorkIsOpen ==
    \A o \in Ops : eng.task[o].at # "none" \/ o \in eng.handles => ops[o].state \in Open

\* A tool whose work has ended said so last.
LogsAreSettled ==
    \A o \in Ops : ~tools[o].live /\ tools[o].log # <<>>
        => tools[o].log[Len(tools[o].log)] \in Results

\* A call that waits for its tool to be started is durable as admitted, and
\* its tool has not been called; nor has one that is queued or was refused.
Untouched(o) == tools[o].starts = 0
NotYetStarted ==
    \A o \in Ops :
        /\ tools[o].starts <= 1
        /\ eng.task[o].at = "starting" => Untouched(o)
        /\ ops[o].state = "Queued" => Untouched(o)
        /\ ops[o].outcome \in Refused => Untouched(o)

\* Calls of the budget are spent before their tool is called.
Spent == {o \in Ops : tools[o].starts > 0 \/ eng.task[o].at = "starting"}
WithinBudget == Cardinality(Spent) <= run.calls /\ run.calls <= MaxCalls

IInv == Shape /\ ResultsAgree /\ WorkIsOpen /\ LogsAreSettled /\ NotYetStarted /\ WithinBudget

-----------------------------------------------------------------------------
\* Facts about the operators of Operations

\* The least of some numbers is one of them.
LEMMA MinOf ==
  ASSUME NEW S \in SUBSET Nat, S # {}
  PROVE  Min(S) \in S /\ \A n \in S : Min(S) <= n
<1>1. PICK x \in S : \A y \in S : ~(<<y, x>> \in OpToRel(<, Nat))
  BY NatLessThanWellFounded, WFMin, Zenon
<1>2. ASSUME NEW y \in S, y < x PROVE FALSE
  <2>1. <<y, x>> \in Nat \X Nat /\ <<y, x>>[1] < <<y, x>>[2]
    BY <1>2
  <2>2. <<y, x>> \in OpToRel(<, Nat)
    BY <2>1, Zenon DEF OpToRel
  <2> QED BY <1>1, <2>2
<1>3. \A y \in S : x <= y
  BY <1>2
<1> QED BY <1>3 DEF Min

\* The decision that is taken next is one of those that are left.
LEMMA FirstOf ==
  ASSUME NEW D \in SUBSET Decision, D # {}
  PROVE  First(D) \in D
<1> DEFINE S == {d.op : d \in D}
<1>1. S \in SUBSET Nat /\ S # {}
  BY DEF Ops, Decision
<1>2. Min(S) \in S /\ \A n \in S : Min(S) <= n
  BY <1>1, MinOf
<1>3. PICK d \in D : d.op = Min(S)
  BY <1>2
<1>4. \A e \in D : d.op <= e.op
  BY <1>2, <1>3
<1> QED BY <1>4 DEF First

\* Every outcome stands for a terminal state.
LEMMA OutcomeEnds ==
  ASSUME NEW outcome \in Outcomes
  PROVE  StateOf(outcome) \in TerminalStates
BY DEF Outcomes, StateOf, TerminalStates

\* Only operations are emitted.
LEMMA EmittedOps == ASSUME Shape PROVE Emitted \subseteq Ops
BY OperationsConstants DEF Shape, Emitted, Ops

\* A call that is looked at for admission is queued.
LEMMA ReachedQueued ==
  ASSUME Shape, Queued # {}
  PROVE  Reached \subseteq Queued
<1>1. Queued \in SUBSET Nat
  BY OperationsConstants DEF Shape, Queued, InState, Emitted
<1>2. Min(Queued) \in Queued
  BY <1>1, MinOf
<1>3. Group \subseteq Queued
  BY <1>2 DEF Group
<1> QED BY <1>3 DEF Reached

\* The kinds of worker tasks and what they carry.
LEMMA TaskTypes ==
  /\ {Idle, Starting, Recovering} \subseteq Task
  /\ \A p \in Nat : Streaming(p) \in Task
  /\ \A v \in Values, p \in Nat : Returned(v, p) \in Task
BY DEF Task

\* An engine that has just been attached, or none.
LEMMA AttachedShape ==
  ASSUME NEW pc \in Places, NEW resolve \in Resolving, NEW abandon \in BOOLEAN
  PROVE  Attached(pc, resolve, abandon) \in EngineState
<1>1. [o \in Ops |-> Idle] \in Tasks
  BY TaskTypes DEF Tasks
<1> QED BY <1>1 DEF Attached, EngineState

\* A new run brings no resolutions.
LEMMA NoResolutions == <<>> \in Resolving
<1>1. <<>> \in [{} -> Resolutions]
  OBVIOUS
<1> QED BY <1>1 DEF Resolving

\* An engine that is down has the shape of an engine.
LEMMA DownShape == Down \in EngineState
<1>1. "down" \in Places
  BY DEF Places
<1> QED BY <1>1, AttachedShape, NoResolutions, Zenon DEF Down

-----------------------------------------------------------------------------
\* The shape is kept by what the actions have in common

\* stop_workers leaves a typed state.
LEMMA StopShape ==
  ASSUME Shape, NEW state \in RunStates, Stop(state)
  PROVE  /\ run' \in [state : RunStates, calls : Nat, emitted : 0..N, responded : BOOLEAN]
         /\ eng' \in EngineState
         /\ tools' \in [Ops -> World]
BY DownShape DEF Stop, Shape, World

\* settle leaves a typed state.
LEMMA SettleShape ==
  ASSUME Shape, NEW state \in RunStates, Settle(state)
  PROVE  Shape'
BY StopShape DEF Settle, Shape, Record, States

\* A commit that leaves Running leaves a typed state.
LEMMA LeaveShape ==
  ASSUME Shape, NEW state \in RunStates, Leave(state)
  PROVE  Shape'
BY StopShape DEF Leave, Shape

\* Releasing an operation's task, token and handle leaves the engine typed.
LEMMA ReleasedShape ==
  ASSUME NEW next \in EngineState, NEW o \in Ops
  PROVE  Released(next, o) \in EngineState
<1>1. [next.task EXCEPT ![o] = Idle] \in Tasks
  BY TaskTypes DEF EngineState, Tasks
<1> QED BY <1>1 DEF Released, EngineState

\* finish_operation's result is a typed record.
LEMMA ResultShape ==
  ASSUME Shape, NEW o \in Ops, NEW outcome \in Outcomes, NEW seq \in Nat
  PROVE  /\ WithResult(ops, o, outcome, seq) \in [Ops -> Record]
         /\ WithResult(ops, o, outcome, seq)[o].outcome = outcome
         /\ WithResult(ops, o, outcome, seq)[o].state = StateOf(outcome)
         /\ \A p \in Ops \ {o} : WithResult(ops, o, outcome, seq)[p] = ops[p]
<1> DEFINE r == [ops[o] EXCEPT !.state = StateOf(outcome), !.outcome = outcome,
                                !.seq = IF seq = 0 THEN ops[o].seq ELSE seq]
<1>1. StateOf(outcome) \in States
  BY OutcomeEnds DEF States
<1>2. r \in Record /\ r.outcome = outcome /\ r.state = StateOf(outcome)
  BY <1>1 DEF Shape, Record
<1>3. WithResult(ops, o, outcome, seq) = [ops EXCEPT ![o] = r]
  BY DEF WithResult
<1> HIDE DEF r
<1> QED BY <1>2, <1>3 DEF Shape

\* finish_operation keeps the shape.
LEMMA FinishShape ==
  ASSUME Shape, NEW o \in Ops, NEW outcome \in Outcomes, NEW seq \in Nat,
         NEW next \in EngineState, Finish(o, outcome, seq, next)
  PROVE  Shape'
<1>1. CASE Settle("Failed")
  BY <1>1, SettleShape DEF RunStates
<1>2. CASE ops' = WithResult(ops, o, outcome, seq) /\ eng' = Released(next, o)
             /\ UNCHANGED <<run, tools>>
  BY <1>2, ResultShape, ReleasedShape DEF Shape
<1>3. CASE eng' = next /\ UNCHANGED <<run, ops, tools>>
  BY <1>3 DEF Shape
<1> QED BY <1>1, <1>2, <1>3 DEF Finish

\* A new state of one operation leaves the records typed.
LEMMA UpdateShape ==
  ASSUME Shape, NEW o \in Ops, NEW state \in States, Update(o, state)
  PROVE  ops' \in [Ops -> Record]
BY DEF Update, Shape, Record

\* update_operation keeps the shape.
LEMMA SetStateShape ==
  ASSUME Shape, NEW o \in Ops, NEW state \in States, NEW next \in EngineState,
         SetState(o, state, next)
  PROVE  Shape'
<1>1. CASE Settle("Failed")
  BY <1>1, SettleShape DEF RunStates
<1>2. CASE Update(o, state) /\ eng' = next /\ UNCHANGED <<run, tools>>
  BY <1>2, UpdateShape DEF Shape
<1> QED BY <1>1, <1>2 DEF SetState

\* A new worker task leaves the engine typed.
LEMMA TaskShape ==
  ASSUME Shape, NEW o \in Ops, NEW task \in Task
  PROVE  AsTask(o, task) \in EngineState /\ [eng EXCEPT !.task[o] = task] \in EngineState
<1>1. [eng.task EXCEPT ![o] = task] \in Tasks
  BY DEF Shape, EngineState, Tasks
<1> QED BY <1>1 DEF AsTask, Passing, Shape, EngineState, Places

\* The loop's passage from place to place leaves the engine typed.
LEMMA PassingShape ==
  ASSUME NEW next \in EngineState
  PROVE  Passing(next) \in EngineState /\ Served(next) \in EngineState
BY DEF Passing, Served, EngineState, Places

-----------------------------------------------------------------------------
\* The invariant is kept by what the actions have in common

\* An engine that forgets tasks and handles, or lets tasks go on.
Keeps(next) ==
    /\ next.handles \subseteq eng.handles
    /\ \A o \in Ops : /\ next.task[o].at # "none" => eng.task[o].at # "none"
                      /\ next.task[o].at = "starting" => eng.task[o].at = "starting"

\* A record that only changes while it is open, or is finished in this step.
RecordKept(o) ==
    /\ ops'[o].outcome = ops[o].outcome
    /\ ops'[o].state = ops[o].state \/ (~Finished(o) /\ ops'[o].state \in Open)
RecordFinished(o) ==
    /\ ~Finished(o)
    /\ ops'[o].outcome \in Outcomes /\ ops'[o].state = StateOf(ops'[o].outcome)
    /\ ops'[o].outcome \in Refused => ops[o].state = "Queued"
    /\ eng'.task[o].at = "none" /\ o \notin eng'.handles
ToolsKept ==
    \A o \in Ops : tools'[o].starts = tools[o].starts /\ tools'[o].live = tools[o].live
                     /\ tools'[o].log = tools[o].log

\* Starts, and calls about to start, are finite in number.
LEMMA SpentFinite == IsFiniteSet(Spent) /\ Cardinality(Spent) \in Nat
<1>1. IsFiniteSet(Ops)
  BY FS_Interval, OperationsConstants DEF Ops
<1> QED BY <1>1, FS_Subset, FS_CardinalityType DEF Spent

\* Most steps start no tool and attach to none.
LEMMA ContinueInv ==
  ASSUME IInv, Shape', Keeps(eng'), \A o \in Ops : RecordKept(o) \/ RecordFinished(o),
         ToolsKept, run'.calls = run.calls
  PROVE  IInv'
<1> USE DEF IInv
<1>1. ResultsAgree'
  BY OutcomeEnds DEF ResultsAgree, Finished, RecordKept, RecordFinished, Open, TerminalStates
<1>2. WorkIsOpen'
  BY DEF WorkIsOpen, Keeps, RecordKept, RecordFinished, Open
<1>3. LogsAreSettled'
  BY DEF LogsAreSettled, ToolsKept
<1>4. NotYetStarted'
  BY OutcomeEnds DEF NotYetStarted, Untouched, ToolsKept, Keeps, RecordKept, RecordFinished,
                    Open, TerminalStates
<1>5. WithinBudget'
  <2>1. Spent' \subseteq Spent
    BY DEF Spent, ToolsKept, Keeps
  <2>2. Cardinality(Spent') <= Cardinality(Spent) /\ Cardinality(Spent') \in Nat
    BY <2>1, SpentFinite, FS_Subset, FS_CardinalityType
  <2> QED BY <2>2, SpentFinite, OperationsConstants DEF WithinBudget, Shape
<1> QED BY <1>1, <1>2, <1>3, <1>4, <1>5

\* An engine that is down holds nothing the invariant restricts.
LEMMA KeepsNothing == Shape => Keeps(Down)
BY DEF Keeps, Down, Attached, Idle

\* Stopping the workers keeps what holds of the engine.
LEMMA StopKeeps ==
  ASSUME Shape, NEW state \in RunStates, Stop(state)
  PROVE  Keeps(eng') /\ ToolsKept /\ run'.calls = run.calls
BY KeepsNothing DEF Stop, ToolsKept, Shape, World

\* settle keeps the invariant.
LEMMA SettleInv ==
  ASSUME IInv, NEW state \in RunStates, Settle(state)
  PROVE  IInv'
<1>1. \A o \in Ops : RecordKept(o)
  BY DEF Settle, RecordKept, IInv, Shape, Record, Finished, TerminalStates, Open
<1> QED BY <1>1, StopKeeps, SettleShape, ContinueInv DEF Settle, IInv

\* A commit that leaves Running keeps the invariant.
LEMMA LeaveInv ==
  ASSUME IInv, NEW state \in RunStates, Leave(state)
  PROVE  IInv'
<1>1. \A o \in Ops : RecordKept(o)
  BY DEF Leave, RecordKept
<1> QED BY <1>1, StopKeeps, LeaveShape, ContinueInv DEF Leave, IInv

\* finish_operation keeps the invariant: a result is given to an operation that
\* has none.
LEMMA FinishInv ==
  ASSUME IInv, NEW o \in Ops, NEW outcome \in Outcomes, NEW seq \in Nat,
         outcome \in Refused => ops[o].state = "Queued",
         NEW next \in EngineState, Keeps(next), Finish(o, outcome, seq, next)
  PROVE  IInv'
<1> Shape /\ Shape'
  BY FinishShape DEF IInv
<1>1. CASE Settle("Failed")
  BY <1>1, SettleInv DEF RunStates
<1>2. CASE /\ ~Finished(o) /\ ops' = WithResult(ops, o, outcome, seq)
           /\ eng' = Released(next, o) /\ UNCHANGED <<run, tools>>
  <2>1. /\ eng'.task[o].at = "none" /\ o \notin eng'.handles
        /\ eng'.handles \subseteq next.handles
        /\ \A p \in Ops \ {o} : eng'.task[p] = next.task[p]
    BY <1>2 DEF Released, Idle, EngineState, Tasks
  <2>2. Keeps(eng')
    BY <2>1 DEF Keeps
  <2>3. \A p \in Ops : RecordKept(p) \/ RecordFinished(p)
    BY <1>2, <2>1, ResultShape DEF RecordKept, RecordFinished
  <2> QED BY <1>2, <2>2, <2>3, ContinueInv DEF ToolsKept
<1>3. CASE eng' = next /\ UNCHANGED <<run, ops, tools>>
  BY <1>3, ContinueInv DEF RecordKept, ToolsKept
<1> QED BY <1>1, <1>2, <1>3 DEF Finish

\* update_operation keeps the invariant, for a state that is not terminal.
LEMMA SetStateInv ==
  ASSUME IInv, NEW o \in Ops, NEW state \in Open, NEW next \in EngineState, Keeps(next),
         SetState(o, state, next)
  PROVE  IInv'
<1> Shape /\ Shape'
  BY SetStateShape DEF IInv, Open, States
<1>1. CASE Settle("Failed")
  BY <1>1, SettleInv DEF RunStates
<1>2. CASE ~Finished(o) /\ Update(o, state) /\ eng' = next /\ UNCHANGED <<run, tools>>
  <2>1. \A p \in Ops : RecordKept(p)
    BY <1>2 DEF RecordKept, Update, Shape, Record
  <2> QED BY <1>2, <2>1, ContinueInv DEF ToolsKept
<1> QED BY <1>1, <1>2 DEF SetState

\* A step of the engine alone.
LEMMA QuietInv ==
  ASSUME IInv, eng' \in EngineState, Keeps(eng'), UNCHANGED <<ops, tools>>,
         run' \in [state : RunStates, calls : Nat, emitted : 0..N, responded : BOOLEAN],
         run'.calls = run.calls
  PROVE  IInv'
<1>1. Shape'
  BY DEF IInv, Shape
<1> QED BY <1>1, ContinueInv DEF RecordKept, ToolsKept

-----------------------------------------------------------------------------
\* The actions

\* A field other than task and handles changes nothing the invariant speaks of.
LEMMA SameWork ==
  ASSUME NEW next, next.task = eng.task, next.handles = eng.handles
  PROVE  Keeps(next)
BY DEF Keeps

\* A task that ends, or that goes on with the events of what was started.
LEMMA TaskEnds ==
  ASSUME Shape, NEW o \in Ops, eng.task[o].at # "none",
         NEW task \in Task, task.at # "starting"
  PROVE  Keeps(AsTask(o, task))
BY DEF Keeps, AsTask, Passing, Shape, EngineState, Tasks

\* A new run satisfies the invariant.
LEMMA InitInv == Init => IInv
<1> SUFFICES ASSUME Init PROVE IInv
  OBVIOUS
<1>1. Shape
  <2>1. eng \in EngineState
    BY AttachedShape, NoResolutions DEF Init, Places
  <2>2. <<>> \in Seq(Reports)
    OBVIOUS
  <2>3. ops \in [Ops -> Record]
    BY DEF Init, Record, States, Unstarted
  <2>4. tools \in [Ops -> World]
    BY <2>2 DEF Init, World
  <2>5. run \in [state : RunStates, calls : Nat, emitted : 0..N, responded : BOOLEAN]
    BY OperationsConstants DEF Init, RunStates
  <2> QED BY <2>1, <2>3, <2>4, <2>5 DEF Shape
<1>2. \A o \in Ops : /\ eng.task[o].at = "none" /\ eng.handles = {}
                     /\ ops[o].state = "Queued" /\ ops[o].outcome = "none"
                     /\ tools[o].starts = 0 /\ tools[o].log = <<>>
  BY DEF Init, Attached, Idle, Unstarted
<1>3. Spent = {}
  BY <1>2 DEF Spent
<1>4. ResultsAgree /\ WorkIsOpen /\ LogsAreSettled
  BY <1>2 DEF ResultsAgree, Finished, TerminalStates, WorkIsOpen, LogsAreSettled
<1>5. NotYetStarted
  BY <1>2 DEF NotYetStarted, Untouched
<1>6. WithinBudget
  BY <1>3, FS_EmptySet, OperationsConstants DEF WithinBudget, Init
<1> QED BY <1>1, <1>4, <1>5, <1>6 DEF IInv

\* Calls arrive Queued, a response finishes, results are delivered: no task and
\* no result is touched.
LEMMA ModelInv == ASSUME IInv, Model PROVE IInv'
<1> Shape /\ Passing(eng) \in EngineState /\ Keeps(Passing(eng))
  BY PassingShape, SameWork DEF IInv, Shape, Passing, EngineState
<1>1. CASE CallArrives
  <2>1. CASE Settle("Failed")
    BY <2>1, SettleInv DEF RunStates
  <2>2. CASE run' = [run EXCEPT !.emitted = @ + 1] /\ eng' = Passing(eng)
               /\ UNCHANGED <<ops, tools>>
    BY <1>1, <2>2, QuietInv, OperationsConstants DEF Shape, CallArrives
  <2> QED BY <1>1, <2>1, <2>2 DEF CallArrives
<1>2. CASE ResponseFinished
  BY <1>2, QuietInv DEF ResponseFinished, Shape
<1>3. ASSUME NEW o \in Ops, Delivered(o) PROVE IInv'
  <2>1. Shape'
    BY <1>3 DEF Delivered, Shape, Record
  <2>2. \A p \in Ops : RecordKept(p)
    BY <1>3 DEF Delivered, RecordKept, Shape, Record
  <2> QED BY <1>3, <2>1, <2>2, ContinueInv DEF Delivered, ToolsKept
<1> QED BY <1>1, <1>2, <1>3 DEF Model

\* admit: a group is taken for its decisions; operations without a tool get
\* Unavailable.
LEMMA AdmitInv == ASSUME IInv, Admit PROVE IInv'
<1> Shape
  BY DEF IInv
<1>1. Keeps(eng') /\ eng' \in EngineState
  <2>1. Queued # {} => Reached \subseteq Ops
    BY ReachedQueued, EmittedOps DEF Queued, InState
  <2>2. CASE eng' = [eng EXCEPT !.pc = "advance"]
    BY <2>2, SameWork DEF Shape, EngineState, Places
  <2>3. ASSUME NEW pc \in Places, Queued # {},
               eng' = [eng EXCEPT !.admitting = Reached \ Unbound, !.pc = pc]
        PROVE  Keeps(eng') /\ eng' \in EngineState
    BY <2>1, <2>3, SameWork DEF Shape, EngineState
  <2>4. eng.pc \in Places /\ "advance" \in Places
    BY DEF Shape, EngineState, Places
  <2> QED BY <2>2, <2>3, <2>4 DEF Admit
<1>2. CASE UNCHANGED ops
  BY <1>1, <1>2, QuietInv DEF Admit, Shape
<1>3. CASE Queued # {} /\ ops' = [o \in Ops |-> IF o \in Reached \cap Unbound
                                                 THEN WithResult(ops, o, "Unavailable", 0)[o]
                                                 ELSE ops[o]]
  <2>1. \A o \in Reached : ops[o].state = "Queued"
    BY <1>3, ReachedQueued DEF Queued, InState
  <2>2. \A o \in Ops : WithResult(ops, o, "Unavailable", 0)[o] \in Record
                        /\ WithResult(ops, o, "Unavailable", 0)[o].outcome = "Unavailable"
                        /\ WithResult(ops, o, "Unavailable", 0)[o].state = StateOf("Unavailable")
    <3> "Unavailable" \in Outcomes
      BY DEF Outcomes
    <3> QED BY ResultShape
  <2>3. Shape'
    BY <1>1, <1>3, <2>2 DEF Shape, Admit
  <2>4. ASSUME NEW o \in Ops, o \in Reached \cap Unbound PROVE RecordFinished(o)
    <3>1. eng'.task[o].at = "none" /\ o \notin eng'.handles
      BY <1>1, <2>1, <2>4 DEF IInv, WorkIsOpen, Open, Keeps
    <3> QED BY <1>3, <2>1, <2>2, <2>4, <3>1
            DEF RecordFinished, Finished, TerminalStates, Outcomes
  <2>5. \A o \in Ops : RecordKept(o) \/ RecordFinished(o)
    BY <1>3, <2>4 DEF RecordKept
  <2> QED BY <1>1, <2>3, <2>5, ContinueInv DEF Admit, ToolsKept
<1> QED BY <1>2, <1>3 DEF Admit

\* The call is counted before its tool is called.
LEMMA DispatchedInv ==
  ASSUME IInv, NEW o \in Ops, NEW next \in EngineState, next.task = eng.task,
         next.handles = eng.handles, ops[o].state = "Queued", run.calls < MaxCalls,
         Dispatched(o, next)
  PROVE  IInv'
<1> Shape
  BY DEF IInv
<1>1. Shape'
  <2>1. eng' \in EngineState
    <3>1. [next.task EXCEPT ![o] = Starting] \in Tasks
      BY TaskTypes DEF EngineState, Tasks
    <3> QED BY <3>1 DEF Dispatched, EngineState
  <2>2. run' \in [state : RunStates, calls : Nat, emitted : 0..N, responded : BOOLEAN]
    BY DEF Dispatched, Shape
  <2> QED BY <2>1, <2>2, UpdateShape DEF Dispatched, Shape, States
<1>2. /\ eng'.task[o].at = "starting" /\ eng'.handles = eng.handles
      /\ \A p \in Ops \ {o} : eng'.task[p] = eng.task[p]
  BY DEF Dispatched, Starting, Shape, EngineState, Tasks
<1>3. /\ ops'[o].state = "Running" /\ ops'[o].outcome = ops[o].outcome
      /\ \A p \in Ops \ {o} : ops'[p] = ops[p]
      /\ tools' = tools /\ run'.calls = run.calls + 1
  BY DEF Dispatched, Update, Shape, Record
<1>4. ResultsAgree' /\ WorkIsOpen' /\ LogsAreSettled'
  BY <1>2, <1>3 DEF IInv, ResultsAgree, Finished, TerminalStates, WorkIsOpen, Open, LogsAreSettled
<1>5. NotYetStarted'
  BY <1>2, <1>3 DEF IInv, NotYetStarted, Untouched
<1>6. WithinBudget'
  <2>1. Spent' \subseteq Spent \cup {o}
    BY <1>2, <1>3 DEF Spent
  <2>2. IsFiniteSet(Spent \cup {o}) /\ Cardinality(Spent \cup {o}) <= Cardinality(Spent) + 1
        /\ Cardinality(Spent \cup {o}) \in Nat
    <3>1. IsFiniteSet(Spent \cup {o})
      BY SpentFinite, FS_AddElement
    <3>2. Cardinality(Spent \cup {o})
            = IF o \in Spent THEN Cardinality(Spent) ELSE Cardinality(Spent) + 1
      BY SpentFinite, FS_AddElement
    <3> QED BY <3>1, <3>2, SpentFinite
  <2>3. Cardinality(Spent') <= Cardinality(Spent \cup {o}) /\ Cardinality(Spent') \in Nat
    BY <2>1, <2>2, FS_Subset, FS_CardinalityType
  <2> QED BY <1>3, <2>2, <2>3, SpentFinite, OperationsConstants DEF IInv, WithinBudget, Shape
<1> QED BY <1>1, <1>4, <1>5, <1>6 DEF IInv

\* Each decision is carried out: refused, limited, or dispatched, Running being
\* durable before the task that calls the tool is spawned.
LEMMA AdmitNextInv == ASSUME IInv, AdmitNext PROVE IInv'
<1> DEFINE d == First(eng.decisions)
           next == [eng EXCEPT !.decisions = @ \ {d}]
<1> Shape
  BY DEF IInv
<1>1. d \in Decision
  BY FirstOf DEF AdmitNext, Shape, EngineState
<1>2. next \in EngineState /\ next.task = eng.task /\ next.handles = eng.handles
  BY DEF Shape, EngineState
<1>3. d.op \in Ops /\ Keeps(next)
  BY <1>1, <1>2, SameWork DEF Decision
<1>4. CASE eng' = next /\ UNCHANGED <<run, ops, tools>>
  BY <1>2, <1>3, <1>4, QuietInv DEF Shape
<1>5. CASE ops[d.op].state = "Queued" /\ Finish(d.op, "Denied", 0, next)
  <2> "Denied" \in Outcomes
    BY DEF Outcomes
  <2> QED BY <1>2, <1>3, <1>5, FinishInv
<1>6. CASE Leave("Limited")
  BY <1>6, LeaveInv DEF RunStates
<1>7. CASE ops[d.op].state = "Queued" /\ ~(run.calls >= MaxCalls) /\ Dispatched(d.op, next)
  <2> run.calls < MaxCalls
    BY <1>7, OperationsConstants DEF Shape
  <2> HIDE DEF next, d
  <2> QED BY <1>2, <1>3, <1>7, DispatchedInv
<1> QED BY <1>4, <1>5, <1>6, <1>7 DEF AdmitNext

\* The decisions for the group arrive, or one of them suspends the run.
LEMMA DecidedInv == ASSUME IInv, Decided PROVE IInv'
<1> Shape
  BY DEF IInv
<1>1. CASE Leave("Suspended")
  BY <1>1, LeaveInv DEF RunStates
<1>2. ASSUME NEW decide \in [eng.admitting -> Decisions],
             eng' = [eng EXCEPT
                       !.pc = "admitting", !.admitting = {},
                       !.decisions = {[op |-> o, decision |-> decide[o]] : o \in eng.admitting}],
             UNCHANGED <<run, ops, tools>>
      PROVE  IInv'
  <2>1. {[op |-> o, decision |-> decide[o]] : o \in eng.admitting} \subseteq Decision
    BY DEF Shape, EngineState, Decision
  <2>2. eng' \in EngineState
    BY <1>2, <2>1 DEF Shape, EngineState, Places
  <2>3. Keeps(eng')
    BY <1>2, SameWork DEF Shape, EngineState
  <2> QED BY <1>2, <2>2, <2>3, QuietInv DEF Shape
<1> QED BY <1>1, <1>2 DEF Decided

\* The loop goes on after admission: it waits, suspends or completes and starts
\* nothing.
LEMMA AdvanceInv == ASSUME IInv, AdmissionDone \/ Advance PROVE IInv'
<1> Shape
  BY DEF IInv
<1>1. CASE \E state \in {"Suspended", "Completed"} : Leave(state)
  BY <1>1, LeaveInv DEF RunStates
<1>2. CASE AdmissionDone
  <2>1. eng' \in EngineState /\ eng'.task = eng.task /\ eng'.handles = eng.handles
    BY <1>2 DEF AdmissionDone, Passing, Shape, EngineState, Places
  <2> QED BY <1>2, <2>1, SameWork, QuietInv DEF AdmissionDone, Shape
<1>3. CASE eng' = [eng EXCEPT !.pc = "idle"] /\ UNCHANGED <<run, ops, tools>>
  <2>1. eng' \in EngineState /\ eng'.task = eng.task /\ eng'.handles = eng.handles
    BY <1>3 DEF Shape, EngineState, Places
  <2> QED BY <1>3, <2>1, SameWork, QuietInv DEF Shape
<1> QED BY <1>1, <1>2, <1>3 DEF Advance

\* What a task returned is typed, and its record open.
LEMMA ReturnedType ==
  ASSUME Shape, NEW o \in Ops, eng.task[o].at = "returned"
  PROVE  eng.task[o].value \in Values /\ eng.task[o].pos \in Nat
BY DEF Shape, EngineState, Tasks, Task, Idle, Starting, Recovering, Streaming, Returned

\* The position a streaming task has reached is a number.
LEMMA StreamingType ==
  ASSUME Shape, NEW o \in Ops, eng.task[o].at = "streaming"
  PROVE  eng.task[o].pos \in Nat
BY DEF Shape, EngineState, Tasks, Task, Idle, Starting, Recovering, Streaming, Returned

\* install_operation: the handle a task returned is installed.
LEMMA InstallInv ==
  ASSUME IInv, NEW o \in Ops, eng.task[o].at = "returned", Install(o)
  PROVE  IInv'
<1> DEFINE task == Streaming(eng.task[o].pos)
<1> Shape
  BY DEF IInv
<1>1. task \in Task /\ task.at = "streaming"
  BY ReturnedType, TaskTypes DEF Streaming
<1>2. AsTask(o, task) \in EngineState /\ Keeps(AsTask(o, task))
  BY <1>1, TaskShape, TaskEnds
<1>3. eng' \in EngineState /\ eng'.task = AsTask(o, task).task
      /\ eng'.handles = eng.handles \cup {o}
  <2>1. AsTask(o, task).handles = eng.handles
    BY DEF AsTask, Passing, Shape, EngineState
  <2> HIDE DEF task
  <2> QED BY <1>2, <2>1 DEF Install, task, EngineState
<1>4. \A p \in Ops : /\ eng'.task[p].at # "none" => eng.task[p].at # "none"
                     /\ eng'.task[p].at = "starting" => eng.task[p].at = "starting"
  BY <1>2, <1>3 DEF Keeps
<1>5. Shape' /\ UNCHANGED <<run, ops, tools>>
  BY <1>3 DEF Install, Shape
<1>6. ResultsAgree' /\ LogsAreSettled'
  BY <1>5 DEF IInv, ResultsAgree, Finished, LogsAreSettled
<1>7. WorkIsOpen'
  BY <1>3, <1>4, <1>5 DEF IInv, WorkIsOpen
<1>8. NotYetStarted'
  BY <1>4, <1>5 DEF IInv, NotYetStarted, Untouched
<1>9. WithinBudget'
  <2>1. Spent' \subseteq Spent
    BY <1>4, <1>5 DEF Spent
  <2>2. Cardinality(Spent') <= Cardinality(Spent) /\ Cardinality(Spent') \in Nat
    BY <2>1, SpentFinite, FS_Subset, FS_CardinalityType
  <2> QED BY <1>5, <2>2, SpentFinite, OperationsConstants DEF IInv, WithinBudget, Shape
<1> QED BY <1>5, <1>6, <1>7, <1>8, <1>9 DEF IInv

\* Work::Started: a start that returned is installed, finished or left Unknown.
LEMMA StartedInv == ASSUME IInv, NEW o \in Ops, Started(o) PROVE IInv'
<1> DEFINE next == AsTask(o, Idle)
<1> Shape
  BY DEF IInv
<1>1. next \in EngineState /\ Keeps(next)
  BY TaskShape, TaskTypes, TaskEnds DEF Started, Idle
<1>2. CASE Install(o)
  BY <1>2, InstallInv DEF Started
<1>3. CASE SetState(o, "Unknown", next)
  BY <1>1, <1>3, SetStateInv DEF Open
<1>4. ASSUME NEW outcome \in Results, Finish(o, outcome, 0, next) PROVE IInv'
  BY <1>1, <1>4, FinishInv DEF Results, Outcomes, Refused
<1>5. eng.task[o].value \in Values
  BY ReturnedType DEF Started
<1> HIDE DEF next
<1> QED BY <1>2, <1>3, <1>4, <1>5 DEF Started, Values, Results, next

\* What a tool has reported is typed.
LEMMA ReportsTyped ==
  ASSUME Shape, NEW o \in Ops, NEW i \in 1..Len(tools[o].log)
  PROVE  tools[o].log[i] \in Reports
BY DEF Shape, World

\* operation_event: the next report of a tool, once and in order.
LEMMA OperationEventInv == ASSUME IInv, NEW o \in Ops, OperationEvent(o) PROVE IInv'
<1> DEFINE seq == eng.task[o].pos + 1
           update == tools[o].log[seq]
           next == AsTask(o, Streaming(seq))
<1> Shape
  BY DEF IInv
<1>1. seq \in Nat /\ update \in Reports
  BY StreamingType, ReportsTyped, SMTT(30) DEF OperationEvent, Shape, World
<1>2. next \in EngineState /\ Keeps(next)
  BY <1>1, TaskShape, TaskTypes, TaskEnds DEF OperationEvent, Streaming
<1>3. CASE eng' = next /\ UNCHANGED <<run, ops, tools>>
  BY <1>2, <1>3, QuietInv DEF Shape
<1>4. CASE update \in Outcomes /\ Finish(o, update, seq, next)
  BY <1>1, <1>2, <1>4, FinishInv DEF Reports, Results, Outcomes, Refused
<1>5. CASE Settle("Failed")
  BY <1>5, SettleInv DEF RunStates
<1>6. CASE /\ ~Finished(o) /\ update \notin Outcomes
           /\ ops' = [ops EXCEPT ![o] = [@ EXCEPT !.state = update, !.seq = seq]]
           /\ eng' = next /\ UNCHANGED <<run, tools>>
  <2> HIDE DEF seq, update, next
  <2>1. update \in {"Running", "Waiting"}
    BY <1>1, <1>6 DEF Reports, Results, Outcomes
  <2>2. Shape'
    BY <1>1, <1>2, <1>6, <2>1, ZenonT(30) DEF Shape, Record, States
  <2>3. \A p \in Ops : RecordKept(p)
    BY <1>6, <2>1 DEF RecordKept, Shape, Record, Open
  <2> QED BY <1>2, <1>6, <2>2, <2>3, ContinueInv DEF ToolsKept
<1> QED BY <1>3, <1>4, <1>5, <1>6 DEF OperationEvent

\* An operation whose tool cannot be followed is left Unknown.
LEMMA UnresolvedInv ==
  ASSUME IInv, NEW o \in Ops, NEW next \in EngineState, Keeps(next), Unresolved(o, next)
  PROVE  IInv'
<1>1. CASE eng' = next /\ UNCHANGED <<run, ops, tools>>
  BY <1>1, QuietInv DEF IInv, Shape
<1>2. CASE SetState(o, "Unknown", next)
  BY <1>2, SetStateInv DEF Open
<1> QED BY <1>1, <1>2 DEF Unresolved

\* A lost event stream, and a cancellation that fails.
LEMMA LossesInv ==
  ASSUME IInv, NEW o \in Ops, StreamEnds(o) \/ CancelFails(o)
  PROVE  IInv'
<1> Shape
  BY DEF IInv
<1>1. CASE StreamEnds(o)
  <2> AsTask(o, Idle) \in EngineState /\ Keeps(AsTask(o, Idle))
    BY <1>1, TaskShape, TaskTypes, TaskEnds DEF StreamEnds, Idle
  <2> QED BY <1>1, UnresolvedInv DEF StreamEnds
<1>2. CASE CancelFails(o)
  <2> DEFINE next == Passing([eng EXCEPT !.cancels = @ \ {o}])
  <2>1. next \in EngineState /\ next.task = eng.task /\ next.handles = eng.handles
    BY DEF Shape, EngineState, Passing, Places
  <2> HIDE DEF next
  <2> QED BY <1>2, <2>1, SameWork, UnresolvedInv DEF CancelFails, next
<1> QED BY <1>1, <1>2

\* Work::ReplyDone: the operation goes on, or its reply is uncertain.
LEMMA ReplyDoneInv == ASSUME IInv, NEW o \in Ops, ReplyDone(o) PROVE IInv'
<1> Shape
  BY DEF IInv
<1> PICK reply \in eng.replies :
      LET next == Passing([eng EXCEPT !.replies = @ \ {reply}])
      IN  \/ \E state \in {"Running", "Unknown"} : SetState(o, state, next)
          \/ eng' = next /\ UNCHANGED <<run, ops, tools>>
  BY DEF ReplyDone
<1> DEFINE next == Passing([eng EXCEPT !.replies = @ \ {reply}])
<1>1. next \in EngineState /\ next.task = eng.task /\ next.handles = eng.handles
  BY DEF Shape, EngineState, Passing, Places
<1>2. Keeps(next)
  BY <1>1, SameWork
<1> HIDE DEF next
<1>3. ASSUME NEW state \in {"Running", "Unknown"}, SetState(o, state, next) PROVE IInv'
  BY <1>1, <1>2, <1>3, SetStateInv DEF Open
<1>4. CASE eng' = next /\ UNCHANGED <<run, ops, tools>>
  BY <1>1, <1>2, <1>4, QuietInv DEF Shape
<1> QED BY <1>3, <1>4 DEF next

\* cancel_operation: a queued one ends, a live one is told.
LEMMA CancelOperationInv == ASSUME IInv, NEW o \in Ops, CancelOperation(o) PROVE IInv'
<1> Shape
  BY DEF IInv
<1>1. CASE ops[o].state = "Queued" /\ Finish(o, "Undispatched", 0, Served(eng))
  <2>1. Served(eng) \in EngineState /\ Keeps(Served(eng))
    BY PassingShape, SameWork DEF Served, Passing, Shape, EngineState
  <2> QED BY <1>1, <2>1, FinishInv DEF Outcomes
<1>2. CASE /\ ops[o].state # "Queued" /\ Update(o, "Cancelling")
           /\ eng' = Served([eng EXCEPT !.tokens = @ \cup {o},
                                        !.cancels = @ \cup ({o} \cap eng.handles)])
           /\ UNCHANGED <<run, tools>>
  <2>1. eng' \in EngineState /\ eng'.task = eng.task /\ eng'.handles = eng.handles
    BY <1>2 DEF Served, Passing, Shape, EngineState, Places
  <2>2. ~Finished(o)
    BY DEF CancelOperation, Unfinished
  <2>3. \A p \in Ops : RecordKept(p)
    BY <1>2, <2>2 DEF RecordKept, Update, Shape, Record, Open
  <2>4. Shape'
    BY <1>2, <2>1, UpdateShape DEF Shape, States
  <2> QED BY <1>2, <2>1, <2>3, <2>4, SameWork, ContinueInv DEF ToolsKept
<1> QED BY <1>1, <1>2 DEF CancelOperation

\* reply_operation: the operation is Unknown until its reply is confirmed.
LEMMA ReplyOperationInv == ASSUME IInv, NEW o \in Ops, ReplyOperation(o) PROVE IInv'
<1> Shape
  BY DEF IInv
<1>1. eng' \in EngineState /\ eng'.task = eng.task /\ eng'.handles = eng.handles
  <2> DEFINE sent == [op |-> o, at |-> "sent"]
  <2>1. sent \in Reply /\ eng' = Served([eng EXCEPT !.replies = @ \cup {sent}])
    BY DEF Reply, ReplyOperation
  <2> HIDE DEF sent
  <2> QED BY <2>1 DEF Served, Passing, Shape, EngineState, Places
<1>2. ops[o].state \in Open
  BY DEF ReplyOperation, IInv, WorkIsOpen
<1>3. \A p \in Ops : RecordKept(p)
  BY <1>2 DEF ReplyOperation, RecordKept, Update, Shape, Record, Open, Finished, TerminalStates
<1>4. tools' \in [Ops -> World] /\ ToolsKept
  <2>1. tools[o] \in World
    BY DEF Shape
  <2>2. [tools[o] EXCEPT !.replies = @ + 1] \in World
    BY <2>1 DEF World
  <2> QED BY <2>2 DEF ReplyOperation, Shape, World, ToolsKept
<1>5. Shape'
  BY <1>1, <1>4, UpdateShape DEF ReplyOperation, Shape, States
<1> QED BY <1>1, <1>3, <1>4, <1>5, SameWork, ContinueInv DEF ReplyOperation

\* Whatever ends, loses or opens the engine.
LEMMA LifecycleInv ==
  ASSUME IInv, Pause \/ Interrupt \/ Crash \/ Continue \/ Resume \/ CatalogOpened
  PROVE  IInv'
<1> Shape
  BY DEF IInv
<1>1. CASE Pause
  BY <1>1, LeaveInv DEF Pause, RunStates
<1>2. CASE Interrupt
  BY <1>2, SettleInv DEF Interrupt, RunStates
<1>3. CASE Crash
  BY <1>3, DownShape, KeepsNothing, QuietInv DEF Crash, Shape
<1>4. ASSUME NEW resolve \in Resolving, NEW abandon \in BOOLEAN, Attach(resolve, abandon)
      PROVE  IInv'
  <2>1. eng' \in EngineState
    BY <1>4, AttachedShape DEF Attach, Places
  <2>2. Keeps(eng')
    BY <1>4 DEF Attach, Keeps, Attached, Idle
  <2> QED BY <1>4, <2>1, <2>2, QuietInv DEF Attach, Shape, RunStates
<1>5. CASE Continue
  BY <1>4, <1>5, NoResolutions, Zenon DEF Continue
<1>6. CASE Resume
  <2>1. PICK S \in SUBSET InState({"Unknown", "Waiting"}) :
               \E how \in [S -> Resolutions] : Attach(how, ~run.responded)
    BY <1>6 DEF Resume
  <2>2. PICK how \in [S -> Resolutions] : Attach(how, ~run.responded)
    BY <2>1
  <2>3. S \in SUBSET Ops
    BY EmittedOps DEF InState
  <2>4. how \in Resolving
    BY <2>3, Zenon DEF Resolving
  <2>5. (~run.responded) \in BOOLEAN
    OBVIOUS
  <2> QED BY <1>4, <2>2, <2>4, <2>5, Zenon
<1>7. CASE CatalogOpened
  <2>1. eng' \in EngineState /\ eng'.task = eng.task /\ eng'.handles = eng.handles
    BY <1>7 DEF CatalogOpened, Shape, EngineState, Places
  <2> QED BY <1>7, <2>1, SameWork, QuietInv DEF CatalogOpened, Shape
<1> QED BY <1>1, <1>2, <1>3, <1>5, <1>6, <1>7

\* The resolution that is applied next is one of those the host gave.
LEMMA NextResolution ==
  ASSUME Shape, eng.resolve # <<>>
  PROVE  /\ Min(DOMAIN eng.resolve) \in Ops
         /\ eng.resolve[Min(DOMAIN eng.resolve)] \in Resolutions
         /\ \A o : [p \in DOMAIN eng.resolve \ {o} |-> eng.resolve[p]] \in Resolving
<1>1. PICK S \in SUBSET Ops : eng.resolve \in [S -> Resolutions]
  BY DEF Shape, EngineState, Resolving
<1>2. DOMAIN eng.resolve = S /\ S # {} /\ S \in SUBSET Nat
  <2>1. \A f \in [{} -> Resolutions] : f = <<>>
    OBVIOUS
  <2>2. S # {}
    BY <1>1, <2>1
  <2> QED BY <1>1, <2>2 DEF Ops
<1>3. ASSUME NEW o PROVE [p \in DOMAIN eng.resolve \ {o} |-> eng.resolve[p]] \in Resolving
  <2>1. [p \in DOMAIN eng.resolve \ {o} |-> eng.resolve[p]] \in [S \ {o} -> Resolutions]
    BY <1>1, <1>2
  <2> QED BY <2>1 DEF Resolving
<1> QED BY <1>1, <1>2, <1>3, MinOf

\* The resolutions of a resumption are applied one by one.
LEMMA ResolveInv == ASSUME IInv, Resolve PROVE IInv'
<1> DEFINE o == Min(DOMAIN eng.resolve)
           rest == [p \in DOMAIN eng.resolve \ {o} |-> eng.resolve[p]]
           next == [eng EXCEPT !.resolve = rest]
<1> Shape
  BY DEF IInv
<1>3. o \in Ops /\ eng.resolve[o] \in Resolutions
  BY NextResolution DEF Resolve
<1>4. rest \in Resolving
  BY NextResolution DEF Resolve
<1>5. next \in EngineState /\ next.task = eng.task /\ next.handles = eng.handles
  <2> HIDE DEF rest
  <2> QED BY <1>4 DEF Shape, EngineState
<1>6. Keeps(next)
  BY <1>5, SameWork
<1>7. \/ SetState(o, "Running", next)
      \/ eng.resolve[o] # "Attach" /\ Finish(o, eng.resolve[o], 0, next)
  BY DEF Resolve
<1> HIDE DEF next, rest, o
<1>8. CASE SetState(o, "Running", next)
  BY <1>3, <1>5, <1>6, <1>8, SetStateInv DEF Open
<1>9. CASE eng.resolve[o] # "Attach" /\ Finish(o, eng.resolve[o], 0, next)
  BY <1>3, <1>5, <1>6, <1>9, FinishInv DEF Resolutions, Outcomes, Refused
<1> QED BY <1>7, <1>8, <1>9

\* apply_recovery: an open generation is decided, and what is still unknown
\* suspends the run.
LEMMA DecideRecoveryInv ==
  ASSUME IInv, ResolveGeneration \/ DecideRecovery
  PROVE  IInv'
<1> Shape
  BY DEF IInv
<1>1. CASE Leave("Suspended")
  BY <1>1, LeaveInv DEF RunStates
<1>2. CASE ResolveGeneration
  <2>1. eng' \in EngineState /\ eng'.task = eng.task /\ eng'.handles = eng.handles
    BY <1>2 DEF ResolveGeneration, Shape, EngineState
  <2> QED BY <1>2, <2>1, SameWork, QuietInv DEF ResolveGeneration, Shape
<1>3. CASE eng' = [eng EXCEPT !.pc = "opening"] /\ UNCHANGED <<run, ops, tools>>
  <2>1. eng' \in EngineState /\ eng'.task = eng.task /\ eng'.handles = eng.handles
    BY <1>3 DEF Shape, EngineState, Places
  <2> QED BY <1>3, <2>1, SameWork, QuietInv DEF Shape
<1> QED BY <1>1, <1>2, <1>3 DEF DecideRecovery

\* Recovery makes tasks for the work that is open and starts none of it.
LEMMA RecoverOperationsInv == ASSUME IInv, RecoverOperations PROVE IInv'
<1> DEFINE tasks == [o \in Ops |-> IF o \in InState({"Running", "Waiting", "Cancelling"})
                                     THEN Recovering ELSE Idle]
<1> Shape
  BY DEF IInv
<1>1. tasks \in Tasks /\ \A o \in Ops : tasks[o].at # "starting"
                                      /\ (tasks[o].at # "none" => ops[o].state \in Open)
  BY TaskTypes DEF Tasks, Recovering, Idle, InState, Open
<1>2. eng' \in EngineState /\ eng'.task = tasks /\ eng'.handles = eng.handles
  <2>1. eng' = [Passing(eng) EXCEPT !.task = tasks]
    BY DEF RecoverOperations
  <2> HIDE DEF tasks
  <2> QED BY <1>1, <2>1 DEF Passing, Shape, EngineState, Places
<1> HIDE DEF tasks
<1>3. Shape' /\ UNCHANGED <<run, ops, tools>>
  BY <1>2 DEF RecoverOperations, Shape
<1>4. ResultsAgree' /\ LogsAreSettled'
  BY <1>3 DEF IInv, ResultsAgree, Finished, LogsAreSettled
<1>5. WorkIsOpen' /\ NotYetStarted'
  BY <1>1, <1>2, <1>3 DEF IInv, WorkIsOpen, NotYetStarted, Untouched
<1>6. WithinBudget'
  <2>1. Spent' \subseteq Spent
    BY <1>1, <1>2, <1>3 DEF Spent
  <2>2. Cardinality(Spent') <= Cardinality(Spent) /\ Cardinality(Spent') \in Nat
    BY <2>1, SpentFinite, FS_Subset, FS_CardinalityType
  <2> QED BY <1>3, <2>2, SpentFinite, OperationsConstants DEF IInv, WithinBudget, Shape
<1> QED BY <1>3, <1>4, <1>5, <1>6 DEF IInv

\* What a task returns.
LEMMA ReturnShape ==
  ASSUME Shape, NEW o \in Ops, NEW value \in Values, NEW pos \in Nat, Return(o, value, pos)
  PROVE  /\ eng' \in EngineState
         /\ eng'.task = [eng.task EXCEPT ![o] = Returned(value, pos)]
         /\ eng'.handles = eng.handles
<1>1. Returned(value, pos) \in Task
  BY TaskTypes
<1>2. eng' \in EngineState
  BY <1>1, TaskShape DEF Return
<1> QED BY <1>2 DEF Return, Shape, EngineState

\* A start or an attach that returns leaves the rest of the engine alone.
LEMMA ReturnKeeps ==
  ASSUME Shape, NEW o \in Ops, eng.task[o].at # "none",
         NEW value \in Values, NEW pos \in Nat, Return(o, value, pos)
  PROVE  Keeps(eng')
<1>1. Returned(value, pos).at = "returned"
  BY DEF Returned
<1>2. eng'.task = [eng.task EXCEPT ![o] = Returned(value, pos)] /\ eng'.handles = eng.handles
  BY ReturnShape
<1>3. eng.task \in [Ops -> Task]
  BY DEF Shape, EngineState, Tasks
<1> QED BY <1>1, <1>2, <1>3 DEF Keeps

\* The one step that calls a tool.
LEMMA ToolStartInv == ASSUME IInv, NEW o \in Ops, ToolStart(o) PROVE IInv'
<1> Shape /\ UNCHANGED <<run, ops>> /\ eng.task[o].at = "starting"
  BY DEF IInv, ToolStart
<1>1. PICK value \in Values : Return(o, value, 0)
  BY DEF ToolStart, Values, Results
<1>2. /\ eng' \in EngineState /\ eng'.handles = eng.handles
      /\ eng'.task[o].at = "returned"
      /\ \A p \in Ops \ {o} : eng'.task[p] = eng.task[p]
  <2>1. /\ eng' \in EngineState /\ eng'.handles = eng.handles
        /\ eng'.task = [eng.task EXCEPT ![o] = Returned(value, 0)]
    BY <1>1, ReturnShape
  <2>2. eng.task \in [Ops -> Task]
    BY DEF Shape, EngineState, Tasks
  <2> QED BY <2>1, <2>2 DEF Returned
<1>3. /\ tools' \in [Ops -> World]
      /\ tools'[o].starts \in {tools[o].starts, tools[o].starts + 1}
      /\ \A p \in Ops \ {o} : tools'[p] = tools[p]
      /\ ~tools'[o].live /\ tools'[o].log # <<>>
           => tools'[o].log[Len(tools'[o].log)] \in Results
  <2>1. tools[o] \in World /\ tools \in [Ops -> World]
    BY DEF Shape
  <2>2. CASE UNCHANGED tools
    BY <2>1, <2>2 DEF IInv, LogsAreSettled
  <2>3. ASSUME NEW live \in BOOLEAN, NEW outcome \in {"Success", "Failure"},
               tools' = [tools EXCEPT ![o].starts = @ + 1, ![o].live = live,
                                      ![o].log = IF live THEN @ ELSE <<outcome>>]
        PROVE  /\ tools' \in [Ops -> World]
               /\ tools'[o].starts = tools[o].starts + 1
               /\ tools'[o].live = live
               /\ tools'[o].log = IF live THEN tools[o].log ELSE <<outcome>>
               /\ \A p \in Ops \ {o} : tools'[p] = tools[p]
    <3> DEFINE log == IF live THEN tools[o].log ELSE <<outcome>>
               w == [tools[o] EXCEPT !.starts = tools[o].starts + 1, !.live = live, !.log = log]
    <3>1. log \in Seq(Reports)
      <4>1. tools[o].log \in Seq(Reports)
        BY <2>1 DEF World
      <4>2. <<outcome>> \in Seq(Reports)
        BY DEF Reports, Results
      <4> QED BY <4>1, <4>2
    <3>2. tools' = [tools EXCEPT ![o] = w]
      BY <2>1, <2>3
    <3>3. w \in World /\ w.starts = tools[o].starts + 1 /\ w.live = live /\ w.log = log
      <4> HIDE DEF log
      <4>1. tools[o].starts + 1 \in Nat
        BY <2>1 DEF World
      <4>2. /\ DOMAIN w = DOMAIN tools[o]
            /\ w.starts = tools[o].starts + 1 /\ w.live = live /\ w.log = log
            /\ w.cancel = tools[o].cancel /\ w.answer = tools[o].answer
            /\ w.replies = tools[o].replies
        BY <2>1 DEF World
      <4> QED BY <2>1, <3>1, <4>1, <4>2 DEF World
    <3> HIDE DEF w
    <3> QED BY <2>1, <3>2, <3>3
  <2>4. CASE \E live \in BOOLEAN, outcome \in {"Success", "Failure"} :
               tools' = [tools EXCEPT ![o].starts = @ + 1, ![o].live = live,
                                      ![o].log = IF live THEN @ ELSE <<outcome>>]
    <3>1. PICK live \in BOOLEAN, outcome \in {"Success", "Failure"} :
                 tools' = [tools EXCEPT ![o].starts = @ + 1, ![o].live = live,
                                        ![o].log = IF live THEN @ ELSE <<outcome>>]
      BY <2>4
    <3>2. ~live => tools'[o].log[Len(tools'[o].log)] \in Results
      <4>1. tools'[o].log = IF live THEN tools[o].log ELSE <<outcome>>
        BY <2>3, <3>1
      <4>2. <<outcome>>[Len(<<outcome>>)] \in Results
        BY DEF Results
      <4> QED BY <4>1, <4>2
    <3>3. tools'[o].live = live
      BY <2>3, <3>1
    <3> QED BY <2>3, <3>1, <3>2
  <2> QED BY <2>2, <2>4 DEF ToolStart
<1>4. Shape'
  BY <1>2, <1>3 DEF Shape
<1>5. ResultsAgree' /\ LogsAreSettled' /\ WorkIsOpen'
  BY <1>2, <1>3 DEF IInv, ResultsAgree, Finished, LogsAreSettled, WorkIsOpen
<1>6. NotYetStarted'
  <2>1. tools[o].starts = 0 /\ ops[o].state \in Open
    BY DEF IInv, NotYetStarted, Untouched, WorkIsOpen
  <2>2. ops[o].state # "Queued" /\ ops[o].outcome \notin Refused
    BY <2>1 DEF IInv, ResultsAgree, Finished, Open, TerminalStates, Refused
  <2> QED BY <1>2, <1>3, <2>1, <2>2 DEF IInv, NotYetStarted, Untouched
<1>7. WithinBudget'
  <2>1. Spent' \subseteq Spent
    BY <1>2, <1>3 DEF Spent
  <2>2. Cardinality(Spent') <= Cardinality(Spent) /\ Cardinality(Spent') \in Nat
    BY <2>1, SpentFinite, FS_Subset, FS_CardinalityType
  <2> QED BY <2>2, SpentFinite, OperationsConstants DEF IInv, WithinBudget, Shape
<1> QED BY <1>4, <1>5, <1>6, <1>7 DEF IInv

\* A tool's own steps disturb only what it has said.
LEMMA WorldInv ==
  ASSUME IInv, UNCHANGED <<run, ops, eng>>, tools' \in [Ops -> World],
         \A o \in Ops : tools'[o].starts = tools[o].starts, LogsAreSettled'
  PROVE  IInv'
<1>1. Shape'
  BY DEF IInv, Shape
<1>2. ResultsAgree' /\ WorkIsOpen' /\ NotYetStarted'
  BY DEF IInv, ResultsAgree, Finished, WorkIsOpen, NotYetStarted, Untouched
<1>3. Spent' = Spent
  BY DEF Spent
<1>4. WithinBudget'
  BY <1>3 DEF IInv, WithinBudget
<1> QED BY <1>1, <1>2, <1>4 DEF IInv

\* A tool's report joins its log.
LEMMA SaysInv ==
  ASSUME IInv, UNCHANGED <<run, ops, eng>>, NEW o \in Ops, NEW update \in Reports,
         NEW live \in BOOLEAN, live \/ update \in Results, Says(o, update, live)
  PROVE  IInv'
<1> DEFINE log == Append(tools[o].log, update)
           w == [tools[o] EXCEPT !.log = log, !.live = live, !.answer = FALSE]
<1>1. tools[o] \in World /\ tools \in [Ops -> World]
  BY DEF IInv, Shape
<1>2. tools[o].log \in Seq(Reports)
  BY <1>1 DEF World
<1>3. log \in Seq(Reports) /\ log[Len(log)] = update
  BY <1>2
<1>4. tools' = [tools EXCEPT ![o] = w]
  BY DEF Says
<1>5. w \in World /\ w.starts = tools[o].starts /\ w.live = live /\ w.log = log
  <2> HIDE DEF log
  <2>1. /\ DOMAIN w = DOMAIN tools[o]
        /\ w.starts = tools[o].starts /\ w.live = live /\ w.log = log
        /\ w.cancel = tools[o].cancel /\ w.answer = FALSE /\ w.replies = tools[o].replies
    BY <1>1 DEF World
  <2> QED BY <1>1, <1>3, <2>1 DEF World
<1> HIDE DEF w, log
<1>6. tools' \in [Ops -> World] /\ \A p \in Ops : tools'[p].starts = tools[p].starts
  BY <1>1, <1>4, <1>5
<1>7. LogsAreSettled'
  BY <1>1, <1>3, <1>4, <1>5 DEF IInv, LogsAreSettled
<1> QED BY <1>6, <1>7, WorldInv

\* A tool works on, finishes or is answered: the engine sees it later.
LEMMA ToolInv == ASSUME IInv, NEW o \in Ops, Tool(o) PROVE IInv'
<1>1. CASE ToolUpdates(o)
  <2> PICK update \in {"Running", "Waiting"} : Says(o, update, TRUE)
    BY <1>1 DEF ToolUpdates
  <2> QED BY <1>1, SaysInv DEF ToolUpdates, Reports
<1>2. CASE ToolFinishes(o)
  <2> PICK update \in Results : Says(o, update, FALSE)
    BY <1>2 DEF ToolFinishes, Results
  <2> QED BY <1>2, SaysInv DEF ToolFinishes, Reports
<1>3. CASE ToolAnswered(o)
  <2>1. [tools[o] EXCEPT !.answer = TRUE] \in World /\ tools \in [Ops -> World]
    BY DEF IInv, Shape, World
  <2>2. \A p \in Ops : /\ tools'[p] \in World
                       /\ tools'[p].starts = tools[p].starts
                       /\ tools'[p].live = tools[p].live
                       /\ tools'[p].log = tools[p].log
    BY <1>3, <2>1 DEF ToolAnswered, World
  <2>3. tools' \in [Ops -> World]
    BY <1>3, <2>1 DEF ToolAnswered
  <2>4. LogsAreSettled'
    BY <2>2 DEF IInv, LogsAreSettled
  <2> QED BY <1>3, <2>2, <2>3, <2>4, WorldInv DEF ToolAnswered
<1> QED BY <1>1, <1>2, <1>3 DEF Tool

\* A tool asked to recover attaches to what was started, and starts nothing.
LEMMA ToolRecoverInv == ASSUME IInv, NEW o \in Ops, ToolRecover(o) PROVE IInv'
<1> Shape
  BY DEF IInv
<1>1. PICK value \in Values, pos \in Nat : Return(o, value, pos)
  <2>1. ops[o].seq \in Nat
    BY DEF Shape, Record
  <2>2. CASE \E pos \in {0, ops[o].seq} : Return(o, "Active", pos)
    BY <2>1, <2>2 DEF Values
  <2>3. CASE /\ ~tools[o].live /\ tools[o].log # <<>>
             /\ Return(o, tools[o].log[Len(tools[o].log)], 0)
    <3>1. tools[o].log[Len(tools[o].log)] \in Values
      BY <2>3 DEF IInv, LogsAreSettled, Values
    <3> QED BY <2>3, <3>1
  <2>4. CASE Return(o, "Uncertain", 0)
    BY <2>4 DEF Values
  <2> QED BY <2>2, <2>3, <2>4 DEF ToolRecover
<1>2. eng' \in EngineState /\ Keeps(eng')
  <2> eng.task[o].at # "none"
    BY DEF ToolRecover
  <2> QED BY <1>1, ReturnShape, ReturnKeeps
<1> QED BY <1>2, QuietInv DEF ToolRecover, Shape

\* A control call that reaches its tool.
LEMMA ControlInv == ASSUME IInv, NEW o \in Ops, ToolCancel(o) \/ ToolReply(o) PROVE IInv'
<1> Shape
  BY DEF IInv
<1>1. /\ eng' \in EngineState /\ eng'.task = eng.task /\ eng'.handles = eng.handles
  <2>1. CASE ToolCancel(o)
    BY <2>1 DEF ToolCancel, Shape, EngineState
  <2>2. CASE ToolReply(o)
    <3>1. PICK result \in {"done", "failed"} :
            eng' = [eng EXCEPT !.replies = (@ \ {[op |-> o, at |-> "sent"]})
                                             \cup {[op |-> o, at |-> result]}]
      BY <2>2 DEF ToolReply
    <3> DEFINE sent == [op |-> o, at |-> "sent"]
               answer == [op |-> o, at |-> result]
    <3>2. answer \in Reply /\ eng' = [eng EXCEPT !.replies = (@ \ {sent}) \cup {answer}]
      BY <3>1 DEF Reply
    <3> HIDE DEF sent, answer
    <3> QED BY <3>2 DEF Shape, EngineState
  <2> QED BY <2>1, <2>2
<1>2. tools' \in [Ops -> World] /\ ToolsKept
  <2>1. tools[o] \in World /\ tools \in [Ops -> World]
    BY DEF Shape
  <2>2. CASE ToolCancel(o)
    <3>1. [tools[o] EXCEPT !.cancel = TRUE] \in World
      BY <2>1 DEF World
    <3> QED BY <2>1, <2>2, <3>1 DEF ToolCancel, ToolsKept, World
  <2>3. CASE ToolReply(o)
    <3>1. PICK result \in {"done", "failed"} :
            tools' = [tools EXCEPT ![o].answer = @ \/ result = "done"]
      BY <2>3 DEF ToolReply
    <3>2. [tools[o] EXCEPT !.answer = @ \/ result = "done"] \in World
      BY <2>1 DEF World
    <3> QED BY <2>1, <3>1, <3>2 DEF ToolsKept, World
  <2> QED BY <2>2, <2>3
<1>3. UNCHANGED <<run, ops>>
  BY DEF ToolCancel, ToolReply
<1>4. Shape'
  BY <1>1, <1>2, <1>3 DEF Shape
<1> QED BY <1>1, <1>2, <1>3, <1>4, SameWork, ContinueInv DEF RecordKept

\* Every step keeps the invariant.
LEMMA NextInv == ASSUME IInv, [Next]_vars PROVE IInv'
<1>1. CASE UNCHANGED vars
  BY <1>1 DEF vars, IInv, Shape, ResultsAgree, Finished, WorkIsOpen, LogsAreSettled,
              NotYetStarted, Untouched, WithinBudget, Spent
<1>2. CASE Loop
  BY <1>2, AdmitInv, DecidedInv, AdmitNextInv, AdvanceInv, LifecycleInv, ResolveInv,
     DecideRecoveryInv, RecoverOperationsInv DEF Loop
<1>3. CASE Host
  BY <1>3, CancelOperationInv, ReplyOperationInv, LifecycleInv DEF Host
<1>4. ASSUME NEW o \in Ops, Work(o) PROVE IInv'
  BY <1>4, StartedInv, OperationEventInv, LossesInv, ReplyDoneInv DEF Work
<1>5. ASSUME NEW o \in Ops, Call(o) PROVE IInv'
  BY <1>5, ToolStartInv, ToolRecoverInv, ControlInv DEF Call
<1>6. ASSUME NEW o \in Ops, Tool(o) PROVE IInv'
  BY <1>6, ToolInv
<1> QED BY <1>1, <1>2, <1>3, <1>4, <1>5, <1>6, ModelInv, LifecycleInv DEF Next, Done

\* The invariant holds in every reachable state, whatever the limits are.
THEOREM Invariant == Spec => []IInv
<1> QED BY InitInv, NextInv, PTL DEF Spec

\* The records, the counters and the state of the run are what Checkpoint
\* allows; an outcome comes with its terminal state and never without.
THEOREM RecordsAreTyped == Spec => []TypeOK
<1>1. IInv => TypeOK
  BY DEF IInv, Shape, TypeOK, ResultsAgree, Record, States, RunStates
<1> QED BY <1>1, Invariant, PTL

\* A tool is called at most once for a call of the model, whatever crashes,
\* suspensions, resolutions and cancellations come in between (operations.rs:
\* recovery attaches, and only admission starts).
THEOREM StartedAtMostOnce == Spec => []StartedOnce
<1>1. IInv => StartedOnce
  BY DEF IInv, NotYetStarted, StartedOnce
<1> QED BY <1>1, Invariant, PTL

\* The tool of a refused call is never called, and tools are called for no
\* more calls than the run has counted, nor than its limit (admission.rs: the
\* record is looked at again, and the call counted, before each dispatch).
THEOREM RefusedIsNeverStarted == Spec => []RefusedNeverStarts
<1>1. ASSUME IInv PROVE RefusedNeverStarts
  <2> DEFINE started == {o \in Ops : tools[o].starts > 0}
  <2>1. started \subseteq Spent
    BY DEF Spent
  <2>2. Cardinality(started) <= Cardinality(Spent) /\ Cardinality(started) \in Nat
    BY <2>1, SpentFinite, FS_Subset, FS_CardinalityType
  <2>3. Cardinality(started) <= run.calls
    BY <1>1, <2>2, SpentFinite DEF IInv, WithinBudget, Shape
  <2> QED BY <1>1, <2>3 DEF IInv, NotYetStarted, Untouched, WithinBudget, RefusedNeverStarts
<1> QED BY <1>1, Invariant, PTL

-----------------------------------------------------------------------------
\* A result is final

ResultsStay ==
    \A o \in Ops : Finished(o) => /\ ops'[o].state = ops[o].state
                                  /\ ops'[o].outcome = ops[o].outcome

\* What the actions do to the records never touches a finished one.
LEMMA SharedStays ==
  ASSUME Shape
  PROVE  /\ \A state : Settle(state) => ResultsStay
         /\ \A o \in Ops, outcome \in Outcomes, seq \in Nat : \A next :
              Finish(o, outcome, seq, next) => ResultsStay
         /\ \A o, state, next : SetState(o, state, next) => ResultsStay
         /\ \A o \in Ops : \A state : ~Finished(o) /\ Update(o, state) => ResultsStay
         /\ (UNCHANGED ops) => ResultsStay
<1>1. ASSUME NEW state, Settle(state) PROVE ResultsStay
  BY <1>1 DEF Settle, ResultsStay, Finished, TerminalStates
<1>2. ASSUME NEW o \in Ops, NEW outcome \in Outcomes, NEW seq \in Nat,
             ~Finished(o), ops' = WithResult(ops, o, outcome, seq)
      PROVE  ResultsStay
  BY <1>2, ResultShape DEF ResultsStay
<1>3. (UNCHANGED ops) => ResultsStay
  BY DEF ResultsStay
<1>4. ASSUME NEW o, NEW state, ~Finished(o), Update(o, state) PROVE ResultsStay
  BY <1>4 DEF Update, ResultsStay, Shape
<1>5. ASSUME NEW o \in Ops, NEW outcome \in Outcomes, NEW seq \in Nat, NEW next,
             Finish(o, outcome, seq, next)
      PROVE  ResultsStay
  BY <1>1, <1>2, <1>3, <1>5 DEF Finish
<1>6. ASSUME NEW o, NEW state, NEW next, SetState(o, state, next) PROVE ResultsStay
  BY <1>1, <1>4, <1>6 DEF SetState
<1> QED BY <1>1, <1>3, <1>4, <1>5, <1>6

\* Admission leaves the results there are alone.
LEMMA AdmissionStays == ASSUME IInv, Admit \/ AdmitNext PROVE ResultsStay
<1> Shape
  BY DEF IInv
<1>1. CASE Admit
  <2>1. CASE UNCHANGED ops
    BY <2>1, SharedStays
  <2>2. CASE Queued # {} /\ ops' = [o \in Ops |-> IF o \in Reached \cap Unbound
                                                  THEN WithResult(ops, o, "Unavailable", 0)[o]
                                                  ELSE ops[o]]
    BY <2>2, ReachedQueued DEF Queued, InState, ResultsStay, Finished, TerminalStates
  <2> QED BY <1>1, <2>1, <2>2 DEF Admit
<1>2. CASE AdmitNext
  <2> DEFINE d == First(eng.decisions)
             next == [eng EXCEPT !.decisions = @ \ {d}]
  <2>1. d.op \in Ops
    BY <1>2, FirstOf DEF AdmitNext, Shape, EngineState, Decision
  <2>2. CASE UNCHANGED ops
    BY <2>2, SharedStays
  <2>3. CASE Finish(d.op, "Denied", 0, next)
    BY <2>1, <2>3, SharedStays DEF Outcomes
  <2>4. CASE ops[d.op].state = "Queued" /\ Dispatched(d.op, next)
    BY <2>1, <2>4, SharedStays DEF Dispatched, Finished, TerminalStates
  <2> QED BY <1>2, <2>2, <2>3, <2>4 DEF AdmitNext, Leave
<1> QED BY <1>1, <1>2

\* Work of an operation that has its result leaves the result alone.
LEMMA WorkStays == ASSUME IInv, NEW o \in Ops, Work(o) PROVE ResultsStay
<1> Shape
  BY DEF IInv
<1>1. CASE Started(o)
  <2> DEFINE next == AsTask(o, Idle)
  <2>1. eng.task[o].value \in Values
    BY <1>1, ReturnedType DEF Started
  <2>2. \/ UNCHANGED ops
        \/ SetState(o, "Unknown", next)
        \/ \E outcome \in Results : Finish(o, outcome, 0, next)
    <3> HIDE DEF next
    <3> QED BY <1>1, <2>1 DEF Started, Install, Values, Results, next
  <2> HIDE DEF next
  <2> QED BY <2>2, SharedStays DEF Results, Outcomes
<1>2. CASE OperationEvent(o)
  <2> DEFINE seq == eng.task[o].pos + 1
             update == tools[o].log[seq]
             next == AsTask(o, Streaming(seq))
  <2>1. seq \in Nat
    BY <1>2, StreamingType DEF OperationEvent
  <2>2. CASE /\ ~Finished(o)
             /\ ops' = [ops EXCEPT ![o] = [@ EXCEPT !.state = update, !.seq = seq]]
    BY <2>2 DEF ResultsStay, Shape
  <2>3. CASE UNCHANGED ops \/ Settle("Failed")
    BY <2>3, SharedStays
  <2>4. CASE update \in Outcomes /\ Finish(o, update, seq, next)
    <3> HIDE DEF next, update, seq
    <3> QED BY <2>1, <2>4, SharedStays
  <2> QED BY <1>2, <2>2, <2>3, <2>4 DEF OperationEvent
<1>3. CASE StreamEnds(o) \/ CancelFails(o)
  BY <1>3, SharedStays DEF StreamEnds, CancelFails, Unresolved
<1>4. CASE ReplyDone(o)
  BY <1>4, SharedStays DEF ReplyDone
<1> QED BY <1>1, <1>2, <1>3, <1>4 DEF Work

\* The host's controls leave results alone.
LEMMA HostStays == ASSUME IInv, Host PROVE ResultsStay
<1> Shape
  BY DEF IInv
<1>1. ASSUME NEW o \in Ops, CancelOperation(o) PROVE ResultsStay
  <2> "Undispatched" \in Outcomes /\ ~Finished(o)
    BY <1>1 DEF Outcomes, CancelOperation, Unfinished
  <2> QED BY <1>1, SharedStays DEF CancelOperation
<1>2. ASSUME NEW o \in Ops, ReplyOperation(o) PROVE ResultsStay
  <2> ~Finished(o)
    BY <1>2 DEF ReplyOperation, IInv, WorkIsOpen, Open, Finished, TerminalStates
  <2> QED BY <1>2, SharedStays DEF ReplyOperation
<1>3. CASE Interrupt
  BY <1>3, SharedStays DEF Interrupt
<1>4. CASE Pause \/ Continue \/ Resume
  BY <1>4, SharedStays DEF Pause, Leave, Continue, Resume, Attach
<1> QED BY <1>1, <1>2, <1>3, <1>4 DEF Host

\* The loop leaves results alone.
LEMMA LoopStays == ASSUME IInv, Loop PROVE ResultsStay
<1> Shape
  BY DEF IInv
<1>1. CASE Admit \/ AdmitNext
  BY <1>1, AdmissionStays
<1>2. CASE Resolve
  <2> DEFINE o == Min(DOMAIN eng.resolve)
  <2>4. o \in Ops /\ eng.resolve[o] \in Resolutions
    BY <1>2, NextResolution DEF Resolve
  <2>5. eng.resolve[o] = "Attach" \/ eng.resolve[o] \in Outcomes
    BY <2>4 DEF Resolutions, Outcomes
  <2> QED BY <1>2, <2>4, <2>5, SharedStays DEF Resolve
<1>3. CASE \/ Decided \/ AdmissionDone \/ Advance \/ CatalogOpened
           \/ ResolveGeneration \/ DecideRecovery \/ RecoverOperations
  BY <1>3, SharedStays DEF Decided, AdmissionDone, Advance, CatalogOpened, ResolveGeneration,
     DecideRecovery, RecoverOperations, Leave
<1> QED BY <1>1, <1>2, <1>3 DEF Loop

\* No step changes a result.
LEMMA NextStays == ASSUME IInv, Next PROVE ResultsStay
<1> Shape
  BY DEF IInv
<1>1. CASE Model
  <2>1. CASE \E o \in Ops : Delivered(o)
    BY <2>1 DEF Delivered, Shape, ResultsStay, Record
  <2> QED BY <1>1, <2>1, SharedStays DEF Model, CallArrives, ResponseFinished
<1>2. ASSUME NEW o \in Ops, Call(o) \/ Tool(o) PROVE ResultsStay
  BY <1>2, SharedStays DEF Call, Tool, ToolStart, ToolRecover, ToolCancel, ToolReply,
     ToolUpdates, ToolFinishes, ToolAnswered
<1>3. CASE Crash \/ Done
  BY <1>3, SharedStays DEF Crash, Done, vars
<1> QED BY <1>1, <1>2, <1>3, LoopStays, HostStays, WorkStays DEF Next

\* Once the result of an operation is committed no step changes it: not a
\* second report of its tool, a late cancellation, a reply, a resolution or
\* the settling of a run that ends (operations.rs: finish_at, and the checks
\* of local_operation_update).
THEOREM ResultIsFinal == Spec => [][ResultsStay]_vars
<1>1. [Next]_vars /\ IInv => [ResultsStay]_vars
  BY NextStays
<1> QED BY <1>1, Invariant, PTL DEF Spec

-----------------------------------------------------------------------------
\* Nothing fails the run

\* Room for the record and the delivery command of every call.
AmpleRoom == N <= MaxInflight /\ N <= MaxCommands

\* What a resumption resolves is open until it is resolved.
ResolvesOpen ==
    /\ \A o \in DOMAIN eng.resolve : ops[o].state \in Open
    /\ eng.pc \notin {"catalog", "resolving"} => eng.resolve = <<>>

Unfailed == NoProtocolFailure /\ ResolvesOpen

\* A call that is not finished leaves room for its own delivery.
LEMMA RoomToFinish ==
  ASSUME Shape, AmpleRoom, NEW o \in Ops, ~Finished(o)
  PROVE  Cardinality(Delivering) < MaxCommands
<1>1. IsFiniteSet(Ops) /\ Cardinality(Ops) = N
  BY FS_Interval, OperationsConstants DEF Ops
<1>2. IsFiniteSet(Ops \ {o}) /\ Cardinality(Ops \ {o}) = N - 1
  BY <1>1, FS_RemoveElement
<1>3. Delivering \subseteq Ops \ {o}
  BY EmittedOps DEF Delivering, Records
<1>4. Cardinality(Delivering) <= N - 1 /\ Cardinality(Delivering) \in Nat
  BY <1>2, <1>3, FS_Subset, FS_CardinalityType
<1> QED BY <1>4, OperationsConstants DEF AmpleRoom

\* finish_operation and update_operation of an open operation fail nothing.
LEMMA OpenChanges ==
  ASSUME Shape, AmpleRoom, NEW o \in Ops, ~Finished(o), NEW next
  PROVE  /\ \A outcome, seq : Finish(o, outcome, seq, next) =>
               /\ ops' = WithResult(ops, o, outcome, seq)
               /\ eng' = Released(next, o) /\ UNCHANGED <<run, tools>>
         /\ \A state : SetState(o, state, next) =>
               Update(o, state) /\ eng' = next /\ UNCHANGED <<run, tools>>
BY RoomToFinish DEF Finish, SetState

\* Where no resolution is left, none is left to be wrong.
LEMMA NoneLeft ==
  ASSUME eng'.resolve = <<>>
  PROVE  ResolvesOpen'
BY DEF ResolvesOpen

\* An engine whose resolutions and records stay.
LEMMA SameLeft ==
  ASSUME ResolvesOpen, eng'.resolve = eng.resolve, eng'.pc = eng.pc, UNCHANGED ops
  PROVE  ResolvesOpen'
BY DEF ResolvesOpen

\* Every place but catalog and resolving.
LEMMA Elsewhere ==
  ASSUME ResolvesOpen, eng.pc \notin {"catalog", "resolving"}
  PROVE  eng.resolve = <<>>
BY DEF ResolvesOpen

\* A call that arrives finds room for its record.
LEMMA RoomToArrive ==
  ASSUME Shape, AmpleRoom, run.emitted < N
  PROVE  Cardinality(Records) < MaxInflight
<1>1. IsFiniteSet(Emitted) /\ Cardinality(Emitted) = run.emitted
  BY FS_Interval DEF Emitted, Shape
<1>2. Records \subseteq Emitted
  BY DEF Records
<1>3. Cardinality(Records) <= run.emitted /\ Cardinality(Records) \in Nat
  BY <1>1, <1>2, FS_Subset, FS_CardinalityType
<1> QED BY <1>3, OperationsConstants DEF AmpleRoom, Shape

\* The model's calls, response and acknowledgements.
LEMMA ModelUnfailed == ASSUME IInv, AmpleRoom, Unfailed, Model PROVE Unfailed'
<1> Shape /\ NoProtocolFailure /\ ResolvesOpen
  BY DEF IInv, Unfailed
<1>1. eng.pc = "idle" /\ eng' = Passing(eng)
      /\ run'.state = run.state
  BY RoomToArrive DEF Model, CallArrives, ResponseFinished, Delivered, Shape
<1>2. eng'.resolve = <<>>
  BY <1>1, Elsewhere DEF Passing, Shape, EngineState
<1> QED BY <1>1, <1>2, NoneLeft DEF Unfailed, NoProtocolFailure

\* A commit that stops the workers.
LEMMA StopUnfailed ==
  ASSUME Shape, NEW state, state # "Failed", Leave(state) \/ Settle(state)
  PROVE  Unfailed'
<1>1. eng' = Down /\ run'.state = state
  BY DEF Leave, Settle, Stop, Shape
<1> QED BY <1>1, NoneLeft DEF Unfailed, NoProtocolFailure, Down, Attached

\* A step away from catalog and resolving that leaves the run as it is.
LEMMA ElsewhereUnfailed ==
  ASSUME Unfailed, eng.pc \notin {"catalog", "resolving"},
         run'.state = run.state, eng'.resolve = eng.resolve
  PROVE  Unfailed'
BY Elsewhere, NoneLeft DEF Unfailed, NoProtocolFailure

\* Admission: what is decided is still queued when it gets its result.
LEMMA AdmissionUnfailed ==
  ASSUME IInv, AmpleRoom, Unfailed, Admit \/ Decided \/ AdmitNext \/ AdmissionDone \/ Advance
  PROVE  Unfailed'
<1> Shape
  BY DEF IInv
<1>1. CASE Admit
  <2> eng'.resolve = eng.resolve /\ UNCHANGED run /\ eng.pc = "pass"
    BY <1>1 DEF Admit, Shape, EngineState
  <2> QED BY ElsewhereUnfailed
<1>2. CASE Decided
  <2>1. CASE Leave("Suspended")
    BY <2>1, StopUnfailed
  <2>2. CASE eng'.resolve = eng.resolve /\ UNCHANGED run /\ eng.pc = "idle"
    BY <2>2, ElsewhereUnfailed
  <2> QED BY <1>2, <2>1, <2>2 DEF Decided, Shape, EngineState
<1>3. CASE AdmitNext
  <2> DEFINE d == First(eng.decisions)
             next == [eng EXCEPT !.decisions = @ \ {d}]
  <2>1. d.op \in Ops /\ next.resolve = eng.resolve /\ eng.pc = "admitting"
    BY <1>3, FirstOf DEF AdmitNext, Shape, EngineState, Decision
  <2>2. CASE Leave("Limited")
    BY <2>2, StopUnfailed
  <2>3. CASE ops[d.op].state = "Queued" /\ Finish(d.op, "Denied", 0, next)
    <3>1. ~Finished(d.op)
      BY <2>3 DEF Finished, TerminalStates
    <3>2. eng' = Released(next, d.op) /\ UNCHANGED run
      BY <2>1, <2>3, <3>1, OpenChanges
    <3>3. eng'.resolve = eng.resolve
      BY <2>1, <3>2 DEF Released, Shape, EngineState
    <3> QED BY <2>1, <3>2, <3>3, ElsewhereUnfailed
  <2>4. CASE Dispatched(d.op, next) \/ (eng' = next /\ UNCHANGED run)
    <3> eng'.resolve = eng.resolve /\ run'.state = run.state
      BY <2>1, <2>4 DEF Dispatched, Shape, EngineState
    <3> QED BY <2>1, ElsewhereUnfailed
  <2> QED BY <1>3, <2>2, <2>3, <2>4 DEF AdmitNext
<1>4. CASE AdmissionDone
  <2> eng'.resolve = eng.resolve /\ UNCHANGED run /\ eng.pc = "admitting"
    BY <1>4 DEF AdmissionDone, Passing, Shape, EngineState
  <2> QED BY ElsewhereUnfailed
<1>5. CASE Advance
  <2>1. CASE Leave("Suspended") \/ Leave("Completed")
    BY <2>1, StopUnfailed
  <2>2. CASE eng'.resolve = eng.resolve /\ UNCHANGED run /\ eng.pc = "advance"
    BY <2>2, ElsewhereUnfailed
  <2> QED BY <1>5, <2>1, <2>2 DEF Advance, Shape, EngineState
<1> QED BY <1>1, <1>2, <1>3, <1>4, <1>5

\* What a worker task reports is about an operation that is open.
LEMMA WorkUnfailed ==
  ASSUME IInv, AmpleRoom, Unfailed, NEW o \in Ops, Work(o)
  PROVE  Unfailed'
<1> Shape
  BY DEF IInv
<1>1. eng.pc = "idle"
  BY DEF Work, Started, OperationEvent, StreamEnds, ReplyDone, CancelFails
<1>2. ASSUME eng.task[o].at # "none" PROVE ~Finished(o)
  BY <1>2 DEF IInv, WorkIsOpen, Open, Finished, TerminalStates
<1>3. ASSUME NEW next, next.resolve = eng.resolve, NEW outcome, NEW seq,
             ~Finished(o), next \in EngineState, Finish(o, outcome, seq, next)
      PROVE  Unfailed'
  <2>1. eng' = Released(next, o) /\ UNCHANGED run
    BY <1>3, OpenChanges
  <2>2. eng'.resolve = eng.resolve
    BY <1>3, <2>1 DEF Released, EngineState
  <2> QED BY <1>1, <2>1, <2>2, ElsewhereUnfailed
<1>4. ASSUME NEW next, next.resolve = eng.resolve, NEW state,
             ~Finished(o), SetState(o, state, next)
      PROVE  Unfailed'
  <2>1. eng' = next /\ UNCHANGED run
    BY <1>4, OpenChanges
  <2> QED BY <1>1, <1>4, <2>1, ElsewhereUnfailed
<1>5. ASSUME NEW next, next.resolve = eng.resolve, eng' = next, UNCHANGED run
      PROVE  Unfailed'
  BY <1>1, <1>5, ElsewhereUnfailed
<1>6. \A task \in Task : AsTask(o, task) \in EngineState /\ AsTask(o, task).resolve = eng.resolve
  BY TaskShape DEF AsTask, Passing, Shape, EngineState
<1>7. CASE Started(o)
  <2> DEFINE next == AsTask(o, Idle)
  <2>1. next \in EngineState /\ next.resolve = eng.resolve /\ ~Finished(o)
    BY <1>2, <1>6, <1>7, TaskTypes DEF Started
  <2>2. CASE Install(o)
    <3>1. eng.task[o].pos \in Nat
      BY <1>7, ReturnedType DEF Started
    <3>2. Streaming(eng.task[o].pos) \in Task
      BY <3>1, TaskTypes
    <3>3. eng'.resolve = AsTask(o, Streaming(eng.task[o].pos)).resolve /\ UNCHANGED run
      BY <1>6, <2>2, <3>2 DEF Install, EngineState
    <3> QED BY <1>1, <1>6, <3>2, <3>3, ElsewhereUnfailed
  <2> HIDE DEF next
  <2>3. CASE SetState(o, "Unknown", next)
    BY <1>4, <2>1, <2>3
  <2>4. CASE \E outcome : Finish(o, outcome, 0, next)
    BY <1>3, <2>1, <2>4
  <2> QED BY <1>7, <2>2, <2>3, <2>4 DEF Started, next
<1>8. CASE OperationEvent(o)
  <2> DEFINE seq == eng.task[o].pos + 1
             update == tools[o].log[seq]
             next == AsTask(o, Streaming(seq))
  <2>1. seq \in Nat /\ ~Finished(o)
    BY <1>2, <1>8, StreamingType DEF OperationEvent
  <2>2. next \in EngineState /\ next.resolve = eng.resolve
    BY <1>6, <2>1, TaskTypes
  <2> HIDE DEF next, seq, update
  <2>3. CASE Finish(o, update, seq, next)
    BY <1>3, <2>1, <2>2, <2>3
  <2>4. CASE eng' = next /\ UNCHANGED run
    BY <1>5, <2>2, <2>4
  <2> QED BY <1>8, <2>1, <2>3, <2>4 DEF OperationEvent, next, seq, update
<1>9. ASSUME NEW next, next.resolve = eng.resolve, Unresolved(o, next)
      PROVE  Unfailed'
  BY <1>4, <1>5, <1>9 DEF Unresolved
<1>10. CASE StreamEnds(o)
  BY <1>6, <1>9, <1>10, TaskTypes DEF StreamEnds
<1>11. CASE CancelFails(o)
  <2> Passing([eng EXCEPT !.cancels = @ \ {o}]).resolve = eng.resolve
    BY DEF Passing, Shape, EngineState
  <2> QED BY <1>9, <1>11 DEF CancelFails
<1>12. CASE ReplyDone(o)
  <2> PICK reply \in eng.replies :
        LET next == Passing([eng EXCEPT !.replies = @ \ {reply}])
        IN  IF ops[o].state = "Unknown"
              THEN SetState(o, IF reply.at = "done" THEN "Running" ELSE "Unknown", next)
              ELSE eng' = next /\ UNCHANGED <<run, ops, tools>>
    BY <1>12 DEF ReplyDone
  <2> DEFINE next == Passing([eng EXCEPT !.replies = @ \ {reply}])
  <2>1. next.resolve = eng.resolve
    BY DEF Passing, Shape, EngineState
  <2> HIDE DEF next
  <2>2. ops[o].state = "Unknown" => ~Finished(o)
    BY DEF Finished, TerminalStates
  <2> QED BY <1>4, <1>5, <2>1, <2>2 DEF next
<1> QED BY <1>7, <1>8, <1>10, <1>11, <1>12 DEF Work

\* Tools and the calls to them change no record and resolve nothing.
LEMMA CallsUnfailed ==
  ASSUME IInv, Unfailed, NEW o \in Ops, Call(o) \/ Tool(o)
  PROVE  Unfailed'
<1>1. UNCHANGED <<run, ops>> /\ eng'.resolve = eng.resolve /\ eng'.pc = eng.pc
  BY DEF Call, Tool, ToolStart, ToolRecover, Return, ToolCancel, ToolReply, ToolUpdates,
     ToolFinishes, ToolAnswered, IInv, Shape, EngineState
<1> QED BY <1>1, SameLeft DEF Unfailed, NoProtocolFailure

\* Controls: a cancellation leaves what a resumption resolves open.
LEMMA HostUnfailed == ASSUME IInv, AmpleRoom, Unfailed, Host PROVE Unfailed'
<1> Shape /\ ResolvesOpen /\ NoProtocolFailure
  BY DEF IInv, Unfailed
<1>1. ASSUME NEW next \in EngineState, next.resolve = eng.resolve, next.pc = eng.pc
      PROVE  /\ Served(next) \in EngineState /\ Served(next).resolve = eng.resolve
             /\ Served(next).pc \in {eng.pc, "pass"}
             /\ Served(next).pc # eng.pc => eng.pc = "idle"
  BY <1>1, PassingShape DEF Served, Passing, EngineState
<1>2. ASSUME NEW o \in Ops, CancelOperation(o) PROVE Unfailed'
  <2>1. ~Finished(o)
    BY <1>2 DEF CancelOperation, Unfinished
  <2>2. CASE ops[o].state = "Queued" /\ Finish(o, "Undispatched", 0, Served(eng))
    <3>1. /\ ops' = WithResult(ops, o, "Undispatched", 0) /\ UNCHANGED run
          /\ eng' = Released(Served(eng), o)
      BY <2>1, <2>2, OpenChanges
    <3>2. eng'.resolve = eng.resolve /\ eng'.pc = Served(eng).pc
      BY <1>1, <3>1 DEF Released, Shape, EngineState
    <3>3. \A p \in Ops \ {o} : ops'[p] = ops[p]
      BY <3>1, ResultShape DEF Outcomes
    <3>4. \A p \in DOMAIN eng.resolve : p \in Ops /\ p # o
      BY <2>2 DEF ResolvesOpen, Open, Shape, EngineState, Resolving
    <3>5. eng'.pc \in {eng.pc, "pass"} /\ (eng'.pc # eng.pc => eng.pc = "idle")
      BY <1>1, <3>2 DEF Shape
    <3>6. ResolvesOpen'
      BY <3>2, <3>3, <3>4, <3>5 DEF ResolvesOpen
    <3> QED BY <3>1, <3>6 DEF Unfailed, NoProtocolFailure
  <2>3. CASE /\ Update(o, "Cancelling") /\ UNCHANGED run
             /\ eng' = Served([eng EXCEPT !.tokens = @ \cup {o},
                                          !.cancels = @ \cup ({o} \cap eng.handles)])
    <3> DEFINE next == [eng EXCEPT !.tokens = @ \cup {o},
                                   !.cancels = @ \cup ({o} \cap eng.handles)]
    <3>1. next \in EngineState /\ next.resolve = eng.resolve /\ next.pc = eng.pc
      BY DEF Shape, EngineState
    <3> HIDE DEF next
    <3>2. eng' = Served(next)
      BY <2>3 DEF next
    <3>3. \A p \in Ops : ops'[p].state \in {ops[p].state, "Cancelling"}
      BY <2>3 DEF Update, Shape, Record
    <3>4. DOMAIN eng.resolve \subseteq Ops
      BY DEF Shape, EngineState, Resolving
    <3> QED BY <1>1, <2>3, <3>1, <3>2, <3>3, <3>4
            DEF Unfailed, ResolvesOpen, NoProtocolFailure, Open
  <2> QED BY <1>2, <2>2, <2>3 DEF CancelOperation
<1>3. ASSUME NEW o \in Ops, ReplyOperation(o) PROVE Unfailed'
  <2> DEFINE next == [eng EXCEPT !.replies = @ \cup {[op |-> o, at |-> "sent"]}]
  <2>1. next \in EngineState /\ next.resolve = eng.resolve /\ next.pc = eng.pc
    BY DEF Shape, EngineState, Reply
  <2> HIDE DEF next
  <2>2. eng' = Served(next) /\ UNCHANGED run /\ Update(o, "Unknown")
    BY <1>3 DEF ReplyOperation, next
  <2>3. \A p \in Ops : ops'[p].state \in {ops[p].state, "Unknown"}
    BY <2>2 DEF Update, Shape, Record
  <2>4. DOMAIN eng.resolve \subseteq Ops
    BY DEF Shape, EngineState, Resolving
  <2> QED BY <1>1, <2>1, <2>2, <2>3, <2>4 DEF Unfailed, ResolvesOpen, NoProtocolFailure, Open
<1>4. CASE Pause \/ Interrupt
  BY <1>4, StopUnfailed DEF Pause, Interrupt
<1>5. CASE Continue
  <2> eng'.resolve = <<>> /\ run'.state = "Running"
    BY <1>5 DEF Continue, Attach, Attached, Shape
  <2> QED BY NoneLeft DEF Unfailed, NoProtocolFailure
<1>6. CASE Resume
  <2> PICK S \in SUBSET InState({"Unknown", "Waiting"}) :
        \E how \in [S -> Resolutions] : Attach(how, ~run.responded)
    BY <1>6 DEF Resume
  <2> PICK how \in [S -> Resolutions] : Attach(how, ~run.responded)
    OBVIOUS
  <2>1. /\ eng'.resolve = how /\ eng'.pc = "catalog" /\ run'.state = "Running" /\ UNCHANGED ops
    BY DEF Attach, Attached, Shape
  <2>2. \A o \in DOMAIN how : ops[o].state \in Open
    BY DEF InState, Open
  <2> QED BY <2>1, <2>2 DEF Unfailed, ResolvesOpen, NoProtocolFailure
<1> QED BY <1>2, <1>3, <1>4, <1>5, <1>6 DEF Host

\* A resolution is applied to an operation that is open, and taken out.
LEMMA ResolveUnfailed == ASSUME IInv, AmpleRoom, Unfailed, Resolve PROVE Unfailed'
<1> DEFINE o == Min(DOMAIN eng.resolve)
           rest == [p \in DOMAIN eng.resolve \ {o} |-> eng.resolve[p]]
           next == [eng EXCEPT !.resolve = rest]
<1> Shape /\ ResolvesOpen /\ NoProtocolFailure
  BY DEF IInv, Unfailed
<1>1. eng.pc = "resolving" /\ eng.resolve # <<>>
  BY DEF Resolve
<1>2. o \in Ops /\ eng.resolve[o] \in Resolutions /\ rest \in Resolving
  BY <1>1, NextResolution
<1>3. o \in DOMAIN eng.resolve /\ DOMAIN eng.resolve \subseteq Ops
  <2>1. DOMAIN eng.resolve \in SUBSET Nat /\ DOMAIN eng.resolve \subseteq Ops
    BY DEF Shape, EngineState, Resolving, Ops
  <2>2. DOMAIN eng.resolve # {}
    <3>1. PICK S \in SUBSET Ops : eng.resolve \in [S -> Resolutions]
      BY DEF Shape, EngineState, Resolving
    <3>2. \A f \in [{} -> Resolutions] : f = <<>>
      OBVIOUS
    <3> QED BY <1>1, <3>1, <3>2
  <2> QED BY <2>1, <2>2, MinOf
<1>4. ~Finished(o)
  BY <1>3 DEF ResolvesOpen, Open, Finished, TerminalStates
<1>5. DOMAIN rest = DOMAIN eng.resolve \ {o}
  OBVIOUS
<1>6. /\ next \in EngineState /\ next.pc = "resolving" /\ next.resolve = rest
  <2> HIDE DEF rest
  <2> QED BY <1>1, <1>2 DEF Shape, EngineState
<1>7. \/ SetState(o, "Running", next)
      \/ eng.resolve[o] # "Attach" /\ Finish(o, eng.resolve[o], 0, next)
  BY DEF Resolve
<1> HIDE DEF next, rest, o
<1>8. CASE SetState(o, "Running", next)
  <2>1. Update(o, "Running") /\ eng' = next /\ UNCHANGED run
    BY <1>2, <1>4, <1>8, OpenChanges
  <2>2. \A p \in Ops \ {o} : ops'[p] = ops[p]
    BY <2>1 DEF Update, Shape
  <2>3. ResolvesOpen'
    BY <1>3, <1>5, <1>6, <2>1, <2>2 DEF ResolvesOpen
  <2> QED BY <2>1, <2>3 DEF Unfailed, NoProtocolFailure
<1>9. CASE eng.resolve[o] # "Attach" /\ Finish(o, eng.resolve[o], 0, next)
  <2>1. /\ ops' = WithResult(ops, o, eng.resolve[o], 0)
        /\ eng' = Released(next, o) /\ UNCHANGED run
    BY <1>2, <1>4, <1>9, OpenChanges
  <2>2. \A p \in Ops \ {o} : ops'[p] = ops[p]
    BY <1>2, <1>9, <2>1, ResultShape DEF Resolutions, Outcomes
  <2>3. eng'.resolve = rest /\ eng'.pc = "resolving"
    BY <1>6, <2>1 DEF Released, EngineState
  <2>4. ResolvesOpen'
    BY <1>3, <1>5, <2>2, <2>3 DEF ResolvesOpen
  <2> QED BY <2>1, <2>4 DEF Unfailed, NoProtocolFailure
<1> QED BY <1>7, <1>8, <1>9

\* The loop, with or without a resumption to apply.
LEMMA LoopUnfailed == ASSUME IInv, AmpleRoom, Unfailed, Loop PROVE Unfailed'
<1> Shape /\ ResolvesOpen /\ NoProtocolFailure
  BY DEF IInv, Unfailed
<1>1. CASE CatalogOpened
  BY <1>1 DEF CatalogOpened, Unfailed, ResolvesOpen, NoProtocolFailure, Shape, EngineState
<1>2. CASE ResolveGeneration
  BY <1>2 DEF ResolveGeneration, Unfailed, ResolvesOpen, NoProtocolFailure, Shape, EngineState
<1>3. CASE DecideRecovery
  <2>1. CASE Leave("Suspended")
    BY <2>1, StopUnfailed
  <2>2. CASE eng' = [eng EXCEPT !.pc = "opening"] /\ UNCHANGED run
    <3> eng'.resolve = <<>>
      BY <1>3, <2>2 DEF DecideRecovery, Shape, EngineState
    <3> QED BY <2>2, NoneLeft DEF Unfailed, NoProtocolFailure
  <2> QED BY <1>3, <2>1, <2>2 DEF DecideRecovery
<1>4. CASE RecoverOperations
  <2> eng'.resolve = eng.resolve /\ UNCHANGED run /\ eng.pc = "opening"
    BY <1>4 DEF RecoverOperations, Passing, Shape, EngineState
  <2> QED BY ElsewhereUnfailed
<1> QED BY <1>1, <1>2, <1>3, <1>4, AdmissionUnfailed, ResolveUnfailed DEF Loop

\* With room for every call, tools, host, faults and the loop never make a run
\* fail: no result conflicts with another, no update follows a result, and no
\* resolution meets an operation that has finished (finish_at and
\* local_operation_update never return their errors).
THEOREM NothingFails == AmpleRoom => (Spec => []NoProtocolFailure)
<1> SUFFICES ASSUME AmpleRoom PROVE Spec => []NoProtocolFailure
  OBVIOUS
<1>1. Init => Unfailed
  BY DEF Init, Attached, Unfailed, ResolvesOpen, NoProtocolFailure
<1>2. ASSUME IInv, Unfailed, [Next]_vars PROVE Unfailed'
  <2>1. CASE Crash
    <3> eng'.resolve = <<>> /\ UNCHANGED run
      BY <2>1 DEF Crash, Down, Attached
    <3> QED BY <1>2, NoneLeft DEF Unfailed, NoProtocolFailure
  <2>2. CASE UNCHANGED vars
    BY <1>2, <2>2 DEF vars, Unfailed, ResolvesOpen, NoProtocolFailure
  <2> QED BY <1>2, <2>1, <2>2, ModelUnfailed, LoopUnfailed, HostUnfailed, WorkUnfailed,
             CallsUnfailed DEF Next, Done
<1>3. Unfailed => NoProtocolFailure
  BY DEF Unfailed
<1> QED BY <1>1, <1>2, <1>3, Invariant, PTL DEF Spec

-----------------------------------------------------------------------------
\* A serial call is a barrier

\* Tools answer and never ask, and nothing suspends or stops the run.
Undisturbed ==
    /\ ~Prompts /\ ~ToolFaults /\ ~CanPause /\ ~CanCrash
    /\ MaxReplies = 0 /\ "Suspend" \notin Decisions

\* What comes before is finished, if either of the two is serial.
Clear(p) == p \in Emitted /\ \A o \in Emitted : o < p /\ {o, p} \cap Serial # {} => Finished(o)

\* From its selection on, a call is past the barrier.
Entered(p) ==
    \/ p \in eng.admitting
    \/ \E d \in eng.decisions : d.op = p
    \/ ops[p].state \in {"Running", "Cancelling"}
    \/ tools[p].starts > 0
Barred == \A p \in Ops : Entered(p) => Clear(p)

\* Undisturbed work is active until it is finished.
LoopPlaces == {"pass", "advance", "idle", "admitting"}
StraightLogs == \A o \in Ops : \A i \in 1..Len(tools[o].log) : tools[o].log[i] # "Waiting"
StraightOp(o) ==
    /\ ops[o].state \notin {"Waiting", "Unknown"}
    /\ ops[o].state = "Queued" => o \notin eng.tokens
    /\ eng.task[o].at # "recovering"
    /\ eng.task[o].at = "starting" /\ o \in eng.tokens => ops[o].state = "Cancelling"
    /\ eng.task[o].at = "returned" =>
         /\ eng.task[o].value # "Uncertain"
         /\ eng.task[o].value = "Stopped" => ops[o].state = "Cancelling"
Straight ==
    /\ StraightLogs
    /\ IF eng.pc = "down"
         THEN /\ run.state \notin {"Running", "Suspended"}
              /\ \A o \in Ops : eng.task[o].at = "none"
         ELSE eng.pc \in LoopPlaces /\ \A o \in Ops : StraightOp(o)

\* A commit that ends the run.
LEMMA StopStraight ==
  ASSUME Shape, StraightLogs, NEW state, state \notin {"Running", "Suspended"},
         Leave(state) \/ Settle(state)
  PROVE  Straight'
<1>1. eng' = Down /\ run'.state = state /\ \A o \in Ops : tools'[o].log = tools[o].log
  BY DEF Leave, Settle, Stop, Shape, World
<1> QED BY <1>1 DEF Straight, StraightLogs, Down, Attached, Idle

\* An operation whose task ends, or goes on with its events.
LEMMA OpKept ==
  ASSUME NEW o, StraightOp(o), ops'[o].state = ops[o].state,
         eng'.task[o] = eng.task[o] \/ eng'.task[o].at \in {"none", "streaming"},
         o \in eng'.tokens => o \in eng.tokens
  PROVE  StraightOp(o)'
BY DEF StraightOp

\* An operation that is finished, or active without a call that is pending.
LEMMA OpSettled ==
  ASSUME NEW o, ops'[o].state \in TerminalStates \cup {"Running", "Cancelling"},
         eng'.task[o].at \in {"none", "streaming"}
  PROVE  StraightOp(o)'
BY DEF StraightOp, TerminalStates

\* The loop goes on.
LEMMA GoesOn ==
  ASSUME StraightLogs, eng'.pc \in LoopPlaces, \A o \in Ops : StraightOp(o)',
         \A o \in Ops : tools'[o].log = tools[o].log
  PROVE  Straight'
BY DEF Straight, StraightLogs, LoopPlaces

\* finish_operation: the operation is finished, or the run.
LEMMA FinishStraight ==
  ASSUME IInv, Straight, eng.pc # "down", NEW o \in Ops, NEW outcome \in Outcomes,
         NEW seq \in Nat, NEW next \in EngineState, next.pc \in LoopPlaces,
         next.tokens \subseteq eng.tokens,
         \A p \in Ops : \/ next.task[p] = eng.task[p]
                        \/ next.task[p].at \in {"none", "streaming"},
         Finish(o, outcome, seq, next)
  PROVE  Straight'
<1> Shape /\ StraightLogs /\ \A p \in Ops : StraightOp(p)
  BY DEF IInv, Straight
<1>1. CASE Settle("Failed")
  BY <1>1, StopStraight
<1>2. CASE ops' = WithResult(ops, o, outcome, seq) /\ eng' = Released(next, o) /\ UNCHANGED tools
  <2>1. /\ eng'.pc = next.pc /\ eng'.tokens \subseteq next.tokens
        /\ eng'.task[o].at = "none" /\ \A p \in Ops \ {o} : eng'.task[p] = next.task[p]
    BY <1>2 DEF Released, EngineState, Tasks, Idle
  <2>2. /\ ops'[o].state \in TerminalStates
        /\ \A p \in Ops \ {o} : ops'[p] = ops[p]
    BY <1>2, ResultShape, OutcomeEnds
  <2>3. StraightOp(o)'
    BY <2>1, <2>2, OpSettled
  <2>4. ASSUME NEW p \in Ops \ {o} PROVE StraightOp(p)'
    BY <2>1, <2>2, OpKept
  <2> QED BY <1>2, <2>1, <2>3, <2>4, GoesOn
<1>3. CASE eng' = next /\ UNCHANGED <<ops, tools>>
  <2> \A p \in Ops : StraightOp(p)'
    BY <1>3, OpKept
  <2> QED BY <1>3, GoesOn
<1> QED BY <1>1, <1>2, <1>3 DEF Finish

\* A step of the loop that leaves records and tasks as they are.
LEMMA SameStraight ==
  ASSUME Straight, eng.pc # "down", eng'.pc \in LoopPlaces, eng'.task = eng.task,
         eng'.tokens = eng.tokens, \A o \in Ops : ops'[o].state = ops[o].state,
         \A o \in Ops : tools'[o].log = tools[o].log
  PROVE  Straight'
<1> \A o \in Ops : StraightOp(o)'
  BY OpKept DEF Straight
<1> QED BY GoesOn DEF Straight

\* The model's calls, response and acknowledgements.
LEMMA ModelStraight == ASSUME IInv, Straight, Model PROVE Straight'
<1> Shape /\ StraightLogs /\ eng.pc = "idle"
  BY DEF IInv, Straight, Model, CallArrives, ResponseFinished, Delivered
<1>1. CASE Settle("Failed")
  BY <1>1, StopStraight
<1>2. CASE /\ eng' = Passing(eng) /\ UNCHANGED tools
           /\ UNCHANGED ops \/ \E o \in Ops : Delivered(o)
  <2>1. \A o \in Ops : ops'[o].state = ops[o].state
    BY <1>2 DEF Delivered, Shape, Record
  <2>2. eng'.pc = "pass" /\ eng'.task = eng.task /\ eng'.tokens = eng.tokens
    BY <1>2 DEF Passing, Shape, EngineState
  <2> QED BY <1>2, <2>1, <2>2, SameStraight DEF LoopPlaces
<1> QED BY <1>1, <1>2 DEF Model, CallArrives, ResponseFinished, Delivered

\* Admission: no decision suspends, and a dispatched call has no token.
LEMMA AdmissionStraight ==
  ASSUME IInv, Undisturbed, Straight,
         Admit \/ Decided \/ AdmitNext \/ AdmissionDone \/ Advance
  PROVE  Straight'
<1> Shape /\ StraightLogs /\ eng.pc # "down" /\ \A o \in Ops : StraightOp(o)
  BY DEF IInv, Straight, Admit, Decided, AdmitNext, AdmissionDone, Advance
<1>1. CASE Admit
  <2>1. /\ eng'.pc \in LoopPlaces /\ eng'.task = eng.task /\ eng'.tokens = eng.tokens
        /\ UNCHANGED tools
    BY <1>1 DEF Admit, Shape, EngineState, LoopPlaces
  <2>2. CASE UNCHANGED ops
    BY <2>1, <2>2, SameStraight
  <2>3. CASE Queued # {} /\ ops' = [o \in Ops |-> IF o \in Reached \cap Unbound
                                                  THEN WithResult(ops, o, "Unavailable", 0)[o]
                                                  ELSE ops[o]]
    <3>1. ASSUME NEW o \in Ops, o \in Reached PROVE StraightOp(o)'
      <4>1. ops[o].state = "Queued" /\ eng.task[o].at = "none"
        BY <2>3, <3>1, ReachedQueued DEF Queued, InState, IInv, WorkIsOpen, Open
      <4>2. WithResult(ops, o, "Unavailable", 0)[o].state \in TerminalStates
        BY ResultShape, OutcomeEnds DEF Outcomes
      <4>3. CASE o \in Unbound
        BY <2>1, <2>3, <3>1, <4>1, <4>2, <4>3, OpSettled
      <4>4. CASE o \notin Unbound
        BY <2>1, <2>3, <4>4, OpKept
      <4> QED BY <4>3, <4>4
    <3>2. ASSUME NEW o \in Ops, o \notin Reached PROVE StraightOp(o)'
      BY <2>1, <2>3, <3>2, OpKept
    <3> QED BY <2>1, <3>1, <3>2, GoesOn
  <2> QED BY <1>1, <2>2, <2>3 DEF Admit
<1>2. CASE Decided
  <2>1. \A decide \in [eng.admitting -> Decisions] : \A o \in eng.admitting :
          decide[o] # "Suspend"
    BY DEF Undisturbed
  <2>2. /\ eng'.pc = "admitting" /\ eng'.task = eng.task /\ eng'.tokens = eng.tokens
        /\ UNCHANGED <<ops, tools>>
    BY <1>2, <2>1 DEF Decided, Shape, EngineState
  <2> QED BY <2>2, SameStraight DEF LoopPlaces
<1>3. CASE AdmitNext
  <2> DEFINE d == First(eng.decisions)
             next == [eng EXCEPT !.decisions = @ \ {d}]
  <2>1. /\ d.op \in Ops /\ eng.pc = "admitting" /\ next \in EngineState
        /\ next.task = eng.task /\ next.tokens = eng.tokens /\ next.pc = "admitting"
    BY <1>3, FirstOf DEF AdmitNext, Shape, EngineState, Decision
  <2>2. CASE Leave("Limited")
    BY <2>2, StopStraight
  <2>3. CASE Finish(d.op, "Denied", 0, next)
    <3> HIDE DEF next, d
    <3> QED BY <2>1, <2>3, FinishStraight DEF Outcomes, LoopPlaces
  <2>4. CASE eng' = next /\ UNCHANGED <<ops, tools>>
    BY <2>1, <2>4, SameStraight DEF LoopPlaces
  <2>5. CASE ops[d.op].state = "Queued" /\ Dispatched(d.op, next)
    <3> PICK o \in Ops : o = d.op
      BY <2>1
    <3> HIDE DEF next, d
    <3>1. /\ eng'.pc = "admitting" /\ eng'.tokens = eng.tokens
          /\ eng'.task = [eng.task EXCEPT ![o] = Starting] /\ UNCHANGED tools
          /\ ops' = [ops EXCEPT ![o].state = "Running"] /\ ops[o].state = "Queued"
      BY <2>1, <2>5 DEF Dispatched, Update, EngineState
    <3>2. ops'[o].state = "Running" /\ eng'.task[o] = Starting /\ o \notin eng'.tokens
      BY <3>1 DEF Shape, Record, EngineState, Tasks, StraightOp
    <3>3. StraightOp(o)'
      BY <3>2 DEF StraightOp, Starting
    <3>4. ASSUME NEW p \in Ops \ {o} PROVE StraightOp(p)'
      <4> ops'[p] = ops[p] /\ eng'.task[p] = eng.task[p]
        BY <3>1 DEF Shape, EngineState, Tasks
      <4> QED BY <3>1, OpKept
    <3> QED BY <3>1, <3>3, <3>4, GoesOn DEF LoopPlaces
  <2> QED BY <1>3, <2>2, <2>3, <2>4, <2>5 DEF AdmitNext
<1>4. CASE AdmissionDone
  <2> /\ eng'.pc = "pass" /\ eng'.task = eng.task /\ eng'.tokens = eng.tokens
      /\ UNCHANGED <<ops, tools>>
    BY <1>4 DEF AdmissionDone, Passing, Shape, EngineState
  <2> QED BY SameStraight DEF LoopPlaces
<1>5. CASE Advance
  <2>1. ~WaitingForInput
    BY EmittedOps DEF WaitingForInput, Unfinished, InState, StraightOp
  <2>2. CASE Leave("Completed")
    BY <2>2, StopStraight
  <2>3. CASE eng' = [eng EXCEPT !.pc = "idle"] /\ UNCHANGED <<ops, tools>>
    <3> /\ eng'.pc = "idle" /\ eng'.task = eng.task /\ eng'.tokens = eng.tokens
      BY <2>3 DEF Shape, EngineState
    <3> QED BY <2>3, SameStraight DEF LoopPlaces
  <2> QED BY <1>5, <2>1, <2>2, <2>3 DEF Advance
<1> QED BY <1>1, <1>2, <1>3, <1>4, <1>5

\* Reported work is finished or goes on.
LEMMA WorkStraight ==
  ASSUME IInv, Undisturbed, Straight, NEW o \in Ops, Work(o)
  PROVE  Straight'
<1> Shape /\ StraightLogs /\ eng.pc = "idle" /\ \A p \in Ops : StraightOp(p)
  BY DEF IInv, Straight, Work, Started, OperationEvent, StreamEnds, ReplyDone, CancelFails
<1>1. ASSUME NEW task \in Task, task.at \in {"none", "streaming"}
      PROVE  /\ AsTask(o, task) \in EngineState /\ AsTask(o, task).pc = "pass"
             /\ AsTask(o, task).tokens = eng.tokens
             /\ AsTask(o, task).task = [eng.task EXCEPT ![o] = task]
             /\ \A p \in Ops : \/ AsTask(o, task).task[p] = eng.task[p]
                              \/ AsTask(o, task).task[p].at \in {"none", "streaming"}
  <2>1. AsTask(o, task).task = [eng.task EXCEPT ![o] = task]
    BY DEF AsTask, Passing, Shape, EngineState
  <2>2. AsTask(o, task) \in EngineState
    BY TaskShape
  <2>3. AsTask(o, task).pc = "pass" /\ AsTask(o, task).tokens = eng.tokens
    BY DEF AsTask, Passing, Shape, EngineState
  <2> QED BY <1>1, <2>1, <2>2, <2>3 DEF Shape, EngineState, Tasks
<1>2. ASSUME NEW next \in EngineState, next.pc = "pass", next.tokens = eng.tokens,
             \A p \in Ops : \/ next.task[p] = eng.task[p]
                            \/ next.task[p].at \in {"none", "streaming"},
             NEW outcome \in Outcomes, NEW seq \in Nat, Finish(o, outcome, seq, next)
      PROVE  Straight'
  BY <1>2, FinishStraight DEF LoopPlaces
<1>3. CASE Started(o)
  <2> DEFINE next == AsTask(o, Idle)
             value == eng.task[o].value
  <2>1. /\ value \in Values /\ value # "Uncertain" /\ eng.task[o].pos \in Nat
        /\ value = "Stopped" => ops[o].state = "Cancelling"
    BY <1>3, ReturnedType DEF Started, StraightOp
  <2>2. CASE Install(o)
    <3> DEFINE task == Streaming(eng.task[o].pos)
    <3>1. task \in Task /\ task.at = "streaming"
      BY <2>1, TaskTypes DEF Streaming
    <3> HIDE DEF task
    <3>2. /\ eng'.pc = "pass" /\ eng'.tokens = eng.tokens /\ UNCHANGED <<ops, tools>>
          /\ eng'.task = [eng.task EXCEPT ![o] = task]
      BY <1>1, <2>2, <3>1 DEF Install, EngineState, task
    <3>3. ASSUME NEW p \in Ops PROVE StraightOp(p)'
      <4> eng'.task[p] = eng.task[p] \/ eng'.task[p].at = "streaming"
        BY <3>1, <3>2 DEF Shape, EngineState, Tasks
      <4> QED BY <3>2, OpKept
    <3> QED BY <3>2, <3>3, GoesOn DEF LoopPlaces
  <2>3. Idle \in Task /\ Idle.at = "none"
    BY TaskTypes DEF Idle
  <2>4. /\ next \in EngineState /\ next.pc = "pass" /\ next.tokens = eng.tokens
        /\ \A p \in Ops : \/ next.task[p] = eng.task[p]
                         \/ next.task[p].at \in {"none", "streaming"}
    BY <1>1, <2>3
  <2> HIDE DEF next
  <2>5. CASE \E outcome \in Results : Finish(o, outcome, 0, next)
    BY <1>2, <2>4, <2>5 DEF Results, Outcomes
  <2>6. Install(o) \/ \E outcome \in Results : Finish(o, outcome, 0, next)
    BY <1>3, <2>1 DEF Started, Values, Results, next
  <2> QED BY <2>2, <2>5, <2>6
<1>4. CASE OperationEvent(o)
  <2> DEFINE seq == eng.task[o].pos + 1
             update == tools[o].log[seq]
             next == AsTask(o, Streaming(seq))
  <2>1. seq \in Nat /\ seq \in 1..Len(tools[o].log)
    BY <1>4, StreamingType DEF OperationEvent, Shape, World
  <2>2. update \in Reports /\ update # "Waiting"
    BY <2>1, ReportsTyped DEF StraightLogs
  <2>3. Streaming(seq) \in Task /\ Streaming(seq).at = "streaming"
    BY <2>1, TaskTypes DEF Streaming
  <2>4. /\ next \in EngineState /\ next.pc = "pass" /\ next.tokens = eng.tokens
        /\ next.task = [eng.task EXCEPT ![o] = Streaming(seq)]
        /\ \A p \in Ops : \/ next.task[p] = eng.task[p]
                         \/ next.task[p].at \in {"none", "streaming"}
    BY <1>1, <2>3
  <2>5. next.task[o].at = "streaming"
    BY <2>3, <2>4 DEF Shape, EngineState, Tasks
  <2> HIDE DEF next, seq, update
  <2>6. CASE eng' = next /\ UNCHANGED <<ops, tools>>
    <3> \A p \in Ops : StraightOp(p)'
      BY <2>4, <2>6, OpKept
    <3> QED BY <2>4, <2>6, GoesOn DEF LoopPlaces
  <2>7. CASE update \in Outcomes /\ Finish(o, update, seq, next)
    BY <1>2, <2>1, <2>4, <2>7
  <2>8. CASE Settle("Failed")
    BY <2>8, StopStraight
  <2>9. CASE /\ update \notin Outcomes /\ eng' = next /\ UNCHANGED tools
             /\ ops' = [ops EXCEPT ![o] = [@ EXCEPT !.state = update, !.seq = seq]]
    <3>1. update = "Running"
      BY <2>2, <2>9 DEF Reports, Results, Outcomes
    <3>2. ops'[o].state = "Running" /\ \A p \in Ops \ {o} : ops'[p] = ops[p]
      BY <2>9, <3>1 DEF Shape, Record
    <3>3. StraightOp(o)'
      BY <2>5, <2>9, <3>2, OpSettled
    <3>4. ASSUME NEW p \in Ops \ {o} PROVE StraightOp(p)'
      BY <2>4, <2>9, <3>2, OpKept
    <3> QED BY <2>4, <2>9, <3>3, <3>4, GoesOn DEF LoopPlaces
  <2> QED BY <1>4, <2>6, <2>7, <2>8, <2>9 DEF OperationEvent, next, seq, update
<1>5. CASE ReplyDone(o)
  <2>1. PICK reply \in eng.replies : eng' = Passing([eng EXCEPT !.replies = @ \ {reply}])
                                      /\ UNCHANGED <<ops, tools>>
    BY <1>5 DEF ReplyDone, StraightOp
  <2>2. eng'.pc = "pass" /\ eng'.task = eng.task /\ eng'.tokens = eng.tokens
    BY <2>1 DEF Passing, Shape, EngineState
  <2> QED BY <2>1, <2>2, SameStraight DEF LoopPlaces
<1> QED BY <1>3, <1>4, <1>5 DEF Work, StreamEnds, CancelFails, Undisturbed

\* Tools report, and tool calls return, without asking, waiting or losing.
LEMMA CallsStraight ==
  ASSUME IInv, Undisturbed, Straight, NEW o \in Ops, Call(o) \/ Tool(o)
  PROVE  Straight'
<1> Shape /\ StraightLogs
  BY DEF IInv, Straight
<1>1. ASSUME eng.task[o].at # "none" PROVE eng.pc \in LoopPlaces /\ \A p \in Ops : StraightOp(p)
  BY <1>1 DEF Straight
<1>2. ASSUME NEW value \in Values, value # "Uncertain",
             value = "Stopped" => ops[o].state = "Cancelling",
             Return(o, value, 0), eng.task[o].at = "starting", UNCHANGED ops, StraightLogs'
      PROVE  Straight'
  <2>1. /\ eng'.task = [eng.task EXCEPT ![o] = Returned(value, 0)]
        /\ eng'.pc = eng.pc /\ eng'.tokens = eng.tokens
    BY <1>2 DEF Return, Shape, EngineState
  <2>2. eng'.task[o] = Returned(value, 0) /\ \A p \in Ops \ {o} : eng'.task[p] = eng.task[p]
    BY <2>1 DEF Shape, EngineState, Tasks
  <2>3. StraightOp(o)'
    BY <1>1, <1>2, <2>1, <2>2 DEF StraightOp, Returned
  <2>4. ASSUME NEW p \in Ops \ {o} PROVE StraightOp(p)'
    BY <1>1, <1>2, <2>1, <2>2, OpKept
  <2> QED BY <1>1, <1>2, <2>1, <2>3, <2>4 DEF Straight, LoopPlaces
<1>3. ASSUME NEW log \in Seq(Reports), \A i \in 1..Len(log) : log[i] # "Waiting",
             NEW w, w.log = log, tools' = [tools EXCEPT ![o] = w]
      PROVE  StraightLogs'
  BY <1>3 DEF StraightLogs, Shape
<1>4. CASE ToolStart(o)
  <2>1. CASE o \in eng.tokens /\ Return(o, "Stopped", 0) /\ UNCHANGED tools
    <3>1. eng.task[o].at = "starting" /\ UNCHANGED ops /\ StraightLogs'
      BY <1>4, <2>1 DEF ToolStart, StraightLogs
    <3>2. ops[o].state = "Cancelling"
      BY <1>1, <2>1, <3>1 DEF StraightOp
    <3> QED BY <1>2, <2>1, <3>1, <3>2 DEF Values
  <2>2. CASE \E live \in BOOLEAN, outcome \in {"Success", "Failure"} :
               /\ tools' = [tools EXCEPT ![o].starts = @ + 1, ![o].live = live,
                                         ![o].log = IF live THEN @ ELSE <<outcome>>]
               /\ Return(o, IF live THEN "Active" ELSE outcome, 0)
    <3> PICK live \in BOOLEAN, outcome \in {"Success", "Failure"} :
               /\ tools' = [tools EXCEPT ![o].starts = @ + 1, ![o].live = live,
                                         ![o].log = IF live THEN @ ELSE <<outcome>>]
               /\ Return(o, IF live THEN "Active" ELSE outcome, 0)
      BY <2>2
    <3> DEFINE log == IF live THEN tools[o].log ELSE <<outcome>>
               value == IF live THEN "Active" ELSE outcome
    <3>1. eng.task[o].at = "starting" /\ UNCHANGED ops
      BY <1>4 DEF ToolStart
    <3>2. <<outcome>> \in Seq(Reports) /\ Len(<<outcome>>) = 1 /\ <<outcome>>[1] = outcome
      BY DEF Reports, Results
    <3>3. tools[o].log \in Seq(Reports)
      BY DEF Shape, World
    <3>4. log \in Seq(Reports)
      BY <3>2, <3>3
    <3>5. \A i \in 1..Len(log) : log[i] # "Waiting"
      <4>1. CASE live
        BY <4>1 DEF StraightLogs
      <4>2. CASE ~live
        <5> \A i \in 1..Len(<<outcome>>) : i = 1
          BY <3>2
        <5> QED BY <3>2, <4>2
      <4> QED BY <4>1, <4>2
    <3>6. StraightLogs'
      <4> DEFINE w == [tools[o] EXCEPT !.starts = @ + 1, !.live = live, !.log = log]
      <4>1. tools' = [tools EXCEPT ![o] = w] /\ w.log = log
        BY DEF Shape, World
      <4> HIDE DEF w, log
      <4> QED BY <1>3, <3>4, <3>5, <4>1
    <3>7. value \in Values /\ value \notin {"Uncertain", "Stopped"} /\ Return(o, value, 0)
      BY DEF Values, Results
    <3> HIDE DEF value
    <3> QED BY <1>2, <3>1, <3>6, <3>7
  <2> QED BY <1>4, <2>1, <2>2 DEF ToolStart, Undisturbed
<1>5. CASE ToolRecover(o)
  BY <1>1, <1>5 DEF ToolRecover, StraightOp
<1>6. ASSUME UNCHANGED ops, eng'.task = eng.task, eng'.pc = eng.pc, eng'.tokens = eng.tokens,
             UNCHANGED run, StraightLogs'
      PROVE  Straight'
  BY <1>6 DEF Straight, StraightOp
<1>7. CASE ToolCancel(o) \/ ToolReply(o)
  <2>1. /\ UNCHANGED <<run, ops>> /\ eng'.task = eng.task /\ eng'.pc = eng.pc
        /\ eng'.tokens = eng.tokens
    BY <1>7 DEF ToolCancel, ToolReply, Shape, EngineState
  <2>2. tools[o] \in World
    BY DEF Shape
  <2>3. CASE ToolCancel(o)
    <3> DEFINE w == [tools[o] EXCEPT !.cancel = TRUE]
    <3>1. tools' = [tools EXCEPT ![o] = w] /\ w.log = tools[o].log
      BY <2>2, <2>3 DEF ToolCancel, World, Shape
    <3> HIDE DEF w
    <3> \A p \in Ops : tools'[p].log = tools[p].log
      BY <3>1 DEF Shape
    <3> StraightLogs'
      BY DEF StraightLogs
    <3> QED BY <1>6, <2>1
  <2>4. CASE ToolReply(o)
    <3>1. PICK result \in {"done", "failed"} :
            tools' = [tools EXCEPT ![o].answer = @ \/ result = "done"]
      BY <2>4 DEF ToolReply
    <3> DEFINE w == [tools[o] EXCEPT !.answer = @ \/ result = "done"]
    <3>2. tools' = [tools EXCEPT ![o] = w] /\ w.log = tools[o].log
      BY <2>2, <3>1 DEF World, Shape
    <3> HIDE DEF w
    <3> \A p \in Ops : tools'[p].log = tools[p].log
      BY <3>2 DEF Shape
    <3> StraightLogs'
      BY DEF StraightLogs
    <3> QED BY <1>6, <2>1
  <2> QED BY <1>7, <2>3, <2>4
<1>8. CASE ToolAnswered(o)
  <2>1. \A p \in Ops : tools'[p].log = tools[p].log
    BY <1>8 DEF ToolAnswered, Shape, World
  <2>2. StraightLogs'
    BY <2>1 DEF StraightLogs
  <2> QED BY <1>6, <1>8, <2>2 DEF ToolAnswered
<1>9. ASSUME NEW update \in Reports, update # "Waiting", NEW live, Says(o, update, live),
              UNCHANGED <<run, ops, eng>>
       PROVE  Straight'
  <2> DEFINE log == Append(tools[o].log, update)
             w == [tools[o] EXCEPT !.log = log, !.live = live, !.answer = FALSE]
  <2>1. tools[o].log \in Seq(Reports) /\ \A i \in 1..Len(tools[o].log) : tools[o].log[i] # "Waiting"
    BY DEF Shape, World, StraightLogs
  <2>2. log \in Seq(Reports) /\ \A i \in 1..Len(log) : log[i] # "Waiting"
    BY <1>9, <2>1
  <2>3. tools' = [tools EXCEPT ![o] = w] /\ w.log = log
    BY <1>9 DEF Says, Shape, World
  <2> HIDE DEF w, log
  <2>4. StraightLogs'
    BY <1>3, <2>2, <2>3
  <2> QED BY <1>6, <1>9, <2>4
<1>10. CASE ToolUpdates(o) \/ ToolFinishes(o)
  BY <1>9, <1>10 DEF ToolUpdates, ToolFinishes, Undisturbed, Reports, Results
<1> QED BY <1>4, <1>5, <1>7, <1>8, <1>10 DEF Call, Tool

\* The host cancels operations, which are then active or finished.
LEMMA HostStraight == ASSUME IInv, Undisturbed, Straight, Host PROVE Straight'
<1> Shape /\ StraightLogs
  BY DEF IInv, Straight
<1>1. ASSUME NEW o \in Ops, CancelOperation(o) PROVE Straight'
  <2>1. eng.pc = "idle" /\ \A p \in Ops : StraightOp(p)
    BY <1>1 DEF CancelOperation, Serving, Straight, LoopPlaces
  <2>2. CASE ops[o].state = "Queued" /\ Finish(o, "Undispatched", 0, Served(eng))
    <3>1. /\ Served(eng) \in EngineState /\ Served(eng).pc = "pass"
          /\ Served(eng).task = eng.task /\ Served(eng).tokens = eng.tokens
      BY <2>1, PassingShape DEF Served, Passing, Shape, EngineState
    <3> QED BY <2>1, <2>2, <3>1, FinishStraight DEF Outcomes, LoopPlaces
  <2>3. CASE /\ ops[o].state # "Queued" /\ Update(o, "Cancelling") /\ UNCHANGED tools
             /\ eng' = Served([eng EXCEPT !.tokens = @ \cup {o},
                                          !.cancels = @ \cup ({o} \cap eng.handles)])
    <3>1. eng'.pc = "pass" /\ eng'.task = eng.task /\ eng'.tokens = eng.tokens \cup {o}
      BY <2>1, <2>3 DEF Served, Passing, Shape, EngineState
    <3>2. ops'[o].state = "Cancelling" /\ \A p \in Ops \ {o} : ops'[p] = ops[p]
      BY <2>3 DEF Update, Shape, Record
    <3>3. StraightOp(o)'
      BY <2>1, <3>1, <3>2 DEF StraightOp
    <3>4. ASSUME NEW p \in Ops \ {o} PROVE StraightOp(p)'
      BY <2>1, <3>1, <3>2, OpKept
    <3> QED BY <2>3, <3>1, <3>3, <3>4, GoesOn DEF LoopPlaces
  <2> QED BY <1>1, <2>2, <2>3 DEF CancelOperation
<1>2. ASSUME NEW o \in Ops PROVE ~ReplyOperation(o)
  BY DEF ReplyOperation, Undisturbed, Shape, World
<1>3. ~Continue /\ ~Resume
  BY DEF Continue, Resume, Attach, Straight
<1> QED BY <1>1, <1>2, <1>3 DEF Host, Pause, Interrupt, Undisturbed

\* No step disturbs what is undisturbed.
LEMMA NextStraight == ASSUME IInv, Undisturbed, Straight, [Next]_vars PROVE Straight'
<1>1. CASE UNCHANGED vars
  BY <1>1 DEF vars, Straight, StraightLogs, StraightOp
<1>2. ASSUME \/ CatalogOpened \/ Resolve \/ ResolveGeneration \/ DecideRecovery
             \/ RecoverOperations
      PROVE  FALSE
  BY <1>2 DEF CatalogOpened, Resolve, ResolveGeneration, DecideRecovery, RecoverOperations,
     Straight, LoopPlaces
<1>3. CASE Loop
  BY <1>2, <1>3, AdmissionStraight DEF Loop
<1>4. CASE Crash
  BY <1>4 DEF Crash, Undisturbed
<1> QED BY <1>1, <1>3, <1>4, ModelStraight, HostStraight, WorkStraight, CallsStraight
        DEF Next, Done

\* Only CallArrives emits a call.
LEMMA EmittedGrows ==
  ASSUME IInv, Next
  PROVE  run'.emitted = run.emitted \/ run'.emitted = run.emitted + 1
<1> DEFINE Same == run'.emitted = run.emitted
<1> Shape
  BY DEF IInv
<1>1. \A state : Leave(state) \/ Settle(state) => Same
  BY DEF Leave, Settle, Stop, Shape
<1>2. (UNCHANGED run) => Same
  OBVIOUS
<1>3. \A o, outcome, seq, next : Finish(o, outcome, seq, next) => Same
  BY <1>1 DEF Finish
<1>4. \A o, state, next : SetState(o, state, next) => Same
  BY <1>1 DEF SetState
<1>5. \A resolve, abandon : Attach(resolve, abandon) => Same
  BY DEF Attach, Shape
<1>6. CASE Model
  BY <1>1, <1>6 DEF Model, CallArrives, ResponseFinished, Delivered, Shape
<1>7. CASE Loop
  <2>1. CASE Admit \/ Decided \/ AdmissionDone \/ Advance
    BY <1>1, <2>1 DEF Admit, Decided, AdmissionDone, Advance
  <2>2. CASE AdmitNext
    BY <1>1, <1>3, <2>2 DEF AdmitNext, Dispatched, Shape
  <2>3. CASE CatalogOpened \/ ResolveGeneration \/ DecideRecovery \/ RecoverOperations
    BY <1>1, <2>3 DEF CatalogOpened, ResolveGeneration, DecideRecovery, RecoverOperations, Shape
  <2>4. CASE Resolve
    BY <1>3, <1>4, <2>4 DEF Resolve
  <2> QED BY <1>7, <2>1, <2>2, <2>3, <2>4 DEF Loop
<1>8. CASE Host
  BY <1>1, <1>3, <1>5, <1>8
     DEF Host, CancelOperation, ReplyOperation, Pause, Interrupt, Continue, Resume
<1>9. ASSUME NEW o \in Ops, Work(o) PROVE Same
  BY <1>1, <1>3, <1>4, <1>9 DEF Work, Started, Install, OperationEvent, StreamEnds, ReplyDone,
     CancelFails, Unresolved
<1>10. ASSUME NEW o \in Ops, Call(o) \/ Tool(o) PROVE Same
  BY <1>10 DEF Call, Tool, ToolStart, ToolRecover, ToolCancel, ToolReply, ToolUpdates,
     ToolFinishes, ToolAnswered
<1> QED BY <1>6, <1>7, <1>8, <1>9, <1>10 DEF Next, Crash, Done, vars

\* What is finished before a call stays so, and nothing is emitted before it.
LEMMA ClearStays ==
  ASSUME IInv, Next, NEW p \in Ops, Clear(p)
  PROVE  Clear(p)'
<1>1. run'.emitted = run.emitted \/ run'.emitted = run.emitted + 1
  BY EmittedGrows
<1>2. run.emitted \in Nat
  BY OperationsConstants DEF IInv, Shape
<1>3. p \in Emitted' /\ \A o \in Emitted' : o < p => o \in Emitted
  BY <1>1, <1>2 DEF Clear, Emitted, Ops
<1>4. ASSUME NEW o \in Emitted', o < p, {o, p} \cap Serial # {} PROVE Finished(o)'
  <2>1. o \in Ops /\ Finished(o)
    BY <1>3, <1>4, EmittedOps DEF Clear, IInv
  <2> QED BY <2>1, NextStays DEF ResultsStay, Finished
<1> QED BY <1>3, <1>4 DEF Clear

\* select_operations and the barrier check: whoever is admitted has nothing to
\* wait for.
LEMMA AdmittedIsClear ==
  ASSUME Shape, \A o \in Ops : StraightOp(o), Queued # {}, NEW p \in Reached \ Unbound
  PROVE  Clear(p)
<1>1. Queued \subseteq Emitted /\ Emitted \subseteq Ops /\ Ops \subseteq Nat
  BY EmittedOps DEF Queued, InState, Ops
<1>2. Min(Queued) \in Queued /\ \A o \in Queued : Min(Queued) <= o
  BY <1>1, MinOf
<1>3. p \in Queued /\ p \in Nat
  BY <1>1, ReachedQueued
<1>4. ~Blocked /\ p \in Group
  <2>1. p \in Group
    BY DEF Reached
  <2>2. CASE Blocked
    <3>1. p < p
      BY <2>1, <2>2 DEF Reached
    <3> QED BY <1>3, <3>1
  <2> QED BY <2>1, <2>2
<1>5. \A o \in Emitted : o \notin Queued /\ o \notin Active => Finished(o)
  BY <1>1 DEF Queued, Active, InState, StraightOp, Finished, TerminalStates, Shape, Record, States
<1>6. CASE Min(Queued) \in Serial
  <2>1. p = Min(Queued)
    BY <1>4, <1>6 DEF Group
  <2>2. Active = {}
    BY <1>4, <1>6 DEF Blocked
  <2>3. ASSUME NEW o \in Emitted, o < p PROVE o \notin Queued
    <3> o \in Nat /\ \A q \in Queued : p <= q
      BY <1>1, <1>2, <2>1
    <3> QED BY <1>3, <2>3
  <2> QED BY <1>1, <1>3, <1>5, <2>2, <2>3 DEF Clear
<1>7. CASE Min(Queued) \notin Serial
  <2>1. \A q \in Queued \cap Serial : p < q
    BY <1>4, <1>7 DEF Group
  <2>2. p \notin Serial
    BY <1>3, <2>1
  <2>3. Active \cap Serial = {}
    BY <1>4, <1>7 DEF Blocked
  <2>4. ASSUME NEW o \in Emitted, o < p, o \in Serial PROVE Finished(o)
    <3>1. o \notin Queued
      BY <1>1, <1>3, <2>1, <2>4
    <3> QED BY <1>5, <2>3, <2>4, <3>1
  <2> QED BY <1>1, <1>3, <2>2, <2>4 DEF Clear
<1> QED BY <1>6, <1>7

\* Nobody new is past the barrier.
NoneEnters == \A p \in Ops : Entered(p)' => Entered(p)

\* The engine takes no call to admission, and records and starts are as told.
LEMMA KeepsOut ==
  ASSUME eng'.admitting \subseteq eng.admitting, eng'.decisions \subseteq eng.decisions,
         \A p \in Ops : ops'[p].state \in {"Running", "Cancelling"} => Entered(p),
         \A p \in Ops : tools'[p].starts > 0 => Entered(p)
  PROVE  NoneEnters
BY DEF NoneEnters, Entered

\* A commit that leaves Running.
LEMMA StopKeepsOut ==
  ASSUME Shape, NEW state, Leave(state) \/ Settle(state)
  PROVE  NoneEnters
<1>1. eng'.admitting = {} /\ eng'.decisions = {}
  BY DEF Leave, Settle, Stop, Down, Attached
<1>2. \A p \in Ops : tools'[p].starts = tools[p].starts
  BY DEF Leave, Settle, Stop, Shape, World
<1>3. \A p \in Ops : ops'[p].state \in {"Running", "Cancelling"} => ops'[p] = ops[p]
  BY DEF Leave, Settle, Shape, Record
<1> QED BY <1>1, <1>2, <1>3, KeepsOut DEF Entered

\* finish_operation
LEMMA FinishKeepsOut ==
  ASSUME Shape, NEW o \in Ops, NEW outcome \in Outcomes, NEW seq \in Nat,
         NEW next \in EngineState, next.admitting = eng.admitting,
         next.decisions \subseteq eng.decisions, Finish(o, outcome, seq, next)
  PROVE  NoneEnters
<1>1. CASE Settle("Failed")
  BY <1>1, StopKeepsOut
<1>2. CASE ops' = WithResult(ops, o, outcome, seq) /\ eng' = Released(next, o) /\ UNCHANGED tools
  <2>1. eng'.admitting = next.admitting /\ eng'.decisions = next.decisions
    BY <1>2 DEF Released, EngineState
  <2>2. ops'[o].state \in TerminalStates /\ \A p \in Ops \ {o} : ops'[p] = ops[p]
    BY <1>2, ResultShape, OutcomeEnds
  <2> QED BY <1>2, <2>1, <2>2, KeepsOut DEF Entered, TerminalStates
<1>3. CASE eng' = next /\ UNCHANGED <<ops, tools>>
  BY <1>3, KeepsOut DEF Entered
<1> QED BY <1>1, <1>2, <1>3 DEF Finish

\* A step that leaves the batch, the records' states and the starts alone.
LEMMA SameKeepsOut ==
  ASSUME eng'.admitting = eng.admitting, eng'.decisions \subseteq eng.decisions,
         \A p \in Ops : ops'[p].state = ops[p].state,
         \A p \in Ops : tools'[p].starts = tools[p].starts
  PROVE  NoneEnters
BY KeepsOut DEF Entered

\* The model's calls, response and acknowledgements.
LEMMA ModelKeepsOut == ASSUME IInv, Model PROVE NoneEnters
<1> Shape
  BY DEF IInv
<1>1. CASE Settle("Failed")
  BY <1>1, StopKeepsOut
<1>2. CASE eng' = Passing(eng) /\ UNCHANGED tools /\ (UNCHANGED ops \/ \E o \in Ops : Delivered(o))
  <2>1. \A o \in Ops : ops'[o].state = ops[o].state
    BY <1>2 DEF Delivered, Shape, Record
  <2>2. eng'.admitting = eng.admitting /\ eng'.decisions = eng.decisions
    BY <1>2 DEF Passing, Shape, EngineState
  <2> QED BY <1>2, <2>1, <2>2, SameKeepsOut
<1> QED BY <1>1, <1>2 DEF Model, CallArrives, ResponseFinished, Delivered

\* Only admission lets calls past the barrier, those that have nothing to wait for.
LEMMA AdmissionBars ==
  ASSUME IInv, Undisturbed, Straight, NEW p \in Ops, Entered(p)',
         Admit \/ Decided \/ AdmitNext \/ AdmissionDone \/ Advance
  PROVE  Entered(p) \/ Clear(p)
<1> Shape /\ \A o \in Ops : StraightOp(o)
  BY DEF IInv, Straight, Admit, Decided, AdmitNext, AdmissionDone, Advance
<1>1. CASE Admit
  <2>1. CASE eng' = [eng EXCEPT !.pc = "advance"] /\ UNCHANGED ops
    <3> eng'.admitting = eng.admitting /\ eng'.decisions = eng.decisions
      BY <2>1 DEF Shape, EngineState
    <3> QED BY <1>1, <2>1, SameKeepsOut DEF Admit, NoneEnters
  <2>2. CASE /\ Queued # {}
             /\ ops' = [o \in Ops |-> IF o \in Reached \cap Unbound
                                        THEN WithResult(ops, o, "Unavailable", 0)[o]
                                        ELSE ops[o]]
             /\ eng' = [eng EXCEPT !.admitting = Reached \ Unbound,
                                   !.pc = IF Reached \cap Unbound # {} THEN @ ELSE "advance"]
             /\ UNCHANGED tools
    <3>1. eng'.admitting = Reached \ Unbound /\ eng'.decisions = eng.decisions
      BY <2>2 DEF Shape, EngineState
    <3>2. p \in Reached \ Unbound => Clear(p)
      BY <2>2, AdmittedIsClear
    <3>3. WithResult(ops, p, "Unavailable", 0)[p].state \in TerminalStates
      BY ResultShape, OutcomeEnds DEF Outcomes
    <3>4. ops'[p].state \in {"Running", "Cancelling"} => ops'[p] = ops[p]
      BY <2>2, <3>3 DEF TerminalStates
    <3> QED BY <2>2, <3>1, <3>2, <3>4 DEF Entered
  <2> QED BY <1>1, <2>1, <2>2 DEF Admit
<1>2. CASE Decided
  <2>1. \A decide \in [eng.admitting -> Decisions] : \A o \in eng.admitting :
          decide[o] # "Suspend"
    BY DEF Undisturbed
  <2>2. PICK decide \in [eng.admitting -> Decisions] :
          eng' = [eng EXCEPT
                    !.pc = "admitting", !.admitting = {},
                    !.decisions = {[op |-> o, decision |-> decide[o]] : o \in eng.admitting}]
    BY <1>2, <2>1 DEF Decided
  <2>3. eng'.admitting = {} /\ \A d \in eng'.decisions : d.op \in eng.admitting
    BY <2>2 DEF Shape, EngineState
  <2>4. UNCHANGED <<ops, tools>>
    BY <1>2, <2>1 DEF Decided
  <2> QED BY <2>3, <2>4 DEF Entered
<1>3. CASE AdmitNext
  <2> DEFINE d == First(eng.decisions)
             next == [eng EXCEPT !.decisions = @ \ {d}]
  <2>1. d \in eng.decisions /\ d.op \in Ops
    BY <1>3, FirstOf DEF AdmitNext, Shape, EngineState, Decision
  <2>2. /\ next \in EngineState /\ next.admitting = eng.admitting
        /\ next.decisions \subseteq eng.decisions
    BY DEF Shape, EngineState
  <2> HIDE DEF next, d
  <2>3. CASE Leave("Limited")
    BY <2>3, StopKeepsOut DEF NoneEnters
  <2>4. CASE Finish(d.op, "Denied", 0, next)
    BY <2>1, <2>2, <2>4, FinishKeepsOut DEF Outcomes, NoneEnters
  <2>5. CASE eng' = next /\ UNCHANGED <<ops, tools>>
    BY <2>2, <2>5, SameKeepsOut DEF NoneEnters
  <2>6. CASE Dispatched(d.op, next)
    <3> PICK o \in Ops : o = d.op
      BY <2>1
    <3>1. /\ eng'.admitting = eng.admitting /\ eng'.decisions \subseteq eng.decisions
          /\ UNCHANGED tools /\ ops' = [ops EXCEPT ![o].state = "Running"]
      BY <2>2, <2>6 DEF Dispatched, Update, EngineState
    <3>2. Entered(o) /\ \A q \in Ops \ {o} : ops'[q] = ops[q]
      BY <2>1, <3>1 DEF Entered, Shape
    <3>3. NoneEnters
      BY <3>1, <3>2, KeepsOut DEF Entered
    <3> QED BY <3>3 DEF NoneEnters
  <2> QED BY <1>3, <2>3, <2>4, <2>5, <2>6 DEF AdmitNext, next, d
<1>4. CASE AdmissionDone
  <2> eng'.admitting = eng.admitting /\ eng'.decisions = {} /\ UNCHANGED <<ops, tools>>
    BY <1>4 DEF AdmissionDone, Passing, Shape, EngineState
  <2> QED BY SameKeepsOut DEF NoneEnters
<1>5. CASE Advance
  <2>1. CASE \E state : Leave(state)
    BY <2>1, StopKeepsOut DEF NoneEnters
  <2>2. CASE eng' = [eng EXCEPT !.pc = "idle"] /\ UNCHANGED <<ops, tools>>
    <3> eng'.admitting = eng.admitting /\ eng'.decisions = eng.decisions
      BY <2>2 DEF Shape, EngineState
    <3> QED BY <2>2, SameKeepsOut DEF NoneEnters
  <2> QED BY <1>5, <2>1, <2>2 DEF Advance
<1> QED BY <1>1, <1>2, <1>3, <1>4, <1>5

\* Tasks report on what is past the barrier already.
LEMMA WorkKeepsOut ==
  ASSUME IInv, Undisturbed, Straight, NEW o \in Ops, Work(o)
  PROVE  NoneEnters
<1> Shape /\ \A p \in Ops : StraightOp(p)
  BY DEF IInv, Straight, Work, Started, OperationEvent, StreamEnds, ReplyDone, CancelFails
<1>1. ASSUME NEW task \in Task
      PROVE  /\ AsTask(o, task) \in EngineState
             /\ AsTask(o, task).admitting = eng.admitting
             /\ AsTask(o, task).decisions = eng.decisions
  BY TaskShape DEF AsTask, Passing, Shape, EngineState
<1>2. CASE Started(o)
  <2> DEFINE next == AsTask(o, Idle)
             value == eng.task[o].value
  <2>1. value \in Values /\ value \notin {"Uncertain"} /\ eng.task[o].pos \in Nat
        /\ (value = "Stopped" => ops[o].state = "Cancelling")
    BY <1>2, ReturnedType DEF Started, StraightOp
  <2>2. CASE Install(o)
    <3> DEFINE task == Streaming(eng.task[o].pos)
    <3>1. task \in Task
      BY <2>1, TaskTypes
    <3> HIDE DEF task
    <3>2. /\ eng'.admitting = eng.admitting /\ eng'.decisions = eng.decisions
          /\ UNCHANGED <<ops, tools>>
      BY <1>1, <2>2, <3>1 DEF Install, EngineState, task
    <3> QED BY <3>2, SameKeepsOut
  <2>3. next \in EngineState /\ next.admitting = eng.admitting /\ next.decisions = eng.decisions
    BY <1>1, TaskTypes
  <2> HIDE DEF next
  <2>4. CASE \E outcome \in Results : Finish(o, outcome, 0, next)
    BY <2>3, <2>4, FinishKeepsOut DEF Results, Outcomes
  <2>5. Install(o) \/ \E outcome \in Results : Finish(o, outcome, 0, next)
    BY <1>2, <2>1 DEF Started, Values, Results, next
  <2> QED BY <2>2, <2>4, <2>5
<1>3. CASE OperationEvent(o)
  <2> DEFINE seq == eng.task[o].pos + 1
             update == tools[o].log[seq]
             next == AsTask(o, Streaming(seq))
  <2>1. seq \in Nat
    BY <1>3, StreamingType DEF OperationEvent
  <2>2. next \in EngineState /\ next.admitting = eng.admitting /\ next.decisions = eng.decisions
    BY <1>1, <2>1, TaskTypes
  <2>3. Entered(o)
    BY <1>3 DEF OperationEvent, IInv, WorkIsOpen, Open, StraightOp, Entered
  <2> HIDE DEF next, seq, update
  <2>4. CASE eng' = next /\ UNCHANGED <<ops, tools>>
    BY <2>2, <2>4, SameKeepsOut
  <2>5. CASE update \in Outcomes /\ Finish(o, update, seq, next)
    BY <2>1, <2>2, <2>5, FinishKeepsOut
  <2>6. CASE Settle("Failed")
    BY <2>6, StopKeepsOut
  <2>7. CASE /\ eng' = next /\ UNCHANGED tools
             /\ ops' = [ops EXCEPT ![o] = [@ EXCEPT !.state = update, !.seq = seq]]
    <3> \A p \in Ops \ {o} : ops'[p] = ops[p]
      BY <2>7 DEF Shape
    <3> QED BY <2>2, <2>3, <2>7, KeepsOut DEF Entered
  <2> QED BY <1>3, <2>4, <2>5, <2>6, <2>7 DEF OperationEvent, next, seq, update
<1>4. CASE ReplyDone(o)
  <2>1. PICK reply \in eng.replies : eng' = Passing([eng EXCEPT !.replies = @ \ {reply}])
                                      /\ UNCHANGED <<ops, tools>>
    BY <1>4 DEF ReplyDone, StraightOp
  <2>2. eng'.admitting = eng.admitting /\ eng'.decisions = eng.decisions
    BY <2>1 DEF Passing, Shape, EngineState
  <2> QED BY <2>1, <2>2, SameKeepsOut
<1> QED BY <1>2, <1>3, <1>4 DEF Work, StreamEnds, CancelFails, Undisturbed

\* A tool starts for a call that is past the barrier.
LEMMA CallsKeepOut ==
  ASSUME IInv, Straight, NEW o \in Ops, Call(o) \/ Tool(o)
  PROVE  NoneEnters
<1> Shape
  BY DEF IInv
<1>1. /\ eng'.admitting = eng.admitting /\ eng'.decisions = eng.decisions
      /\ UNCHANGED ops
  BY DEF Call, Tool, ToolStart, ToolRecover, ToolCancel, ToolReply, ToolUpdates, ToolFinishes,
     ToolAnswered, Return, Shape, EngineState
<1>2. CASE ToolStart(o)
  <2>1. eng.task[o].at = "starting" /\ StraightOp(o)
    BY <1>2 DEF ToolStart, Straight
  <2>2. Entered(o)
    BY <2>1 DEF IInv, WorkIsOpen, Open, StraightOp, Entered
  <2>3. \A p \in Ops \ {o} : tools'[p] = tools[p]
    BY <1>2 DEF ToolStart, Shape
  <2> QED BY <1>1, <2>2, <2>3, KeepsOut DEF Entered
<1>3. CASE ToolRecover(o) \/ ToolCancel(o) \/ ToolReply(o) \/ Tool(o)
  <2>1. ASSUME NEW p \in Ops, ToolRecover(o) \/ ToolCancel(o) \/ ToolReply(o)
        PROVE  tools'[p].starts = tools[p].starts
    BY <2>1 DEF ToolRecover, ToolCancel, ToolReply, Shape, World
  <2>2. ASSUME NEW p \in Ops, Tool(o) PROVE tools'[p].starts = tools[p].starts
    <3>1. tools[o] \in World /\ tools[p] \in World
      BY DEF Shape
    <3>2. ASSUME NEW update, NEW live, Says(o, update, live)
          PROVE  tools'[p].starts = tools[p].starts
      BY <3>1, <3>2 DEF Says, Shape, World
    <3>3. CASE ToolAnswered(o)
      BY <3>1, <3>3 DEF ToolAnswered, Shape, World
    <3>4. CASE ToolUpdates(o) \/ ToolFinishes(o)
      BY <3>2, <3>4 DEF ToolUpdates, ToolFinishes
    <3> QED BY <2>2, <3>3, <3>4 DEF Tool
  <2> QED BY <1>1, <1>3, <2>1, <2>2, SameKeepsOut
<1> QED BY <1>2, <1>3 DEF Call

\* The host cancels what is past the barrier, or what never gets there.
LEMMA HostKeepsOut == ASSUME IInv, Undisturbed, Straight, Host PROVE NoneEnters
<1> Shape
  BY DEF IInv
<1>1. ASSUME NEW o \in Ops, CancelOperation(o) PROVE NoneEnters
  <2>1. eng.pc = "idle" /\ StraightOp(o)
    BY <1>1 DEF CancelOperation, Serving, Straight, LoopPlaces
  <2>2. CASE ops[o].state = "Queued" /\ Finish(o, "Undispatched", 0, Served(eng))
    <3>1. /\ Served(eng) \in EngineState /\ Served(eng).admitting = eng.admitting
          /\ Served(eng).decisions = eng.decisions
      BY PassingShape DEF Served, Passing, Shape, EngineState
    <3> QED BY <2>2, <3>1, FinishKeepsOut DEF Outcomes
  <2>3. CASE /\ ops[o].state # "Queued" /\ Update(o, "Cancelling") /\ UNCHANGED tools
             /\ eng' = Served([eng EXCEPT !.tokens = @ \cup {o},
                                          !.cancels = @ \cup ({o} \cap eng.handles)])
    <3>1. eng'.admitting = eng.admitting /\ eng'.decisions = eng.decisions
      BY <2>3 DEF Served, Passing, Shape, EngineState
    <3>2. Entered(o)
      <4>1. ~Finished(o)
        BY <1>1 DEF CancelOperation, Unfinished
      <4>2. ops[o].state \in States
        BY DEF Shape, Record
      <4> QED BY <2>1, <2>3, <4>1, <4>2 DEF States, Finished, StraightOp, Entered
    <3>3. \A p \in Ops \ {o} : ops'[p] = ops[p]
      BY <2>3 DEF Update, Shape
    <3> QED BY <2>3, <3>1, <3>2, <3>3, KeepsOut DEF Entered
  <2> QED BY <1>1, <2>2, <2>3 DEF CancelOperation
<1>2. ASSUME NEW o \in Ops PROVE ~ReplyOperation(o)
  BY DEF ReplyOperation, Undisturbed, Shape, World
<1>3. ~Continue /\ ~Resume
  BY DEF Continue, Resume, Attach, Straight
<1> QED BY <1>1, <1>2, <1>3 DEF Host, Pause, Interrupt, Undisturbed

\* Every step keeps whoever is past the barrier clear of what came before.
LEMMA NextBarred ==
  ASSUME IInv, Undisturbed, Straight, Barred, [Next]_vars
  PROVE  Barred'
<1>1. CASE UNCHANGED vars
  BY <1>1 DEF vars, Barred, Entered, Clear, Emitted, Finished
<1>2. CASE Next
  <2>1. ASSUME NEW p \in Ops, Entered(p)' PROVE Entered(p) \/ Clear(p)
    <3>1. CASE NoneEnters
      BY <2>1, <3>1 DEF NoneEnters
    <3>2. CASE Loop
      <4>1. ASSUME \/ CatalogOpened \/ Resolve \/ ResolveGeneration \/ DecideRecovery
                   \/ RecoverOperations
            PROVE  FALSE
        BY <4>1 DEF CatalogOpened, Resolve, ResolveGeneration, DecideRecovery,
           RecoverOperations, Straight, LoopPlaces
      <4> QED BY <2>1, <3>2, <4>1, AdmissionBars DEF Loop
    <3>3. CASE Done
      BY <2>1, <3>3 DEF Done, vars, Entered
    <3> QED BY <1>2, <3>1, <3>2, <3>3, ModelKeepsOut, HostKeepsOut, WorkKeepsOut, CallsKeepOut
            DEF Next, Crash, Undisturbed
  <2>2. ASSUME NEW p \in Ops, Clear(p) PROVE Clear(p)'
    BY <1>2, <2>2, ClearStays
  <2> QED BY <2>1, <2>2 DEF Barred
<1> QED BY <1>1, <1>2

\* A serial call starts when everything before it is finished, and what comes
\* after it waits until it is finished itself (select_operations, and the check
\* for active serial work in admit), as long as nothing asks, is lost or stops.
THEOREM SerialIsBarrier == Undisturbed => (Spec => []SerialBarrier)
<1> SUFFICES ASSUME Undisturbed PROVE Spec => []SerialBarrier
  OBVIOUS
<1>1. Init => Straight /\ Barred
  <2> SUFFICES ASSUME Init PROVE Straight /\ Barred
    OBVIOUS
  <2>1. /\ eng.pc = "pass" /\ eng.admitting = {} /\ eng.decisions = {} /\ eng.tokens = {}
        /\ \A o \in Ops : /\ eng.task[o].at = "none" /\ ops[o].state = "Queued"
                          /\ tools[o].starts = 0 /\ tools[o].log = <<>>
    BY DEF Init, Attached, Idle, Unstarted
  <2> QED BY <2>1 DEF Straight, StraightLogs, StraightOp, LoopPlaces, Barred, Entered
<1>2. IInv /\ Straight /\ Barred /\ [Next]_vars => Straight' /\ Barred'
  BY NextStraight, NextBarred
<1>3. IInv /\ Barred => SerialBarrier
  <2> SUFFICES ASSUME IInv, Barred, NEW o \in Emitted, NEW p \in Emitted, o < p,
                      {o, p} \cap Serial # {}, tools[p].starts > 0
               PROVE  Finished(o)
    BY DEF SerialBarrier
  <2> p \in Ops
    BY EmittedOps DEF IInv
  <2> QED BY DEF Barred, Entered, Clear
<1> QED BY <1>1, <1>2, <1>3, Invariant, PTL DEF Spec
=============================================================================
