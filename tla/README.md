# zhir: verification project

TLA+ models of the parts of zhir where concurrency, failure and order decide
whether it is right: the durable chain of a run, the engine that drives a model
session, runtime tool operations and child agents, media in both directions,
what a host observes, the native sessions with their protocols, and the requests,
permits and resources beside them. TLC checks the models on small instances;
TLAPS proves, for every instance, the store's invariants and its refinement, that
the engine keeps its promises to the host, that its outbox completes the
projection and nothing is asked twice, that tools are started at most once and
refused ones never, and the gap accounting of the observer queue. Paths below are relative to the
repository.

## The system

A host starts, continues or resumes a **run**. One **executor** (`Engine`,
`crates/zhir-kernel/src/engine`) drives it: a single loop over one durable
**checkpoint**, with a **model session**, **tool tasks**, host **controls** and
**media** beside it. Every change of the checkpoint is one commit to a **run
store**. An executor may die after any commit; the next one starts from the
last durable checkpoint.

| component | state | operations | talks to |
| --- | --- | --- | --- |
| run store (`zhir-storage`) | head, commit identities, chunks | commit, load_head, delete | executors, by validated conditional writes |
| commit path (`checkpoint.rs`, `lifecycle.rs`) | `current`, phase of the executor | persist, initial, settle, stop_workers | store; host through `RunError` |
| exchange session (`zhir-models/src/session.rs`) | staged controls, emission in flight, local projection | command, generate, emit, close | engine through a command and an event channel |
| engine loop (`commands.rs`, `session.rs`, `model_events.rs`, `controls.rs`, `workers.rs`) | outbox, projection revisions, positions, batch and stash | dispatch, advance, receive, recover, control | session, store, host, tools |
| tool operations (`admission.rs`, `operations.rs`, `completion.rs`) | operation records; volatile tokens, handles, pending starts and replies | admit, start, recover, event, cancel, reply, finish, resolve | tools, approval policy, host, outbox |
| media (`media.rs`) | cursors, archive, epochs; the open segment, held chunks | seal, commit, deliver, flush, interrupt, drain | session, resource store, host |
| invocation (`invocation.rs`, `control.rs`) and `drive` (`zhir/src/runs.rs`) | observer queue, sequence and lost counts, result, cancellation | emit, close, observe, drop | host |
| native sessions (`zhir-models/src/native.rs`, `websocket`, `webrtc`) | staged events and media, the ports, confirmation timers, grace | command, read, write, confirm, settle | kernel, protocols, the wire |
| protocols (`zhir-minimax/src/tts`, `zhir-openai/src/live`) | phase, pending commands, epochs, delegations | command, remote event, close | remote services |
| establishment (`engine/session.rs`, `decorators.rs`, `concurrency.rs`) | binding, opening boundary, session permits | open, retry, fall back, bind, recover | candidates, store |
| requests (`transport`, `credentials.rs`, `concurrency.rs`) | permits, credential generation and its lock, attempts | acquire, send, retry, refresh, invalidate | remote services |
| resource stores (`zhir-storage/src/resources.rs`), reachability (same file) | entries, temporary files, the root's marker | create, append, finish, open, read, delete; list | media, models, hosts |
| agent backend (`zhir-builtins/src/agent`) | worker, permit, the child's checkpoint | start, recover, reply, cancel | parent operation, child run |
| tool decorators (`zhir-tools`) | failures, open circuit, probe | start, recover, settle | tools |
| policies, registry, catalog, facade, file and shell tools | see PROJECT.json | | |

What is hard here, and where PROJECT.json lists it line by line under `hazards`:

- a commit that times out and becomes durable later, two hosts attaching to the
  same checkpoint, optimistic stores whose read is old when they write;
- a crash between a commit and the effect it announces (a Generate, a tool
  start), and the rebuilding of what the session knew from history and outbox;
- events applied in batches while controls and acknowledgements arrive;
- host input that arrives while a response is generated, or while the run
  closes; interactive runs, seals, profile updates;
- admission while approvals are pending, cancellation racing starts and events,
  replies racing streams, serial calls, limits;
- media that must be durable before it is seen, next to interruptions that make it
  stale and commands that must not overtake it;
- confirmations, disconnections and closures that cross commands on the wire;
- an answer that is lost: whether the request took effect, which candidate owns
  the run, whether a child was started;
- resources of equal content published, read and deleted at once;
- liveness: one loop serves everything, behind bounded queues in both directions.

## Modules

| module | models | state and actions |
| --- | --- | --- |
| `AtomicStore` | what a store promises (`zhir-core/src/storage`) | `head`, `commits`; `Write`, `Delete` |
| `RunStore` | `persist`, `initial`, `settle` over the stores of `zhir-storage` | writes in flight (`queued`, `checked`, settled), executors (`stopped`, `waiting`, `running`); one action per call and per step of the store's own task |
| `RunStore_proofs` | theorems about `RunStore` | |
| `Exchange` | the scheduler task of `ExchangeModel` | command channel, event queue (`work`), `session`, `asked` (the calls the model service has seen) |
| `Engine` | the loop over an exchange session | `cp` is the checkpoint, `eng` everything volatile, `pc` the await point |
| `LocalRun` | `Exchange`, `Engine`, the host and crashes together, and the properties | |
| `LocalRun_proofs`, `LocalRun_refinement`, `LocalRun_flow`, `LocalRun_content` | theorems about `LocalRun`, each module upon the one before | |
| `Run` | what the kernel promises the host | `state`, `due`, `closing` |
| `Operations` | runtime tool operations, host and tools | `run` and `ops` durable, `eng` volatile, `tools` what really happens outside |
| `Operations_proofs` | theorems about `Operations` | |
| `Media` | `media.rs`, with the session's commands it gates, the channels of `invocation.rs` and the resource store | `cp` and `store` durable, `remote` the provider, the rest dies with the process; one action per step of sealer, sender and loop |
| `Observer` | `invocation.rs`, `control.rs` and `drive` | `emitter`, `channel`, `worker`, `host` |
| `Media_proofs` | theorems about `Media` and `Observer` | |
| `Native` | `native.rs`: the ports of every native session | operators on `o`, the ports' record |
| `TtsSession` | the WebSocket driver with the MiniMax task protocol and its service | `driver`, `s` (protocol), `wire`, `service`; one action per arm of the select |
| `LiveSession` | the WebRTC driver with the OpenAI Live protocol, peer and service | the same, with the peer in `wire` |
| `Requests` | `http.rs`, `transport`, `signaling.rs`, `credentials.rs`, the request limit | `caller` (one future each), `permits`, `credential`, `remote` |
| `Establishment` | opening and recovering sessions through retry, fallback and permits | `saved` durable, `opener`, `sessions`, `touched` |
| `Resources` | both resource stores | `entries`, `writer`, `reader`, `root` |
| `Reachable` | the walk that lists what a checkpoint reaches | `chain`, `checkpoint`, `found` |
| `Agent` | a child run as an operation of its parent | `parent` and `child` durable, `workers`, `limit` |
| `Circuit` | the retry and circuit-breaker decorators of tools | `circuit`, `calls` |
| `MCComponents` | `Circuit`, `Resources`, `Establishment`, `Requests`, `Agent` and `Reachable` side by side | |
| `Components_proofs` | theorems about `MCComponents` | |
| other `MC...` | instances for TLC | |

`LocalRun` extends `Engine`, which extends `Exchange`; `RunStore` refines
`AtomicStore` and `LocalRun` refines `Run` through `INSTANCE ... WITH`.
`Operations` stands beside `Engine`: it abstracts the model to the calls it
emits and to the acknowledgement of each result, and keeps the loop, the
controls, suspension, crash and resume. `RunStore` is the commit below all of
them: elsewhere a commit is one assignment to the checkpoint, which is what the
refinement theorem of `RunStore` justifies.

`Media` is the other half of the engine, over a session that can interrupt its
output and recover: the model there ends one generation, and everything but the
order of media, commands and commits is left out. `TtsSession` and `LiveSession`
extend `Native` and put the kernel on one side, with every control the engine
accepts of a host (also after a seal or before the first generation, up to the
limits of an instance), and a remote service on the other. `Establishment` is how the engine comes
by a session; `Requests` is what adapters do to open one or to call a model;
`Agent` is what a start, recovery, reply or cancel of `Operations` does when the
tool is a child run, with the parts of its parent's records that it depends on.

Granularity: the engine is one task, so an action is what it does between two
awaits that can be interrupted. Every commit is its own action, because a crash
may follow it. `pc` is `catalog` and `opening` while the catalog and the
session open and controls are served, `idle` in `receive_work`. Definitions
marked *Variant* are plausible mistakes: they take no part in any specification
and serve to show that each property can fail.

What is abstracted: message contents (an entry is its kind, number and item),
identities (an intent and its number), time (a deadline or timeout may happen
at any step), digests and history chunks, observation events outside `Observer`. Deltas and
progress change no durable state and are left out. In `Operations` the catalog
is fixed, input validation is part of `Unbound`, and the model stops after
one generation. Media chunks are numbered; a stored segment is the chunks it joins
and the segment before it. A credential is its generation, a lost answer and a
refused one are outcomes of a request, a resource is a key, a content and which
of several lives under that key it is.

## Runs

Each run puts instances that answer related questions side by side: a variable
`part` (with `limits.session` in `MCNative`) is chosen in the initial state, only the
actions of that part are enabled, and the variables of the others stay `None`.

| run | distinct states | parts and what they show |
| --- | --- | --- |
| `store` | 99,769 | *locked*: two executors that time out, crash, load stale heads and delete, over a store with one lock (memory, SQLite). *optimistic*: the same over conditional writes (MySQL, Redis), without deletes. `ChainLinked`, `OneOwner`, the inductive invariant `Inv` and the refinement of `AtomicStore`. |
| `run` | 2,460,687 | *task*: inputs, a profile update, pause, cancellation and crashes at every point. *interactive*: seals, continuations, failing calls and crashes. Outbox and projection agree, nothing is asked twice, no protocol failure, every input answered, refinement of `Run` |
| `ops` | 1,984,010 | *order*: three calls, the second serial, with approvals, cancellations and updates in every order. *crash*: crashes, pauses, resolutions, cancels and replies against tools that answer uncertainly, lose their streams or refuse to cancel. Refused calls never reach their tool, no tool is started twice, the serial call runs alone. |
| `live` | 455,431 | *run*: reduction of the history while inputs arrive and model calls fail. *ops*: prompts, denials, crashes and replayed event streams. Started work keeps a task that reports on it, and the run ends (`Settles`) |
| `media` | 679,941 | *media*: five instances of output, interruption, restart, input, flush and a failing store: the checkpoint leads to exactly what was committed, once and in order; the host receives only what is recorded and nothing stale; input precedes the commands after it; a run that completes has drained both ways. *events*: a slow, failing or dropped host adds up its gaps correctly (`GapsAddUp`). The host is served in both (`HostIsServed`) |
| `native` | 1,424,155 | *tts* and *live*: links that are slow, lose packets or fail, over host commands in any order the kernel accepts: events arrive in order before the result, streams are well formed, a good end loses nothing, an acknowledgement means written, no audio from before an interruption. A protocol ends its session only over a command from before the generation or after the seal, once everything before that command is acknowledged (`OrderedControlsServed`). The other parts are those of `MCComponents`. *circuit*: three calls of different runs: one probe at a time, given back however its call ends (`ProbeHeld`). *resources*: writers of one key, a reader, a delete, two hosts that initialise the root: what was published is never replaced (`PublishedOnce`). *establishment*: a run has effects on one candidate only (`BoundCandidate`). *requests*: a credential is refreshed with cause only and no request takes effect twice (`RefreshedWithCause`, `NeverReplayed`). Limits hold in both (`WithinLimits`). *agent*: both processes crash between the two checkpoints, and the parent's outcome is the child's own end (`ChildAgrees`). *reachable*: every chain of sealed and archived nodes, also joined ones: the list misses nothing (`ReachableComplete`). Sessions, establishments and requests end (`Ends`) |
| `store_deleted_run` | | *violation* of `ChainLinked`: a delete between read and write |
| `run_reduced_restart` | | *violation* of `ProjectionIsHistory`: a reduction pending at a crash |
| `run_close_lost` | | *violation* of `Settles`: Close acknowledged, Closed not yet received |
| `ops_serial_waiting` | | *violation* of `SerialBarrier`: a serial call that waits for input |
| `media_reopened` | | *violation* of `SealAdmitsNothing`: a sealed run that is attached again accepts media |
| `tts_early_seal` | | *violation* of `ControlsAreServed`: a seal before the first generation |

### Bounds

- Two executors suffice for every race over one head: a third would only repeat
  the losing role. Four identities give chains of three commits and a loser
  beside them, or a run, its delete and a new run.
- One host input, one profile update, one seal and two generations: an input can
  arrive before, during and after a response, be pending at a crash, and cause
  the second generation. Queues hold two events, so a session does wait for room.
- Two or three operations: a serial call with a parallel one before and after
  it, a group of two, and a call that cannot be bound. One update per tool
  besides its result, one reply per operation. `MaxCommands` is the number of
  calls (see the differences for a smaller one).
- Media: two chunks of output against one interruption, so either, both or none
  are stale; three chunks of input through channels of two, with a flush between
  them; one restart, with channels of one; a store that fails at any put.
- The observer queue holds one event of up to four: the fourth event can report
  the losses of two before it.
- Native sessions: one event and two chunks fit their channels, so a driver does
  stage more. `EventLimit` is three above the headroom of eight events that the
  WebRTC driver keeps before it takes a command: with three staged it stops
  taking them. `MediaLimit` is twice the room of the queue. `RtpModulus` stands for 2^16: three
  packets that start before the wrap cross it. Texts, epochs, toggles,
  delegations and packets are spread over instances that combine the ones that
  meet: text with interruption, input with commands, delegation with closure,
  and one instance of each session over a link that fails. One more of each
  (`AnyOrder`, and the last of `MCLive`) lets the host seal twice, insert and
  interrupt after the seal, and flush or seal before the generation: one command
  out of order before, between and after others that are in order.
- Requests: two callers, one permit, two attempts, three credentials: a rejection
  races an expiry and a refresh, and an old generation is reported late.
  Establishment: two runs and two candidates with one session each, in either
  order or one of them removed; two attempts, two attachments.
- Agent: two workers for one child (one lingering while another recovers), one
  reply, two suspensions. Circuit: three calls, threshold two: one can probe
  while another started before the circuit opened still runs.
- Resources: three writers of one key with two contents, so that equal and
  different contents race; one delete lets a key live twice. Reachable: all
  chains over three sealed and two archived nodes.
- The store run does not check deadlock: it stops when identities
  are used up. Everywhere else a deadlock is an error; `Done` and `Ended`
  mark the states in which nothing is left to do. In `native` the writers and
  hosts of *resources* stop, the walk of *reachable* ends, and a child of *agent*
  may wait or be left alone: the first and the last may stay as they are in any state,
  the walk when it has listed or failed.

### Fairness

`Settles` is stated of `FairSpec` and reads: if the run is interrupted (crash,
pause, failing open or model call) only finitely often, it ends. Weak fairness
of the loop and the tasks is Tokio's scheduling of a ready task; a model call
returns at the latest with its client timeout; the host continues a run whose
executor died (`WF Continue`), and gives up an unfinished generation or unknown
work in one of its resumes instead of resuming into it for ever (`SF
ResumeResolved`); it seals an interactive run once (`SF SealOnce`). In
`Operations` tools finish unless they ask, prompts are answered outside the
kernel, and results are acknowledged. The host is assumed to run one executor
at a time, as `runtime.rs` demands; `RunStore` is what protects the chain when
it does not.

`HostIsServed` and `Ends` rest on the same scheduling of ready tasks and of the
arms of each `select!`, each arm weakly fair. Beyond that: the model ends its
response and reacts to a command, the host receives what is delivered, seals an
unsealed run once and attaches again after a restart (`Media`); the host
returns from its handler (`Observer`); the remote service answers, the kernel
receives events and the host its audio, a disconnection ends or outlasts its
grace, the run generates, seals and closes (native sessions); each request and
each establishment takes its next step. No fairness is assumed of faults,
interruptions, deletes, drops or cancellations.

## Proofs

`RunStore_proofs` proves, for any sets of executors and identities, any bounds,
and any interleaving of crashes, timeouts and late writes:

| theorem | statement |
| --- | --- |
| `Invariance` | `RevisionsIdentify => (Spec => []Inv)` |
| `ChainIsLinear` | durable commits form one chain that ends in the head |
| `OwnersAreUnique` | no two executors run from the same checkpoint |
| `Refinement` | `RevisionsIdentify => (Spec => AtomicStore!Spec)` |

Assumptions: `Bounds` of `RunStore` (types of the constants, `None` is neither an
identity nor a checkpoint), and `RevisionsIdentify == Locking \/ MaxDeletes = 0`:
a store that does not lock compares only revisions, which identify a commit as
long as the run is never deleted. `store_deleted_run` shows that the hypothesis
is needed.

`ChainLinked` alone is not inductive: that the next write keeps the chain
linear depends on what is in flight. `Inv` adds that identities are fresh and a
write is in the store once (`FreshIds`), that a checked write was validated
against a commit that was durable (`Validated`), that executors own distinct
checkpoints (`Owners`) and that a reported success is durable (`Reported`).
The key lemma is `LandsOnHead`: in a linear chain the commit of a given revision
is unique, so an equal revision means an equal head and the old validation still
holds. Per action, `SubmitInv`, `StopInv`, `AcceptedInv`, `MoveInv`,
`InstallInv` and `DeleteInv` carry the invariant; `StepRefines` maps a step that
installs to `Write`, a delete to `Delete`, and all others to a stutter.

`LocalRun_proofs`, `LocalRun_refinement`, `LocalRun_flow` and `LocalRun_content` prove, for any limits,
any statuses, any host input and any order of commits, events, crashes,
suspensions and resumptions:

| theorem | statement |
| --- | --- |
| `Shaped` | `Spec => []Shape` |
| `StateIsTyped` | `Spec => []TypeOK` |
| `OutboxIsComplete` | `Spec => []OutboxCompletesProjection` |
| `RunIsKept` | `Spec => ImplementsRun`: `LocalRun` implements `Run` |
| `NeverAskedTwice` | `Spec => []AskedOnce` |
| `NeverDisagrees` | `Spec => []NoProtocolFailure` |
| `CallsAreHistory` | `~Reducing => (Spec => []ProjectionIsHistory)` |
| `InputsAreAnswered` | `~Reducing => (Spec => []EveryInputAnswered)` |

- *Outbox.* `OutboxCompletesProjection` is about durable state, but a commit
  comes from what the engine had staged, so `Shape` carries the same of the
  checkpoint in a batch (`Sound` of `cp` and of `staged.cp`) next to the types of
  everything else. What makes a step keep it is local to four operations:
  `Prepared`, `WithAppend`, `Retired` and the replacement of a projection have a
  lemma each, and every action is built from them. An acknowledgement
  retires the numbered command that follows the confirmed revision, which is the
  first one of the outbox. That uses only `Expected`, the condition under which the
  engine accepts an event at all, so the theorem does not depend on the order in
  which a session acknowledges. The session's part of `Shape` (`CallOrder`) says that it announces a response behind
  every acknowledgement, for a call it has not made yet.
- *Refinement.* What `Run` sees is the state, whether a response is `Due` and
  whether the close is decided. `Promised` adds why each can be relied on: only a
  running run has an engine (`UpIsRunning`), a resumption that gives a generation
  up finds it unanswered (`AbandonIsDue`), what is staged decides no close and
  forgets no due response (`StagedAgrees`), and before the close is decided
  nothing on its way in either direction closes anything (`CloseDecided`: outbox,
  batch, both channels, the session and the one that is opening). `RunSteps`
  lists which changes of these three are steps of `Run`; one lemma per group of
  actions shows that its steps are among them.
- *Calls.* A generation moves from the outbox to the batch, the command queue, the
  session's waiting call and the calls made. `Once` says that it is in at most one
  of the last four (`OnePlace`), once in each (`OnceEach`), that none of them is
  ahead of the checkpoint's generation (`NoneAhead`), and that a Generate the
  engine has not sent is in none (`UnsentIsNew`). After a crash the three volatile
  places are empty and the durable `sent` mark is read back into `eng.sent`, which
  is why the invariant survives a restart.
- *Line* (`LocalRun_flow`). The engine fails a run with a protocol error when an event
  is not the one `apply_event` expects, the session when a command does not fit its
  projection; both channels, the batch and the session's own queues lie between
  the two, and each side moves on without waiting for the other. `Flow` is one picture
  of all of them: behind the events in flight (`Flight`: the work queue, then what the
  session still has to send), the outbox is cut into three parts. Its first `k`
  commands are acknowledged in flight, in the order of the outbox (`Acked`); the next
  ones are in the command queue, the next in the engine's batch, and the rest is
  unsent, which `eng.sent` says (`Lined`). The session is where the checkpoint will
  be once those `k` are retired: from its revision, input position and
  profile on, the commands behind place `k` go up one by one to those of the
  checkpoint (`Fits`, by `Continues`). `Fitting` and `Waiting` say of the events in
  flight that each is acceptable when its turn comes (a response is the one of
  the open generation, started once, finished last, and behind the acknowledgement
  of its Generate), `Calling` says the same of the call at the model service,
  and `Line` is what the outbox must be for this to go on: distinct identities,
  Generate, Replace and Close first and alone, inputs in order, none of the user
  behind a Seal, and a Generate that carries what the session will hold. The cut is
  made for the checkpoint that is staged, if there is one (`Latest`), because a batch
  accepts several events before its commit. While the engine attaches, everything
  volatile is empty and the rebuilt session stands at the acknowledged revision
  (`Preparing`), which is why a crash at any point costs the invariant nothing but
  its cut. `NoProtocolFailure` follows because every handler that could fail finds
  what `Flow` says is there.
- *Content* (`LocalRun_content`). Without a reducer the history is one entry longer
  than the context revision (`Coherent`), so the revision of a session says which
  part of the history it holds: `Projects` says that its projection is that part, in
  the session that is up and in the one that is opening, which is rebuilt from the
  seed and replayed from the outbox. A Generate is handled at the revision where its
  generation starts, so that its content is the history up to there (`Asks`), and
  the history only grows afterwards (`Grows`). `ProjectionIsHistory` follows.
  For `EveryInputAnswered`, `Covers` says that a generation covers the inputs up to
  its start and no others; `StartsMade`, that a response announced to the engine
  is one the model was called for, so that a finished one was (`Made`);
  `CallsInOrder`, that the last call is then the one of the checkpoint; and `RunStep`
  of the refinement, that a run completes only when nothing is due
  (`DoneIsAnswered`). `AskedOnce` and `Flow` are used throughout: the call is made
  for a generation that was not called before, and in the order of the outbox.
  The hypothesis `~Reducing` is needed: `run_reduced_restart` violates
  `ProjectionIsHistory` with a reducer (difference 2 below), and a run with a reducer
  has no such relation between revision and history.

They assume of the constants what `LocalRun`, `Engine` and `Exchange` assume;
`NoneIsNoValue` and `NoneIsNoEvent` (`Exchange`), `NoneIsNoRequest` and
`NoneIsNoFailure` (`Engine`) say that `None`, the absent value of an `Option`, is none of
the values that are present. Writing these proofs changed the model in one respect: some
`CASE` expressions of `Engine`, `Exchange` and the native sessions had guards
that were not exclusive and relied on TLC taking the first. They are ordered by
`IF` or made exclusive now, as the `match` and `if` of the code are, and the
outbox drops the first command of an identity (`position` and `remove`).

`Operations_proofs` proves, for any number of calls, any limits and any history
of crashes, suspensions, cancellations, replies and resolutions:

| theorem | statement |
| --- | --- |
| `Invariant` | `Spec => []IInv` |
| `RecordsAreTyped` | `Spec => []TypeOK` |
| `StartedAtMostOnce` | `Spec => []StartedOnce` |
| `RefusedIsNeverStarted` | `Spec => []RefusedNeverStarts` |
| `ResultIsFinal` | `Spec => [][ResultsStay]_vars`: a committed result never changes |

`StartedOnce` counts calls in the outside world; the engine knows of them only by
its records. `IInv` ties the two: an operation that is Queued, refused or about to
start has not been started (`NotYetStarted`), only open work has a task or a
handle (`WorkIsOpen`), a tool that has ended said so last (`LogsAreSettled`, what
recovery reports), an outcome and a terminal state come together
(`ResultsAgree`), and the operations started or about to start are no more than
the calls counted, which are within the limit (`WithinBudget`). The steps that
start nothing share the lemma `ContinueInv`; only admission moves an operation
to `starting`, and recovery never does. The theorems assume the module's
`OperationsConstants`.

It also proves, under a hypothesis each, what depends on limits and faults:

| theorem | statement |
| --- | --- |
| `NothingFails` | `AmpleRoom => (Spec => []NoProtocolFailure)` |
| `SerialIsBarrier` | `Undisturbed => (Spec => []SerialBarrier)` |

- `AmpleRoom` says that the limits leave room for the record and the delivery
  command of every call. Without it the kernel does fail a run: a further call
  meets full records, or a group that was admitted into one free command slot
  overflows the outbox (observation 13). With it, and with every fault, crash,
  pause and reply the model has, the remaining ways to `Failed` are two results
  that differ or an update of a finished operation. Open tasks exclude them
  (`WorkIsOpen` of `IInv`), except for resolutions, which are applied one by one
  after the catalog has opened: `ResolvesOpen` says that what is still to be
  resolved is open, and that nothing is left once the loop starts.
- `Undisturbed` says that no tool prompts, no call is lost, nothing suspends, and
  no crash occurs, which leaves decisions, unbound and denied calls,
  cancellations and every order of events. A Waiting or Unknown serial call is no
  barrier (`ops_serial_waiting`); the hypothesis excludes what leads to either
  state. `Straight` says that open work is then active until it is finished. `Barred` is the
  invariant: from its selection on, through the policy's decision, dispatch and
  start, everything a call had to wait for is finished (`Entered` implies
  `Clear`). Admission establishes it (`AdmittedIsClear`, about `Group`, `Blocked`
  and `Reached`), all other steps let nobody in (`NoneEnters`), and finished work
  stays finished (`NextStays`).

`Media_proofs` proves the two halves of `MCMedia`, the media of an invocation and its
events, for any rooms of the channels, any sizes and any interleaving:

| theorem | statement |
| --- | --- |
| `ArchivedOnceForGood` | `MCSpec => []ArchivedForGood` |
| `CheckpointLeadsToAll` | `MCSpec => []RecordIsCommitted`: from the cursor or the archive node, the links lead back to exactly what was committed |
| `InputComesFirst` | `MCSpec => []InputFirst` |
| `StaleOutputIsDropped` | `MCSpec => NoStaleOutput` |
| `GapAccounting` | `Spec => []GapsAddUp`: the losses reported up to an event are exactly the numbers missing below it |

- Of the constants, `NoneIsNoChunk` says that an absent chunk is none, and
  `InstancesAreLimits` that an instance is a choice of limits; TLC evaluates both.
  `GapAccounting` assumes nothing.
- `MediaInv` is the inductive invariant (of `CheckpointLeadsToAll` with `LinkInv`). `Shape` types every part
  by the checkpoint: output on its way never has a later epoch, input has none, a
  command's number is at most the last one prepared, and the floor of the host's
  channel is the committed epoch.
- `ArchivedForGood` is inductive with `KnowsEnded`: the archived keys an engine
  remembers, once it has read them, are those of the checkpoint, so that a late
  segment of an ended stream finds it ended. `CursorMoves` and `Interruption` are the
  two ways a node is added.
- `RecordIsCommitted` is about the checkpoint, the store and the tasks that seal, and
  inductive with `LinkInv`. `Record` says it of every cursor and every archive node,
  and that nothing was committed to any other stream. `InputFollows` and
  `OutputFollows`: a sealed segment that may still be committed links to the last one
  committed to its stream (`Tip`). `Linked`: the sealer's own links are those of the
  checkpoint for output of its epoch, which is all that it may still extend; a
  segment of an older epoch is sealed behind a stale link and never committed.
  `CommitLinks` is the step that commits; `InterruptLinks` the one that archives what
  it cuts off; most steps do neither (`StaysLinked`), or end what was not committed
  with the executor (`StopsLinked`). `Chain` is a recursive function over the links: they go back
  (`Ordered`), so that the function exists (`WalkExists`, by a smallest segment without
  one), unfolds (`ChainWalks`), and is the same after one more segment (`ChainGrows`).
- `InputFirst` needs two more parts. `InFlight`: the accepted input is what the model
  has, then the segment being forwarded, then the held packet, then the channel;
  only a forward that failed breaks this, and the engine then suspends. `MarkedFirst`:
  a command that waits for input is on its way only when all of it is with the model.
  It starts to hold in `DispatchInv`, where `CanSend` finds nothing sending, held or
  queued. Most steps leave the input alone (`InputKept`, `ElsewhereInv`), and a step
  that ends the executor keeps what survives (`StopsInv`).
- `NoStaleOutput` is an action property: only the host's receiver adds to what was
  received (`OnlyHostReceives`), what it takes is at most of the committed epoch
  (`Shape`) and at least of the floor, which is the same (`ReceivesCurrent`).
- `Segment` takes the beginning of a queue and loses nothing (`SegmentParts`); the
  archive nodes of an interruption are one for each open stream (`Listed`).
- `GapsAddUp` speaks of delivered events only; what keeps it true is the count of
  those in hand. `GapsInv` adds `Accounted` (every number handed out is sent, reported
  lost, about to be reported, or the one `emit` is working on), `LastReports` (the last
  event delivered carries the losses reported so far) and the types. Steps that send
  nothing preserve it by one lemma (`UnsentInv`); the two that send, a gap and an
  event, have one each.

`Components_proofs` proves the six components of `MCComponents`. They share no
state: an execution is of one of them, its `part`, and each property is about that
part. The theorems are about its `Spec` and its properties, which the run `native` checks
on a small instance, for any values of the constants:

| theorem | statement |
| --- | --- |
| `OneProbe` | `Spec => []ProbeHeld` |
| `PublishedForGood` | `Absence => (Spec => []PublishedOnce)` |
| `OneCandidate` | `Configured => (Spec => []BoundCandidate)` |
| `RefreshedForCause` | `Asking => (Spec => []RefreshedWithCause)` |
| `ActedOnceForEach` | `Asking => (Spec => []NeverReplayed)` |
| `LimitsAreKept` | `Configured /\ Asking => (Spec => []WithinLimits)` |
| `ParentAndChildAgree` | `Absent => (Spec => []ChildAgrees)` |
| `AllReachableIsListed` | `Walkable => (Spec => []ReachableComplete)` |

- `OneProbe` assumes nothing. `CircuitInv`: at most one call is armed, it is in
  flight and has not counted, and the breaker's probe flag is set exactly while
  there is one. A call that started before the breaker opened is not armed and
  cannot give the probe back.
- `Absence` says that `None` is neither an entry nor a format. `ResourcesInv` is
  about every entry anybody knows of (`Known`): the one stored, those that writers
  compare with, and those that references name. Within one life of a key they have
  one content (`OneContent`), and none of the current life is known after the key
  was emptied (`LastLife`), so that publishing never meets an older reference.
  Writers that find a key taken learn only what was known (`NothingLearnt`).
- `Configured` says that hosts list candidates (`None` is not one), that the limit
  is a number and that the runs are finitely many. `EstablishmentInv` says of each
  run (`Sane`) which candidate it is about to open (`Chosen`), that a session is
  held from its opening until its executor ends (`HeldSession`) and bound before it
  is used (`BoundFirst`), that a checkpoint marks the opening before an external
  candidate is reached (`Marked`), and, with these, that a run with effects is
  bound to the only candidate it touched, or is not bound and cannot open another
  (`Traced`). `BoundCandidate` alone is not inductive: an opening whose executor
  was abandoned leaves a trace at the candidate and only the mark in the
  checkpoint. `Limited` counts permits, which include the openings in progress;
  `WithinLimits` counts sessions, which all hold one (`SessionsWithinLimit`).
- `Asking` says that `None` is neither a caller nor a generation, that the callers
  are finitely many, that each makes a request of one of the three kinds, and that
  the limit is a number. In `RequestsInv`, `Caused` says of each
  caller why it does what it does: one that refreshes holds the lock and found
  nothing usable behind it, one that invalidates was rejected with the generation it
  sent, however many refreshes ago that was. `Superseded` says of the credential
  that the current one is the newest, or that the newest was rejected or has expired:
  a late report of an old generation therefore never clears a good one. `ActedOnce`
  ties the service's count to the caller: before the answer comes it has not acted,
  and nothing is sent again after it has. `Permitted`: an exchange that is on its
  way has a permit, and permits are no more than the limit (`RequestsWithinLimit`).
- `Absent` says that `None` is no outcome. In `AgentInv`, `Truthful` says that a worker
  is at most at the child's revision, reports no end but the one the child has
  committed, and that one which is level with an ended child has ended with it;
  commits are compare-and-swap, so that a worker left behind by a crash or
  a detachment can commit nothing more. `SeenIsCommitted` says that the head
  a recovery has read is old or still the head, and an end is the end for good;
  `Holding`, that a parent has a worker, a head it has read, or neither, and that one
  that has not started its child, or was refused, has no child (`Unstarted`).
- `Walkable` says that nodes are finitely many and of one kind each, that `None` is
  none of them and that no key of data is one. The property compares the walk with
  `Closure`, which adds what is linked in as many rounds as there are nodes.
  `RoundsEnd` shows that this is enough (each round adds a node until one adds
  nothing) and `ClosureIsLeast` that the result is the least set that the keys lead to
  (`Leads`). `ReachInv` then needs no rounds: `InReach` says that what the walk has
  followed or still follows is in every such set, and `Covered` that each link of a
  node it has followed leads to one it has followed, to the node it is at or to the
  archive node it goes on with, and that the list is the contents, the followed
  nodes and their data. A node that is left out because a message already names it
  breaks `Covered`.

Only model-checked:

- The content of calls with a history reducer: it holds as long as no executor
  restarts (`ReducedProjection` of `MCLive`), and fails when one does
  (`run_reduced_restart`).
- `ReceivedIsRecorded` and `CompletedIsDrained` of `Media`: they compare with the
  chunks of one stream among all that were received, a selection defined by recursion
  over data.
- The properties of `Native`, `TtsSession` and `LiveSession`.
- Liveness (`Settles`, `HostIsServed`, `Ends`): fairness and ENABLED are outside the
  prover's reach.

## Differences between code and documentation

Shown by a run (details and quotations in PROJECT.json, `findings`):

1. A delete between read and conditional write of Redis or MySQL lets a write
   land on a recreated run (`store_deleted_run`).
2. A pending ReplaceContext is sent with the history of its dispatch: an input
   served while the session reopens reaches the model twice (`run_reduced_restart`).
3. Close acknowledged and the executor stopped before Closed: no later
   executor closes the rebuilt session (`run_close_lost`).
4. A serial call that is Waiting or Unknown is no barrier (`ops_serial_waiting`).
5. The media channel of a new executor is open whatever the checkpoint says: a
   sealed run that is attached again accepts media (`media_reopened`).
6. Controls the kernel accepts, with a receipt, end a native session with an
   error: `prepare_command` and `insert` ask neither whether a generation has
   begun nor, except for a user's message, a flush and a toggle, whether the input
   is sealed, and the protocols refuse what comes out of their order. The run has
   SealUserInput before the first Generate (`tts_early_seal`). Three more
   instances of `MCNative` violate `ControlsAreServed` in its configuration, with the
   other session's instances set to `MCNone`:
   - `TtsInstances <- MCLateInterrupt`: an InterruptOutput after the seal is held
     back until the task has finished, and then refused (`controls.rs:140`,
     `tts/protocol.rs:235`). `runtime.md:195` says it "affects output only".
   - `LiveInstances <- MCLateInput`: an External message after the seal is committed,
     sent and refused (`controls.rs:96`, `live/protocol.rs:235`).
     `developer-api.md:42` says that `input` persists user and external messages
     and sends them as the session allows or leaves them to the next turn.
   - `LiveInstances <- MCSecondSeal`: a second seal is prepared and refused, also
     while results are due (`controls.rs:195`, `live/protocol.rs:223`).
     `zhir-openai/README.md:37` says that host results remain deliverable.

   A FlushInput before the first Generate, and for speech a message or a second
   seal after the seal, end the same way. `native` has all of them, and shows by
   `OrderedControlsServed` that nothing else makes a protocol end its session.

Also exhibited by the models, without a run of their own:

7. A store that reports the commit budget as `Error::Deadline` makes the run
   Limited without an execution deadline (`lifecycle.rs:304`; `SettleDeadline`
   is enabled with `StoreDeadlines = TRUE`). `runtime.md:17` promises an
   infrastructure error.
8. A profile update that is pending when Closed arrives suspends every later
   executor (`model_events.rs:304`; `Settles` fails for `run_close_lost.cfg` with
   `MaxProfiles = 1`, `CanPause = FALSE`).
9. An operation that leaves Waiting runs again without a slot: more run than
   `max_operation_concurrency` (`operations.rs:106`).
10. A resumed task run is suspended before it reads the events of the waiting
   operation it has attached to (`lifecycle.rs:102`; `Settles` fails with
   `Mode = "Task"`, `N = 1`, `Prompts = TRUE`, nothing else enabled).
11. Limited by the tool-call budget is committed without turning running
   operations into Unknown (`admission.rs:357`).
12. A confirmed reply overwrites the Unknown of a stream that ended meanwhile,
    and cancelling an Unknown operation without a handle records Cancelling: the
    operation then counts as progressing, nothing reports on it and the loop waits
    for ever (`workers.rs:111`, `controls.rs:327`; `WorkIsWatched` fails with
    `N = 1`, `MaxReplies = 1`, `ToolFaults = TRUE`, or with `CanCancel` and
    `CanCrash` in the *ops* instance of `MCLive`).
13. One free command slot admits a whole group, whose results may overflow the
    outbox and fail the run (`admission.rs:187`; `NoProtocolFailure` fails with
    `N = 3`, `MaxCommands = 1`, `MaxCalls = 3`).

Further disagreements and limits met while modelling, read from the code. The
first is a step of the models:

- The observer's gap report may find no room and the event after it find some:
  the event is delivered before its loss is reported, and a loss that trails the
  last event is never reported (`invocation.rs:62`). The counts stay right, which
  is what `GapsAddUp` says; `runtime.md:139` promises a gap report.
- Media a host sends to a model without media input stays in the channel and
  holds back Flush, Seal and Close for ever. The instances accept input.
- If the engine's task panics, the invocation's emitter keeps the sender of the
  queue and `drive` waits for ever; `DriveReturned` excludes it.
- A host that starts a stream afresh after a restart fails the run with a
  protocol error: the cursor of the stream survived the executor.
- `zhir-openai/README.md:48` says that SealUserInput "requests native closure";
  the code only drains and acknowledges, and Close requests closure, as line 34
  of the same file says.
- The capabilities of a fallback are the union of its candidates'
  (`decorators.rs`): a mix of local and external candidates counts as
  LocalProjection before it is bound, and no opening boundary is committed for
  it. The instances take candidates of one kind.
- ChildControl::cancel uses `try_send`: with 16 commands queued a cancellation is
  lost; it may reach the old handle while a resume replaces it. A reply to a
  running child answers its next suspension. A recovery that races the old
  worker's pause ends Unknown.
- The time that decides whether a credential has expired is read before its
  lock is taken: an expired one may be sent, which the one repeat after a 401
  repairs.
- A resource that already exists is returned without syncing its directory, and
  a delete between that answer and the read of the existing file is reported as
  an I/O error.

## Not modelled, and why

- Delegations and provider operations of the engine, and `DelegationContext`:
  planned as an extension of `Operations`. The Live protocol's side of a
  delegation is in `LiveSession`.
- Conversions: codecs, stream assembly, provider payloads, the resolution of a
  request's resources (`zhir-models/src/resources.rs`), audio formats. They carry
  no control of their own; what a message says is what the models keep of it.
- ICE, DTLS and the codec of a peer connection belong to the WebRTC library.
- Power loss: the file store is taken to keep what it has linked. The order of its
  syncs is in the code; what a disk may lose is not.
- `transform.rs` and `ObservedModel` wrap calls; the registry, catalog, defaults
  and environment are lookups and construction; history windows, negotiation and
  back-off are pure arithmetic over one call's inputs.
- File, shell and interaction tools: I/O behind the tool interface that
  `Operations` models from outside.
- Repeated commits of one identity: the kernel never submits an identity twice.
- Test support documents how the traits are used.
- Paths of modelled components that add a failure and no new order: a directory
  that holds files of an older layout is refused when a store opens it
  (`resources.rs:346`); a credential refresh that fails with a retryable error is
  retried like a rejected attempt (`http.rs:283`), and the requests have one
  audience; a child whose resume fails ends Unknown for its parent
  (`child.rs:132`).

## Plan

Models: `Operations` extended by delegations and provider operations, with the
outbox it shares with `Engine`; an abstract operation (queued, started at most
once, finished once, delivered once) that it refines.

Proofs, in order of what they protect; the modules use no recursive operator:

1. `LocalRun` with a reducer and no restart: `ReducedProjection`, with the position a
   reduction starts from in place of `Len(history) = revision + 1`.
2. `Media`: `ReceivedIsRecorded` and `CompletedIsDrained`, with the chunks of one stream
   selected by an explicit function in place of the library's.
3. `LiveSession`: `AckedIsWritten`, from the fragments a driver still has to write.
