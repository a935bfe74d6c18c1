------------------------------ MODULE RunStore ------------------------------
(***************************************************************************)
(* The durable chain of one run: run executors, the commit path of the     *)
(* kernel (engine/checkpoint.rs, engine/lifecycle.rs) and the stores of    *)
(* zhir-storage.                                                           *)
(*                                                                         *)
(* A store settles a write in a task of its own, so a write outlives the   *)
(* caller that stopped waiting for it.  MemoryRunStore and SQLite          *)
(* read the head and write it under one lock (Locking = TRUE).  MySQL and  *)
(* Redis read the head, validate against what they read and then write     *)
(* conditionally on the revision alone (Locking = FALSE).                  *)
(***************************************************************************)
EXTENDS Naturals, FiniteSets

CONSTANTS Executors,     \* processes that may drive the run
          Ids, None,
          MaxRevision,   \* bound on the length of the chain
          MaxDeletes,    \* bound on RunStore::delete calls
          Locking,       \* does the store hold a lock from read to write?
          StoreDeadlines \* may a store report the commit budget itself?

VARIABLES head,     \* zhir_run_heads, or None
          commits,  \* zhir_commits: the identities written so far
          writes,   \* commits inside the store, not yet taken by a caller
          exec,     \* executors
          minted,   \* identities handed out by new_id()
          deletes

vars == <<head, commits, writes, exec, minted, deletes>>

Store == INSTANCE AtomicStore

Checkpoint == Store!Checkpoint
Terminal(state) == Store!Terminal(state)
Extends(c, previous) == Store!Extends(c, previous)

ASSUME Bounds == /\ MaxRevision \in Nat
                 /\ MaxDeletes \in Nat
                 /\ Locking \in BOOLEAN
                 /\ StoreDeadlines \in BOOLEAN
                 /\ None \notin Ids
                 /\ None \notin Checkpoint

\* A write: what to commit, the head it was validated against, its progress.
\* "refused" stands for every Conflict and Storage error of a store.
Stages == {"queued", "checked", "ok", "refused", "deadline"}
PendingWrite == [cp : Checkpoint, snap : Checkpoint \cup {None}, stage : Stages]
Settled(w) == w.stage \in {"ok", "refused", "deadline"}

\* `current` is Engine::current (or the checkpoint the host loaded), `next`
\* the commit awaited in persist.
Phases == {"stopped", "waiting", "running"}
Executor == [phase : Phases,
             current : Checkpoint \cup {None},
             next : Checkpoint \cup {None}]

Init ==
    /\ head = None
    /\ commits = {}
    /\ writes = {}
    /\ exec = [e \in Executors |->
                 [phase |-> "stopped", current |-> None, next |-> None]]
    /\ minted = {}
    /\ deletes = 0

-----------------------------------------------------------------------------
\* Executors

Await(x, c) == [phase |-> "waiting", current |-> x.current, next |-> c]
Stop(x) == [phase |-> "stopped", current |-> x.current, next |-> None]

\* Variant: an identity is used again.
PersistWithAnyId(e, c) ==
    /\ c.revision <= MaxRevision
    /\ minted' = minted \cup {c.id}
    /\ writes' = writes \cup {[cp |-> c, snap |-> None, stage |-> "queued"]}
    /\ exec' = [exec EXCEPT ![e] = Await(@, c)]
    /\ UNCHANGED <<head, commits, deletes>>

\* persist: hand the commit to the store and wait for it.
Persist(e, c) ==
    /\ c.id \in Ids \ minted
    /\ c.revision <= MaxRevision
    /\ minted' = minted \cup {c.id}
    /\ writes' = writes \cup {[cp |-> c, snap |-> None, stage |-> "queued"]}
    /\ exec' = [exec EXCEPT ![e] = Await(@, c)]
    /\ UNCHANGED <<head, commits, deletes>>

\* RunStore::load_head by the host, which then holds that checkpoint.
LoadHead(e) ==
    /\ exec[e].phase = "stopped"
    /\ head # None
    /\ exec' = [exec EXCEPT ![e].current = head]
    /\ UNCHANGED <<head, commits, writes, minted, deletes>>

\* Runtime::start and the Start arm of checkpoint::initial.
Start(e) ==
    /\ exec[e].phase = "stopped"
    /\ exec[e].current = None
    /\ \E i \in Ids : Persist(e, [id |-> i, parent |-> None, revision |-> 0,
                                  state |-> "Running", fact |-> "Started"])

\* Runtime::continue_from / resume and the Recover arm of checkpoint::initial.
\* The host may hold a head that is stale by now.
Attach(e) ==
    /\ exec[e].phase = "stopped"
    /\ exec[e].current # None
    /\ ~Terminal(exec[e].current.state)
    /\ \E i \in Ids : Persist(e, [id |-> i, parent |-> exec[e].current.id,
                                  revision |-> exec[e].current.revision + 1,
                                  state |-> "Running", fact |-> "Attached"])

\* Engine::commit: any later checkpoint of the run.
Commit(e, state) ==
    /\ exec[e].phase = "running"
    /\ \E i \in Ids : Persist(e, [id |-> i, parent |-> exec[e].current.id,
                                  revision |-> exec[e].current.revision + 1,
                                  state |-> state, fact |-> "Progress"])

Progress(e) == \E state \in {"Running", "Suspended", "Completed"} : Commit(e, state)

\* The result of a write reaches the executor that waits for it.
Result(e, w) ==
    /\ exec[e].phase = "waiting"
    /\ exec[e].next = w.cp
    /\ Settled(w)

\* Variant: any answer of the store counts as success.
AcceptedUnread(e) == \E w \in writes :
    /\ Result(e, w)
    /\ exec' = [exec EXCEPT ![e] =
                  [phase |-> IF w.cp.state = "Running" THEN "running" ELSE "stopped",
                   current |-> w.cp, next |-> None]]
    /\ writes' = writes \ {w}
    /\ UNCHANGED <<head, commits, minted, deletes>>

\* persist returns Ok: the checkpoint is current; Engine::run goes on while
\* its state is active.
Accepted(e) == \E w \in writes :
    /\ Result(e, w)
    /\ w.stage = "ok"
    /\ exec' = [exec EXCEPT ![e] =
                  [phase |-> IF w.cp.state = "Running" THEN "running" ELSE "stopped",
                   current |-> w.cp, next |-> None]]
    /\ writes' = writes \ {w}
    /\ UNCHANGED <<head, commits, minted, deletes>>

\* settle: a Storage or Conflict error ends the execution with the last known
\* checkpoint; so does every error of the first commit (execute).
Refused(e) == \E w \in writes :
    /\ Result(e, w)
    /\ \/ w.stage = "refused"
       \/ w.stage = "deadline" /\ w.cp.fact # "Progress"
    /\ exec' = [exec EXCEPT ![e] = Stop(@)]
    /\ writes' = writes \ {w}
    /\ UNCHANGED <<head, commits, minted, deletes>>

\* settle: Error::Deadline, also when a store returns it for the commit
\* budget, commits State::Limited.
SettleDeadline(e) == \E w \in writes, i \in Ids \ minted :
    LET c == [id |-> i, parent |-> exec[e].current.id,
              revision |-> exec[e].current.revision + 1,
              state |-> "Limited", fact |-> "Progress"]
    IN  /\ Result(e, w)
        /\ w.stage = "deadline"
        /\ w.cp.fact = "Progress"
        /\ w.cp.state # "Limited"
        /\ exec' = [exec EXCEPT ![e] = Await(@, c)]
        /\ writes' = (writes \ {w}) \cup
                        {[cp |-> c, snap |-> None, stage |-> "queued"]}
        /\ minted' = minted \cup {i}
        /\ UNCHANGED <<head, commits, deletes>>

\* The commit of settle fails as well: RunError.
SettleFailed(e) == \E w \in writes :
    /\ Result(e, w)
    /\ w.stage = "deadline"
    /\ w.cp.fact = "Progress"
    /\ w.cp.state = "Limited"
    /\ exec' = [exec EXCEPT ![e] = Stop(@)]
    /\ writes' = writes \ {w}
    /\ UNCHANGED <<head, commits, minted, deletes>>

\* persist: the commit budget passes, or the process dies.  The write stays
\* with the store.
Abandon(e) ==
    /\ exec[e].phase = "waiting"
    /\ exec' = [exec EXCEPT ![e] = Stop(@)]
    /\ UNCHANGED <<head, commits, writes, minted, deletes>>

\* The process dies between commits.
Crash(e) ==
    /\ exec[e].phase = "running"
    /\ exec' = [exec EXCEPT ![e] = Stop(@)]
    /\ UNCHANGED <<head, commits, writes, minted, deletes>>

-----------------------------------------------------------------------------
\* The store

Move(w, stage, snap) ==
    writes' = (writes \ {w}) \cup {[cp |-> w.cp, snap |-> snap, stage |-> stage]}

\* check_deadline: the store gives the write up.
Expire(w) ==
    /\ StoreDeadlines
    /\ w.stage \in {"queued", "checked"}
    /\ Move(w, "deadline", w.snap)
    /\ UNCHANGED <<head, commits, exec, minted, deletes>>

\* Variant: what was read is not validated against.
ReadUnvalidated(w) ==
    /\ ~Locking
    /\ w.stage = "queued"
    /\ Move(w, "checked", head)
    /\ UNCHANGED <<head, commits, exec, minted, deletes>>

\* The first read: validate_against the head that was read.
Read(w) ==
    /\ ~Locking
    /\ w.stage = "queued"
    /\ Move(w, IF Extends(w.cp, head) THEN "checked" ELSE "refused", head)
    /\ UNCHANGED <<head, commits, exec, minted, deletes>>

\* The write itself; on success the new head and its identity are durable.
Install(w, success, snap) ==
    /\ Move(w, IF success THEN "ok" ELSE "refused", snap)
    /\ head' = IF success THEN w.cp ELSE head
    /\ commits' = IF success THEN commits \cup {w.cp} ELSE commits
    /\ UNCHANGED <<exec, minted, deletes>>

\* Variant: an unconditional write.
AnyRevision(snap) == TRUE

\* The condition of MySQL's UPDATE and of the Redis script: the revision only.
SameRevision(snap) ==
    IF snap = None THEN head = None
                   ELSE head # None /\ head.revision = snap.revision

Land(w) ==
    /\ ~Locking
    /\ w.stage = "checked"
    /\ Install(w, SameRevision(w.snap), w.snap)

\* Variant: only the revision is validated.
WriteByRevision(w) ==
    /\ Locking
    /\ w.stage = "queued"
    /\ Install(w, SameRevision(IF w.cp.revision = 0 THEN None
                               ELSE [w.cp EXCEPT !.revision = @ - 1]), head)

\* Memory and SQLite: read, validation and write are one step.
ReadAndWrite(w) ==
    /\ Locking
    /\ w.stage = "queued"
    /\ Install(w, Extends(w.cp, head), head)

\* A finished write whose caller is gone.
Forget(w) ==
    /\ Settled(w)
    /\ \A e \in Executors : ~Result(e, w)
    /\ writes' = writes \ {w}
    /\ UNCHANGED <<head, commits, exec, minted, deletes>>

\* Variant: the commit identities outlive the head.
DeleteHead ==
    /\ deletes < MaxDeletes
    /\ \A e \in Executors : exec[e].phase = "stopped"
    /\ head' = None
    /\ exec' = [e \in Executors |->
                  [phase |-> "stopped", current |-> None, next |-> None]]
    /\ deletes' = deletes + 1
    /\ UNCHANGED <<writes, minted, commits>>

\* RunStore::delete by the host, which keeps no executor of the run alive.
\* Writes those executors gave up on may still be inside the store.
Delete ==
    /\ deletes < MaxDeletes
    /\ \A e \in Executors : exec[e].phase = "stopped"
    /\ head' = None
    /\ commits' = {}
    /\ exec' = [e \in Executors |->
                  [phase |-> "stopped", current |-> None, next |-> None]]
    /\ deletes' = deletes + 1
    /\ UNCHANGED <<writes, minted>>

-----------------------------------------------------------------------------
ExecutorStep(e) ==
    \/ LoadHead(e) \/ Start(e) \/ Attach(e) \/ Progress(e)
    \/ Accepted(e) \/ Refused(e) \/ SettleDeadline(e) \/ SettleFailed(e)
    \/ Abandon(e) \/ Crash(e)

StoreStep(w) == Expire(w) \/ Read(w) \/ Land(w) \/ ReadAndWrite(w) \/ Forget(w)

Next ==
    \/ \E e \in Executors : ExecutorStep(e)
    \/ \E w \in writes : StoreStep(w)
    \/ Delete

Spec == Init /\ [][Next]_vars

-----------------------------------------------------------------------------
\* Properties

\* Every variable has its type.
TypeOK ==
    /\ head \in Checkpoint \cup {None}
    /\ commits \subseteq Checkpoint
    /\ writes \subseteq PendingWrite
    /\ exec \in [Executors -> Executor]
    /\ minted \subseteq Ids
    /\ deletes \in 0..MaxDeletes

\* Durable commits form one chain: no two share a revision, each links the
\* commit one revision before it, and the head is the last of them.  Writes
\* of executors that timed out, crashed or lost a race land late and in any
\* order without forking it.
ChainLinked ==
    /\ head = None <=> commits = {}
    /\ head # None => head \in commits
    /\ \A c, d \in commits : c.revision = d.revision => c = d
    /\ \A c \in commits : c.revision <= head.revision
    /\ \A c \in commits : c.revision > 0 =>
          \E d \in commits : d.revision = c.revision - 1 /\ d.id = c.parent

\* An executor works only after its own Attached or Started checkpoint is
\* durable, and no two executors ever work from the same checkpoint: the
\* loser of the attach race starts nothing.
OneOwner ==
    \A e \in Executors : exec[e].phase = "running" =>
      /\ exec[e].current \in commits
      /\ \A f \in Executors \ {e} :
            exec[f].phase = "running" => exec[f].current # exec[e].current

\* The detailed store implements the atomic one: every durable change is one
\* validated write on top of the head of that very moment, or a delete.
ImplementsAtomicStore == Store!Spec

\* The inductive strengthening.
\* Identities are fresh, and a write is inside the store once and before its
\* identity exists.
FreshIds ==
    /\ \A c \in commits : c.id \in minted
    /\ \A w \in writes : w.cp.id \in minted
    /\ \A v, w \in writes : v.cp.id = w.cp.id => v = w
    /\ \A w \in writes : w.stage \in {"queued", "checked"} =>
          \A c \in commits : c.id # w.cp.id

\* What an optimistic store validated against was the durable head once.
Validated ==
    \A w \in writes : w.stage = "checked" =>
      /\ ~Locking
      /\ Extends(w.cp, w.snap)
      /\ w.snap # None => w.snap \in commits

\* The checkpoint an executor awaits or works from is its own.
Own(x) == CASE x.phase = "waiting" -> x.next
            [] x.phase = "running" -> x.current
            [] OTHER -> None

Owners ==
    /\ \A e \in Executors : exec[e].phase # "stopped" => Own(exec[e]) # None
    /\ \A e \in Executors : Own(exec[e]) # None => Own(exec[e]).id \in minted
    /\ \A e, f \in Executors :
          e # f /\ Own(exec[e]) # None /\ Own(exec[f]) # None
            => Own(exec[e]).id # Own(exec[f]).id
    /\ \A e \in Executors : exec[e].phase = "running" => exec[e].current \in commits
    /\ \A e \in Executors : exec[e].phase = "waiting" /\ exec[e].next.fact # "Started"
                             => exec[e].current # None

\* A successful result that an executor has yet to see is durable.
Reported ==
    \A e \in Executors, w \in writes :
      Result(e, w) /\ w.stage = "ok" => w.cp \in commits

Inv == TypeOK /\ ChainLinked /\ FreshIds /\ Validated /\ Owners /\ Reported
=============================================================================
