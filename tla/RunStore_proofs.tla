--------------------------- MODULE RunStore_proofs ---------------------------
(***************************************************************************)
(* Proofs about RunStore, for any number of executors, identities,         *)
(* revisions and deletes.  A store that locks, or a run that is never      *)
(* deleted, keeps one chain and implements the atomic store.               *)
(***************************************************************************)
EXTENDS RunStore, TLAPS

\* A store that does not lock compares revisions only; that is enough as long
\* as the run is never deleted (run store_deleted_run shows why).
RevisionsIdentify == Locking \/ MaxDeletes = 0

USE Bounds DEF Checkpoint, Terminal, Extends, Store!Checkpoint, Store!Terminal,
               Store!Extends, Store!States, Store!Facts

\* A queued write is well typed.
LEMMA QueuedType ==
  ASSUME NEW c \in Checkpoint
  PROVE  /\ [cp |-> c, snap |-> None, stage |-> "queued"] \in PendingWrite
         /\ c # None
  BY DEF PendingWrite, Stages

\* Submitting a commit under a new identity keeps the invariant.
LEMMA SubmitInv ==
  ASSUME Inv, NEW e \in Executors, NEW c \in Checkpoint,
         c.id \in Ids \ minted,
         c.fact # "Started" => exec[e].current # None,
         NEW W \in SUBSET writes,
         minted' = minted \cup {c.id},
         writes' = W \cup {[cp |-> c, snap |-> None, stage |-> "queued"]},
         exec' = [exec EXCEPT ![e] = Await(@, c)],
         UNCHANGED <<head, commits, deletes>>
  PROVE  Inv'
<1> DEFINE q == [cp |-> c, snap |-> None, stage |-> "queued"]
<1> q \in PendingWrite /\ c # None /\ q.cp = c /\ q.stage = "queued"
  BY QueuedType
<1> c.id \in Ids /\ c.id \notin minted
  OBVIOUS
<1>w. writes' = W \cup {q}
  OBVIOUS
<1> HIDE DEF q
<1>1. TypeOK'
  <2>1. exec' \in [Executors -> Executor]
    <3>1. Await(exec[e], c) \in Executor
      BY DEF Inv, TypeOK, Executor, Phases, Await
    <3> QED BY <3>1 DEF Inv, TypeOK
  <2>2. writes' \subseteq PendingWrite
    BY <1>w DEF Inv, TypeOK
  <2> QED BY <2>1, <2>2 DEF Inv, TypeOK
<1>2. ChainLinked'
  BY DEF Inv, ChainLinked
<1>3. /\ exec'[e].phase = "waiting" /\ exec'[e].next = c
      /\ exec'[e].current = exec[e].current
      /\ \A f \in Executors \ {e} : exec'[f] = exec[f]
  BY DEF Inv, TypeOK, Executor, Await
<1>4. FreshIds'
  BY <1>w DEF Inv, FreshIds
<1>5. Validated'
  BY <1>w DEF Inv, Validated
<1>6. Owners'
  <2>1. Own(exec'[e]) = c
    BY <1>3 DEF Own
  <2>2. \A f \in Executors \ {e} : Own(exec'[f]) = Own(exec[f])
    BY <1>3
  <2>3. \A f \in Executors : exec'[f].phase # "stopped" => Own(exec'[f]) # None
    <3> SUFFICES ASSUME NEW f \in Executors, exec'[f].phase # "stopped"
                 PROVE  Own(exec'[f]) # None
      OBVIOUS
    <3>1. CASE f = e
      BY <3>1, <2>1
    <3>2. CASE f # e
      <4>1. exec'[f] = exec[f]
        BY <3>2, <1>3
      <4> QED BY <4>1 DEF Inv, Owners
    <3> QED BY <3>1, <3>2
  <2>4. \A f \in Executors : Own(exec'[f]) # None => Own(exec'[f]).id \in minted'
    BY <2>1, <2>2 DEF Inv, Owners
  <2>5. \A f, g \in Executors :
          f # g /\ Own(exec'[f]) # None /\ Own(exec'[g]) # None
            => Own(exec'[f]).id # Own(exec'[g]).id
    BY <2>1, <2>2 DEF Inv, Owners
  <2>6. \A f \in Executors : exec'[f].phase = "running" => exec'[f].current \in commits'
    <3> SUFFICES ASSUME NEW f \in Executors, exec'[f].phase = "running"
                 PROVE  exec'[f].current \in commits
      OBVIOUS
    <3>1. f # e
      BY <1>3
    <3> QED BY <3>1, <1>3 DEF Inv, Owners
  <2>7. \A f \in Executors : exec'[f].phase = "waiting" /\ exec'[f].next.fact # "Started"
                             => exec'[f].current # None
    BY <1>3 DEF Inv, Owners
  <2> QED BY <2>3, <2>4, <2>5, <2>6, <2>7 DEF Owners
<1>7. Reported'
  <2> SUFFICES ASSUME NEW f \in Executors, NEW w \in writes',
                      Result(f, w)', w.stage = "ok"
               PROVE  w.cp \in commits
    BY DEF Reported
  <2>1. w \in writes
    BY <1>w
  <2>2. f # e
    <3>1. w.cp.id # c.id
      BY <2>1 DEF Inv, FreshIds
    <3> QED BY <3>1, <1>3 DEF Result
  <2>3. Result(f, w)
    BY <2>2, <1>3 DEF Result, Settled
  <2> QED BY <2>1, <2>3 DEF Inv, Reported
<1>8. QED
  BY <1>1, <1>2, <1>4, <1>5, <1>6, <1>7 DEF Inv

\* Ending an execution, and a store forgetting finished writes, is harmless.
LEMMA StopInv ==
  ASSUME Inv, NEW e \in Executors, NEW W \in SUBSET writes,
         writes' = W,
         exec' = [exec EXCEPT ![e] = Stop(@)],
         UNCHANGED <<head, commits, minted, deletes>>
  PROVE  Inv'
<1>1. Stop(exec[e]) \in Executor
  BY DEF Inv, TypeOK, Executor, Phases, Stop
<1>2. TypeOK'
  BY <1>1 DEF Inv, TypeOK
<1>3. exec'[e].phase = "stopped" /\ \A f \in Executors \ {e} : exec'[f] = exec[f]
  BY DEF Inv, TypeOK, Stop
<1>4. ChainLinked' /\ FreshIds' /\ Validated'
  BY DEF Inv, ChainLinked, FreshIds, Validated
<1>5. Owners'
  <2>1. Own(exec'[e]) = None
    BY <1>3 DEF Own
  <2> QED BY <2>1, <1>3 DEF Inv, Owners
<1>6. Reported'
  BY <1>3 DEF Inv, Reported, Result, Settled
<1> QED BY <1>2, <1>4, <1>5, <1>6 DEF Inv

\* An executor that takes its successful result works from its own commit.
LEMMA AcceptedInv ==
  ASSUME Inv, NEW e \in Executors, Accepted(e)
  PROVE  Inv'
<1>1. PICK w \in writes : /\ Result(e, w)
                          /\ w.stage = "ok"
                          /\ exec' = [exec EXCEPT ![e] =
                               [phase |-> IF w.cp.state = "Running" THEN "running" ELSE "stopped",
                                current |-> w.cp, next |-> None]]
                          /\ writes' = writes \ {w}
                          /\ UNCHANGED <<head, commits, minted, deletes>>
  BY DEF Accepted
<1> DEFINE x == [phase |-> IF w.cp.state = "Running" THEN "running" ELSE "stopped",
                 current |-> w.cp, next |-> None]
<1>2. x \in Executor /\ w.cp \in Checkpoint
  BY <1>1 DEF Inv, TypeOK, Executor, Phases, PendingWrite
<1>3. exec'[e] = x /\ \A f \in Executors \ {e} : exec'[f] = exec[f]
  BY <1>1 DEF Inv, TypeOK
<1>4. TypeOK'
  BY <1>1, <1>2 DEF Inv, TypeOK
<1>5. ChainLinked' /\ FreshIds' /\ Validated'
  BY <1>1 DEF Inv, ChainLinked, FreshIds, Validated
<1>6. w.cp \in commits /\ w.cp # None
  BY <1>1, <1>2 DEF Inv, Reported
<1>7. Own(exec'[e]) \in {None, w.cp} /\ (exec'[e].phase # "stopped" => Own(exec'[e]) = w.cp)
  BY <1>3 DEF Own
<1>8. Own(exec[e]) = w.cp
  BY <1>1 DEF Result, Own
<1>9. Owners'
  <2>1. \A f \in Executors : exec'[f].phase # "stopped" => Own(exec'[f]) # None
    BY <1>3, <1>6, <1>7 DEF Inv, Owners
  <2>2. \A f \in Executors : Own(exec'[f]) # None => Own(exec'[f]) = Own(exec[f])
    BY <1>3, <1>7, <1>8
  <2>3. \A f \in Executors : exec'[f].phase = "running" => exec'[f].current \in commits'
    <3> SUFFICES ASSUME NEW f \in Executors, exec'[f].phase = "running"
                 PROVE  exec'[f].current \in commits
      BY <1>1
    <3>1. CASE f = e
      BY <3>1, <1>3, <1>6
    <3>2. CASE f # e
      BY <3>2, <1>3 DEF Inv, Owners
    <3> QED BY <3>1, <3>2
  <2>4. \A f \in Executors : exec'[f].phase = "waiting" /\ exec'[f].next.fact # "Started"
                             => exec'[f].current # None
    <3> SUFFICES ASSUME NEW f \in Executors, exec'[f].phase = "waiting",
                        exec'[f].next.fact # "Started"
                 PROVE  exec'[f].current # None
      OBVIOUS
    <3>1. f # e
      BY <1>3
    <3> QED BY <3>1, <1>3 DEF Inv, Owners
  <2> QED BY <1>1, <2>1, <2>2, <2>3, <2>4 DEF Inv, Owners
<1>10. Reported'
  <2> SUFFICES ASSUME NEW f \in Executors, NEW v \in writes',
                      Result(f, v)', v.stage = "ok"
               PROVE  v.cp \in commits
    BY <1>1 DEF Reported
  <2>1. f # e
    BY <1>3 DEF Result
  <2>2. Result(f, v) /\ v \in writes
    BY <2>1, <1>1, <1>3 DEF Result, Settled
  <2> QED BY <2>2 DEF Inv, Reported
<1> QED BY <1>4, <1>5, <1>9, <1>10 DEF Inv

\* Progress of a write inside the store that writes nothing.
LEMMA MoveInv ==
  ASSUME Inv, NEW w \in writes, NEW stage \in Stages, NEW snap \in Checkpoint \cup {None},
         w.stage \in {"queued", "checked"}, stage # "ok",
         stage = "checked" => /\ ~Locking
                              /\ Extends(w.cp, snap)
                              /\ snap # None => snap \in commits,
         Move(w, stage, snap),
         UNCHANGED <<head, commits, exec, minted, deletes>>
  PROVE  Inv'
<1> DEFINE m == [cp |-> w.cp, snap |-> snap, stage |-> stage]
<1>1. m \in PendingWrite /\ m.cp = w.cp /\ m.stage = stage /\ m.snap = snap
  BY DEF Inv, TypeOK, PendingWrite
<1>2. writes' = (writes \ {w}) \cup {m}
  BY DEF Move
<1> HIDE DEF m
<1>3. TypeOK' /\ ChainLinked' /\ Owners'
  BY <1>1, <1>2 DEF Inv, TypeOK, ChainLinked, Owners
<1>4. FreshIds'
  BY <1>1, <1>2 DEF Inv, FreshIds
<1>5. Validated'
  BY <1>1, <1>2 DEF Inv, Validated
<1>6. Reported'
  BY <1>1, <1>2 DEF Inv, Reported, Result, Settled
<1> QED BY <1>3, <1>4, <1>5, <1>6 DEF Inv

\* A write on top of the durable head, under an identity of its own, extends
\* the chain.
LEMMA InstallInv ==
  ASSUME Inv, NEW w \in writes, NEW snap \in Checkpoint \cup {None},
         w.stage \in {"queued", "checked"},
         Extends(w.cp, head),
         Install(w, TRUE, snap)
  PROVE  Inv'
<1> DEFINE m == [cp |-> w.cp, snap |-> snap, stage |-> "ok"]
<1>1. m \in PendingWrite /\ m.cp = w.cp /\ m.stage = "ok" /\ w.cp \in Checkpoint
  BY DEF Inv, TypeOK, PendingWrite, Stages
<1>2. /\ writes' = (writes \ {w}) \cup {m}
      /\ head' = w.cp /\ commits' = commits \cup {w.cp}
      /\ UNCHANGED <<exec, minted, deletes>>
  BY DEF Move, Install
<1> HIDE DEF m
<1>3. TypeOK'
  BY <1>1, <1>2 DEF Inv, TypeOK
<1>4. ChainLinked'
  <2>1. CASE head = None
    BY <2>1, <1>1, <1>2 DEF Inv, ChainLinked
  <2>2. CASE head # None
    <3>1. head \in commits /\ \A c \in commits : c.revision <= head.revision /\ c.revision \in Nat
      BY <2>2 DEF Inv, TypeOK, ChainLinked
    <3>2. w.cp.revision = head.revision + 1 /\ w.cp.parent = head.id
      BY <2>2
    <3>3. \A c \in commits : c.revision < w.cp.revision
      BY <3>1, <3>2, <1>1, <2>2 DEF Inv, TypeOK
    <3>4. w.cp.revision - 1 = head.revision
      BY <3>1, <3>2
    <3>5. \A c, d \in commits' : c.revision = d.revision => c = d
      BY <3>3, <1>1, <1>2, <3>1 DEF Inv, ChainLinked
    <3>6. \A c \in commits' : c.revision <= head'.revision
      BY <3>3, <3>1, <1>1, <1>2
    <3>7. \A c \in commits' : c.revision > 0 =>
             \E d \in commits' : d.revision = c.revision - 1 /\ d.id = c.parent
      BY <3>1, <3>2, <3>4, <1>2 DEF Inv, ChainLinked
    <3> QED BY <3>5, <3>6, <3>7, <1>1, <1>2 DEF ChainLinked
  <2> QED BY <2>1, <2>2
<1>5. FreshIds'
  BY <1>1, <1>2 DEF Inv, FreshIds
<1>6. Validated'
  BY <1>1, <1>2 DEF Inv, Validated
<1>7. Owners'
  BY <1>2 DEF Inv, Owners
<1>8. Reported'
  BY <1>1, <1>2 DEF Inv, Reported, Result, Settled
<1> QED BY <1>3, <1>4, <1>5, <1>6, <1>7, <1>8 DEF Inv

\* The write that succeeds does so on top of the durable head: with a lock by
\* construction, without one because revisions identify commits.
LEMMA LandsOnHead ==
  ASSUME Inv, NEW w \in writes, w.stage = "checked", SameRevision(w.snap)
  PROVE  Extends(w.cp, head)
<1>1. Extends(w.cp, w.snap) /\ (w.snap # None => w.snap \in commits)
  BY DEF Inv, Validated
<1>2. CASE w.snap = None
  BY <1>1, <1>2 DEF SameRevision
<1>3. CASE w.snap # None
  <2>1. head # None /\ head.revision = w.snap.revision /\ head \in commits
    BY <1>3 DEF SameRevision, Inv, ChainLinked
  <2>2. head = w.snap
    BY <2>1, <1>1, <1>3 DEF Inv, ChainLinked
  <2> QED BY <1>1, <2>2
<1> QED BY <1>2, <1>3

\* RunStore::delete empties the store while no executor is alive.  A write
\* still inside the store was never validated: this store locks.
LEMMA DeleteInv ==
  ASSUME Inv, RevisionsIdentify, Delete
  PROVE  Inv'
<1> DEFINE x == [phase |-> "stopped", current |-> None, next |-> None]
<1>1. /\ head' = None /\ commits' = {} /\ exec' = [f \in Executors |-> x]
      /\ deletes' = deletes + 1 /\ deletes < MaxDeletes
      /\ UNCHANGED <<writes, minted>>
  BY DEF Delete
<1>2. x \in Executor
  BY DEF Executor, Phases
<1>3. TypeOK'
  BY <1>1, <1>2 DEF Inv, TypeOK
<1>4. Locking
  BY <1>1 DEF Inv, TypeOK, RevisionsIdentify
<1>5. \A f \in Executors : exec'[f].phase = "stopped" /\ Own(exec'[f]) = None
  BY <1>1 DEF Own
<1>6. ChainLinked' /\ FreshIds' /\ Validated'
  BY <1>1, <1>4 DEF Inv, ChainLinked, FreshIds, Validated
<1>7. Owners' /\ Reported'
  BY <1>1, <1>5 DEF Owners, Reported, Result
<1> QED BY <1>3, <1>6, <1>7 DEF Inv

\* One case per action.
LEMMA NextInv ==
  ASSUME RevisionsIdentify, Inv, [Next]_vars
  PROVE  Inv'
<1>1. ASSUME NEW e \in Executors, LoadHead(e)
      PROVE  Inv'
  <2> DEFINE x == [exec[e] EXCEPT !.current = head]
  <2>1. exec' = [exec EXCEPT ![e] = x] /\ exec[e].phase = "stopped"
        /\ UNCHANGED <<head, commits, writes, minted, deletes>>
    BY <1>1 DEF LoadHead, Inv, TypeOK
  <2>2. x \in Executor /\ x.phase = "stopped"
    BY <2>1 DEF Inv, TypeOK, Executor
  <2>3. exec'[e].phase = "stopped" /\ \A f \in Executors \ {e} : exec'[f] = exec[f]
    BY <2>1, <2>2 DEF Inv, TypeOK
  <2>4. TypeOK' /\ ChainLinked' /\ FreshIds' /\ Validated'
    BY <2>1, <2>2 DEF Inv, TypeOK, ChainLinked, FreshIds, Validated
  <2>5. Own(exec'[e]) = None
    BY <2>3 DEF Own
  <2>6. Owners'
    BY <2>1, <2>3, <2>5 DEF Inv, Owners
  <2>7. Reported'
    BY <2>1, <2>3 DEF Inv, Reported, Result, Settled
  <2> QED BY <2>4, <2>6, <2>7 DEF Inv
<1>2. ASSUME NEW e \in Executors, NEW c \in Checkpoint, Persist(e, c),
             c.fact # "Started" => exec[e].current # None
      PROVE  Inv'
  BY <1>2, SubmitInv DEF Persist
<1>3. ASSUME NEW e \in Executors, Start(e) \/ Attach(e) \/ Progress(e)
      PROVE  Inv'
  <2>1. exec[e].current # None => exec[e].current.id \in Ids
                                  /\ exec[e].current.revision + 1 \in Nat
    BY DEF Inv, TypeOK, Executor
  <2>2. exec[e].phase = "running" => exec[e].current # None
    <3> SUFFICES ASSUME exec[e].phase = "running"
                 PROVE  exec[e].current # None
      OBVIOUS
    <3>1. exec[e].current \in commits
      BY DEF Inv, Owners
    <3> QED BY <3>1 DEF Inv, TypeOK
  <2>3. CASE Start(e)
    BY <2>3, <1>2 DEF Start
  <2>4. CASE Attach(e)
    BY <2>4, <2>1, <1>2 DEF Attach
  <2>5. CASE Progress(e)
    BY <2>5, <2>1, <2>2, <1>2 DEF Progress, Commit
  <2> QED BY <1>3, <2>3, <2>4, <2>5
<1>4. ASSUME NEW e \in Executors, SettleDeadline(e)
      PROVE  Inv'
  <2>1. PICK w \in writes, i \in Ids \ minted :
          LET c == [id |-> i, parent |-> exec[e].current.id,
                    revision |-> exec[e].current.revision + 1,
                    state |-> "Limited", fact |-> "Progress"]
          IN  /\ Result(e, w)
              /\ w.cp.fact = "Progress"
              /\ exec' = [exec EXCEPT ![e] = Await(@, c)]
              /\ writes' = (writes \ {w}) \cup
                              {[cp |-> c, snap |-> None, stage |-> "queued"]}
              /\ minted' = minted \cup {i}
              /\ UNCHANGED <<head, commits, deletes>>
    BY <1>4 DEF SettleDeadline
  <2>2. exec[e].current # None
    BY <2>1 DEF Result, Inv, Owners, TypeOK, PendingWrite
  <2>3. exec[e].current.id \in Ids /\ exec[e].current.revision + 1 \in Nat
    BY <2>2 DEF Inv, TypeOK, Executor
  <2> DEFINE c == [id |-> i, parent |-> exec[e].current.id,
                   revision |-> exec[e].current.revision + 1,
                   state |-> "Limited", fact |-> "Progress"]
  <2>4. c \in Checkpoint /\ c.id = i
    BY <2>3
  <2>5. /\ exec' = [exec EXCEPT ![e] = Await(@, c)]
        /\ writes' = (writes \ {w}) \cup {[cp |-> c, snap |-> None, stage |-> "queued"]}
        /\ minted' = minted \cup {c.id}
        /\ UNCHANGED <<head, commits, deletes>>
    BY <2>1
  <2>6. writes \ {w} \in SUBSET writes /\ c.id \in Ids \ minted
    BY <2>4
  <2> HIDE DEF c
  <2> QED BY <2>2, <2>4, <2>5, <2>6, SubmitInv
<1>5. ASSUME NEW e \in Executors, Accepted(e)
      PROVE  Inv'
  BY <1>5, AcceptedInv
<1>6. ASSUME NEW e \in Executors,
             Refused(e) \/ SettleFailed(e) \/ Abandon(e) \/ Crash(e)
      PROVE  Inv'
  <2>1. exec' = [exec EXCEPT ![e] = Stop(@)] /\ writes' \in SUBSET writes
        /\ UNCHANGED <<head, commits, minted, deletes>>
    BY <1>6 DEF Refused, SettleFailed, Abandon, Crash
  <2> QED BY <2>1, StopInv
<1>7. ASSUME NEW w \in writes, Expire(w)
      PROVE  Inv'
  BY <1>7, MoveInv DEF Expire, Stages, Inv, TypeOK, PendingWrite
<1>8. ASSUME NEW w \in writes, Read(w)
      PROVE  Inv'
  <2>1. w.cp \in Checkpoint /\ head \in Checkpoint \cup {None}
        /\ (head # None => head \in commits)
    BY DEF Inv, TypeOK, PendingWrite, ChainLinked
  <2>2. CASE Extends(w.cp, head)
    BY <1>8, <2>1, <2>2, MoveInv DEF Read, Stages
  <2>3. CASE ~Extends(w.cp, head)
    BY <1>8, <2>1, <2>3, MoveInv DEF Read, Stages
  <2> QED BY <2>2, <2>3
<1>9. ASSUME NEW w \in writes, Land(w)
      PROVE  Inv'
  <2>1. w.snap \in Checkpoint \cup {None}
    BY DEF Inv, TypeOK, PendingWrite
  <2>2. CASE SameRevision(w.snap)
    BY <1>9, <2>1, <2>2, LandsOnHead, InstallInv DEF Land, Install
  <2>3. CASE ~SameRevision(w.snap)
    BY <1>9, <2>1, <2>3, MoveInv DEF Land, Install, Stages
  <2> QED BY <2>2, <2>3
<1>10. ASSUME NEW w \in writes, ReadAndWrite(w)
       PROVE  Inv'
  <2>1. head \in Checkpoint \cup {None}
    BY DEF Inv, TypeOK
  <2>2. CASE Extends(w.cp, head)
    BY <1>10, <2>1, <2>2, InstallInv DEF ReadAndWrite, Install
  <2>3. CASE ~Extends(w.cp, head)
    BY <1>10, <2>1, <2>3, MoveInv DEF ReadAndWrite, Install, Stages
  <2> QED BY <2>2, <2>3
<1>11. ASSUME NEW w \in writes, Forget(w)
       PROVE  Inv'
  BY <1>11 DEF Forget, Inv, TypeOK, ChainLinked, FreshIds, Validated, Owners,
               Reported, Result, Settled
<1>12. CASE Delete
  BY <1>12, DeleteInv
<1>13. CASE UNCHANGED vars
  BY <1>13 DEF vars, Inv, TypeOK, ChainLinked, FreshIds, Validated, Owners,
               Reported, Result, Settled
<1> QED
  BY <1>1, <1>3, <1>4, <1>5, <1>6, <1>7, <1>8, <1>9, <1>10, <1>11, <1>12, <1>13
     DEF Next, ExecutorStep, StoreStep

\* The initial state satisfies the invariant.
LEMMA InitInv == Init => Inv
<1> SUFFICES ASSUME Init PROVE Inv
  OBVIOUS
<1>1. \A e \in Executors : exec[e].phase = "stopped" /\ Own(exec[e]) = None
  BY DEF Init, Own
<1>2. TypeOK
  BY DEF Init, TypeOK, Executor, Phases
<1> QED
  BY <1>1, <1>2 DEF Init, Inv, ChainLinked, FreshIds, Validated, Owners, Reported

\* The inductive invariant holds in every state of every execution.
THEOREM Invariance == RevisionsIdentify => (Spec => []Inv)
<1> SUFFICES ASSUME RevisionsIdentify PROVE Spec => []Inv
  OBVIOUS
<1>1. Init => Inv
  BY InitInv
<1>2. Inv /\ [Next]_vars => Inv'
  BY NextInv
<1> QED BY <1>1, <1>2, PTL DEF Spec

\* Every durable commit links its predecessor and none shares a revision with
\* another, whatever the interleaving of executors, timeouts and late writes.
THEOREM ChainIsLinear == RevisionsIdentify => (Spec => []ChainLinked)
<1>1. Inv => ChainLinked
  BY DEF Inv
<1> QED BY <1>1, Invariance, PTL

\* An executor works only from a durable checkpoint that is its own: a CAS
\* loser starts nothing.
THEOREM OwnersAreUnique == RevisionsIdentify => (Spec => []OneOwner)
<1>1. Inv => OneOwner
  <2> SUFFICES ASSUME Inv, NEW e \in Executors, exec[e].phase = "running"
               PROVE  /\ exec[e].current \in commits
                      /\ \A f \in Executors \ {e} : exec[f].phase = "running" =>
                           exec[f].current # exec[e].current
    BY DEF OneOwner
  <2>1. exec[e].current \in commits
    BY DEF Inv, Owners
  <2>2. ASSUME NEW f \in Executors \ {e}, exec[f].phase = "running"
        PROVE  exec[f].current # exec[e].current
    <3>1. Own(exec[e]) = exec[e].current /\ Own(exec[f]) = exec[f].current
      BY <2>2 DEF Own
    <3>2. Own(exec[e]) # None /\ Own(exec[f]) # None
      BY <2>2 DEF Inv, Owners
    <3> QED BY <3>1, <3>2, <2>2 DEF Inv, Owners
  <2> QED BY <2>1, <2>2
<1> QED BY <1>1, Invariance, PTL

\* Every step of the detailed store is a write on top of the current head, a
\* delete or a stutter of the atomic store.
LEMMA StepRefines ==
  ASSUME RevisionsIdentify, Inv, Inv', [Next]_vars
  PROVE  [Store!Next]_(Store!vars)
<1>1. ASSUME NEW w \in writes, NEW snap, Install(w, TRUE, snap),
             w.stage \in {"queued", "checked"}, Extends(w.cp, head)
      PROVE  Store!Write
  <2>1. w.cp \in Checkpoint /\ \A c \in commits : c.id # w.cp.id
    BY <1>1 DEF Inv, TypeOK, PendingWrite, FreshIds
  <2> QED BY <1>1, <2>1 DEF Store!Write, Install
<1>2. ASSUME NEW w \in writes, Land(w)
      PROVE  Store!Write \/ UNCHANGED <<head, commits>>
  <2>1. CASE SameRevision(w.snap)
    BY <1>2, <2>1, <1>1, LandsOnHead DEF Land
  <2>2. CASE ~SameRevision(w.snap)
    BY <1>2, <2>2 DEF Land, Install
  <2> QED BY <2>1, <2>2
<1>3. ASSUME NEW w \in writes, ReadAndWrite(w)
      PROVE  Store!Write \/ UNCHANGED <<head, commits>>
  <2>1. CASE Extends(w.cp, head)
    BY <1>3, <2>1, <1>1 DEF ReadAndWrite
  <2>2. CASE ~Extends(w.cp, head)
    BY <1>3, <2>2 DEF ReadAndWrite, Install
  <2> QED BY <2>1, <2>2
<1>4. ASSUME NEW e \in Executors, ExecutorStep(e)
      PROVE  UNCHANGED <<head, commits>>
  BY <1>4 DEF ExecutorStep, LoadHead, Start, Attach, Progress, Commit, Persist, Accepted,
              Refused, SettleDeadline, SettleFailed, Abandon, Crash
<1>5. ASSUME NEW w \in writes, Expire(w) \/ Read(w) \/ Forget(w)
      PROVE  UNCHANGED <<head, commits>>
  BY <1>5 DEF Expire, Read, Forget
<1>6. Delete => Store!Delete
  BY DEF Delete, Store!Delete
<1>7. UNCHANGED vars => UNCHANGED <<head, commits>>
  BY DEF vars
<1> QED
  BY <1>2, <1>3, <1>4, <1>5, <1>6, <1>7 DEF Next, StoreStep, Store!Next, Store!vars

\* The stores implement the atomic store: optimistic validation outside any
\* lock is as good as a lock, as long as the run is never deleted.
THEOREM Refinement == RevisionsIdentify => (Spec => ImplementsAtomicStore)
<1> SUFFICES ASSUME RevisionsIdentify PROVE Spec => ImplementsAtomicStore
  OBVIOUS
<1>1. Init => Store!Init
  BY DEF Init, Store!Init
<1>2. Inv /\ Inv' /\ [Next]_vars => [Store!Next]_(Store!vars)
  BY StepRefines
<1> QED BY <1>1, <1>2, Invariance, PTL DEF Spec, ImplementsAtomicStore, Store!Spec
=============================================================================
