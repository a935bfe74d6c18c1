----------------------------- MODULE LocalRun_flow -----------------------------
(***************************************************************************)
(* Engine and session never disagree.  The outbox is the pipeline: its     *)
(* first commands are acknowledged by events on their way to the engine,   *)
(* the next ones are in the command queue, the next in the batch, and the  *)
(* rest is not sent yet.                                                   *)
(***************************************************************************)
EXTENDS LocalRun_refinement

-----------------------------------------------------------------------------
\* Numbers that go on without a gap

\* The numbers of the places in S are lo + 1, lo + 2, ..., hi, in that order.
Continues(S, number, lo, hi) ==
    /\ lo <= hi
    /\ \A i \in S : number[i] \in (lo + 1)..hi
    /\ \A n \in (lo + 1)..hi : \E i \in S : number[i] = n
    /\ \A i, j \in S : i < j => number[i] < number[j]

IsSubmitted(command) == command.intent = "Append" /\ command.source = "Submitted"
IsProfile(command) == command.intent = "Profile"
Kind(command) == IF IsSubmitted(command) THEN "Submitted" ELSE command.intent
Revising == {"Append", "Submitted", "Replace"}
Profiling == {"Profile"}
Submitting == {"Submitted"}

\* The commands of those kinds behind place k, and what they are numbered by.
Behind(c, k, kinds) == {i \in DOMAIN c.commands : i > k /\ Kind(c.commands[i]) \in kinds}
NumbersOf(c) == [i \in DOMAIN c.commands |-> c.commands[i].n]
InputsOf(c) == [i \in DOMAIN c.commands |->
                  IF IsAppend(c.commands[i]) THEN c.commands[i].pos ELSE 0]

\* The commands behind place k bring the revision, the profile or the input
\* position on from lo.
RevisionsFrom(c, k, lo) == Continues(Behind(c, k, Revising), NumbersOf(c), lo, c.revision)
ProfilesFrom(c, k, lo, hi) == Continues(Behind(c, k, Profiling), NumbersOf(c), lo, hi)
InputsFrom(c, k, lo) ==
    /\ Continues(Behind(c, k, Submitting), InputsOf(c), lo, c.input)
    /\ \A i \in DOMAIN c.commands : i > k /\ IsAppend(c.commands[i]) => c.commands[i].pos >= lo

-----------------------------------------------------------------------------
\* The outbox of a checkpoint

\* Prepared only when nothing else is pending.
Exclusive(command) == command.intent \in {"Generate", "Replace", "Close"}
\* A message of the user.
IsUser(c, i) == IsSubmitted(c.commands[i]) /\ c.history[c.commands[i].entry].kind = "User"

Distinguished(c) == \A i, j \in DOMAIN c.commands : Id(c.commands[i]) = Id(c.commands[j]) => i = j
Exclusives(c) ==
    \A i \in DOMAIN c.commands :
      /\ Exclusive(c.commands[i]) => i = 1
      /\ c.commands[i].intent \in {"Replace", "Close"} => ~InGeneration(c)
      /\ c.commands[i].intent = "Close" => c.closing /\ ~c.closure
InputsInOrder(c) ==
    /\ \A i \in DOMAIN c.commands : IsAppend(c.commands[i]) => c.commands[i].pos <= c.input
    /\ \A i, j \in DOMAIN c.commands :
          i < j /\ IsAppend(c.commands[i]) /\ IsAppend(c.commands[j]) =>
             /\ c.commands[i].pos <= c.commands[j].pos
             /\ IsSubmitted(c.commands[j]) => c.commands[i].pos < c.commands[j].pos
    /\ \A i \in DOMAIN c.commands : IsSubmitted(c.commands[i])
          => IsInput(c.history[c.commands[i].entry])
Sealing(c) ==
    /\ \A i \in DOMAIN c.commands : c.commands[i].intent = "Seal"
          => c.inputClosed /\ c.commands[i].n <= c.seals
    /\ \A i, j \in DOMAIN c.commands : c.commands[i].intent = "Seal" /\ i < j => ~IsUser(c, j)
\* A Generate carries what the session finds when it gets there.
Requests(c) ==
    \A i \in DOMAIN c.commands : c.commands[i].intent = "Generate" =>
        /\ c.commands[i].n = c.gen /\ c.commands[i].revision = c.ack
        /\ c.commands[i].profile = c.profile /\ c.commands[i].pos = c.covered
        /\ InputsFrom(c, 0, c.covered)

Line(c) ==
    /\ c.failure # "protocol"
    /\ Distinguished(c)
    /\ Exclusives(c)
    /\ InputsInOrder(c)
    /\ \E p \in Nat : InputsFrom(c, 0, p)
    /\ \E t \in Nat : ProfilesFrom(c, 0, c.profile, t)
    /\ Sealing(c)
    /\ Requests(c)

-----------------------------------------------------------------------------
\* What is on its way to the engine

NoEvent == [kind |-> "none"]
Told(item) == IF item.type = "Event" THEN item.body ELSE NoEvent
Arrived(queue) == [i \in 1..Len(queue) |-> Told(queue[i])]
Emissions(s) ==
    IF s.phase = "up"
      THEN (IF s.sending = None THEN <<>> ELSE <<s.sending>>) \o s.controls \o s.finishing
      ELSE <<>>
Flight == Arrived(work) \o Emissions(session)

Responding == {"Started", "Output", "Finished"}
Fitting(c, F) ==
    /\ \A p \in DOMAIN F :
          /\ F[p].kind = "Ready" => ~c.ready /\ F[p].revision = c.ack
          /\ F[p].kind \in Responding => InGeneration(c) /\ F[p].gen = c.gen
          /\ F[p].kind = "Started" => ~c.started
          /\ F[p].kind \in {"Started", "Finished"} => F[p].pos = c.covered
          /\ F[p].kind \in {"Output", "Finished"} =>
                c.started \/ \E q \in DOMAIN F : q < p /\ F[q].kind = "Started"
          /\ F[p].kind = "Closed" => ~c.closure /\ c.closing
          /\ ~c.ready => F[p].kind \in {"none", "Ready"}
    /\ \A p, q \in DOMAIN F : p < q =>
          /\ F[p].kind \in {"Ready", "Started", "Closed"} => F[q].kind # F[p].kind
          /\ F[p].kind = "Finished" => F[q].kind \notin Responding

\* The first k commands of the outbox are acknowledged on their way, in order.
Acks(e, command) == e.kind = "Acknowledged" /\ e.id = Id(command)
Acked(c, F, k) ==
    /\ k <= Len(c.commands)
    /\ \A i \in 1..k : \E p \in DOMAIN F : Acks(F[p], c.commands[i])
    /\ \A p \in DOMAIN F : F[p].kind = "Acknowledged"
          => \E i \in 1..k : Acks(F[p], c.commands[i])
    /\ \A p, q \in DOMAIN F : \A i, j \in 1..k :
          p < q /\ Acks(F[p], c.commands[i]) /\ Acks(F[q], c.commands[j]) => i < j

\* What a command causes is sent behind its acknowledgement.
Waiting(c, F) ==
    \A i \in DOMAIN c.commands :
      /\ c.commands[i].intent = "Generate" =>
            /\ InGeneration(c) /\ ~c.started
            /\ \A p \in DOMAIN F : F[p].kind \in Responding
                  => \E q \in DOMAIN F : q < p /\ Acks(F[q], c.commands[i])
      /\ c.commands[i].intent = "Close" =>
            \A p \in DOMAIN F : F[p].kind = "Closed"
                  => \E q \in DOMAIN F : q < p /\ Acks(F[q], c.commands[i])

Flowing(c, F, k) == Fitting(c, F) /\ Acked(c, F, k) /\ Waiting(c, F)

-----------------------------------------------------------------------------
\* The session and what is on its way to it

Fits(c, s, k) ==
    /\ RevisionsFrom(c, k, s.revision)
    /\ InputsFrom(c, k, s.position)
    /\ \E t \in Nat : ProfilesFrom(c, 0, c.profile, t) /\ ProfilesFrom(c, k, s.profile, t)
    /\ s.sealed => c.inputClosed /\ \A i \in DOMAIN c.commands : i > k => ~IsUser(c, i)

\* A command as it was sent.
Carries(c, x, command) ==
    /\ x.intent = command.intent /\ x.n = command.n
    /\ x.intent = "Append" => /\ x.pos = command.pos /\ x.source = command.source
                              /\ x.entry = c.history[command.entry]
    /\ x.intent = "Generate" => x = command

\* Behind the first k commands come those of the queue q, then those of the
\* batch b, m in all; d commands were retired since the batch was made.
Linked(c, k, d, m, q, b) ==
    /\ k + Len(q) <= m /\ m <= Len(c.commands)
    /\ \A j \in DOMAIN q : Carries(c, q[j], c.commands[k + j])
    /\ DOMAIN b = (k + Len(q) + d + 1)..(m + d)
    /\ \A x \in DOMAIN b : Carries(c, b[x], c.commands[x - d])
SentUpTo(c, sent, m) == \A i \in DOMAIN c.commands : Id(c.commands[i]) \in sent <=> i <= m
Lined(c, k, q, b, sent) ==
    \E d, m \in Nat : Linked(c, k, d, m, q, b) /\ SentUpTo(c, sent, m)

Calling(c, F, k, s) ==
    s.active # None =>
      /\ InGeneration(c) /\ s.active.gen = c.gen /\ s.active.pos = c.covered
      /\ \A p \in DOMAIN F : F[p].kind \notin {"Output", "Finished"}
      /\ c.started \/ \E p \in DOMAIN F : F[p].kind = "Started"
      /\ \A i \in DOMAIN c.commands : i > k => c.commands[i].intent # "Generate"
Opening(c, s, q, b) == ~c.ready => q = <<>> /\ DOMAIN b = {} /\ s.active = None

Meets(c, F, k, s, q, b, sent) ==
    /\ Fits(c, s, k)
    /\ Lined(c, k, q, b, sent)
    /\ Calling(c, F, k, s)
    /\ Opening(c, s, q, b)

\* What has been sent is in the outbox or an earlier generation.
SentIds(c, sent) ==
    \A id \in sent : \/ \E i \in DOMAIN c.commands : Id(c.commands[i]) = id
                     \/ id[1] = "Generate" /\ id[2] <= c.gen

-----------------------------------------------------------------------------
\* The invariant

Attaching == {"catalog", "recover", "open", "opening"}
Preparing ==
    /\ session = Absent /\ commands = <<>> /\ work = <<>>
    /\ DOMAIN eng.batch = {} /\ ~eng.sending /\ eng.stash = None
    /\ \A id \in eng.sent : id[1] = "Generate"
    /\ eng.pc \in {"open", "opening"} \/ (eng.pc = "catalog" /\ eng.request = None)
          => \A i \in DOMAIN cp.commands : cp.commands[i].intent # "Generate"
    /\ eng.pc = "opening" =>
          /\ Fits(cp, eng.open, 0)
          /\ eng.open.active = None /\ Emissions(eng.open) = <<Ready(cp.ack)>>

Before(cursor, n) == cursor # None => cursor < n
Numbering ==
    /\ \A i, j \in DOMAIN work : i < j /\ work[i].type = "Event" /\ work[j].type = "Event"
          => work[i].sequence < work[j].sequence
    /\ \A i \in DOMAIN work : work[i].type = "Event" =>
          /\ session.phase = "up" => work[i].sequence < session.sequence
          /\ Before(cp.cursor, work[i].sequence) /\ Before(Latest.cursor, work[i].sequence)
    /\ session.phase = "up" =>
          Before(cp.cursor, session.sequence) /\ Before(Latest.cursor, session.sequence)

Reports(item) == item.type = "CommandSent"
Reported(item) == eng.sending /\ (item.result = "ok" => DOMAIN eng.batch = {})
Reporting ==
    /\ ~eng.sending => DOMAIN eng.batch = {}
    /\ \A i \in DOMAIN work : Reports(work[i]) => Reported(work[i])
    /\ \A i, j \in DOMAIN work : Reports(work[i]) /\ Reports(work[j]) => i = j
    /\ eng.stash # None /\ Reports(eng.stash) =>
          Reported(eng.stash) /\ \A i \in DOMAIN work : ~Reports(work[i])

Agreeing(item) == item.type = "Ended" => item.result # "protocol"
Agreement ==
    /\ eng.pc # "failing"
    /\ eng.pc = "batch" => eng.staged.next # "failing"
    /\ eng.stash # None => eng.stash.type # "Event" /\ Agreeing(eng.stash)
    /\ \A i \in DOMAIN work : Agreeing(work[i])
    /\ session.phase = "ended" /\ session.result # None => session.result # "protocol"

Meeting ==
    \E k \in Nat :
      /\ Flowing(Latest, Flight, k)
      /\ session.phase = "up" => Meets(Latest, Flight, k, session, commands, eng.batch, eng.sent)
Conversing ==
    /\ session.phase \in {"up", "ended"}
    /\ Numbering
    /\ Reporting
    /\ Agreement
    /\ Meeting

Flow ==
    /\ Line(cp)
    /\ eng.pc = "batch" => Line(eng.staged.cp)
    /\ eng.pc = "down" => session = Absent /\ commands = <<>> /\ work = <<>>
    /\ eng.pc # "down" => SentIds(Latest, eng.sent)
    /\ eng.pc \in Attaching => Preparing
    /\ eng.pc \notin Attaching \cup {"down"} => Conversing

-----------------------------------------------------------------------------
\* Facts about numbers that go on without a gap

\* The first place has the next number, and the others go on from it.
LEMMA ContinuesCut ==
  ASSUME NEW S \in SUBSET Nat, NEW number, NEW lo \in Nat, NEW hi \in Nat,
         Continues(S, number, lo, hi), NEW x \in S, \A i \in S : x <= i
  PROVE  number[x] = lo + 1 /\ Continues(S \ {x}, number, lo + 1, hi)
<1>1. number[x] \in (lo + 1)..hi
  BY DEF Continues
<1>2. \A i \in S \ {x} : number[x] < number[i] /\ number[i] \in (lo + 1)..hi
  BY DEF Continues
<1>3. number[x] = lo + 1
  <2>1. PICK i \in S : number[i] = lo + 1
    BY <1>1 DEF Continues
  <2> QED BY <1>1, <1>2, <2>1
<1>4. \A n \in (lo + 2)..hi : \E i \in S \ {x} : number[i] = n
  BY <1>3 DEF Continues
<1>5. \A i, j \in S \ {x} : i < j => number[i] < number[j]
  BY DEF Continues
<1>6. lo + 1 <= hi /\ (lo + 1) + 1 = lo + 2
  BY <1>1
<1>7. \A i \in S \ {x} : number[i] \in (lo + 2)..hi
  BY <1>1, <1>2, <1>3
<1> QED BY <1>3, <1>4, <1>5, <1>6, <1>7 DEF Continues

\* A new last place gets the next number.
LEMMA ContinuesOn ==
  ASSUME NEW S \in SUBSET Nat, NEW f, NEW g, NEW lo \in Nat, NEW hi \in Nat,
         Continues(S, f, lo, hi), NEW x \in Nat, \A i \in S : i < x /\ g[i] = f[i],
         g[x] = hi + 1
  PROVE  Continues(S \cup {x}, g, lo, hi + 1)
<1>1. lo <= hi + 1
  BY DEF Continues
<1>2. \A i \in S \cup {x} : g[i] \in (lo + 1)..(hi + 1)
  BY DEF Continues
<1>3. \A n \in (lo + 1)..(hi + 1) : \E i \in S \cup {x} : g[i] = n
  <2>1. ASSUME NEW n \in (lo + 1)..(hi + 1), n # hi + 1 PROVE \E i \in S : g[i] = n
    BY <2>1 DEF Continues
  <2> QED BY <2>1
<1>4. ASSUME NEW i \in S \cup {x}, NEW j \in S \cup {x}, i < j PROVE g[i] < g[j]
  <2>1. i \in S
    BY <1>4
  <2> QED BY <1>4, <2>1 DEF Continues
<1> QED BY <1>1, <1>2, <1>3, <1>4 DEF Continues

\* The same numbers at the same places.
LEMMA ContinuesSame ==
  ASSUME NEW S, NEW f, NEW g, NEW lo, NEW hi, Continues(S, f, lo, hi), \A i \in S : g[i] = f[i]
  PROVE  Continues(S, g, lo, hi)
BY DEF Continues

\* The same numbers, each one place before.
LEMMA ContinuesBefore ==
  ASSUME NEW S \in SUBSET Nat, NEW T \in SUBSET Nat, NEW f, NEW g, NEW lo, NEW hi,
         Continues(S, f, lo, hi),
         \A i \in T : i + 1 \in S /\ g[i] = f[i + 1], \A i \in S : i # 0 /\ i - 1 \in T
  PROVE  Continues(T, g, lo, hi)
<1>1. \A i \in T : g[i] \in (lo + 1)..hi
  BY DEF Continues
<1>2. ASSUME NEW n \in (lo + 1)..hi PROVE \E i \in T : g[i] = n
  <2>1. PICK i \in S : f[i] = n
    BY DEF Continues
  <2>2. i - 1 \in T /\ (i - 1) + 1 = i
    BY <2>1
  <2> QED BY <2>1, <2>2
<1>3. ASSUME NEW i \in T, NEW j \in T, i < j PROVE g[i] < g[j]
  <2>1. i + 1 < j + 1
    BY <1>3
  <2> QED BY <2>1 DEF Continues
<1> QED BY <1>1, <1>2, <1>3 DEF Continues

\* Where the numbers end decides where they start, and the other way round.
LEMMA ContinuesUnique ==
  ASSUME NEW S \in SUBSET Nat, NEW number, NEW a \in Nat, NEW b \in Nat, NEW x \in Nat,
         NEW y \in Nat, Continues(S, number, a, x), Continues(S, number, b, y)
  PROVE  (a = b) <=> (x = y)
<1>1. CASE S = {}
  <2>1. a = x
    BY <1>1 DEF Continues
  <2>2. b = y
    BY <1>1 DEF Continues
  <2> QED BY <2>1, <2>2
<1>2. CASE S # {}
  <2>1. a = b /\ x = y
    <3>1. PICK i \in S : TRUE
      BY <1>2
    <3>2. a < x /\ b < y
      BY <3>1 DEF Continues
    <3>3. a + 1 \in (b + 1)..y /\ x \in (b + 1)..y
      BY <3>2 DEF Continues
    <3>4. b + 1 \in (a + 1)..x /\ y \in (a + 1)..x
      BY <3>2 DEF Continues
    <3> QED BY <3>3, <3>4
  <2> QED BY <2>1
<1> QED BY <1>1, <1>2

\* No place, no number.
LEMMA ContinuesEmpty ==
  ASSUME NEW number, NEW lo \in Nat, NEW hi \in Nat
  PROVE  Continues({}, number, lo, hi) <=> lo = hi
<1>1. Continues({}, number, lo, hi) => lo = hi
  BY DEF Continues
<1>2. lo = hi => Continues({}, number, lo, hi)
  BY DEF Continues
<1> QED BY <1>1, <1>2

-----------------------------------------------------------------------------
\* The commands behind a place of the outbox

\* The places of an outbox.
LEMMA Outbox ==
  ASSUME NEW c, c.commands \in Seq(PendingCommands)
  PROVE  /\ Len(c.commands) \in Nat /\ DOMAIN c.commands = 1..Len(c.commands)
         /\ \A i \in DOMAIN c.commands : c.commands[i] \in PendingCommands
         /\ \A k \in Nat : \A kinds : Behind(c, k, kinds) \in SUBSET Nat
BY DEF Behind

\* What the next command is numbered by, and what is behind it.
LEMMA NextFrom ==
  ASSUME NEW c, c.commands \in Seq(PendingCommands), NEW k \in Nat, k + 1 \in DOMAIN c.commands,
         NEW kinds, NEW f, NEW lo \in Nat, NEW hi \in Nat,
         Continues(Behind(c, k, kinds), f, lo, hi)
  PROVE  IF Kind(c.commands[k + 1]) \in kinds
           THEN f[k + 1] = lo + 1 /\ Continues(Behind(c, k + 1, kinds), f, lo + 1, hi)
           ELSE Continues(Behind(c, k + 1, kinds), f, lo, hi)
<1>1. /\ Behind(c, k, kinds) \in SUBSET Nat
      /\ \A i \in Nat : i > k <=> (i = k + 1 \/ i > k + 1)
      /\ DOMAIN c.commands \subseteq Nat
  BY Outbox
<1>2. CASE Kind(c.commands[k + 1]) \in kinds
  <2>1. k + 1 \in Behind(c, k, kinds)
    BY <1>1, <1>2 DEF Behind
  <2>2. \A i \in Behind(c, k, kinds) : k + 1 <= i
    BY <1>1 DEF Behind
  <2>3. Behind(c, k + 1, kinds) = Behind(c, k, kinds) \ {k + 1}
    BY <1>1 DEF Behind
  <2>4. f[k + 1] = lo + 1 /\ Continues(Behind(c, k, kinds) \ {k + 1}, f, lo + 1, hi)
    <3> DEFINE S == Behind(c, k, kinds)
               x == k + 1
    <3> HIDE DEF S, x
    <3>1. S \in SUBSET Nat /\ x \in S /\ (\A i \in S : x <= i) /\ Continues(S, f, lo, hi)
      BY <1>1, <2>1, <2>2 DEF S, x
    <3>2. f[x] = lo + 1 /\ Continues(S \ {x}, f, lo + 1, hi)
      BY <3>1, ContinuesCut
    <3> QED BY <3>2 DEF S, x
  <2> QED BY <1>2, <2>3, <2>4
<1>3. CASE Kind(c.commands[k + 1]) \notin kinds
  <2>1. Behind(c, k + 1, kinds) = Behind(c, k, kinds)
    BY <1>1, <1>3 DEF Behind
  <2> QED BY <1>3, <2>1
<1> QED BY <1>2, <1>3

\* A new command is behind the others.
LEMMA AppendedFrom ==
  ASSUME NEW c, c.commands \in Seq(PendingCommands), NEW command, NEW d,
         d.commands = Append(c.commands, command), NEW k \in 0..Len(c.commands),
         NEW kinds, NEW f, NEW g, \A i \in DOMAIN c.commands : g[i] = f[i],
         NEW lo \in Nat, NEW hi \in Nat, Continues(Behind(c, k, kinds), f, lo, hi)
  PROVE  IF Kind(command) \in kinds
           THEN g[Len(c.commands) + 1] = hi + 1
                  => Continues(Behind(d, k, kinds), g, lo, hi + 1)
           ELSE Continues(Behind(d, k, kinds), g, lo, hi)
<1> DEFINE x == Len(c.commands) + 1
<1>1. /\ Behind(c, k, kinds) \in SUBSET Nat /\ x \in Nat /\ x > k
      /\ DOMAIN c.commands = 1..Len(c.commands)
  BY Outbox
<1>2. /\ DOMAIN d.commands = DOMAIN c.commands \cup {x} /\ d.commands[x] = command
      /\ \A i \in DOMAIN c.commands : d.commands[i] = c.commands[i] /\ i # x /\ i < x
  OBVIOUS
<1> HIDE DEF x
<1>3. \A i \in Behind(c, k, kinds) : i < x /\ g[i] = f[i]
  BY <1>2 DEF Behind
<1>4. CASE Kind(command) \in kinds
  <2>1. Behind(d, k, kinds) = Behind(c, k, kinds) \cup {x}
    BY <1>1, <1>2, <1>4 DEF Behind
  <2>2. g[x] = hi + 1 => Continues(Behind(c, k, kinds) \cup {x}, g, lo, hi + 1)
    BY <1>1, <1>3, ContinuesOn
  <2> QED BY <1>4, <2>1, <2>2 DEF x
<1>5. CASE Kind(command) \notin kinds
  <2>1. Behind(d, k, kinds) = Behind(c, k, kinds)
    BY <1>1, <1>2, <1>5 DEF Behind
  <2> QED BY <1>3, <1>5, <2>1, ContinuesSame
<1> QED BY <1>4, <1>5

\* The places of the other commands when the first one is taken out.
LEMMA TailPlaces ==
  ASSUME NEW c, c.commands \in Seq(PendingCommands), c.commands # <<>>, NEW d,
         d.commands = Tail(c.commands)
  PROVE  /\ d.commands \in Seq(PendingCommands) /\ Len(d.commands) = Len(c.commands) - 1
         /\ 1 \in DOMAIN c.commands /\ DOMAIN d.commands \subseteq Nat
         /\ \A i \in DOMAIN d.commands : i + 1 \in DOMAIN c.commands /\ i \in Nat /\ i >= 1
                                         /\ d.commands[i] = c.commands[i + 1]
         /\ \A i \in DOMAIN c.commands : i # 1 => i - 1 \in DOMAIN d.commands
OBVIOUS

\* The first command is taken out, and the others are where they were behind it.
LEMMA TailFrom ==
  ASSUME NEW c, c.commands \in Seq(PendingCommands), c.commands # <<>>, NEW d,
         d.commands = Tail(c.commands), NEW k \in Nat, NEW kinds, NEW f, NEW g,
         \A i \in DOMAIN d.commands : g[i] = f[i + 1], NEW lo, NEW hi,
         Continues(Behind(c, k + 1, kinds), f, lo, hi)
  PROVE  Continues(Behind(d, k, kinds), g, lo, hi)
<1> DEFINE S == Behind(c, k + 1, kinds)
           T == Behind(d, k, kinds)
<1>1. S \in SUBSET Nat /\ T \in SUBSET Nat
  BY Outbox, TailPlaces
<1>2. \A i \in T : i + 1 \in S /\ g[i] = f[i + 1]
  BY TailPlaces DEF Behind
<1>3. ASSUME NEW i \in S PROVE i # 0 /\ i - 1 \in T
  <2>1. i \in Nat /\ i \in DOMAIN c.commands /\ i > k + 1 /\ Kind(c.commands[i]) \in kinds
    BY <1>1 DEF Behind
  <2>2. i - 1 \in DOMAIN d.commands /\ i - 1 > k /\ (i - 1) + 1 = i
    BY <2>1, TailPlaces
  <2>3. d.commands[i - 1] = c.commands[i]
    BY <2>2, TailPlaces
  <2> QED BY <2>1, <2>2, <2>3 DEF Behind
<1> HIDE DEF S, T
<1> QED BY <1>1, <1>2, <1>3, ContinuesBefore DEF S, T

-----------------------------------------------------------------------------
\* One more command

\* The last profile of the outbox, or the acknowledged one.
LastProfile(c, t) == ProfilesFrom(c, 0, c.profile, t)

\* d is c with one more command, whatever it is for.
Extends(c, d, command) ==
    /\ d.commands = Append(c.commands, command)
    /\ d.failure = c.failure /\ d.ack = c.ack /\ d.profile = c.profile
    /\ d.closure = c.closure /\ d.ready = c.ready
    /\ IF Kind(command) \in Revising THEN d.revision = c.revision + 1 /\ command.n = d.revision
                                     ELSE d.revision = c.revision
    /\ IF Kind(command) \in Submitting
         THEN d.input = c.input + 1 /\ IsInput(d.history[command.entry])
         ELSE d.input = c.input
    /\ IsAppend(command) => command.pos = d.input
    /\ \A i \in DOMAIN c.commands : IsAppend(c.commands[i])
          => d.history[c.commands[i].entry] = c.history[c.commands[i].entry]
    /\ c.inputClosed => d.inputClosed /\ ~IsUser(d, Len(c.commands) + 1)
    /\ IF command.intent = "Seal"
         THEN d.inputClosed /\ d.seals = c.seals + 1 /\ command.n = d.seals
         ELSE d.seals = c.seals
    /\ Exclusive(command) => c.commands = <<>>
    /\ IsProfile(command) => \A t \in Nat : LastProfile(c, t) => command.n = t + 1

\* The commands of c are those of d, but for the last one.
LEMMA ExtendedPlaces ==
  ASSUME NEW c, Sound(c), NEW d, Sound(d), NEW command, Extends(c, d, command)
  PROVE  /\ c.commands \in Seq(PendingCommands) /\ d.commands \in Seq(PendingCommands)
         /\ Len(c.commands) \in Nat /\ Len(d.commands) = Len(c.commands) + 1
         /\ DOMAIN c.commands = 1..Len(c.commands)
         /\ DOMAIN d.commands = DOMAIN c.commands \cup {Len(c.commands) + 1}
         /\ \A i \in DOMAIN c.commands : d.commands[i] = c.commands[i] /\ i < Len(c.commands) + 1
                                         /\ i # Len(c.commands) + 1 /\ i \in Nat
         /\ d.commands[Len(c.commands) + 1] = command /\ command \in PendingCommands
         /\ c.revision \in Nat /\ c.input \in Nat /\ c.profile \in Nat /\ c.ack \in Nat
<1>1. c.commands \in Seq(PendingCommands) /\ d.commands \in Seq(PendingCommands)
      /\ c.revision \in Nat /\ c.input \in Nat /\ c.profile \in Nat /\ c.ack \in Nat
  BY OutboxType DEF Sound, Checkpoints
<1>2. d.commands = Append(c.commands, command)
  BY DEF Extends
<1>3. Len(c.commands) + 1 \in DOMAIN d.commands /\ d.commands[Len(c.commands) + 1] = command
  BY <1>1, <1>2
<1>4. command \in PendingCommands
  BY <1>1, <1>3
<1> QED BY <1>1, <1>2, <1>3, <1>4

\* What the commands are numbered by.
LEMMA ExtendedNumbers ==
  ASSUME NEW c, Sound(c), NEW d, Sound(d), NEW command, Extends(c, d, command)
  PROVE  /\ \A i \in DOMAIN c.commands : /\ NumbersOf(d)[i] = NumbersOf(c)[i]
                                         /\ InputsOf(d)[i] = InputsOf(c)[i]
         /\ NumbersOf(d)[Len(c.commands) + 1] = command.n
         /\ IsAppend(command) => InputsOf(d)[Len(c.commands) + 1] = command.pos
<1>1. Len(c.commands) + 1 \in DOMAIN d.commands
      /\ \A i \in DOMAIN c.commands : i \in DOMAIN d.commands
  BY ExtendedPlaces
<1> QED BY <1>1, ExtendedPlaces DEF NumbersOf, InputsOf

\* The revisions go on.
LEMMA ExtendedRevisions ==
  ASSUME NEW c, Sound(c), NEW d, Sound(d), NEW command, Extends(c, d, command),
         NEW k \in 0..Len(c.commands), NEW lo \in Nat, RevisionsFrom(c, k, lo)
  PROVE  RevisionsFrom(d, k, lo)
<1>1. /\ c.commands \in Seq(PendingCommands) /\ d.commands = Append(c.commands, command)
      /\ \A i \in DOMAIN c.commands : NumbersOf(d)[i] = NumbersOf(c)[i]
      /\ NumbersOf(d)[Len(c.commands) + 1] = command.n /\ c.revision \in Nat
      /\ Continues(Behind(c, k, Revising), NumbersOf(c), lo, c.revision)
  BY ExtendedPlaces, ExtendedNumbers DEF Extends, RevisionsFrom
<1>2. IF Kind(command) \in Revising
        THEN NumbersOf(d)[Len(c.commands) + 1] = c.revision + 1
               => Continues(Behind(d, k, Revising), NumbersOf(d), lo, c.revision + 1)
        ELSE Continues(Behind(d, k, Revising), NumbersOf(d), lo, c.revision)
  BY <1>1, AppendedFrom
<1> QED BY <1>1, <1>2 DEF RevisionsFrom, Extends

\* The inputs go on.
LEMMA ExtendedInputs ==
  ASSUME NEW c, Sound(c), NEW d, Sound(d), NEW command, Extends(c, d, command),
         NEW k \in 0..Len(c.commands), NEW lo \in Nat, InputsFrom(c, k, lo)
  PROVE  InputsFrom(d, k, lo)
<1>1. /\ c.commands \in Seq(PendingCommands) /\ d.commands = Append(c.commands, command)
      /\ \A i \in DOMAIN c.commands : InputsOf(d)[i] = InputsOf(c)[i]
      /\ c.input \in Nat
      /\ Continues(Behind(c, k, Submitting), InputsOf(c), lo, c.input)
  BY ExtendedPlaces, ExtendedNumbers DEF Extends, InputsFrom
<1>2. IF Kind(command) \in Submitting
        THEN InputsOf(d)[Len(c.commands) + 1] = c.input + 1
               => Continues(Behind(d, k, Submitting), InputsOf(d), lo, c.input + 1)
        ELSE Continues(Behind(d, k, Submitting), InputsOf(d), lo, c.input)
  BY <1>1, AppendedFrom
<1>3. Kind(command) \in Submitting
        => IsAppend(command) /\ InputsOf(d)[Len(c.commands) + 1] = c.input + 1
           /\ d.input = c.input + 1
  <2>1. Kind(command) \in Submitting => IsAppend(command)
    BY ExtendedPlaces, CommandTypes DEF Kind, Submitting, IsSubmitted, IsAppend, IntentNames
  <2> QED BY <2>1, ExtendedNumbers DEF Extends
<1>4. Continues(Behind(d, k, Submitting), InputsOf(d), lo, d.input)
  BY <1>2, <1>3 DEF Extends
<1>5. lo <= c.input /\ c.input <= d.input /\ lo <= d.input
  BY <1>1 DEF Extends, Continues
<1>6. ASSUME NEW i \in DOMAIN d.commands, i > k, IsAppend(d.commands[i])
      PROVE  d.commands[i].pos >= lo
  <2>1. CASE i \in DOMAIN c.commands
    BY <1>6, <2>1, ExtendedPlaces DEF InputsFrom
  <2>2. CASE i = Len(c.commands) + 1
    BY <1>5, <1>6, <2>2, ExtendedPlaces DEF Extends
  <2> QED BY <2>1, <2>2, ExtendedPlaces
<1> QED BY <1>4, <1>6 DEF InputsFrom

\* The profiles go on.
LEMMA ExtendedProfiles ==
  ASSUME NEW c, Sound(c), NEW d, Sound(d), NEW command, Extends(c, d, command),
         NEW k \in 0..Len(c.commands), NEW lo \in Nat, NEW t \in Nat, LastProfile(c, t),
         ProfilesFrom(c, k, lo, t)
  PROVE  LET u == IF IsProfile(command) THEN t + 1 ELSE t
         IN  LastProfile(d, u) /\ ProfilesFrom(d, k, lo, u)
<1>1. /\ c.commands \in Seq(PendingCommands) /\ d.commands = Append(c.commands, command)
      /\ \A i \in DOMAIN c.commands : NumbersOf(d)[i] = NumbersOf(c)[i]
      /\ NumbersOf(d)[Len(c.commands) + 1] = command.n
      /\ c.profile \in Nat /\ d.profile = c.profile /\ 0 \in 0..Len(c.commands)
  BY ExtendedPlaces, ExtendedNumbers DEF Extends
<1>2. Kind(command) \in Profiling <=> IsProfile(command)
  BY DEF Kind, Profiling, IsProfile, IsSubmitted
<1>3. IsProfile(command) => command.n = t + 1
  BY DEF Extends
<1>4. ASSUME NEW n \in 0..Len(c.commands), NEW a \in Nat, ProfilesFrom(c, n, a, t)
      PROVE  ProfilesFrom(d, n, a, IF IsProfile(command) THEN t + 1 ELSE t)
  <2>1. IF Kind(command) \in Profiling
          THEN NumbersOf(d)[Len(c.commands) + 1] = t + 1
                 => Continues(Behind(d, n, Profiling), NumbersOf(d), a, t + 1)
          ELSE Continues(Behind(d, n, Profiling), NumbersOf(d), a, t)
    BY <1>1, <1>4, AppendedFrom DEF ProfilesFrom
  <2> QED BY <1>1, <1>2, <1>3, <2>1 DEF ProfilesFrom
<1>5. LastProfile(d, IF IsProfile(command) THEN t + 1 ELSE t)
  BY <1>1, <1>4 DEF LastProfile
<1> QED BY <1>4, <1>5

\* The new command is none of the others.
LEMMA ExtendedIdentity ==
  ASSUME NEW c, Sound(c), Line(c), NEW d, Sound(d), NEW command, Extends(c, d, command)
  PROVE  /\ \A i \in DOMAIN c.commands : Id(c.commands[i]) # Id(command)
         /\ Distinguished(d)
<1>1. ASSUME NEW i \in DOMAIN c.commands PROVE Id(c.commands[i]) # Id(command)
  <2> SUFFICES ASSUME Id(c.commands[i]) = Id(command) PROVE FALSE
    OBVIOUS
  <2> DEFINE other == c.commands[i]
  <2>1. other.intent = command.intent /\ other.n = command.n
    BY DEF Id
  <2>2. /\ other \in PendingCommands /\ other.intent \in IntentNames /\ other.n \in Nat
        /\ c.commands # <<>> /\ i \in Nat /\ i > 0 /\ NumbersOf(c)[i] = other.n
    BY ExtendedPlaces, CommandTypes DEF NumbersOf
  <2> HIDE DEF other
  <2>3. CASE IsNumbered(command)
    <3>1. other.n \in (c.ack + 1)..c.revision
      BY <2>1, <2>3 DEF Sound, OutboxOf, RevisionsOf, IsNumbered, other
    <3>2. command.n = c.revision + 1
      BY <2>3 DEF IsNumbered, Extends, Kind, Revising, IsSubmitted
    <3> QED BY <2>1, <3>1, <3>2, ExtendedPlaces
  <2>4. CASE IsProfile(command)
    <3>1. PICK t \in Nat : LastProfile(c, t)
      BY DEF Line, LastProfile
    <3>2. command.n = t + 1
      BY <2>4, <3>1 DEF Extends
    <3>3. i \in Behind(c, 0, Profiling)
      BY <2>1, <2>2, <2>4 DEF Behind, Kind, Profiling, IsProfile, IsSubmitted, other
    <3>4. other.n \in (c.profile + 1)..t
      BY <2>2, <3>1, <3>3 DEF LastProfile, ProfilesFrom, Continues
    <3> QED BY <2>1, <3>2, <3>4, ExtendedPlaces
  <2>5. CASE command.intent = "Seal"
    <3>1. other.n <= c.seals /\ command.n = c.seals + 1 /\ c.seals \in Nat
      BY <2>1, <2>5 DEF Line, Sealing, Extends, Sound, Checkpoints, other
    <3> QED BY <2>1, <2>2, <3>1
  <2>6. CASE Exclusive(command)
    BY <2>2, <2>6 DEF Extends
  <2> QED BY <2>1, <2>2, <2>3, <2>4, <2>5, <2>6 DEF IntentNames, IsNumbered, IsProfile, Exclusive
<1>2. Distinguished(d)
  <2> SUFFICES ASSUME NEW i \in DOMAIN d.commands, NEW j \in DOMAIN d.commands,
                      Id(d.commands[i]) = Id(d.commands[j])
               PROVE  i = j
    BY DEF Distinguished
  <2>1. CASE i \in DOMAIN c.commands /\ j \in DOMAIN c.commands
    BY <2>1, ExtendedPlaces DEF Line, Distinguished
  <2>2. CASE i = Len(c.commands) + 1 \/ j = Len(c.commands) + 1
    BY <1>1, <2>2, ExtendedPlaces
  <2> QED BY <2>1, <2>2, ExtendedPlaces
<1> QED BY <1>1, <1>2

\* The inputs are in order, and no message follows a seal.
LEMMA ExtendedOrder ==
  ASSUME NEW c, Sound(c), Line(c), NEW d, Sound(d), NEW command, Extends(c, d, command)
  PROVE  InputsInOrder(d) /\ Sealing(d)
<1> DEFINE x == Len(c.commands) + 1
<1>1. /\ DOMAIN d.commands = DOMAIN c.commands \cup {x} /\ d.commands[x] = command
      /\ \A i \in DOMAIN c.commands : d.commands[i] = c.commands[i] /\ i < x /\ ~(x < i)
      /\ ~(x < x) /\ x \in DOMAIN d.commands /\ \A i \in DOMAIN c.commands : i \in DOMAIN d.commands
  BY ExtendedPlaces
<1>2. /\ c.input \in Nat /\ d.input \in Nat /\ c.input <= d.input
      /\ c.seals \in Nat /\ d.seals \in Nat /\ c.seals <= d.seals
  <2>1. c.input \in Nat /\ d.input \in Nat /\ c.seals \in Nat /\ d.seals \in Nat
    BY DEF Sound, Checkpoints
  <2>2. d.input = c.input \/ d.input = c.input + 1
    BY DEF Extends
  <2>3. d.seals = c.seals \/ d.seals = c.seals + 1
    BY DEF Extends
  <2> QED BY <2>1, <2>2, <2>3
<1>3. \A i \in DOMAIN c.commands : IsAppend(c.commands[i])
        => c.commands[i].pos \in Nat /\ c.commands[i].pos <= c.input
  BY OutboxType, CommandTypes DEF Sound, Line, InputsInOrder
<1>4. IsAppend(command) => command.pos = d.input
  BY DEF Extends
<1>5. IsSubmitted(command)
        => IsAppend(command) /\ d.input = c.input + 1 /\ IsInput(d.history[command.entry])
  BY DEF Extends, Kind, Submitting, IsSubmitted, IsAppend
<1>6. \A i \in DOMAIN c.commands : IsAppend(c.commands[i])
        => d.history[c.commands[i].entry] = c.history[c.commands[i].entry]
  BY DEF Extends
<1>7. \A i \in DOMAIN c.commands : IsSubmitted(c.commands[i]) => IsAppend(c.commands[i])
  BY DEF IsSubmitted, IsAppend
<1> HIDE DEF x
<1>8. InputsInOrder(d)
  <2>1. ASSUME NEW i \in DOMAIN d.commands, IsAppend(d.commands[i])
        PROVE  d.commands[i].pos <= d.input
    BY <1>1, <1>2, <1>3, <1>4, <2>1
  <2>2. ASSUME NEW i \in DOMAIN d.commands, NEW j \in DOMAIN d.commands,
               i < j, IsAppend(d.commands[i]), IsAppend(d.commands[j])
        PROVE  /\ d.commands[i].pos <= d.commands[j].pos
               /\ IsSubmitted(d.commands[j]) => d.commands[i].pos < d.commands[j].pos
    <3>1. i \in DOMAIN c.commands /\ d.commands[i] = c.commands[i]
      BY <1>1, <2>2
    <3>2. CASE j \in DOMAIN c.commands
      BY <1>1, <2>2, <3>1, <3>2 DEF Line, InputsInOrder
    <3>3. CASE j = x
      <4>1. c.commands[i].pos \in Nat /\ c.commands[i].pos <= c.input
        BY <1>3, <2>2, <3>1
      <4>2. IsAppend(command)
        BY <1>1, <2>2, <3>3
      <4> QED BY <1>1, <1>2, <1>4, <1>5, <3>1, <3>3, <4>1, <4>2
    <3> QED BY <1>1, <3>2, <3>3
  <2>3. ASSUME NEW i \in DOMAIN d.commands, IsSubmitted(d.commands[i])
        PROVE  IsInput(d.history[d.commands[i].entry])
    BY <1>1, <1>5, <1>6, <1>7, <2>3 DEF Line, InputsInOrder
  <2> QED BY <2>1, <2>2, <2>3 DEF InputsInOrder
<1>9. \A i \in DOMAIN c.commands : IsUser(d, i) => IsUser(c, i)
  BY <1>1, <1>6, <1>7 DEF IsUser
<1>10. Sealing(d)
  <2>1. ASSUME NEW i \in DOMAIN d.commands, d.commands[i].intent = "Seal"
        PROVE  d.inputClosed /\ d.commands[i].n <= d.seals
    <3>1. CASE i \in DOMAIN c.commands
      <4>1. c.inputClosed /\ c.commands[i].n <= c.seals /\ c.commands[i].n \in Nat
        BY <1>1, <2>1, <3>1, OutboxType, CommandTypes DEF Line, Sealing, Sound
      <4>2. d.inputClosed
        BY <4>1 DEF Extends
      <4> QED BY <1>1, <1>2, <3>1, <4>1, <4>2
    <3>2. CASE i = x
      <4>1. command.intent = "Seal"
        BY <1>1, <2>1, <3>2
      <4>2. d.inputClosed /\ command.n = d.seals
        BY <4>1 DEF Extends
      <4> QED BY <1>1, <1>2, <3>2, <4>2
    <3> QED BY <1>1, <3>1, <3>2
  <2>2. ASSUME NEW i \in DOMAIN d.commands, NEW j \in DOMAIN d.commands,
               d.commands[i].intent = "Seal", i < j
        PROVE  ~IsUser(d, j)
    <3>1. i \in DOMAIN c.commands /\ d.commands[i] = c.commands[i]
      BY <1>1, <2>2
    <3>2. CASE j \in DOMAIN c.commands
      BY <1>9, <2>2, <3>1, <3>2 DEF Line, Sealing
    <3>3. CASE j = x
      BY <2>2, <3>1, <3>3 DEF Line, Sealing, Extends, x
    <3> QED BY <1>1, <3>2, <3>3
  <2> QED BY <2>1, <2>2 DEF Sealing
<1> QED BY <1>8, <1>10

\* The outbox stays in line.
LEMMA ExtendedLine ==
  ASSUME NEW c, Sound(c), Line(c), NEW d, Sound(d), NEW command, Extends(c, d, command),
         Exclusives(d), Requests(d)
  PROVE  Line(d)
<1>1. 0 \in 0..Len(c.commands) /\ c.profile \in Nat /\ d.profile = c.profile
  BY ExtendedPlaces DEF Extends
<1>2. \E p \in Nat : InputsFrom(d, 0, p)
  BY <1>1, ExtendedInputs DEF Line
<1>3. \E t \in Nat : ProfilesFrom(d, 0, d.profile, t)
  <2>1. PICK t \in Nat : LastProfile(c, t)
    BY DEF Line, LastProfile
  <2>2. LastProfile(d, IF IsProfile(command) THEN t + 1 ELSE t)
    BY <1>1, <2>1, ExtendedProfiles DEF LastProfile
  <2>3. (IF IsProfile(command) THEN t + 1 ELSE t) \in Nat
    OBVIOUS
  <2> QED BY <2>2, <2>3 DEF LastProfile
<1>4. d.failure # "protocol"
  BY DEF Extends, Line
<1> QED BY <1>2, <1>3, <1>4, ExtendedIdentity, ExtendedOrder DEF Line

\* A command that may be pending beside others, with the same call.
SameCall(c, d) ==
    /\ d.gen = c.gen /\ d.started = c.started /\ d.status = c.status
    /\ d.covered = c.covered /\ d.closing = c.closing

\* A command that is prepared beside others keeps the outbox in line.
LEMMA BesideLine ==
  ASSUME NEW c, Sound(c), Line(c), NEW d, Sound(d), NEW command, Extends(c, d, command),
         SameCall(c, d), ~Exclusive(command)
  PROVE  Line(d)
<1> DEFINE x == Len(c.commands) + 1
<1>1. /\ DOMAIN d.commands = DOMAIN c.commands \cup {x} /\ d.commands[x] = command
      /\ \A i \in DOMAIN c.commands : d.commands[i] = c.commands[i]
      /\ 0 \in 0..Len(c.commands)
  BY ExtendedPlaces
<1>2. d.closure = c.closure /\ d.ack = c.ack /\ d.profile = c.profile
      /\ (InGeneration(d) <=> InGeneration(c)) /\ d.closing = c.closing
      /\ d.gen = c.gen /\ d.covered = c.covered /\ c.covered \in Nat
  BY DEF Extends, SameCall, InGeneration, Sound, Checkpoints
<1> HIDE DEF x
<1>3. Exclusives(d)
  BY <1>1, <1>2, Zenon DEF Line, Exclusives, Exclusive
<1>4. Requests(d)
  <2> SUFFICES ASSUME NEW i \in DOMAIN d.commands, d.commands[i].intent = "Generate"
               PROVE  /\ d.commands[i].n = d.gen /\ d.commands[i].revision = d.ack
                      /\ d.commands[i].profile = d.profile /\ d.commands[i].pos = d.covered
                      /\ InputsFrom(d, 0, d.covered)
    BY DEF Requests
  <2>1. i \in DOMAIN c.commands /\ d.commands[i] = c.commands[i]
    BY <1>1 DEF Exclusive
  <2>2. /\ c.commands[i].n = c.gen /\ c.commands[i].revision = c.ack
        /\ c.commands[i].profile = c.profile /\ c.commands[i].pos = c.covered
        /\ InputsFrom(c, 0, c.covered)
    BY <2>1 DEF Line, Requests
  <2>3. InputsFrom(d, 0, c.covered)
    BY <1>1, <1>2, <2>2, ExtendedInputs
  <2> QED BY <1>2, <2>1, <2>2, <2>3
<1> QED BY <1>3, <1>4, ExtendedLine

\* The session stays where it is while the outbox grows.
LEMMA ExtendedFits ==
  ASSUME NEW c, Sound(c), Line(c), NEW d, Sound(d), NEW command, Extends(c, d, command),
         NEW s \in UpSessions, NEW k \in 0..Len(c.commands), Fits(c, s, k)
  PROVE  Fits(d, s, k)
<1>1. s.revision \in Nat /\ s.position \in Nat /\ s.profile \in Nat
  BY SessionTypes
<1>2. RevisionsFrom(d, k, s.revision) /\ InputsFrom(d, k, s.position)
  BY <1>1, ExtendedRevisions, ExtendedInputs DEF Fits
<1>3. \E t \in Nat : ProfilesFrom(d, 0, d.profile, t) /\ ProfilesFrom(d, k, s.profile, t)
  <2>1. PICK t \in Nat : LastProfile(c, t) /\ ProfilesFrom(c, k, s.profile, t)
    BY DEF Fits, LastProfile
  <2> DEFINE u == IF IsProfile(command) THEN t + 1 ELSE t
  <2>2. u \in Nat
    OBVIOUS
  <2>3. LastProfile(d, u) /\ ProfilesFrom(d, k, s.profile, u)
    BY <1>1, <2>1, ExtendedProfiles
  <2> HIDE DEF u
  <2> QED BY <2>2, <2>3 DEF LastProfile
<1>4. ASSUME s.sealed PROVE d.inputClosed /\ \A i \in DOMAIN d.commands : i > k => ~IsUser(d, i)
  <2>1. c.inputClosed /\ \A i \in DOMAIN c.commands : i > k => ~IsUser(c, i)
    BY <1>4 DEF Fits
  <2>2. \A i \in DOMAIN c.commands : IsUser(d, i) => IsUser(c, i)
    BY ExtendedPlaces DEF Extends, IsUser, IsSubmitted, IsAppend
  <2>3. d.inputClosed /\ ~IsUser(d, Len(c.commands) + 1)
    BY <2>1 DEF Extends
  <2> QED BY <2>1, <2>2, <2>3, ExtendedPlaces
<1> QED BY <1>2, <1>3, <1>4 DEF Fits

\* What was sent is what it was.
LEMMA ExtendedLined ==
  ASSUME NEW c, Sound(c), Line(c), NEW d, Sound(d), NEW command, Extends(c, d, command),
         NEW k \in Nat, NEW q \in Seq(Carried), NEW b, NEW sent, Lined(c, k, q, b, sent),
         Id(command) \notin sent
  PROVE  Lined(d, k, q, b, sent)
<1>1. PICK r \in Nat, m \in Nat : Linked(c, k, r, m, q, b) /\ SentUpTo(c, sent, m)
  BY DEF Lined
<1> DEFINE l == Len(q)
           n == Len(c.commands)
<1>2. /\ l \in Nat /\ DOMAIN q = 1..l /\ n \in Nat /\ DOMAIN c.commands = 1..n
      /\ DOMAIN d.commands = DOMAIN c.commands \cup {n + 1} /\ d.commands[n + 1] = command
      /\ Len(d.commands) = n + 1
      /\ \A i \in DOMAIN c.commands : d.commands[i] = c.commands[i]
  BY ExtendedPlaces
<1>3. k + l <= m /\ m <= n /\ DOMAIN b = (k + l + r + 1)..(m + r)
  BY <1>1 DEF Linked
<1> HIDE DEF l, n
<1>4. ASSUME NEW i \in DOMAIN c.commands, NEW x, Carries(c, x, c.commands[i])
      PROVE  Carries(d, x, d.commands[i])
  BY <1>2, <1>4 DEF Carries, Extends, IsAppend
<1>5. Linked(d, k, r, m, q, b)
  <2>1. \A j \in DOMAIN q : k + j \in DOMAIN c.commands
    BY <1>2, <1>3
  <2>2. \A j \in DOMAIN q : Carries(d, q[j], d.commands[k + j])
    BY <1>1, <1>4, <2>1 DEF Linked
  <2>3. \A x \in DOMAIN b : x - r \in DOMAIN c.commands
    BY <1>2, <1>3
  <2>4. \A x \in DOMAIN b : Carries(d, b[x], d.commands[x - r])
    BY <1>1, <1>4, <2>3 DEF Linked
  <2> QED BY <1>2, <1>3, <2>2, <2>4 DEF Linked, l, n
<1>6. SentUpTo(d, sent, m)
  BY <1>1, <1>2, <1>3 DEF SentUpTo
<1> QED BY <1>5, <1>6 DEF Lined

\* The events are what they were.
LEMMA BesideFlowing ==
  ASSUME NEW c, Sound(c), Line(c), NEW d, Sound(d), NEW command, Extends(c, d, command),
         SameCall(c, d), ~Exclusive(command), NEW F, NEW k \in Nat, Flowing(c, F, k)
  PROVE  Flowing(d, F, k)
<1>1. d.closure = c.closure /\ d.ack = c.ack /\ d.ready = c.ready
      /\ (InGeneration(d) <=> InGeneration(c)) /\ d.closing = c.closing
      /\ d.gen = c.gen /\ d.covered = c.covered /\ d.started = c.started
  BY DEF Extends, SameCall, InGeneration
<1>2. Fitting(d, F)
  BY <1>1 DEF Flowing, Fitting
<1>3. Acked(d, F, k)
  <2>1. k <= Len(c.commands) /\ Len(c.commands) \in Nat
    BY ExtendedPlaces DEF Flowing, Acked
  <2>2. \A i \in 1..k : d.commands[i] = c.commands[i]
    BY <2>1, ExtendedPlaces
  <2>3. k <= Len(d.commands)
    BY <2>1, ExtendedPlaces
  <2> QED BY <2>2, <2>3 DEF Flowing, Acked
<1>4. Waiting(d, F)
  <2>1. \A i \in DOMAIN d.commands : d.commands[i].intent \in {"Generate", "Close"}
           => i \in DOMAIN c.commands /\ d.commands[i] = c.commands[i]
    BY ExtendedPlaces DEF Exclusive
  <2> QED BY <1>1, <2>1 DEF Flowing, Waiting
<1> QED BY <1>2, <1>3, <1>4 DEF Flowing

\* A command that is not a Generate, or the next one, has not been sent.
LEMMA ExtendedUnsent ==
  ASSUME NEW c, Sound(c), Line(c), NEW d, Sound(d), NEW command, Extends(c, d, command),
         NEW sent, SentIds(c, sent), command.intent = "Generate" => command.n = c.gen + 1
  PROVE  Id(command) \notin sent
<1>1. c.gen \in Nat /\ Id(command)[1] = command.intent /\ Id(command)[2] = command.n
  BY DEF Sound, Checkpoints, Id
<1>2. \A i \in DOMAIN c.commands : Id(c.commands[i]) # Id(command)
  BY ExtendedIdentity
<1> QED BY <1>1, <1>2 DEF SentIds

\* The session and the events stay where they are.
LEMMA BesideMeets ==
  ASSUME NEW c, Sound(c), Line(c), NEW d, Sound(d), NEW command, Extends(c, d, command),
         SameCall(c, d), ~Exclusive(command), NEW F, NEW k \in Nat, Flowing(c, F, k),
         NEW s \in UpSessions, NEW q \in Seq(Carried), NEW b, NEW sent, SentIds(c, sent),
         Meets(c, F, k, s, q, b, sent)
  PROVE  Meets(d, F, k, s, q, b, sent)
<1>1. k \in 0..Len(c.commands)
  BY ExtendedPlaces DEF Flowing, Acked
<1>2. Fits(d, s, k)
  BY <1>1, ExtendedFits DEF Meets
<1>3. Id(command) \notin sent
  BY ExtendedUnsent DEF Exclusive
<1>4. Lined(d, k, q, b, sent)
  BY <1>3, ExtendedLined DEF Meets
<1>5. (InGeneration(d) <=> InGeneration(c)) /\ d.gen = c.gen /\ d.covered = c.covered
      /\ d.started = c.started /\ d.ready = c.ready
  BY DEF Extends, SameCall, InGeneration
<1>6. \A i \in DOMAIN d.commands : d.commands[i].intent = "Generate"
         => i \in DOMAIN c.commands /\ d.commands[i] = c.commands[i]
  BY ExtendedPlaces DEF Exclusive
<1>7. Calling(d, F, k, s) /\ Opening(d, s, q, b)
  BY <1>5, <1>6 DEF Meets, Calling, Opening
<1> QED BY <1>2, <1>4, <1>7 DEF Meets

\* What was sent is still known.
LEMMA ExtendedSentIds ==
  ASSUME NEW c, Sound(c), NEW d, Sound(d), NEW command, Extends(c, d, command),
         NEW sent \in SUBSET Ident, SentIds(c, sent), c.gen <= d.gen
  PROVE  SentIds(d, sent)
<1>1. c.gen \in Nat /\ d.gen \in Nat
  BY DEF Sound, Checkpoints
<1> SUFFICES ASSUME NEW id \in sent
             PROVE  \/ \E i \in DOMAIN d.commands : Id(d.commands[i]) = id
                    \/ id[1] = "Generate" /\ id[2] <= d.gen
  BY DEF SentIds
<1>2. CASE \E i \in DOMAIN c.commands : Id(c.commands[i]) = id
  BY <1>2, ExtendedPlaces
<1>3. CASE id[1] = "Generate" /\ id[2] <= c.gen
  <2>1. id[2] \in Nat
    BY DEF Ident
  <2> QED BY <1>1, <1>3, <2>1
<1> QED BY <1>2, <1>3 DEF SentIds

\* As many profiles are pending as were prepared and not acknowledged.
LEMMA ProfileCount ==
  ASSUME Sound(cp), NEW t \in Nat, LastProfile(cp, t)
  PROVE  t = cp.profile + Cardinality(Pending("Profile"))
<1> DEFINE S == Pending("Profile")
           N == (cp.profile + 1)..t
           f == [i \in S |-> cp.commands[i].n]
<1>1. cp.profile \in Nat /\ cp.profile <= t
  BY DEF Sound, Checkpoints, LastProfile, ProfilesFrom, Continues
<1>2. S \in SUBSET Nat /\ S \subseteq 1..Len(cp.commands) /\ Len(cp.commands) \in Nat
  BY OutboxType DEF Sound, Pending
<1>3. S = Behind(cp, 0, Profiling)
  <2>1. \A i \in DOMAIN cp.commands :
           cp.commands[i].intent = "Profile" <=> Kind(cp.commands[i]) \in Profiling
    BY DEF Kind, Profiling, IsSubmitted
  <2>2. \A i \in DOMAIN cp.commands : i > 0
    BY OutboxType DEF Sound
  <2> QED BY <2>1, <2>2 DEF Pending, Behind
<1>4. \A i \in S : f[i] = NumbersOf(cp)[i]
  BY DEF NumbersOf, Pending
<1>5. /\ \A i \in S : f[i] \in N
      /\ \A n \in N : \E i \in S : f[i] = n
      /\ \A i, j \in S : i < j => f[i] < f[j]
  BY <1>3, <1>4 DEF LastProfile, ProfilesFrom, Continues
<1> HIDE DEF S
<1>6. f \in [S -> N]
  BY <1>5
<1> HIDE DEF f, N
<1>7. \A i, j \in S : f[i] = f[j] => i = j
  <2> SUFFICES ASSUME NEW i \in S, NEW j \in S, f[i] = f[j] PROVE i = j
    OBVIOUS
  <2>1. i \in Nat /\ j \in Nat /\ f[i] \in Nat /\ f[j] \in Nat
    BY <1>1, <1>2, <1>5 DEF N
  <2>2. ~(i < j) /\ ~(j < i)
    BY <1>5, <2>1
  <2> QED BY <2>1, <2>2
<1>8. f \in Bijection(S, N)
  BY <1>5, <1>6, <1>7 DEF Bijection, Injection, Surjection, IsInjective
<1>9. IsFiniteSet(S)
  <2>1. IsFiniteSet(1..Len(cp.commands))
    BY <1>2, FS_Interval
  <2> QED BY <1>2, <2>1, FS_Subset
<1>10. Cardinality(N) = Cardinality(S)
  BY <1>8, <1>9, FS_Bijection DEF ExistsBijection
<1>11. Cardinality(N) = t - cp.profile
  BY <1>1, FS_Interval DEF N
<1>12. Cardinality(S) \in Nat
  BY <1>9, FS_CardinalityType
<1> QED BY <1>1, <1>10, <1>11, <1>12 DEF S

\* insert
LEMMA InsertedExtends ==
  ASSUME NEW c, Sound(c), NEW kind \in {"User", "External"}, Insertable(c, kind)
  PROVE  LET d == Inserted(c, kind)
         IN  \E command : Extends(c, d, command) /\ SameCall(c, d) /\ ~Exclusive(command)
                          /\ d.cursor = c.cursor /\ d.state = c.state
<1> DEFINE l == Len(c.history) + 1
           command == AppendCommand(c.revision + 1, l, c.input + 1, "Submitted")
           entry == Entry(kind, c.input + 1, 0)
           d == Inserted(c, kind)
<1>1. /\ c \in Checkpoints /\ c.input \in Nat /\ c.revision \in Nat /\ l - 1 \in Nat
      /\ c.history \in Seq(Entries) /\ c.commands \in Outboxes /\ entry \in Entries
      /\ c.seals \in Nat
  BY OutboxType DEF Sound, Checkpoints, Entry, Entries
<1>2. /\ d.commands = Append(c.commands, command) /\ d.failure = c.failure /\ d.ack = c.ack
      /\ d.profile = c.profile /\ d.closure = c.closure /\ d.ready = c.ready
      /\ d.revision = c.revision + 1 /\ d.input = c.input + 1
      /\ d.history = Append(c.history, entry)
      /\ d.inputClosed = c.inputClosed /\ d.seals = c.seals /\ SameCall(c, d)
      /\ d.cursor = c.cursor /\ d.state = c.state
  BY <1>1 DEF Inserted, WithAppend, Checkpoints, SameCall
<1>3. /\ command.intent = "Append" /\ command.n = c.revision + 1 /\ command.pos = c.input + 1
      /\ command.entry = l /\ command.source = "Submitted" /\ entry.kind = kind
  BY DEF AppendCommand, Entry
<1>4. /\ \A i \in DOMAIN c.history : d.history[i] = c.history[i]
      /\ d.history[l] = entry
  BY <1>1, <1>2
<1>5. \A i \in DOMAIN c.commands : IsAppend(c.commands[i])
         => c.commands[i].entry \in DOMAIN c.history
  BY <1>1 DEF Sound, OutboxOf, LastEntries
<1> HIDE DEF d, command, entry, l
<1>6. Kind(command) = "Submitted" /\ ~Exclusive(command)
  BY <1>3 DEF Kind, IsSubmitted, Exclusive
<1>7. IsInput(entry)
  BY <1>3 DEF IsInput
<1>8. c.inputClosed => ~IsUser(d, Len(c.commands) + 1)
  <2>1. d.commands[Len(c.commands) + 1] = command
    BY <1>1, <1>2 DEF Outboxes
  <2> QED BY <1>3, <1>4, <2>1 DEF Insertable, IsUser
<1>9. Extends(c, d, command)
  BY <1>2, <1>3, <1>4, <1>5, <1>6, <1>7, <1>8
     DEF Extends, Revising, Submitting, IsAppend, IsProfile
<1> QED BY <1>2, <1>6, <1>9 DEF d

\* stage_entries
LEMMA WithEntryExtends ==
  ASSUME NEW c, Sound(c), NEW entry \in Entries
  PROVE  LET d == WithEntry(c, entry)
         IN  \E command : Extends(c, d, command) /\ SameCall(c, d) /\ ~Exclusive(command)
                          /\ d.cursor = c.cursor /\ d.state = c.state
<1> DEFINE l == Len(c.history) + 1
           command == AppendCommand(c.revision + 1, l, c.input, "Accepted")
           d == WithEntry(c, entry)
<1>1. /\ c \in Checkpoints /\ c.input \in Nat /\ c.revision \in Nat /\ l - 1 \in Nat
      /\ c.history \in Seq(Entries) /\ c.commands \in Outboxes
      /\ c.seals \in Nat
  BY OutboxType DEF Sound, Checkpoints
<1>2. /\ d.commands = Append(c.commands, command) /\ d.failure = c.failure /\ d.ack = c.ack
      /\ d.profile = c.profile /\ d.closure = c.closure /\ d.ready = c.ready
      /\ d.revision = c.revision + 1 /\ d.input = c.input
      /\ d.history = Append(c.history, entry)
      /\ d.inputClosed = c.inputClosed /\ d.seals = c.seals /\ SameCall(c, d)
      /\ d.cursor = c.cursor /\ d.state = c.state
  BY <1>1 DEF WithEntry, WithAppend, Checkpoints, SameCall
<1>3. /\ command.intent = "Append" /\ command.n = c.revision + 1 /\ command.pos = c.input
      /\ command.entry = l /\ command.source = "Accepted"
  BY DEF AppendCommand
<1>4. \A i \in DOMAIN c.history : d.history[i] = c.history[i]
  BY <1>1, <1>2
<1>5. \A i \in DOMAIN c.commands : IsAppend(c.commands[i])
         => c.commands[i].entry \in DOMAIN c.history
  BY <1>1 DEF Sound, OutboxOf, LastEntries
<1> HIDE DEF d, command, l
<1>6. Kind(command) = "Append" /\ ~Exclusive(command) /\ ~IsSubmitted(command)
  BY <1>3 DEF Kind, IsSubmitted, Exclusive
<1>7. ~IsUser(d, Len(c.commands) + 1)
  <2>1. d.commands[Len(c.commands) + 1] = command
    BY <1>1, <1>2 DEF Outboxes
  <2> QED BY <1>6, <2>1 DEF IsUser
<1>8. Extends(c, d, command)
  BY <1>2, <1>3, <1>4, <1>5, <1>6, <1>7
     DEF Extends, Revising, Submitting, IsAppend, IsProfile
<1> QED BY <1>2, <1>6, <1>8 DEF d

\* A command without content; only closing may change with it.
LEMMA PlainExtends ==
  ASSUME NEW c, Sound(c), NEW intent \in {"Seal", "Profile", "Close"}, NEW n \in Nat, NEW d,
         d.commands = Append(c.commands, Plain(intent, n)),
         d.failure = c.failure, d.ack = c.ack, d.profile = c.profile, d.closure = c.closure,
         d.ready = c.ready, d.revision = c.revision, d.input = c.input, d.history = c.history,
         c.inputClosed => d.inputClosed,
         intent = "Seal" => d.inputClosed /\ d.seals = c.seals + 1 /\ n = d.seals,
         intent # "Seal" => d.seals = c.seals,
         intent = "Profile" => \A t \in Nat : LastProfile(c, t) => n = t + 1,
         intent = "Close" => c.commands = <<>>
  PROVE  Extends(c, d, Plain(intent, n))
<1> DEFINE command == Plain(intent, n)
<1>1. command.intent = intent /\ command.n = n /\ c.commands \in Outboxes
  BY DEF Plain, Sound, Checkpoints
<1> HIDE DEF command
<1>2. Kind(command) = intent /\ ~IsSubmitted(command) /\ ~IsAppend(command)
      /\ (Exclusive(command) <=> intent = "Close")
  BY <1>1 DEF Kind, IsSubmitted, IsAppend, Exclusive
<1>3. ~IsUser(d, Len(c.commands) + 1)
  <2>1. d.commands[Len(c.commands) + 1] = command
    BY <1>1 DEF Outboxes, command
  <2> QED BY <1>2, <2>1 DEF IsUser
<1>4. Extends(c, d, command)
  BY <1>1, <1>2, <1>3 DEF Extends, Revising, Submitting, IsProfile, command
<1> QED BY <1>4 DEF command

-----------------------------------------------------------------------------
\* The first command is retired

\* d is c without its first command, which is confirmed.
Retires(c, d) ==
    /\ c.commands # <<>> /\ d.commands = Tail(c.commands)
    /\ IF IsNumbered(c.commands[1]) THEN d.ack = c.commands[1].n ELSE d.ack = c.ack
    /\ IF IsProfile(c.commands[1]) THEN d.profile = c.commands[1].n ELSE d.profile = c.profile
    /\ d.history = c.history /\ d.revision = c.revision /\ d.input = c.input
    /\ d.inputClosed = c.inputClosed /\ d.seals = c.seals /\ d.failure = c.failure
    /\ d.closure = c.closure /\ d.ready = c.ready

\* What the other commands are numbered by.
LEMMA RetiredNumbers ==
  ASSUME NEW c, Sound(c), NEW d, Retires(c, d)
  PROVE  /\ c.commands \in Seq(PendingCommands) /\ d.commands \in Seq(PendingCommands)
         /\ \A i \in DOMAIN d.commands : /\ NumbersOf(d)[i] = NumbersOf(c)[i + 1]
                                         /\ InputsOf(d)[i] = InputsOf(c)[i + 1]
         /\ c.revision \in Nat /\ c.input \in Nat /\ c.profile \in Nat
<1>1. c.commands \in Seq(PendingCommands) /\ c.commands # <<>> /\ d.commands = Tail(c.commands)
      /\ c.revision \in Nat /\ c.input \in Nat /\ c.profile \in Nat
  BY OutboxType DEF Sound, Checkpoints, Retires
<1>2. d.commands \in Seq(PendingCommands)
      /\ \A i \in DOMAIN d.commands : i + 1 \in DOMAIN c.commands
                                      /\ d.commands[i] = c.commands[i + 1]
  BY <1>1, TailPlaces
<1>3. \A i \in DOMAIN d.commands : /\ NumbersOf(d)[i] = NumbersOf(c)[i + 1]
                                   /\ InputsOf(d)[i] = InputsOf(c)[i + 1]
  BY <1>2 DEF NumbersOf, InputsOf
<1> QED BY <1>1, <1>2, <1>3

\* The commands behind a place go on from where they did.
LEMMA RetiredFrom ==
  ASSUME NEW c, Sound(c), NEW d, Retires(c, d), NEW k \in Nat, NEW lo
  PROVE  /\ RevisionsFrom(c, k + 1, lo) => RevisionsFrom(d, k, lo)
         /\ InputsFrom(c, k + 1, lo) => InputsFrom(d, k, lo)
         /\ \A hi : ProfilesFrom(c, k + 1, lo, hi) => ProfilesFrom(d, k, lo, hi)
<1>1. c.commands # <<>> /\ d.commands = Tail(c.commands)
      /\ d.revision = c.revision /\ d.input = c.input
  BY DEF Retires
<1>2. /\ c.commands \in Seq(PendingCommands)
      /\ \A i \in DOMAIN d.commands : /\ NumbersOf(d)[i] = NumbersOf(c)[i + 1]
                                      /\ InputsOf(d)[i] = InputsOf(c)[i + 1]
  BY RetiredNumbers
<1>3. RevisionsFrom(c, k + 1, lo) => RevisionsFrom(d, k, lo)
  BY <1>1, <1>2, TailFrom DEF RevisionsFrom
<1>4. \A hi : ProfilesFrom(c, k + 1, lo, hi) => ProfilesFrom(d, k, lo, hi)
  BY <1>1, <1>2, TailFrom DEF ProfilesFrom
<1>5. ASSUME InputsFrom(c, k + 1, lo) PROVE InputsFrom(d, k, lo)
  <2>1. Continues(Behind(d, k, Submitting), InputsOf(d), lo, d.input)
    BY <1>1, <1>2, <1>5, TailFrom DEF InputsFrom
  <2>2. \A i \in DOMAIN d.commands : i + 1 \in DOMAIN c.commands /\ i \in Nat
                                     /\ d.commands[i] = c.commands[i + 1]
    BY <1>1, <1>2, TailPlaces
  <2>3. \A i \in DOMAIN d.commands : i > k => i + 1 > k + 1
    BY <2>2
  <2>4. \A i \in DOMAIN d.commands : i > k /\ IsAppend(d.commands[i]) => d.commands[i].pos >= lo
    BY <1>5, <2>2, <2>3 DEF InputsFrom
  <2> QED BY <2>1, <2>4 DEF InputsFrom
<1> QED BY <1>3, <1>4, <1>5

\* The first command is behind nothing.
LEMMA RetiredFirst ==
  ASSUME NEW c, Sound(c), InputsInOrder(c), NEW d, Retires(c, d)
  PROVE  /\ \A p \in Nat : InputsFrom(c, 0, p) => \E r \in Nat : InputsFrom(d, 0, r)
         /\ \A t \in Nat : LastProfile(c, t) => LastProfile(d, t)
<1>1. /\ c.commands \in Seq(PendingCommands) /\ c.commands # <<>> /\ 1 \in DOMAIN c.commands
      /\ c.input \in Nat /\ c.profile \in Nat /\ 0 + 1 = 1 /\ 0 \in Nat
      /\ \A i \in DOMAIN c.commands : i \in Nat
  BY RetiredNumbers, TailPlaces DEF Retires
<1>2. ASSUME NEW p \in Nat, InputsFrom(c, 0, p) PROVE \E r \in Nat : InputsFrom(c, 1, r)
  <2>1. IF Kind(c.commands[1]) \in Submitting
          THEN InputsOf(c)[1] = p + 1
               /\ Continues(Behind(c, 1, Submitting), InputsOf(c), p + 1, c.input)
          ELSE Continues(Behind(c, 1, Submitting), InputsOf(c), p, c.input)
    BY <1>1, <1>2, NextFrom DEF InputsFrom
  <2>2. CASE Kind(c.commands[1]) \in Submitting
    <3>1. IsAppend(c.commands[1])
      BY <1>1, <2>2, Outbox, CommandTypes
         DEF Kind, Submitting, IsSubmitted, IsAppend, IntentNames
    <3>2. c.commands[1].pos = p + 1
      BY <1>1, <2>1, <2>2, <3>1 DEF InputsOf
    <3>3. \A i \in DOMAIN c.commands : i > 1 /\ IsAppend(c.commands[i])
            => c.commands[i].pos >= p + 1
      <4> SUFFICES ASSUME NEW i \in DOMAIN c.commands, i > 1, IsAppend(c.commands[i])
                   PROVE  c.commands[i].pos >= p + 1
        OBVIOUS
      <4>1. c.commands[i].pos \in Nat
        BY <1>1, Outbox, CommandTypes
      <4>2. 1 < i
        BY <1>1
      <4>3. c.commands[1].pos <= c.commands[i].pos
        BY <1>1, <3>1, <4>2 DEF InputsInOrder
      <4> QED BY <3>2, <4>1, <4>3
    <3>4. InputsFrom(c, 1, p + 1) /\ p + 1 \in Nat
      BY <2>1, <2>2, <3>3 DEF InputsFrom
    <3> QED BY <3>4
  <2>3. CASE Kind(c.commands[1]) \notin Submitting
    <3>1. \A i \in DOMAIN c.commands : i > 1 => i > 0
      BY <1>1
    <3>2. InputsFrom(c, 1, p)
      BY <1>2, <2>1, <2>3, <3>1 DEF InputsFrom
    <3> QED BY <3>2
  <2> QED BY <2>2, <2>3
<1>3. \A p \in Nat : InputsFrom(c, 0, p) => \E r \in Nat : InputsFrom(d, 0, r)
  BY <1>1, <1>2, RetiredFrom, SMTT(30)
<1>4. ASSUME NEW t \in Nat, LastProfile(c, t) PROVE LastProfile(d, t)
  <2>1. Kind(c.commands[1]) \in Profiling <=> IsProfile(c.commands[1])
    BY DEF Kind, Profiling, IsProfile, IsSubmitted
  <2>2. IF Kind(c.commands[1]) \in Profiling
          THEN NumbersOf(c)[1] = c.profile + 1
               /\ Continues(Behind(c, 1, Profiling), NumbersOf(c), c.profile + 1, t)
          ELSE Continues(Behind(c, 1, Profiling), NumbersOf(c), c.profile, t)
    <3>1. Continues(Behind(c, 0, Profiling), NumbersOf(c), c.profile, t)
      BY <1>4 DEF LastProfile, ProfilesFrom
    <3> QED BY <1>1, <3>1, NextFrom, ZenonT(40)
  <2>3. NumbersOf(c)[1] = c.commands[1].n
    BY <1>1 DEF NumbersOf
  <2>4. ProfilesFrom(c, 1, d.profile, t)
    BY <2>1, <2>2, <2>3 DEF ProfilesFrom, Retires
  <2> QED BY <1>1, <2>4, RetiredFrom, SMTT(30) DEF LastProfile
<1> QED BY <1>3, <1>4

\* The outbox stays in line.
LEMMA RetiredLine ==
  ASSUME NEW c, Sound(c), Line(c), NEW d, Retires(c, d), SameCall(c, d)
  PROVE  Line(d)
<1>1. c.commands \in Seq(PendingCommands) /\ c.commands # <<>> /\ d.commands = Tail(c.commands)
  BY RetiredNumbers DEF Retires
<1>2. \A i \in DOMAIN d.commands : /\ i + 1 \in DOMAIN c.commands /\ i \in Nat /\ i + 1 # 1
                                   /\ d.commands[i] = c.commands[i + 1]
  BY <1>1, TailPlaces
<1>3. \A i, j \in DOMAIN d.commands : (i + 1 = j + 1 => i = j) /\ (i < j => i + 1 < j + 1)
  BY <1>2
<1>4. d.failure # "protocol"
  BY DEF Line, Retires
<1>5. Distinguished(d)
  <2> SUFFICES ASSUME NEW i \in DOMAIN d.commands, NEW j \in DOMAIN d.commands,
                      Id(d.commands[i]) = Id(d.commands[j])
               PROVE  i = j
    BY DEF Distinguished
  <2>1. i + 1 = j + 1
    BY <1>2 DEF Line, Distinguished
  <2> QED BY <1>3, <2>1
<1>6. \A i \in DOMAIN d.commands : ~Exclusive(d.commands[i])
  BY <1>2 DEF Line, Exclusives
<1>7. Exclusives(d) /\ Requests(d)
  BY <1>6 DEF Exclusives, Requests, Exclusive
<1>8. InputsInOrder(d)
  <2>1. d.input = c.input /\ d.history = c.history
    BY DEF Retires
  <2>2. \A i \in DOMAIN d.commands : IsAppend(d.commands[i]) => d.commands[i].pos <= d.input
    BY <1>2, <2>1 DEF Line, InputsInOrder
  <2>3. \A i, j \in DOMAIN d.commands :
          i < j /\ IsAppend(d.commands[i]) /\ IsAppend(d.commands[j]) =>
             /\ d.commands[i].pos <= d.commands[j].pos
             /\ IsSubmitted(d.commands[j]) => d.commands[i].pos < d.commands[j].pos
    BY <1>2, <1>3 DEF Line, InputsInOrder
  <2>4. \A i \in DOMAIN d.commands : IsSubmitted(d.commands[i])
          => IsInput(d.history[d.commands[i].entry])
    BY <1>2, <2>1 DEF Line, InputsInOrder
  <2> QED BY <2>2, <2>3, <2>4 DEF InputsInOrder
<1>9. \E p \in Nat : InputsFrom(d, 0, p)
  BY RetiredFirst DEF Line
<1>10. \E t \in Nat : ProfilesFrom(d, 0, d.profile, t)
  BY RetiredFirst DEF Line, LastProfile
<1>11. Sealing(d)
  <2>1. \A i \in DOMAIN d.commands : IsUser(d, i) => IsUser(c, i + 1)
    BY <1>2 DEF IsUser, Retires
  <2>2. d.inputClosed = c.inputClosed /\ d.seals = c.seals
    BY DEF Retires
  <2>3. \A i \in DOMAIN d.commands : d.commands[i].intent = "Seal"
          => d.inputClosed /\ d.commands[i].n <= d.seals
    BY <1>2, <2>2 DEF Line, Sealing
  <2>4. \A i, j \in DOMAIN d.commands : d.commands[i].intent = "Seal" /\ i < j => ~IsUser(d, j)
    BY <1>2, <1>3, <2>1 DEF Line, Sealing
  <2> QED BY <2>3, <2>4 DEF Sealing
<1> QED BY <1>4, <1>5, <1>7, <1>8, <1>9, <1>10, <1>11 DEF Line

-----------------------------------------------------------------------------
\* What is on its way when the first command is retired

Signals == Events \cup {NoEvent}

\* The kinds of what can be on its way.
LEMMA SignalTypes ==
  /\ \A e \in Signals : e.kind \in EventKinds \cup {"none"}
  /\ \A e \in Signals : e.kind # "none" => e \in Events
BY EventTypes DEF Signals, NoEvent

\* What is behind the first.
LEMMA BehindHead ==
  ASSUME NEW F \in Seq(Signals), F # <<>>
  PROVE  /\ 1 \in DOMAIN F /\ Head(F) = F[1]
         /\ Tail(F) \in Seq(Signals)
         /\ \A p \in DOMAIN Tail(F) : p + 1 \in DOMAIN F /\ p \in Nat /\ 1 < p + 1
                                      /\ Tail(F)[p] = F[p + 1]
         /\ \A p \in DOMAIN F : p \in Nat /\ (p # 1 => p - 1 \in DOMAIN Tail(F) /\ (p - 1) + 1 = p)
         /\ \A p, q \in DOMAIN Tail(F) : p < q <=> p + 1 < q + 1
OBVIOUS

\* The first acknowledgement is that of the first command.
LEMMA FirstAcked ==
  ASSUME NEW c, Distinguished(c), c.commands \in Seq(PendingCommands), NEW F \in Seq(Signals),
         F # <<>>, NEW k \in Nat, Acked(c, F, k), F[1].kind = "Acknowledged"
  PROVE  k # 0 /\ c.commands # <<>> /\ F[1].id = Id(c.commands[1])
<1>1. 1 \in DOMAIN F /\ DOMAIN F \subseteq Nat /\ \A p \in DOMAIN F : p # 1 => 1 < p
  BY BehindHead
<1>2. PICK i \in 1..k : Acks(F[1], c.commands[i])
  BY <1>1 DEF Acked
<1>3. k # 0 /\ 1 \in 1..k /\ i \in DOMAIN c.commands /\ 1 \in DOMAIN c.commands /\ c.commands # <<>>
  BY Outbox DEF Acked
<1>4. i = 1
  <2> SUFFICES ASSUME i # 1 PROVE FALSE
    OBVIOUS
  <2>1. PICK p \in DOMAIN F : Acks(F[p], c.commands[1])
    BY <1>3 DEF Acked
  <2>2. p # 1
    BY <1>2, <1>3, <2>1 DEF Acks, Distinguished
  <2>3. i < 1
    BY <1>1, <1>2, <1>3, <2>1, <2>2 DEF Acked
  <2> QED BY <2>3
<1> QED BY <1>2, <1>3, <1>4 DEF Acks

\* The places of the other commands.
LEMMA RetiredPlaces ==
  ASSUME NEW c, Sound(c), NEW d, Retires(c, d)
  PROVE  /\ c.commands \in Seq(PendingCommands) /\ d.commands \in Seq(PendingCommands)
         /\ Len(d.commands) = Len(c.commands) - 1 /\ Len(c.commands) \in Nat
         /\ \A i \in DOMAIN d.commands : i + 1 \in DOMAIN c.commands /\ i \in Nat /\ i + 1 # 1
                                         /\ d.commands[i] = c.commands[i + 1]
         /\ \A i \in DOMAIN c.commands : i # 1 => /\ i - 1 \in DOMAIN d.commands
                                                   /\ d.commands[i - 1] = c.commands[i]
         /\ 1 \in DOMAIN c.commands /\ c.commands # <<>> /\ d.commands = Tail(c.commands)
         /\ d.history = c.history /\ DOMAIN c.commands = 1..Len(c.commands)
         /\ DOMAIN d.commands = 1..Len(d.commands)
<1>1. /\ c.commands \in Seq(PendingCommands) /\ c.commands # <<>> /\ d.commands = Tail(c.commands)
      /\ d.history = c.history
  BY RetiredNumbers DEF Retires
<1>2. /\ d.commands \in Seq(PendingCommands) /\ Len(d.commands) = Len(c.commands) - 1
      /\ \A i \in DOMAIN d.commands : i + 1 \in DOMAIN c.commands /\ i \in Nat /\ i >= 1
                                      /\ d.commands[i] = c.commands[i + 1]
      /\ \A i \in DOMAIN c.commands : i # 1 => i - 1 \in DOMAIN d.commands
      /\ 1 \in DOMAIN c.commands
  BY <1>1, TailPlaces
<1>3. \A i \in DOMAIN d.commands : i + 1 # 1
  BY <1>2
<1>4. \A i \in DOMAIN c.commands : i \in Nat /\ (i - 1) + 1 = i
  BY <1>1
<1>5. \A i \in DOMAIN c.commands : i # 1 => d.commands[i - 1] = c.commands[i]
  BY <1>2, <1>4
<1> QED BY <1>1, <1>2, <1>3, <1>5

\* The other acknowledgements are those of the other commands.
LEMMA RetiredFlowing ==
  ASSUME NEW c, Sound(c), Line(c), NEW d, Retires(c, d), SameCall(c, d), NEW F \in Seq(Signals),
         F # <<>>, NEW k \in Nat, Flowing(c, F, k + 1), Acks(F[1], c.commands[1])
  PROVE  Flowing(d, Tail(F), k)
<1> DEFINE G == Tail(F)
<1>1. /\ 1 \in DOMAIN F
      /\ \A p \in DOMAIN G : p + 1 \in DOMAIN F /\ p \in Nat /\ 1 < p + 1 /\ G[p] = F[p + 1]
      /\ \A p \in DOMAIN F : p # 1 => p - 1 \in DOMAIN G /\ G[p - 1] = F[p]
      /\ \A p, q \in DOMAIN G : p < q <=> p + 1 < q + 1
  <2>1. \A p \in DOMAIN F : p # 1 => p - 1 \in DOMAIN G /\ G[p - 1] = F[p]
    BY BehindHead
  <2> QED BY <2>1, BehindHead
<1>2. F[1].kind = "Acknowledged" /\ F[1].id = Id(c.commands[1])
  BY DEF Acks
<1>3. /\ c.commands \in Seq(PendingCommands) /\ d.commands \in Seq(PendingCommands)
      /\ Len(d.commands) = Len(c.commands) - 1
      /\ \A i \in DOMAIN d.commands : i + 1 \in DOMAIN c.commands /\ i \in Nat /\ i + 1 # 1
                                      /\ d.commands[i] = c.commands[i + 1]
      /\ 1 \in DOMAIN c.commands /\ c.commands # <<>>
  BY RetiredPlaces
<1>4. /\ Len(c.commands) \in Nat /\ DOMAIN c.commands = 1..Len(c.commands)
      /\ DOMAIN d.commands = 1..Len(d.commands) /\ k + 1 <= Len(c.commands) /\ k <= Len(d.commands)
  BY <1>3 DEF Flowing, Acked
<1>5. /\ d.ready = c.ready /\ d.closure = c.closure /\ d.gen = c.gen /\ d.started = c.started
      /\ d.covered = c.covered /\ d.closing = c.closing /\ (InGeneration(d) <=> InGeneration(c))
  BY DEF Retires, SameCall, InGeneration
<1>6. \A p \in DOMAIN F : F[p].kind # "Ready"
  BY <1>1, <1>2 DEF Flowing, Fitting
<1>7. c.ready
  BY <1>1, <1>2 DEF Flowing, Fitting
<1> HIDE DEF G
<1>8. Fitting(d, G)
  <2>1. ASSUME NEW p \in DOMAIN G
        PROVE  /\ G[p].kind # "Ready"
               /\ G[p].kind \in Responding => InGeneration(d) /\ G[p].gen = d.gen
               /\ G[p].kind = "Started" => ~d.started
               /\ G[p].kind \in {"Started", "Finished"} => G[p].pos = d.covered
               /\ G[p].kind = "Closed" => ~d.closure /\ d.closing
    BY <1>1, <1>5, <1>6 DEF Flowing, Fitting
  <2>2. ASSUME NEW p \in DOMAIN G, G[p].kind \in {"Output", "Finished"}, ~d.started
        PROVE  \E q \in DOMAIN G : q < p /\ G[q].kind = "Started"
    <3>1. PICK q \in DOMAIN F : q < p + 1 /\ F[q].kind = "Started"
      BY <1>1, <1>5, <2>2 DEF Flowing, Fitting
    <3>2. q # 1 /\ q - 1 \in DOMAIN G /\ G[q - 1] = F[q] /\ (q - 1) + 1 = q
      BY <1>1, <1>2, <3>1, BehindHead
    <3>3. q - 1 < p
      BY <1>1, <3>1, <3>2
    <3> QED BY <3>1, <3>2, <3>3
  <2>3. ASSUME NEW p \in DOMAIN G, NEW q \in DOMAIN G, p < q
        PROVE  /\ G[p].kind \in {"Ready", "Started", "Closed"} => G[q].kind # G[p].kind
               /\ G[p].kind = "Finished" => G[q].kind \notin Responding
    <3>1. p + 1 < q + 1 /\ p + 1 \in DOMAIN F /\ q + 1 \in DOMAIN F
          /\ G[p] = F[p + 1] /\ G[q] = F[q + 1]
      BY <1>1, <2>3
    <3> QED BY <3>1 DEF Flowing, Fitting
  <2> QED BY <1>5, <1>7, <2>1, <2>2, <2>3 DEF Fitting
<1>9. Acked(d, G, k)
  <2>1. \A i \in 1..k : i \in Nat /\ i + 1 \in 1..(k + 1) /\ d.commands[i] = c.commands[i + 1]
                        /\ i + 1 \in DOMAIN c.commands /\ i + 1 # 1
    <3>1. \A i \in 1..k : i \in DOMAIN d.commands /\ i \in Nat /\ i + 1 \in 1..(k + 1)
      BY <1>4
    <3> QED BY <1>3, <3>1
  <2>2. ASSUME NEW i \in 1..k PROVE \E p \in DOMAIN G : Acks(G[p], d.commands[i])
    <3>1. PICK p \in DOMAIN F : Acks(F[p], c.commands[i + 1])
      BY <2>1 DEF Flowing, Acked
    <3>2. p # 1
      BY <1>2, <1>3, <2>1, <3>1, SMTT(30) DEF Acks, Line, Distinguished
    <3> QED BY <1>1, <2>1, <3>1, <3>2
  <2>3. ASSUME NEW p \in DOMAIN G, G[p].kind = "Acknowledged"
        PROVE  \E i \in 1..k : Acks(G[p], d.commands[i])
    <3>1. PICK j \in 1..(k + 1) : Acks(F[p + 1], c.commands[j])
      BY <1>1, <2>3 DEF Flowing, Acked
    <3>2. j # 1
      <4> SUFFICES ASSUME j = 1 PROVE FALSE
        OBVIOUS
      <4>1. 1 < p + 1 /\ 1 \in 1..(k + 1)
        BY <1>1
      <4>2. j < j
        BY <1>1, <3>1, <4>1 DEF Flowing, Acked
      <4> QED BY <4>2
    <3>3. j - 1 \in 1..k /\ (j - 1) + 1 = j
      BY <3>2
    <3> QED BY <1>1, <2>1, <3>1, <3>3
  <2>4. ASSUME NEW p \in DOMAIN G, NEW q \in DOMAIN G, NEW i \in 1..k, NEW j \in 1..k,
               p < q, Acks(G[p], d.commands[i]), Acks(G[q], d.commands[j])
        PROVE  i < j
    <3>1. p + 1 < q + 1 /\ p + 1 \in DOMAIN F /\ q + 1 \in DOMAIN F
          /\ G[p] = F[p + 1] /\ G[q] = F[q + 1]
      BY <1>1, <2>4
    <3>2. i + 1 < j + 1
      BY <2>1, <2>4, <3>1 DEF Flowing, Acked
    <3> QED BY <2>1, <3>2
  <2> QED BY <1>4, <2>2, <2>3, <2>4 DEF Acked
<1>10. Waiting(d, G)
  <2>1. \A i \in DOMAIN d.commands : d.commands[i].intent \notin {"Generate", "Close"}
    BY <1>3 DEF Line, Exclusives, Exclusive
  <2> QED BY <2>1 DEF Waiting
<1> QED BY <1>8, <1>9, <1>10 DEF Flowing, G

\* The session is where it was, with one command less in front.
LEMMA RetiredFits ==
  ASSUME NEW c, Sound(c), Line(c), NEW d, Retires(c, d), NEW k \in Nat, NEW s \in UpSessions,
         Fits(c, s, k + 1)
  PROVE  Fits(d, s, k)
<1>1. RevisionsFrom(d, k, s.revision) /\ InputsFrom(d, k, s.position)
  BY RetiredFrom DEF Fits
<1>2. \E t \in Nat : ProfilesFrom(d, 0, d.profile, t) /\ ProfilesFrom(d, k, s.profile, t)
  <2>1. PICK t \in Nat : LastProfile(c, t) /\ ProfilesFrom(c, k + 1, s.profile, t)
    BY DEF Fits, LastProfile
  <2>2. LastProfile(d, t)
    BY <2>1, RetiredFirst DEF Line
  <2>3. ProfilesFrom(d, k, s.profile, t)
    BY <2>1, RetiredFrom
  <2> QED BY <2>2, <2>3 DEF LastProfile
<1>3. ASSUME s.sealed PROVE d.inputClosed /\ \A i \in DOMAIN d.commands : i > k => ~IsUser(d, i)
  <2>1. d.inputClosed /\ d.history = c.history
    BY <1>3 DEF Fits, Retires
  <2>2. \A i \in DOMAIN d.commands : i + 1 \in DOMAIN c.commands /\ i \in Nat
                                     /\ d.commands[i] = c.commands[i + 1]
    BY RetiredPlaces
  <2>3. \A i \in DOMAIN d.commands : i > k => i + 1 > k + 1
    BY <2>2
  <2> QED BY <1>3, <2>1, <2>2, <2>3 DEF Fits, IsUser
<1> QED BY <1>1, <1>2, <1>3 DEF Fits

\* What is sent is the same, one place before.
LEMMA RetiredLined ==
  ASSUME NEW c, Sound(c), Line(c), NEW d, Retires(c, d), NEW k \in Nat, NEW q \in Seq(Carried),
         NEW b, NEW sent, Lined(c, k + 1, q, b, sent)
  PROVE  Lined(d, k, q, b, sent \ {Id(c.commands[1])})
<1>1. PICK r \in Nat, m \in Nat : Linked(c, k + 1, r, m, q, b) /\ SentUpTo(c, sent, m)
  BY DEF Lined
<1>2. /\ c.commands \in Seq(PendingCommands) /\ d.commands \in Seq(PendingCommands)
      /\ Len(d.commands) = Len(c.commands) - 1
      /\ \A i \in DOMAIN d.commands : i + 1 \in DOMAIN c.commands /\ i \in Nat /\ i + 1 # 1
                                      /\ d.commands[i] = c.commands[i + 1]
      /\ \A i \in DOMAIN c.commands : i # 1 => i - 1 \in DOMAIN d.commands
      /\ 1 \in DOMAIN c.commands /\ c.commands # <<>> /\ d.history = c.history
  BY RetiredPlaces
<1> DEFINE l == Len(q)
           n == Len(c.commands)
<1>3. /\ l \in Nat /\ DOMAIN q = 1..l /\ n \in Nat /\ DOMAIN c.commands = 1..n
      /\ Len(d.commands) = n - 1 /\ DOMAIN d.commands = 1..(n - 1)
  BY <1>2
<1>4. (k + 1) + l <= m /\ m <= n /\ DOMAIN b = ((k + 1) + l + r + 1)..(m + r)
  BY <1>1 DEF Linked
<1> HIDE DEF l, n
<1>5. /\ m - 1 \in Nat /\ r + 1 \in Nat /\ k + l <= m - 1 /\ m - 1 <= n - 1
      /\ DOMAIN b = (k + l + (r + 1) + 1)..((m - 1) + (r + 1))
  <2>1. (k + 1) + l + r + 1 = k + l + (r + 1) + 1 /\ m + r = (m - 1) + (r + 1)
    BY <1>3
  <2> QED BY <1>3, <1>4, <2>1
<1>6. ASSUME NEW i \in DOMAIN d.commands, NEW x, Carries(c, x, c.commands[i + 1])
      PROVE  Carries(d, x, d.commands[i])
  BY <1>2, <1>6 DEF Carries
<1>7. Linked(d, k, r + 1, m - 1, q, b)
  <2>1. \A j \in DOMAIN q : k + j \in DOMAIN d.commands /\ (k + 1) + j = (k + j) + 1
    BY <1>3, <1>4, SMTT(30)
  <2>2. \A j \in DOMAIN q : Carries(d, q[j], d.commands[k + j])
    BY <1>1, <1>6, <2>1 DEF Linked
  <2>3. \A x \in DOMAIN b : x - (r + 1) \in DOMAIN d.commands /\ x - r = (x - (r + 1)) + 1
    BY <1>3, <1>4, SMTT(30)
  <2>4. \A x \in DOMAIN b : Carries(d, b[x], d.commands[x - (r + 1)])
    BY <1>1, <1>6, <2>3 DEF Linked
  <2> QED BY <1>3, <1>5, <2>2, <2>4 DEF Linked, l, n
<1>8. SentUpTo(d, sent \ {Id(c.commands[1])}, m - 1)
  <2> SUFFICES ASSUME NEW i \in DOMAIN d.commands
               PROVE  Id(d.commands[i]) \in sent \ {Id(c.commands[1])} <=> i <= m - 1
    BY DEF SentUpTo
  <2>1. Id(c.commands[i + 1]) # Id(c.commands[1])
    BY <1>2 DEF Line, Distinguished
  <2>2. Id(c.commands[i + 1]) \in sent <=> i + 1 <= m
    BY <1>1, <1>2 DEF SentUpTo
  <2>3. i + 1 <= m <=> i <= m - 1
    <3>1. i \in Nat
      BY <1>2
    <3> QED BY <3>1
  <2> QED BY <1>2, <2>1, <2>2, <2>3
<1> QED BY <1>5, <1>7, <1>8 DEF Lined

\* The session meets what is left.
LEMMA RetiredMeets ==
  ASSUME NEW c, Sound(c), Line(c), NEW d, Retires(c, d), SameCall(c, d), NEW F \in Seq(Signals),
         F # <<>>, NEW k \in Nat, Acks(F[1], c.commands[1]), NEW s \in UpSessions,
         NEW q \in Seq(Carried), NEW b, NEW sent, Meets(c, F, k + 1, s, q, b, sent)
  PROVE  Meets(d, Tail(F), k, s, q, b, sent \ {Id(c.commands[1])})
<1>1. Fits(d, s, k) /\ Lined(d, k, q, b, sent \ {Id(c.commands[1])})
  BY RetiredFits, RetiredLined DEF Meets
<1>2. /\ d.ready = c.ready /\ d.gen = c.gen /\ d.started = c.started /\ d.covered = c.covered
      /\ (InGeneration(d) <=> InGeneration(c))
  BY DEF Retires, SameCall, InGeneration
<1>3. Opening(d, s, q, b)
  BY <1>2 DEF Meets, Opening
<1>4. ASSUME s.active # None, ~d.started PROVE \E p \in DOMAIN Tail(F) : Tail(F)[p].kind = "Started"
  <2>1. PICK p \in DOMAIN F : F[p].kind = "Started"
    BY <1>2, <1>4 DEF Meets, Calling
  <2>2. p # 1
    BY <2>1 DEF Acks
  <2>3. p - 1 \in DOMAIN Tail(F) /\ Tail(F)[p - 1] = F[p]
    BY <2>2, BehindHead
  <2> QED BY <2>1, <2>3
<1>5. ASSUME s.active # None, NEW i \in DOMAIN d.commands, i > k
      PROVE  d.commands[i].intent # "Generate"
  <2>1. i + 1 \in DOMAIN c.commands /\ i \in Nat /\ d.commands[i] = c.commands[i + 1]
    BY RetiredPlaces
  <2>2. i + 1 > k + 1
    BY <1>5, <2>1
  <2> QED BY <1>5, <2>1, <2>2 DEF Meets, Calling
<1>6. \A p \in DOMAIN Tail(F) : p + 1 \in DOMAIN F /\ Tail(F)[p] = F[p + 1]
  BY BehindHead
<1>7. Calling(d, Tail(F), k, s)
  BY <1>2, <1>4, <1>5, <1>6 DEF Meets, Calling
<1> QED BY <1>1, <1>3, <1>7 DEF Meets

\* What was sent and not retired is still known.
LEMMA RetiredSentIds ==
  ASSUME NEW c, Sound(c), NEW d, Retires(c, d), NEW sent, SentIds(c, sent), d.gen = c.gen
  PROVE  SentIds(d, sent \ {Id(c.commands[1])})
<1> SUFFICES ASSUME NEW id \in sent, id # Id(c.commands[1]), id[1] # "Generate" \/ ~(id[2] <= c.gen)
             PROVE  \E i \in DOMAIN d.commands : Id(d.commands[i]) = id
  BY DEF SentIds
<1>1. PICK i \in DOMAIN c.commands : Id(c.commands[i]) = id
  BY DEF SentIds
<1>2. i # 1
  BY <1>1
<1>3. i - 1 \in DOMAIN d.commands /\ d.commands[i - 1] = c.commands[i]
  BY <1>2, RetiredPlaces
<1> QED BY <1>1, <1>3
-----------------------------------------------------------------------------
\* An event that is no acknowledgement

\* d is c with what such an event, or none, changes.
Takes(c, d, e) ==
    /\ d.commands = c.commands /\ d.gen = c.gen /\ d.ack = c.ack /\ d.profile = c.profile
    /\ d.revision = c.revision /\ d.input = c.input /\ d.history = c.history
    /\ d.covered = c.covered /\ d.seals = c.seals /\ d.closing = c.closing
    /\ d.failure # "protocol"
    /\ c.inputClosed => d.inputClosed
    /\ d.ready <=> c.ready \/ e.kind = "Ready"
    /\ d.started <=> c.started \/ e.kind = "Started"
    /\ d.closure <=> c.closure \/ e.kind = "Closed"
    /\ InGeneration(d) <=> InGeneration(c) /\ e.kind # "Finished"

\* What the commands are numbered by.
LEMMA TakenFrom ==
  ASSUME NEW c, NEW d, NEW e, Takes(c, d, e), NEW k, NEW lo
  PROVE  /\ RevisionsFrom(d, k, lo) <=> RevisionsFrom(c, k, lo)
         /\ InputsFrom(d, k, lo) <=> InputsFrom(c, k, lo)
         /\ \A hi : ProfilesFrom(d, k, lo, hi) <=> ProfilesFrom(c, k, lo, hi)
         /\ \A i : IsUser(d, i) <=> IsUser(c, i)
<1>1. /\ \A kinds : Behind(d, k, kinds) = Behind(c, k, kinds)
      /\ NumbersOf(d) = NumbersOf(c) /\ InputsOf(d) = InputsOf(c)
  BY DEF Takes, Behind, NumbersOf, InputsOf
<1> QED BY <1>1 DEF Takes, RevisionsFrom, InputsFrom, ProfilesFrom, IsUser

\* The outbox stays in line.
LEMMA TakenLine ==
  ASSUME NEW c, Line(c), NEW d, NEW e, Takes(c, d, e),
         e.kind = "Closed" => HasNoClose(c.commands)
  PROVE  Line(d)
<1>1. Distinguished(d)
  BY DEF Line, Distinguished, Takes
<1>2. Exclusives(d)
  BY DEF Line, Exclusives, Takes, HasNoClose
<1>3. InputsInOrder(d)
  BY DEF Line, InputsInOrder, Takes
<1>4. (\E p \in Nat : InputsFrom(d, 0, p)) /\ \E t \in Nat : ProfilesFrom(d, 0, d.profile, t)
  BY TakenFrom DEF Line, Takes
<1>5. Sealing(d)
  BY TakenFrom DEF Line, Sealing, Takes
<1>6. Requests(d)
  BY TakenFrom DEF Line, Requests, Takes
<1> QED BY <1>1, <1>2, <1>3, <1>4, <1>5, <1>6 DEF Line, Takes

\* The close is acknowledged before the session is closed.
LEMMA ClosedOnce ==
  ASSUME NEW c, Sound(c), Line(c), NEW F \in Seq(Signals), F # <<>>, NEW k \in Nat,
         Flowing(c, F, k), F[1].kind = "Closed"
  PROVE  HasNoClose(c.commands)
<1> SUFFICES ASSUME NEW i \in DOMAIN c.commands, c.commands[i].intent = "Close" PROVE FALSE
  BY DEF HasNoClose
<1>1. 1 \in DOMAIN F /\ \A p \in DOMAIN F : ~(p < 1)
  BY BehindHead
<1> QED BY <1>1 DEF Flowing, Waiting

\* What is behind the event fits.
LEMMA TakenFlowing ==
  ASSUME NEW c, Sound(c), Line(c), NEW F \in Seq(Signals), F # <<>>, NEW k \in Nat,
         Flowing(c, F, k), F[1].kind # "Acknowledged", NEW d, Takes(c, d, F[1])
  PROVE  Flowing(d, Tail(F), k)
<1> DEFINE G == Tail(F)
           e == F[1]
<1>1. /\ 1 \in DOMAIN F
      /\ \A p \in DOMAIN G : p + 1 \in DOMAIN F /\ p \in Nat /\ 1 < p + 1 /\ G[p] = F[p + 1]
      /\ \A p \in DOMAIN F : p # 1 => p - 1 \in DOMAIN G /\ G[p - 1] = F[p]
      /\ \A p, q \in DOMAIN G : p < q <=> p + 1 < q + 1
  <2>1. \A p \in DOMAIN F : p # 1 => p - 1 \in DOMAIN G /\ G[p - 1] = F[p]
    BY BehindHead
  <2> QED BY <2>1, BehindHead
<1>2. /\ d.ready <=> c.ready \/ e.kind = "Ready"
      /\ d.started <=> c.started \/ e.kind = "Started"
      /\ d.closure <=> c.closure \/ e.kind = "Closed"
      /\ InGeneration(d) <=> InGeneration(c) /\ e.kind # "Finished"
      /\ d.gen = c.gen /\ d.covered = c.covered /\ d.closing = c.closing /\ d.ack = c.ack
      /\ d.commands = c.commands
  BY DEF Takes
<1>3. Fitting(c, F) /\ Acked(c, F, k) /\ Waiting(c, F) /\ e = F[1] /\ e.kind # "Acknowledged"
  BY DEF Flowing
<1> HIDE DEF G, e
<1>4. ASSUME NEW p \in DOMAIN G
      PROVE  /\ e.kind \in {"Ready", "Started", "Closed"} => G[p].kind # e.kind
             /\ e.kind = "Finished" => G[p].kind \notin Responding
  BY <1>1, <1>3 DEF Fitting
<1>5. Fitting(d, G)
  <2>1. ASSUME NEW p \in DOMAIN G
        PROVE  /\ G[p].kind = "Ready" => ~d.ready /\ G[p].revision = d.ack
               /\ G[p].kind \in Responding => InGeneration(d) /\ G[p].gen = d.gen
               /\ G[p].kind = "Started" => ~d.started
               /\ G[p].kind \in {"Started", "Finished"} => G[p].pos = d.covered
               /\ G[p].kind = "Closed" => ~d.closure /\ d.closing
               /\ ~d.ready => G[p].kind \in {"none", "Ready"}
    BY <1>1, <1>2, <1>3, <1>4 DEF Fitting
  <2>2. ASSUME NEW p \in DOMAIN G, G[p].kind \in {"Output", "Finished"}, ~d.started
        PROVE  \E q \in DOMAIN G : q < p /\ G[q].kind = "Started"
    <3>1. PICK q \in DOMAIN F : q < p + 1 /\ F[q].kind = "Started"
      BY <1>1, <1>2, <1>3, <2>2 DEF Fitting
    <3>2. q # 1 /\ q - 1 \in DOMAIN G /\ G[q - 1] = F[q] /\ (q - 1) + 1 = q
      BY <1>1, <1>2, <1>3, <2>2, <3>1, BehindHead
    <3>3. q - 1 < p
      BY <1>1, <3>1, <3>2
    <3> QED BY <3>1, <3>2, <3>3
  <2>3. ASSUME NEW p \in DOMAIN G, NEW q \in DOMAIN G, p < q
        PROVE  /\ G[p].kind \in {"Ready", "Started", "Closed"} => G[q].kind # G[p].kind
               /\ G[p].kind = "Finished" => G[q].kind \notin Responding
    <3>1. p + 1 < q + 1 /\ p + 1 \in DOMAIN F /\ q + 1 \in DOMAIN F
          /\ G[p] = F[p + 1] /\ G[q] = F[q + 1]
      BY <1>1, <2>3
    <3> QED BY <1>3, <3>1 DEF Fitting
  <2> QED BY <2>1, <2>2, <2>3 DEF Fitting
<1>6. Acked(d, G, k)
  <2>1. ASSUME NEW i \in 1..k PROVE \E p \in DOMAIN G : Acks(G[p], d.commands[i])
    <3>1. PICK p \in DOMAIN F : Acks(F[p], c.commands[i])
      BY <1>3 DEF Acked
    <3>2. p # 1
      BY <1>3, <3>1 DEF Acks
    <3> QED BY <1>1, <1>2, <3>1, <3>2
  <2>2. ASSUME NEW p \in DOMAIN G, NEW q \in DOMAIN G, NEW i \in 1..k, NEW j \in 1..k,
               p < q, Acks(G[p], d.commands[i]), Acks(G[q], d.commands[j])
        PROVE  i < j
    <3>1. p + 1 < q + 1 /\ p + 1 \in DOMAIN F /\ q + 1 \in DOMAIN F
          /\ G[p] = F[p + 1] /\ G[q] = F[q + 1]
      BY <1>1, <2>2
    <3> QED BY <1>2, <1>3, <2>2, <3>1 DEF Acked
  <2> QED BY <1>1, <1>2, <1>3, <2>1, <2>2 DEF Acked
<1>7. Waiting(d, G)
  <2>1. ASSUME NEW p \in DOMAIN G, NEW command,
               \E q \in DOMAIN F : q < p + 1 /\ Acks(F[q], command)
        PROVE  \E q \in DOMAIN G : q < p /\ Acks(G[q], command)
    <3>1. PICK q \in DOMAIN F : q < p + 1 /\ Acks(F[q], command)
      BY <2>1
    <3>2. q # 1
      BY <1>3, <3>1 DEF Acks
    <3>3. q - 1 \in DOMAIN G /\ G[q - 1] = F[q] /\ q \in Nat /\ p \in Nat
      BY <1>1, <3>2, BehindHead
    <3>4. q - 1 < p
      BY <3>1, <3>3
    <3> QED BY <3>1, <3>3, <3>4
  <2>2. ASSUME NEW i \in DOMAIN d.commands, d.commands[i].intent = "Generate"
        PROVE  /\ InGeneration(d) /\ ~d.started
               /\ \A p \in DOMAIN G : G[p].kind \in Responding
                     => \E q \in DOMAIN G : q < p /\ Acks(G[q], d.commands[i])
    <3>1. /\ InGeneration(c) /\ ~c.started
          /\ \A p \in DOMAIN F : F[p].kind \in Responding
                => \E q \in DOMAIN F : q < p /\ Acks(F[q], c.commands[i])
      BY <1>2, <1>3, <2>2 DEF Waiting
    <3>2. e.kind \notin Responding
      BY <1>1, <1>3, <3>1, BehindHead
    <3>3. InGeneration(d) /\ ~d.started
      BY <1>2, <3>1, <3>2 DEF Responding
    <3>4. \A p \in DOMAIN G : G[p].kind \in Responding
             => \E q \in DOMAIN F : q < p + 1 /\ Acks(F[q], c.commands[i])
      BY <1>1, <3>1
    <3> QED BY <1>2, <2>1, <3>3, <3>4
  <2>3. ASSUME NEW i \in DOMAIN d.commands, d.commands[i].intent = "Close"
        PROVE  \A p \in DOMAIN G : G[p].kind = "Closed"
                  => \E q \in DOMAIN G : q < p /\ Acks(G[q], d.commands[i])
    <3>1. \A p \in DOMAIN G : G[p].kind = "Closed"
             => \E q \in DOMAIN F : q < p + 1 /\ Acks(F[q], c.commands[i])
      BY <1>1, <1>2, <1>3, <2>3 DEF Waiting
    <3> QED BY <1>2, <2>1, <3>1
  <2> QED BY <2>2, <2>3 DEF Waiting
<1> QED BY <1>5, <1>6, <1>7 DEF Flowing, G

\* The session meets what is left.
LEMMA TakenMeets ==
  ASSUME NEW c, NEW F \in Seq(Signals), F # <<>>, NEW k \in Nat, NEW d, Takes(c, d, F[1]),
         NEW s, NEW q, NEW b, NEW sent, Meets(c, F, k, s, q, b, sent)
  PROVE  Meets(d, Tail(F), k, s, q, b, sent)
<1>1. Fits(d, s, k)
  BY TakenFrom DEF Meets, Fits, Takes
<1>2. Lined(d, k, q, b, sent)
  <2>1. PICK r \in Nat, m \in Nat : Linked(c, k, r, m, q, b) /\ SentUpTo(c, sent, m)
    BY DEF Meets, Lined
  <2>2. d.commands = c.commands /\ d.history = c.history
    BY DEF Takes
  <2>3. Linked(d, k, r, m, q, b)
    BY <2>1, <2>2 DEF Linked, Carries
  <2>4. SentUpTo(d, sent, m)
    BY <2>1, <2>2 DEF SentUpTo
  <2> QED BY <2>3, <2>4 DEF Lined
<1>3. Opening(d, s, q, b)
  BY DEF Meets, Opening, Takes
<1>4. /\ \A p \in DOMAIN Tail(F) : p + 1 \in DOMAIN F /\ Tail(F)[p] = F[p + 1]
      /\ \A p \in DOMAIN F : p # 1 => p - 1 \in DOMAIN Tail(F) /\ Tail(F)[p - 1] = F[p]
      /\ 1 \in DOMAIN F
  BY BehindHead
<1>5. Calling(d, Tail(F), k, s)
  <2> SUFFICES ASSUME s.active # None
               PROVE  /\ InGeneration(d) /\ s.active.gen = d.gen /\ s.active.pos = d.covered
                      /\ \A p \in DOMAIN Tail(F) : Tail(F)[p].kind \notin {"Output", "Finished"}
                      /\ d.started \/ \E p \in DOMAIN Tail(F) : Tail(F)[p].kind = "Started"
                      /\ \A i \in DOMAIN d.commands : i > k => d.commands[i].intent # "Generate"
    BY DEF Calling
  <2>1. /\ InGeneration(c) /\ s.active.gen = c.gen /\ s.active.pos = c.covered
        /\ \A p \in DOMAIN F : F[p].kind \notin {"Output", "Finished"}
        /\ c.started \/ \E p \in DOMAIN F : F[p].kind = "Started"
        /\ \A i \in DOMAIN c.commands : i > k => c.commands[i].intent # "Generate"
    BY DEF Meets, Calling
  <2>2. d.started \/ \E p \in DOMAIN Tail(F) : Tail(F)[p].kind = "Started"
    <3>1. CASE c.started
      BY <3>1 DEF Takes
    <3>2. ASSUME NEW p \in DOMAIN F, F[p].kind = "Started"
          PROVE  d.started \/ \E x \in DOMAIN Tail(F) : Tail(F)[x].kind = "Started"
      <4>1. CASE p = 1
        BY <3>2, <4>1 DEF Takes
      <4>2. CASE p # 1
        BY <1>4, <3>2, <4>2
      <4> QED BY <4>1, <4>2
    <3> QED BY <2>1, <3>1, <3>2
  <2> QED BY <1>4, <2>1, <2>2 DEF Takes
<1> QED BY <1>1, <1>2, <1>3, <1>5 DEF Meets
-----------------------------------------------------------------------------
\* apply_event

\* Dropping the first command leaves the others.
LEMMA FirstDropped ==
  ASSUME NEW c, Sound(c), Line(c), c.commands # <<>>
  PROVE  Dropped(c.commands, Id(c.commands[1])) = Tail(c.commands)
<1> DEFINE id == Id(c.commands[1])
<1>1. c \in Checkpoints /\ c.commands \in Seq(PendingCommands) /\ Len(c.commands) \in Nat
      /\ 1 \in 1..Len(c.commands) /\ DOMAIN c.commands = 1..Len(c.commands)
  BY OutboxType DEF Sound
<1>2. Places(c.commands, id) = {1}
  BY <1>1 DEF Places, Line, Distinguished
<1>3. FirstOf({1}) = 1
  BY FirstIsLeast
<1>4. RemoveAt(c.commands, 1) = Tail(c.commands)
  <2> DEFINE s == RemoveAt(c.commands, 1)
             t == Tail(c.commands)
  <2>1. s \in Seq(PendingCommands) /\ Len(s) = Len(c.commands) - 1
        /\ \A i \in 1..(Len(c.commands) - 1) : s[i] = IF i < 1 THEN c.commands[i]
                                                       ELSE c.commands[i + 1]
    BY <1>1, Removal
  <2>2. t \in Seq(PendingCommands) /\ Len(t) = Len(c.commands) - 1
        /\ \A i \in 1..(Len(c.commands) - 1) : t[i] = c.commands[i + 1]
    BY <1>1
  <2> HIDE DEF s, t
  <2>3. \A i \in 1..(Len(c.commands) - 1) : s[i] = t[i]
    BY <1>1, <2>1, <2>2
  <2>4. s = t
    BY <2>1, <2>2, <2>3
  <2> QED BY <2>4 DEF s, t
<1> QED BY <1>2, <1>3, <1>4 DEF Dropped

\* The first command leaves the outbox when it is acknowledged.
LEMMA AcknowledgedRetires ==
  ASSUME NEW c, Sound(c), Line(c), c.commands # <<>>, NEW n \in Nat
  PROVE  LET d == Retired([c EXCEPT !.cursor = n], Id(c.commands[1]))
         IN  Retires(c, d) /\ SameCall(c, d) /\ d.cursor = n
<1> DEFINE id == Id(c.commands[1])
           b == [c EXCEPT !.cursor = n]
           d == Retired(b, id)
<1>1. c \in Checkpoints /\ c.commands \in Seq(PendingCommands) /\ Len(c.commands) \in Nat
      /\ 1 \in 1..Len(c.commands) /\ DOMAIN c.commands = 1..Len(c.commands)
  BY OutboxType DEF Sound
<1>2. Dropped(c.commands, id) = Tail(c.commands)
  BY FirstDropped
<1>6. id[1] = c.commands[1].intent /\ id[2] = c.commands[1].n
  BY DEF Id
<1>7. b \in Checkpoints /\ b = [c EXCEPT !.cursor = n] /\ b.commands = c.commands
  BY <1>1 DEF Checkpoints, Cursors
<1> DEFINE r == [b EXCEPT !.commands = Tail(c.commands)]
<1>8. d = CASE id[1] \in {"Append", "Replace"} -> [r EXCEPT !.ack = id[2]]
            [] id[1] = "Profile"               -> [r EXCEPT !.profile = id[2]]
            [] OTHER                           -> r
  BY <1>2, <1>7 DEF Retired
<1>9. /\ r.commands = Tail(c.commands) /\ r.ack = c.ack /\ r.profile = c.profile
      /\ r.history = c.history /\ r.revision = c.revision /\ r.input = c.input
      /\ r.inputClosed = c.inputClosed /\ r.seals = c.seals /\ r.failure = c.failure
      /\ r.closure = c.closure /\ r.ready = c.ready /\ SameCall(c, r) /\ r.cursor = n
  BY <1>1, <1>7 DEF Checkpoints, SameCall
<1>10. CASE IsNumbered(c.commands[1])
  <2>1. d = [r EXCEPT !.ack = c.commands[1].n] /\ ~IsProfile(c.commands[1])
    BY <1>6, <1>8, <1>10 DEF IsNumbered, IsProfile
  <2>2. Retires(c, d)
    BY <1>1, <1>7, <1>9, <1>10, <2>1 DEF Retires, Checkpoints
  <2>3. SameCall(c, d) /\ d.cursor = n
    BY <1>1, <1>7, <1>9, <2>1 DEF SameCall, Checkpoints
  <2> QED BY <2>2, <2>3 DEF d, id, b
<1>11. CASE IsProfile(c.commands[1])
  <2>1. d = [r EXCEPT !.profile = c.commands[1].n] /\ ~IsNumbered(c.commands[1])
    BY <1>6, <1>8, <1>11 DEF IsNumbered, IsProfile
  <2>2. Retires(c, d)
    BY <1>1, <1>7, <1>9, <1>11, <2>1 DEF Retires, Checkpoints
  <2>3. SameCall(c, d) /\ d.cursor = n
    BY <1>1, <1>7, <1>9, <2>1 DEF SameCall, Checkpoints
  <2> QED BY <2>2, <2>3 DEF d, id, b
<1>12. CASE ~IsNumbered(c.commands[1]) /\ ~IsProfile(c.commands[1])
  <2>1. d = r
    BY <1>6, <1>8, <1>12 DEF IsNumbered, IsProfile
  <2>2. Retires(c, d)
    BY <1>1, <1>9, <1>12, <2>1 DEF Retires
  <2> QED BY <1>9, <2>1, <2>2 DEF d, id, b
<1> QED BY <1>10, <1>11, <1>12

\* What the other events change.
LEMMA HandledTakes ==
  ASSUME NEW c, Sound(c), Line(c), NEW e \in Events, e.kind # "Acknowledged",
         e.kind = "Finished" => e.pos = c.covered, NEW n \in Nat
  PROVE  LET d == Handled([c EXCEPT !.cursor = n], e) IN Takes(c, d, e) /\ d.cursor = n
<1> DEFINE b == [c EXCEPT !.cursor = n]
           d == Handled(b, e)
<1>1. /\ c \in Checkpoints /\ b \in Checkpoints /\ b.commands = c.commands /\ b.gen = c.gen
      /\ b.ack = c.ack /\ b.profile = c.profile /\ b.revision = c.revision /\ b.input = c.input
      /\ b.history = c.history /\ b.covered = c.covered /\ b.seals = c.seals
      /\ b.closing = c.closing /\ b.failure = c.failure /\ b.inputClosed = c.inputClosed
      /\ b.ready = c.ready /\ b.started = c.started /\ b.closure = c.closure
      /\ b.status = c.status /\ b.cursor = n /\ c.failure # "protocol"
  BY DEF Sound, Checkpoints, Cursors, Line
<1>2. e.kind \in EventKinds
  BY EventTypes
<1> HIDE DEF b
<1>3. CASE e.kind = "Ready"
  <2>1. d = [b EXCEPT !.ready = TRUE]
    BY <1>3 DEF Handled
  <2> QED BY <1>1, <1>3, <2>1, ZenonT(40) DEF Takes, Checkpoints, InGeneration, d, b
<1>4. CASE e.kind = "Started"
  <2>1. d = [b EXCEPT !.started = TRUE]
    BY <1>4 DEF Handled
  <2> QED BY <1>1, <1>4, <2>1, ZenonT(40) DEF Takes, Checkpoints, InGeneration, d, b
<1>5. CASE e.kind = "Output"
  <2>1. d = b
    BY <1>5 DEF Handled
  <2> QED BY <1>1, <1>5, <2>1 DEF Takes, Checkpoints, InGeneration, d, b
<1>6. CASE e.kind = "Closed"
  <2>1. d = [b EXCEPT !.closure = TRUE, !.inputClosed = TRUE]
    BY <1>6 DEF Handled
  <2>2. /\ d.commands = b.commands /\ d.gen = b.gen
        /\ d.ack = b.ack /\ d.profile = b.profile /\ d.revision = b.revision /\ d.input = b.input
        /\ d.history = b.history /\ d.covered = b.covered /\ d.seals = b.seals
        /\ d.closing = b.closing /\ d.inputClosed /\ d.failure = b.failure
        /\ d.ready = b.ready /\ d.started = b.started /\ d.closure
        /\ d.status = b.status /\ d.cursor = b.cursor
    BY <1>1, <2>1 DEF Checkpoints
  <2> QED BY <1>1, <1>6, <2>2 DEF Takes, InGeneration, d, b
<1>7. CASE e.kind = "Finished"
  <2>1. d = Answered(b, e) /\ e.status \in Statuses /\ e.pos = c.covered
    BY <1>7, EventTypes DEF Handled
  <2>2. e.status # None
    BY <2>1, ExchangeConstants, NoneIsNoValue
  <2>3. /\ d.commands = c.commands /\ d.gen = c.gen
        /\ d.ack = c.ack /\ d.profile = c.profile /\ d.revision = c.revision /\ d.input = c.input
        /\ d.history = c.history /\ d.covered = c.covered /\ d.seals = c.seals
        /\ d.closing = c.closing /\ d.inputClosed = c.inputClosed
        /\ d.ready = c.ready /\ d.started = c.started /\ d.closure = c.closure
        /\ d.status = e.status /\ d.cursor = n
    BY <1>1, <2>1 DEF Answered, Checkpoints
  <2>4. d.failure = c.failure \/ d.failure = "generation"
    BY <1>1, <2>1 DEF Answered, Checkpoints
  <2> QED BY <1>1, <1>7, <2>2, <2>3, <2>4 DEF Takes, InGeneration, d, b
<1> QED BY <1>2, <1>3, <1>4, <1>5, <1>6, <1>7 DEF EventKinds

\* The engine expects what comes first.
LEMMA NextIsExpected ==
  ASSUME NEW c, Sound(c), Line(c), NEW F \in Seq(Signals), F # <<>>, NEW k \in Nat,
         Flowing(c, F, k), F[1] \in Events
  PROVE  Expected(c, F[1])
<1> DEFINE e == F[1]
<1>1. e \in Events /\ e.kind \in EventKinds /\ 1 \in DOMAIN F /\ \A q \in DOMAIN F : ~(q < 1)
  BY EventTypes, BehindHead
<1>2. /\ e.kind = "Ready" => ~c.ready /\ e.revision = c.ack
      /\ e.kind \in Responding => InGeneration(c) /\ e.gen = c.gen
      /\ e.kind = "Started" => ~c.started
      /\ e.kind \in {"Started", "Finished"} => e.pos = c.covered
      /\ e.kind \in {"Output", "Finished"} => c.started
      /\ e.kind = "Closed" => ~c.closure
  BY <1>1 DEF Flowing, Fitting
<1>3. c.covered \in Nat /\ c.input \in Nat /\ c.covered <= c.input
  BY DEF Sound, Checkpoints
<1>4. ASSUME e.kind = "Acknowledged"
      PROVE  /\ Places(c.commands, e.id) # {}
             /\ e.id[1] \in {"Append", "Replace"} => e.id[2] = c.ack + 1
  <2>1. c.commands \in Seq(PendingCommands) /\ c.commands # <<>> /\ e.id = Id(c.commands[1])
        /\ 1 \in DOMAIN c.commands /\ \A i \in DOMAIN c.commands : i \in Nat /\ (i # 1 => 1 < i)
    BY <1>4, FirstAcked, OutboxType DEF Line, Flowing, Sound
  <2>2. 1 \in Places(c.commands, e.id)
    BY <2>1 DEF Places
  <2>3. ASSUME IsNumbered(c.commands[1]) PROVE c.commands[1].n = c.ack + 1
    <3>1. c.commands[1].n \in (c.ack + 1)..c.revision /\ c.ack \in Nat /\ c.revision \in Nat
      BY <2>1, <2>3 DEF Sound, OutboxOf, RevisionsOf, Checkpoints
    <3>2. PICK i \in DOMAIN c.commands : IsNumbered(c.commands[i]) /\ c.commands[i].n = c.ack + 1
      BY <3>1, SMTT(30) DEF Sound, OutboxOf, RevisionsOf
    <3>3. i # 1 => c.commands[1].n < c.commands[i].n
      BY <2>1, <2>3, <3>2 DEF Sound, OutboxOf, InOrder
    <3> QED BY <3>1, <3>2, <3>3
  <2>4. e.id[1] = c.commands[1].intent /\ e.id[2] = c.commands[1].n
    BY <2>1 DEF Id
  <2> QED BY <2>2, <2>3, <2>4 DEF IsNumbered
<1> HIDE DEF e
<1>5. Expected(c, e)
  <2>1. CASE e.kind = "Ready"
    BY <1>2, <2>1 DEF Expected
  <2>2. CASE e.kind = "Started"
    BY <1>2, <2>2 DEF Expected, Responding
  <2>3. CASE e.kind = "Acknowledged"
    BY <1>4, <2>3 DEF Expected
  <2>4. CASE e.kind = "Output"
    BY <1>2, <2>4 DEF Expected, Responding
  <2>5. CASE e.kind = "Finished"
    BY <1>2, <1>3, <2>5 DEF Expected, Responding
  <2>6. CASE e.kind = "Closed"
    BY <1>2, <2>6 DEF Expected
  <2> QED BY <1>1, <2>1, <2>2, <2>3, <2>4, <2>5, <2>6 DEF EventKinds
<1> QED BY <1>5 DEF e

\* The event at the head is handled, and what is behind it still fits.
Met(c, F, k, sent, d, G, j, left) ==
    \A s \in UpSessions, q \in Seq(Carried), b \in Batches :
       Meets(c, F, k, s, q, b, sent) => Meets(d, G, j, s, q, b, left)

\* The engine handles the next event.
LEMMA HandledFlow ==
  ASSUME NEW c, Sound(c), Line(c), NEW F \in Seq(Signals), F # <<>>, NEW k \in Nat,
         Flowing(c, F, k), F[1] \in Events, NEW n \in Nat, NEW sent \in SUBSET Ident,
         SentIds(c, sent)
  PROVE  LET e == F[1]
             d == Handled([c EXCEPT !.cursor = n], e)
             left == IF e.kind = "Acknowledged" THEN sent \ {e.id} ELSE sent
         IN  /\ Sound(d) /\ Line(d) /\ d.cursor = n /\ SentIds(d, left)
             /\ \E j \in Nat : Flowing(d, Tail(F), j) /\ Met(c, F, k, sent, d, Tail(F), j, left)
<1> DEFINE e == F[1]
           d == Handled([c EXCEPT !.cursor = n], e)
           left == IF e.kind = "Acknowledged" THEN sent \ {e.id} ELSE sent
           Goal == /\ Sound(d) /\ Line(d) /\ d.cursor = n /\ SentIds(d, left)
                   /\ \E j \in Nat : Flowing(d, Tail(F), j)
                                     /\ Met(c, F, k, sent, d, Tail(F), j, left)
<1>1. Sound(d)
  <2>1. Expected([c EXCEPT !.cursor = n], e)
    BY NextIsExpected, ExpectedCursor
  <2>2. Sound([c EXCEPT !.cursor = n])
    BY FieldsSound
  <2> QED BY <2>1, <2>2, HandledSound
<1>2. CASE e.kind = "Acknowledged"
  <2>1. k # 0 /\ c.commands # <<>> /\ e.id = Id(c.commands[1])
    BY <1>2, FirstAcked, OutboxType DEF Line, Flowing, Sound
  <2>2. d = Retired([c EXCEPT !.cursor = n], e.id) /\ left = sent \ {e.id}
    BY <1>2 DEF Handled
  <2>3. Retires(c, d) /\ SameCall(c, d) /\ d.cursor = n
    BY <2>1, <2>2, AcknowledgedRetires
  <2>4. Acks(F[1], c.commands[1]) /\ k - 1 \in Nat /\ (k - 1) + 1 = k
    BY <1>2, <2>1 DEF Acks
  <2> HIDE DEF d, left, e
  <2>5. Line(d) /\ SentIds(d, left)
    BY <2>1, <2>2, <2>3, RetiredLine, RetiredSentIds DEF SameCall
  <2>6. Flowing(d, Tail(F), k - 1)
    BY <2>3, <2>4, RetiredFlowing
  <2>7. Met(c, F, k, sent, d, Tail(F), k - 1, left)
    <3> SUFFICES ASSUME NEW s \in UpSessions, NEW q \in Seq(Carried), NEW b \in Batches,
                        Meets(c, F, k, s, q, b, sent)
                 PROVE  Meets(d, Tail(F), k - 1, s, q, b, left)
      BY DEF Met
    <3> DEFINE j == k - 1
    <3>1. j \in Nat /\ j + 1 = k
      BY <2>4
    <3> HIDE DEF j
    <3>2. Meets(c, F, j + 1, s, q, b, sent)
      BY <3>1
    <3>3. Meets(d, Tail(F), j, s, q, b, sent \ {Id(c.commands[1])})
      BY <2>3, <2>4, <3>1, <3>2, RetiredMeets
    <3> QED BY <2>1, <2>2, <3>3 DEF j
  <2> QED BY <1>1, <2>3, <2>4, <2>5, <2>6, <2>7 DEF d, left, e
<1>3. CASE e.kind # "Acknowledged"
  <2>1. e.kind = "Finished" => e.pos = c.covered
    BY BehindHead DEF Flowing, Fitting
  <2>2. Takes(c, d, e) /\ d.cursor = n /\ left = sent
    BY <1>3, <2>1, HandledTakes
  <2>3. e.kind = "Closed" => HasNoClose(c.commands)
    BY ClosedOnce
  <2> HIDE DEF d, left
  <2>4. Line(d)
    BY <2>2, <2>3, TakenLine
  <2>5. SentIds(d, left)
    BY <2>2 DEF SentIds, Takes
  <2>6. Flowing(d, Tail(F), k)
    BY <1>3, <2>2, TakenFlowing
  <2>7. Met(c, F, k, sent, d, Tail(F), k, left)
    BY <2>2, TakenMeets DEF Met
  <2> QED BY <1>1, <2>2, <2>4, <2>5, <2>6, <2>7 DEF d, left, e
<1> QED BY <1>2, <1>3

\* d is c with more pending; what was on its way still fits.
Keeps(c, d) ==
    /\ Line(d)
    /\ \A sent \in SUBSET Ident, j \in Nat : \A G : SentIds(c, sent) /\ Flowing(c, G, j) =>
          SentIds(d, sent) /\ Flowing(d, G, j) /\ Met(c, G, j, sent, d, G, j, sent)

\* One more command beside the others.
LEMMA BesideKeeps ==
  ASSUME NEW c, Sound(c), Line(c), NEW d, Sound(d), NEW command, Extends(c, d, command),
         SameCall(c, d), ~Exclusive(command)
  PROVE  Keeps(c, d)
<1>1. Line(d)
  BY BesideLine
<1>2. c.gen <= d.gen
  BY DEF SameCall, Sound, Checkpoints
<1>3. ASSUME NEW sent \in SUBSET Ident, NEW G, NEW j \in Nat, SentIds(c, sent), Flowing(c, G, j)
      PROVE  SentIds(d, sent) /\ Flowing(d, G, j) /\ Met(c, G, j, sent, d, G, j, sent)
  <2>1. SentIds(d, sent)
    BY <1>2, <1>3, ExtendedSentIds
  <2>2. Flowing(d, G, j)
    BY <1>3, BesideFlowing
  <2>3. Met(c, G, j, sent, d, G, j, sent)
    BY <1>3, BesideMeets DEF Met
  <2> QED BY <2>1, <2>2, <2>3
<1> QED BY <1>1, <1>3 DEF Keeps

\* What is recorded of an event is one more command, or none.
LEMMA RecordedFlow ==
  ASSUME NEW c, Sound(c), Line(c), NEW e \in Events
  PROVE  LET d == Recorded(c, e) IN Sound(d) /\ d.cursor = c.cursor /\ Keeps(c, d)
<1> DEFINE d == Recorded(c, e)
<1>1. Sound(d)
  BY RecordedSound
<1>2. CASE e.kind \in {"Output", "Finished"}
  <2>1. PICK entry \in Entries : d = WithEntry(c, entry)
    <3>1. e.kind = "Output" => Entry("Output", e.gen, e.item) \in Entries
      BY EventTypes DEF Entry, Entries
    <3>2. e.kind = "Finished" => Entry("Finished", e.gen, 0) \in Entries
      BY EventTypes DEF Entry, Entries
    <3> QED BY <1>2, <3>1, <3>2 DEF Recorded
  <2>2. PICK command : Extends(c, d, command) /\ SameCall(c, d) /\ ~Exclusive(command)
                       /\ d.cursor = c.cursor
    BY <2>1, WithEntryExtends
  <2> HIDE DEF d
  <2> QED BY <1>1, <2>2, BesideKeeps DEF d
<1>3. CASE e.kind \notin {"Output", "Finished"}
  <2>1. d = c
    BY <1>3 DEF Recorded
  <2> HIDE DEF d
  <2> QED BY <1>1, <2>1 DEF Met, Keeps, d
<1> QED BY <1>2, <1>3

-----------------------------------------------------------------------------
\* A command prepared alone

\* d is c, which has no command, with one that must be alone.
Alone(c, d, command) ==
    /\ Extends(c, d, command) /\ Exclusive(command) /\ Exclusives(d) /\ Requests(d)
    /\ c.gen <= d.gen
    /\ command.intent = "Generate" => command.n = c.gen + 1 /\ InGeneration(d) /\ ~d.started
    /\ command.intent = "Close" => ~c.closing
    /\ c.closing => d.closing

\* Nothing on its way is about a call or a command.
LEMMA AloneFlowing ==
  ASSUME NEW c, Sound(c), Line(c), NEW d, Sound(d), NEW command, Alone(c, d, command),
         ~InGeneration(c), NEW F, NEW k \in Nat, Flowing(c, F, k)
  PROVE  k = 0 /\ Flowing(d, F, k)
<1>1. c.commands = <<>> /\ d.commands = <<command>> /\ command \in PendingCommands
      /\ Len(d.commands) = 1 /\ d.commands[1] = command /\ DOMAIN d.commands = {1}
  <2>1. c.commands = <<>> /\ d.commands = Append(c.commands, command)
    BY DEF Alone, Extends
  <2> QED BY <2>1, ExtendedPlaces DEF Alone
<1>2. k = 0
  BY <1>1 DEF Flowing, Acked
<1>3. /\ d.ack = c.ack /\ d.ready = c.ready /\ d.closure = c.closure /\ (c.closing => d.closing)
  BY DEF Alone, Extends
<1>4. \A p \in DOMAIN F : F[p].kind \notin Responding /\ F[p].kind # "Acknowledged"
  BY <1>2 DEF Flowing, Fitting, Acked
<1>5. Fitting(d, F)
  BY <1>3, <1>4 DEF Flowing, Fitting, Responding
<1>6. Acked(d, F, k)
  BY <1>1, <1>2, <1>4 DEF Acked
<1>7. Waiting(d, F)
  <2>1. command.intent = "Close" => \A p \in DOMAIN F : F[p].kind # "Closed"
    BY DEF Flowing, Fitting, Alone
  <2>2. command.intent = "Generate" => InGeneration(d) /\ ~d.started
    BY DEF Alone
  <2> QED BY <1>1, <1>4, <2>1, <2>2 DEF Flowing, Waiting
<1> QED BY <1>2, <1>5, <1>6, <1>7 DEF Flowing

\* The session is idle, and has seen everything else.
LEMMA AloneKeeps ==
  ASSUME NEW c, Sound(c), Line(c), NEW d, Sound(d), NEW command, Alone(c, d, command),
         ~InGeneration(c)
  PROVE  Keeps(c, d)
<1>1. Line(d)
  BY ExtendedLine DEF Alone
<1>2. ASSUME NEW sent \in SUBSET Ident, NEW G, NEW j \in Nat, SentIds(c, sent), Flowing(c, G, j)
      PROVE  SentIds(d, sent) /\ Flowing(d, G, j) /\ Met(c, G, j, sent, d, G, j, sent)
  <2>1. SentIds(d, sent)
    BY <1>2, ExtendedSentIds DEF Alone
  <2>2. j = 0 /\ Flowing(d, G, j)
    BY <1>2, AloneFlowing
  <2>3. ASSUME NEW s \in UpSessions, NEW q \in Seq(Carried), NEW b \in Batches,
               Meets(c, G, j, s, q, b, sent)
        PROVE  Meets(d, G, j, s, q, b, sent)
    <3>1. j \in 0..Len(c.commands)
      BY <2>2, ExtendedPlaces DEF Alone
    <3>2. Fits(d, s, j)
      BY <2>3, <3>1, ExtendedFits DEF Meets, Alone
    <3>3. Id(command) \notin sent
      BY <1>2, ExtendedUnsent DEF Alone
    <3>4. Lined(d, j, q, b, sent)
      BY <2>3, <3>3, ExtendedLined DEF Meets, Alone
    <3>5. s.active = None
      BY <2>3 DEF Meets, Calling
    <3>6. Calling(d, G, j, s) /\ Opening(d, s, q, b)
      BY <2>3, <3>5 DEF Meets, Calling, Opening, Alone, Extends
    <3> QED BY <3>2, <3>4, <3>6 DEF Meets
  <2> QED BY <2>1, <2>2, <2>3 DEF Met
<1> QED BY <1>1, <1>2 DEF Keeps

\* With nothing pending everything is acknowledged.
LEMMA NothingPending ==
  ASSUME NEW c, Sound(c), c.commands = <<>>
  PROVE  c.ack = c.revision /\ c.ack \in Nat
<1>1. c.ack \in Nat /\ c.revision \in Nat /\ c.ack <= c.revision
  BY DEF Sound, Checkpoints
<1>2. (c.ack + 1)..c.revision = {}
  BY DEF Sound, OutboxOf, RevisionsOf
<1> QED BY <1>1, <1>2

\* Only one command, which is no request.
LEMMA OneCommand ==
  ASSUME NEW d, NEW command, d.commands = <<command>>, command.intent # "Generate",
         command.intent \in {"Replace", "Close"} => ~InGeneration(d),
         command.intent = "Close" => d.closing /\ ~d.closure
  PROVE  Exclusives(d) /\ Requests(d)
<1>1. DOMAIN d.commands = {1} /\ d.commands[1] = command
  OBVIOUS
<1> QED BY <1>1 DEF Exclusives, Requests

\* The reducer's commit.
LEMMA ReducedAlone ==
  ASSUME NEW c, Sound(c), c.commands = <<>>, ~InGeneration(c)
  PROVE  LET revision == c.revision + 1
             d == [c EXCEPT !.history = <<Entry("Summary", revision, 0)>>, !.start = 1,
                            !.revision = revision, !.reduced = revision,
                            !.commands = Append(c.commands, Plain("Replace", revision))]
         IN  Alone(c, d, Plain("Replace", revision))
<1> DEFINE revision == c.revision + 1
           command == Plain("Replace", revision)
           d == [c EXCEPT !.history = <<Entry("Summary", revision, 0)>>, !.start = 1,
                          !.revision = revision, !.reduced = revision,
                          !.commands = Append(c.commands, Plain("Replace", revision))]
<1>1. /\ command.intent = "Replace" /\ command.n = c.revision + 1
      /\ d.commands = <<command>> /\ d.commands = Append(c.commands, command)
      /\ d.failure = c.failure /\ d.ack = c.ack /\ d.profile = c.profile /\ d.closure = c.closure
      /\ d.ready = c.ready /\ d.revision = c.revision + 1 /\ d.input = c.input
      /\ d.inputClosed = c.inputClosed /\ d.seals = c.seals /\ d.gen = c.gen
      /\ d.closing = c.closing /\ d.status = c.status /\ c.gen \in Nat
      /\ Len(c.commands) + 1 = 1 /\ DOMAIN c.commands = {}
  BY DEF Sound, Checkpoints, Plain
<1> HIDE DEF d, command
<1>2. /\ Kind(command) = "Replace" /\ Exclusive(command) /\ ~IsSubmitted(command)
      /\ ~IsAppend(command) /\ ~IsProfile(command)
  BY <1>1 DEF Kind, IsSubmitted, IsAppend, IsProfile, Exclusive
<1>3. ~IsUser(d, Len(c.commands) + 1)
  BY <1>1, <1>2 DEF IsUser
<1>4. Extends(c, d, command)
  BY <1>1, <1>2, <1>3 DEF Extends, Revising, Submitting
<1>5. Exclusives(d) /\ Requests(d)
  BY <1>1, OneCommand DEF InGeneration
<1> QED BY <1>1, <1>2, <1>4, <1>5 DEF Alone, d, command

\* prepare_generation
LEMMA GeneratedAlone ==
  ASSUME NEW c, Sound(c), c.commands = <<>>
  PROVE  LET d == Generated(c) IN Alone(c, d, GenerateCommand(d)) /\ d.cursor = c.cursor
<1> DEFINE d == Generated(c)
           command == GenerateCommand(d)
<1>1. /\ command.intent = "Generate" /\ command.n = c.gen + 1 /\ command.revision = c.revision
      /\ command.pos = c.input /\ command.profile = c.profile
      /\ d.commands = Append(c.commands, command)
      /\ d.failure = c.failure /\ d.ack = c.ack /\ d.profile = c.profile /\ d.closure = c.closure
      /\ d.ready = c.ready /\ d.revision = c.revision /\ d.input = c.input
      /\ d.inputClosed = c.inputClosed /\ d.seals = c.seals /\ d.gen = c.gen + 1
      /\ d.closing = c.closing /\ d.status = None /\ c.gen \in Nat /\ ~d.started
      /\ d.covered = c.input /\ d.cursor = c.cursor /\ c.input \in Nat
      /\ Len(c.commands) + 1 = 1 /\ DOMAIN c.commands = {}
  <2> DEFINE g == [c EXCEPT !.gen = @ + 1, !.started = FALSE, !.status = None, !.needs = FALSE,
                            !.covered = c.input, !.start = Len(c.history)]
  <2>1. /\ g.failure = c.failure /\ g.ack = c.ack /\ g.profile = c.profile /\ g.closure = c.closure
        /\ g.ready = c.ready /\ g.revision = c.revision /\ g.input = c.input
        /\ g.inputClosed = c.inputClosed /\ g.seals = c.seals /\ g.gen = c.gen + 1
        /\ g.closing = c.closing /\ g.status = None /\ c.gen \in Nat /\ ~g.started
        /\ g.covered = c.input /\ g.cursor = c.cursor /\ c.input \in Nat
        /\ g.commands = c.commands /\ DOMAIN g = DOMAIN c
        /\ Len(c.commands) + 1 = 1 /\ DOMAIN c.commands = {}
    BY DEF Sound, Checkpoints
  <2>2. d = [g EXCEPT !.commands = Append(g.commands, GenerateCommand(g))]
    BY DEF Generated, Prepared
  <2>3. "commands" \in DOMAIN g
    BY <2>1 DEF Sound, Checkpoints
  <2> HIDE DEF g, d
  <2>4. /\ d.failure = c.failure /\ d.ack = c.ack /\ d.profile = c.profile /\ d.closure = c.closure
        /\ d.ready = c.ready /\ d.revision = c.revision /\ d.input = c.input
        /\ d.inputClosed = c.inputClosed /\ d.seals = c.seals /\ d.gen = c.gen + 1
        /\ d.closing = c.closing /\ d.status = None /\ ~d.started
        /\ d.covered = c.input /\ d.cursor = c.cursor
        /\ d.commands = Append(c.commands, GenerateCommand(g))
    BY <2>1, <2>2, <2>3
  <2>5. GenerateCommand(g) = command
    BY <2>1, <2>4 DEF GenerateCommand
  <2>6. /\ command.intent = "Generate" /\ command.n = d.gen /\ command.revision = d.revision
        /\ command.pos = d.input /\ command.profile = d.profile
    BY DEF GenerateCommand
  <2> HIDE DEF command
  <2> QED BY <2>1, <2>4, <2>5, <2>6
<1>2. d.commands = <<command>> /\ DOMAIN d.commands = {1} /\ d.commands[1] = command
  <2> HIDE DEF d, command
  <2> QED BY <1>1
<1>3. c.ack = c.revision
  BY NothingPending
<1> HIDE DEF d, command
<1>4. /\ Kind(command) = "Generate" /\ Exclusive(command) /\ ~IsSubmitted(command)
      /\ ~IsAppend(command) /\ ~IsProfile(command) /\ c.gen + 1 # 0
  BY <1>1 DEF Kind, IsSubmitted, IsAppend, IsProfile, Exclusive
<1>5. ~IsUser(d, Len(c.commands) + 1)
  BY <1>1, <1>2, <1>4 DEF IsUser
<1>6. Extends(c, d, command)
  BY <1>1, <1>4, <1>5 DEF Extends, Revising, Submitting
<1>7. InputsFrom(d, 0, d.covered)
  <2>1. Behind(d, 0, Submitting) = {}
    BY <1>2, <1>4 DEF Behind, Submitting
  <2>2. Continues({}, InputsOf(d), c.input, c.input)
    BY <1>1, ContinuesEmpty
  <2>3. \A i \in DOMAIN d.commands : ~IsAppend(d.commands[i])
    BY <1>2, <1>4
  <2> QED BY <1>1, <2>1, <2>2, <2>3 DEF InputsFrom
<1>8. Exclusives(d) /\ Requests(d)
  BY <1>1, <1>2, <1>3, <1>7 DEF Exclusives, Requests
<1>9. InGeneration(d)
  BY <1>1, <1>4 DEF InGeneration
<1> QED BY <1>1, <1>4, <1>6, <1>8, <1>9 DEF Alone, d, command

\* advance decides the close.
LEMMA CloseAlone ==
  ASSUME NEW c, Sound(c), c.commands = <<>>, ~InGeneration(c), ~c.closing, ~c.closure
  PROVE  LET d == [Prepared(c, Plain("Close", 1)) EXCEPT !.closing = TRUE]
         IN  Alone(c, d, Plain("Close", 1)) /\ d.cursor = c.cursor
<1> DEFINE command == Plain("Close", 1)
           d == [Prepared(c, command) EXCEPT !.closing = TRUE]
<1>1. /\ d.commands = Append(c.commands, command)
      /\ d.failure = c.failure /\ d.ack = c.ack /\ d.profile = c.profile /\ d.closure = c.closure
      /\ d.ready = c.ready /\ d.revision = c.revision /\ d.input = c.input
      /\ d.history = c.history /\ d.inputClosed = c.inputClosed /\ d.seals = c.seals
      /\ d.gen = c.gen /\ d.closing /\ d.status = c.status /\ c.gen \in Nat /\ d.cursor = c.cursor
  BY DEF Sound, Checkpoints, Prepared
<1>2. command.intent = "Close" /\ d.commands = <<command>>
  <2>1. d.commands = <<command>>
    <3> HIDE DEF d, command
    <3> QED BY <1>1
  <2> QED BY <2>1 DEF Plain
<1> HIDE DEF d
<1>3. Extends(c, d, command)
  BY <1>1, PlainExtends
<1> HIDE DEF command
<1>4. Exclusives(d) /\ Requests(d)
  BY <1>1, <1>2, OneCommand DEF InGeneration
<1> QED BY <1>1, <1>2, <1>3, <1>4 DEF Alone, Exclusive, d, command

-----------------------------------------------------------------------------
\* What the session adds to what is on its way

\* G is F with one more signal at place x.
Inserts(F, G, x, e) ==
    /\ x \in 1..(Len(F) + 1) /\ Len(G) = Len(F) + 1
    /\ \A p \in 1..Len(G) : G[p] = IF p < x THEN F[p] ELSE IF p = x THEN e ELSE F[p - 1]

\* Where the others are.
Under(p, x) == IF p < x THEN p ELSE p - 1
Over(p, x) == IF p < x THEN p ELSE p + 1

\* What is at which place when a signal comes in between.
LEMMA InsertedPlaces ==
  ASSUME NEW F \in Seq(Signals), NEW G \in Seq(Signals), NEW x, NEW e, Inserts(F, G, x, e)
  PROVE  /\ x \in DOMAIN G /\ G[x] = e
         /\ \A p \in DOMAIN G : p # x => Under(p, x) \in DOMAIN F /\ G[p] = F[Under(p, x)]
         /\ \A p \in DOMAIN F : Over(p, x) \in DOMAIN G /\ G[Over(p, x)] = F[p] /\ Over(p, x) # x
         /\ \A p, q \in DOMAIN G : p # x /\ q # x => (p < q <=> Under(p, x) < Under(q, x))
         /\ \A p, q \in DOMAIN F : p < q <=> Over(p, x) < Over(q, x)
         /\ \A p \in DOMAIN F, q \in DOMAIN G : q # x => (p < Under(q, x) <=> Over(p, x) < q)
<1>1. /\ x \in Nat /\ x >= 1 /\ x <= Len(G) /\ Len(F) \in Nat /\ Len(G) = Len(F) + 1
      /\ DOMAIN F = 1..Len(F) /\ DOMAIN G = 1..Len(G)
  BY DEF Inserts
<1>2. \A p \in 1..Len(G) : G[p] = IF p < x THEN F[p] ELSE IF p = x THEN e ELSE F[p - 1]
  BY DEF Inserts
<1>3. x \in DOMAIN G /\ G[x] = e
  BY <1>1, <1>2
<1>4. ASSUME NEW p \in DOMAIN G, p # x PROVE Under(p, x) \in DOMAIN F /\ G[p] = F[Under(p, x)]
  BY <1>1, <1>2, <1>4 DEF Under
<1>5. ASSUME NEW p \in DOMAIN F
      PROVE  Over(p, x) \in DOMAIN G /\ G[Over(p, x)] = F[p] /\ Over(p, x) # x
  <2>1. CASE p < x
    <3>1. p \in 1..Len(G)
      BY <1>1
    <3> QED BY <1>1, <1>2, <2>1, <3>1 DEF Over
  <2>2. CASE ~(p < x)
    <3>1. p + 1 \in 1..Len(G) /\ ~(p + 1 < x) /\ p + 1 # x /\ (p + 1) - 1 = p
      BY <1>1, <2>2
    <3>2. G[p + 1] = F[(p + 1) - 1]
      BY <1>2, <3>1
    <3> QED BY <1>1, <2>2, <3>1, <3>2 DEF Over
  <2> QED BY <2>1, <2>2
<1>6. \A p, q \in DOMAIN G : p # x /\ q # x => (p < q <=> Under(p, x) < Under(q, x))
  BY <1>1 DEF Under
<1>7. \A p, q \in DOMAIN F : p < q <=> Over(p, x) < Over(q, x)
  BY <1>1 DEF Over
<1>8. \A p \in DOMAIN F, q \in DOMAIN G : q # x => (p < Under(q, x) <=> Over(p, x) < q)
  BY <1>1 DEF Over, Under
<1> QED BY <1>3, <1>4, <1>5, <1>6, <1>7, <1>8

\* An acknowledgement or a signal without meaning fits anywhere.
LEMMA InsertedFitting ==
  ASSUME NEW c, NEW F \in Seq(Signals), NEW G \in Seq(Signals), NEW x, NEW e,
         Inserts(F, G, x, e), e.kind \in {"none", "Acknowledged"},
         e.kind = "Acknowledged" => c.ready, Fitting(c, F), Waiting(c, F)
  PROVE  Fitting(c, G) /\ Waiting(c, G)
<1>1. /\ x \in DOMAIN G /\ G[x] = e
      /\ \A p \in DOMAIN G : p # x => Under(p, x) \in DOMAIN F /\ G[p] = F[Under(p, x)]
      /\ \A p \in DOMAIN F : Over(p, x) \in DOMAIN G /\ G[Over(p, x)] = F[p] /\ Over(p, x) # x
      /\ \A p, q \in DOMAIN G : p # x /\ q # x => (p < q <=> Under(p, x) < Under(q, x))
      /\ \A p \in DOMAIN F, q \in DOMAIN G : q # x => (p < Under(q, x) <=> Over(p, x) < q)
  BY InsertedPlaces
<1>2. ASSUME NEW p \in DOMAIN G, G[p].kind \notin {"none", "Acknowledged"}
      PROVE  p # x /\ Under(p, x) \in DOMAIN F /\ G[p] = F[Under(p, x)]
  BY <1>1, <1>2
<1>4. Fitting(c, G)
  <2>1. ASSUME NEW p \in DOMAIN G
        PROVE  /\ G[p].kind = "Ready" => ~c.ready /\ G[p].revision = c.ack
               /\ G[p].kind \in Responding => InGeneration(c) /\ G[p].gen = c.gen
               /\ G[p].kind = "Started" => ~c.started
               /\ G[p].kind \in {"Started", "Finished"} => G[p].pos = c.covered
               /\ G[p].kind = "Closed" => ~c.closure /\ c.closing
               /\ ~c.ready => G[p].kind \in {"none", "Ready"}
    <3>1. CASE p = x
      BY <1>1, <3>1 DEF Responding
    <3>2. CASE p # x
      <4>1. Under(p, x) \in DOMAIN F /\ G[p] = F[Under(p, x)]
        BY <1>1, <3>2
      <4> QED BY <4>1 DEF Fitting
    <3> QED BY <3>1, <3>2
  <2>2. ASSUME NEW p \in DOMAIN G, G[p].kind \in {"Output", "Finished"}, ~c.started
        PROVE  \E q \in DOMAIN G : q < p /\ G[q].kind = "Started"
    <3>1. p # x /\ Under(p, x) \in DOMAIN F /\ G[p] = F[Under(p, x)]
      BY <1>2, <2>2
    <3>2. PICK q \in DOMAIN F : q < Under(p, x) /\ F[q].kind = "Started"
      BY <2>2, <3>1 DEF Fitting
    <3>3. Over(q, x) \in DOMAIN G /\ Over(q, x) < p /\ G[Over(q, x)] = F[q]
      BY <1>1, <3>1, <3>2
    <3> QED BY <3>2, <3>3
  <2>3. ASSUME NEW p \in DOMAIN G, NEW q \in DOMAIN G, p < q
        PROVE  /\ G[p].kind \in {"Ready", "Started", "Closed"} => G[q].kind # G[p].kind
               /\ G[p].kind = "Finished" => G[q].kind \notin Responding
    <3>1. CASE p = x \/ q = x
      BY <1>1, <3>1 DEF Responding
    <3>2. CASE p # x /\ q # x
      <4>1. /\ Under(p, x) \in DOMAIN F /\ G[p] = F[Under(p, x)] /\ Under(p, x) < Under(q, x)
            /\ Under(q, x) \in DOMAIN F /\ G[q] = F[Under(q, x)]
        BY <1>1, <2>3, <3>2
      <4> QED BY <4>1 DEF Fitting
    <3> QED BY <3>1, <3>2
  <2> QED BY <2>1, <2>2, <2>3 DEF Fitting
<1>5. Waiting(c, G)
  <2>1. ASSUME NEW p \in DOMAIN G, NEW i, G[p].kind \notin {"none", "Acknowledged"},
               \E q \in DOMAIN F : q < Under(p, x) /\ Acks(F[q], c.commands[i])
        PROVE  \E q \in DOMAIN G : q < p /\ Acks(G[q], c.commands[i])
    <3>1. PICK q \in DOMAIN F : q < Under(p, x) /\ Acks(F[q], c.commands[i])
      BY <2>1
    <3>2. Over(q, x) \in DOMAIN G /\ Over(q, x) < p /\ G[Over(q, x)] = F[q]
      BY <1>1, <1>2, <2>1, <3>1
    <3> QED BY <3>1, <3>2
  <2>2. ASSUME NEW i \in DOMAIN c.commands, c.commands[i].intent = "Generate", NEW p \in DOMAIN G,
               G[p].kind \in Responding
        PROVE  \E q \in DOMAIN G : q < p /\ Acks(G[q], c.commands[i])
    <3>1. G[p].kind \notin {"none", "Acknowledged"}
      BY <2>2 DEF Responding
    <3>2. Under(p, x) \in DOMAIN F /\ G[p] = F[Under(p, x)]
      BY <1>2, <3>1
    <3> QED BY <2>1, <2>2, <3>1, <3>2 DEF Waiting
  <2>3. ASSUME NEW i \in DOMAIN c.commands, c.commands[i].intent = "Close", NEW p \in DOMAIN G,
               G[p].kind = "Closed"
        PROVE  \E q \in DOMAIN G : q < p /\ Acks(G[q], c.commands[i])
    <3>1. G[p].kind \notin {"none", "Acknowledged"}
      BY <2>3
    <3>2. Under(p, x) \in DOMAIN F /\ G[p] = F[Under(p, x)]
      BY <1>2, <3>1
    <3> QED BY <2>1, <2>3, <3>1, <3>2 DEF Waiting
  <2> QED BY <2>2, <2>3 DEF Waiting
<1> QED BY <1>4, <1>5

\* A signal without meaning.
LEMMA NothingInserted ==
  ASSUME NEW c, NEW F \in Seq(Signals), NEW G \in Seq(Signals), NEW x, Inserts(F, G, x, NoEvent),
         NEW k \in Nat, Flowing(c, F, k)
  PROVE  Flowing(c, G, k)
<1>1. NoEvent.kind = "none"
  BY DEF NoEvent
<1>2. Fitting(c, G) /\ Waiting(c, G)
  BY <1>1, InsertedFitting DEF Flowing
<1>3. Acked(c, G, k)
  <2>1. \A i \in 1..k : \E p \in DOMAIN G : Acks(G[p], c.commands[i])
    BY InsertedPlaces DEF Flowing, Acked
  <2>2. \A p \in DOMAIN G : G[p].kind = "Acknowledged"
          => p # x /\ Under(p, x) \in DOMAIN F /\ G[p] = F[Under(p, x)]
    BY <1>1, InsertedPlaces
  <2>3. \A p \in DOMAIN G : G[p].kind = "Acknowledged" => \E i \in 1..k : Acks(G[p], c.commands[i])
    BY <2>2 DEF Flowing, Acked
  <2>4. ASSUME NEW p \in DOMAIN G, NEW q \in DOMAIN G, NEW i \in 1..k, NEW j \in 1..k,
               p < q, Acks(G[p], c.commands[i]), Acks(G[q], c.commands[j])
        PROVE  i < j
    <3>1. /\ Under(p, x) \in DOMAIN F /\ G[p] = F[Under(p, x)] /\ p # x
          /\ Under(q, x) \in DOMAIN F /\ G[q] = F[Under(q, x)] /\ q # x
      BY <2>2, <2>4 DEF Acks
    <3>2. Under(p, x) < Under(q, x)
      BY <2>4, <3>1, InsertedPlaces
    <3> QED BY <2>4, <3>1, <3>2 DEF Flowing, Acked
  <2> QED BY <2>1, <2>3, <2>4 DEF Flowing, Acked
<1> QED BY <1>2, <1>3 DEF Flowing

\* The acknowledgement of the next command, behind the others.
LEMMA NextAcked ==
  ASSUME NEW c, c.commands \in Seq(PendingCommands), Distinguished(c), c.ready,
         NEW F \in Seq(Signals), NEW G \in Seq(Signals), NEW x, NEW e, Inserts(F, G, x, e),
         NEW k \in Nat, k + 1 \in DOMAIN c.commands, Acks(e, c.commands[k + 1]),
         \A p \in DOMAIN F : p >= x => F[p].kind # "Acknowledged", Flowing(c, F, k)
  PROVE  Flowing(c, G, k + 1)
<1>1. e.kind = "Acknowledged"
  BY DEF Acks
<1>2. Fitting(c, G) /\ Waiting(c, G)
  BY <1>1, InsertedFitting DEF Flowing
<1>3. /\ x \in DOMAIN G /\ G[x] = e
      /\ \A p \in DOMAIN G : p # x => Under(p, x) \in DOMAIN F /\ G[p] = F[Under(p, x)]
      /\ \A p \in DOMAIN F : Over(p, x) \in DOMAIN G /\ G[Over(p, x)] = F[p] /\ Over(p, x) # x
      /\ \A p, q \in DOMAIN G : p # x /\ q # x => (p < q <=> Under(p, x) < Under(q, x))
  BY InsertedPlaces
<1>4. /\ Len(c.commands) \in Nat /\ DOMAIN c.commands = 1..Len(c.commands)
      /\ k + 1 <= Len(c.commands) /\ k + 1 \in 1..(k + 1)
      /\ \A i \in 1..(k + 1) : i \in DOMAIN c.commands /\ (i # k + 1 => i \in 1..k /\ i < k + 1)
  BY Outbox
<1>5. Acked(c, G, k + 1)
  <2>1. ASSUME NEW i \in 1..(k + 1) PROVE \E p \in DOMAIN G : Acks(G[p], c.commands[i])
    <3>1. CASE i = k + 1
      BY <1>3, <3>1
    <3>2. CASE i \in 1..k
      BY <1>3, <3>2 DEF Flowing, Acked
    <3> QED BY <1>4, <3>1, <3>2
  <2>2. ASSUME NEW p \in DOMAIN G, G[p].kind = "Acknowledged"
        PROVE  \E i \in 1..(k + 1) : Acks(G[p], c.commands[i])
    <3>1. CASE p = x
      BY <1>3, <1>4, <3>1
    <3>2. CASE p # x
      <4>1. PICK i \in 1..k : Acks(F[Under(p, x)], c.commands[i])
        BY <1>3, <2>2, <3>2 DEF Flowing, Acked
      <4>2. i \in 1..(k + 1)
        OBVIOUS
      <4> QED BY <1>3, <3>2, <4>1, <4>2
    <3> QED BY <3>1, <3>2
  <2>3. ASSUME NEW p \in DOMAIN G, NEW j \in 1..(k + 1), Acks(G[p], c.commands[j])
        PROVE  /\ p = x => j = k + 1
               /\ p # x => j \in 1..k /\ p < x
    <3>1. ASSUME p = x PROVE j = k + 1
      BY <1>3, <1>4, <2>3, <3>1 DEF Acks, Distinguished
    <3>2. ASSUME p # x PROVE j \in 1..k /\ p < x
      <4>1. PICK i \in 1..k : Acks(F[Under(p, x)], c.commands[i])
        BY <1>3, <2>3, <3>2 DEF Flowing, Acked, Acks
      <4>2. i = j
        <5>1. Id(c.commands[i]) = Id(c.commands[j])
          BY <1>3, <2>3, <3>2, <4>1 DEF Acks
        <5>2. i \in 1..(k + 1)
          OBVIOUS
        <5> QED BY <1>4, <5>1, <5>2 DEF Distinguished
      <4>3. ~(Under(p, x) >= x)
        BY <1>3, <3>2, <4>1 DEF Acks
      <4>4. p < x
        <5>1. p \in Nat /\ x \in Nat
          BY <1>3
        <5> QED BY <3>2, <4>3, <5>1 DEF Under
      <4> QED BY <4>1, <4>2, <4>4
    <3> QED BY <3>1, <3>2
  <2>4. ASSUME NEW p \in DOMAIN G, NEW q \in DOMAIN G, NEW i \in 1..(k + 1), NEW j \in 1..(k + 1),
               p < q, Acks(G[p], c.commands[i]), Acks(G[q], c.commands[j])
        PROVE  i < j
    <3>1. p \in Nat /\ q \in Nat /\ x \in Nat
      BY <1>3
    <3>2. CASE p = x
      BY <2>3, <2>4, <3>1, <3>2
    <3>3. CASE p # x /\ q = x
      BY <1>4, <2>3, <2>4, <3>3
    <3>4. CASE p # x /\ q # x
      <4>1. /\ Under(p, x) \in DOMAIN F /\ G[p] = F[Under(p, x)] /\ Under(p, x) < Under(q, x)
            /\ Under(q, x) \in DOMAIN F /\ G[q] = F[Under(q, x)]
        BY <1>3, <2>4, <3>4
      <4>2. i \in 1..k /\ j \in 1..k
        BY <2>3, <2>4, <3>4
      <4> QED BY <2>4, <4>1, <4>2 DEF Flowing, Acked
    <3> QED BY <3>2, <3>3, <3>4
  <2> QED BY <1>4, <2>1, <2>2, <2>4 DEF Acked
<1> QED BY <1>2, <1>5 DEF Flowing

\* Events that may follow what is on its way.
Follows(c, F, E) ==
    /\ \A x \in DOMAIN E :
          /\ E[x].kind \notin {"Acknowledged", "Ready"}
          /\ E[x].kind \in Responding => InGeneration(c) /\ E[x].gen = c.gen
          /\ E[x].kind = "Started" => ~c.started
          /\ E[x].kind \in {"Started", "Finished"} => E[x].pos = c.covered
          /\ E[x].kind \in {"Output", "Finished"} =>
                c.started \/ \E q \in DOMAIN F : F[q].kind = "Started"
          /\ E[x].kind = "Closed" => ~c.closure /\ c.closing
          /\ ~c.ready => E[x].kind = "none"
          /\ \A p \in DOMAIN F :
                /\ F[p].kind \in {"Started", "Closed"} => E[x].kind # F[p].kind
                /\ F[p].kind = "Finished" => E[x].kind \notin Responding
          /\ \A i \in DOMAIN c.commands :
                \/ c.commands[i].intent = "Generate" /\ E[x].kind \in Responding
                \/ c.commands[i].intent = "Close" /\ E[x].kind = "Closed"
                => \E q \in DOMAIN F : Acks(F[q], c.commands[i])
    /\ \A x, y \in DOMAIN E : x < y =>
          /\ E[x].kind \in {"Started", "Closed"} => E[y].kind # E[x].kind
          /\ E[x].kind = "Finished" => E[y].kind \notin Responding

\* The two parts of a sequence.
LEMMA Parts ==
  ASSUME NEW F \in Seq(Signals), NEW E \in Seq(Signals)
  PROVE  /\ F \o E \in Seq(Signals) /\ Len(F \o E) = Len(F) + Len(E)
         /\ Len(F) \in Nat /\ Len(E) \in Nat
         /\ DOMAIN F = 1..Len(F) /\ DOMAIN E = 1..Len(E) /\ DOMAIN (F \o E) = 1..(Len(F) + Len(E))
         /\ \A p \in DOMAIN F : p \in DOMAIN (F \o E) /\ (F \o E)[p] = F[p]
         /\ \A x \in DOMAIN E : Len(F) + x \in DOMAIN (F \o E) /\ (F \o E)[Len(F) + x] = E[x]
         /\ \A p \in DOMAIN (F \o E) : p \notin DOMAIN F =>
               /\ p > Len(F) /\ p - Len(F) \in DOMAIN E /\ (F \o E)[p] = E[p - Len(F)]
         /\ \A p \in DOMAIN F, q \in DOMAIN (F \o E) : q < p => q \in DOMAIN F
OBVIOUS

\* What follows fits with what was on its way.
LEMMA FollowedFlowing ==
  ASSUME NEW c, NEW F \in Seq(Signals), NEW E \in Seq(Signals), NEW k \in Nat,
         Flowing(c, F, k), Follows(c, F, E)
  PROVE  Flowing(c, F \o E, k)
<1> DEFINE G == F \o E
           l == Len(F)
           Old(p) == p \in DOMAIN F /\ G[p] = F[p]
           New(p) == /\ p - l \in DOMAIN E /\ G[p] = E[p - l]
                     /\ \A q \in DOMAIN F : q \in DOMAIN G /\ q < p /\ G[q] = F[q]
<1>1. /\ \A p \in DOMAIN G : p \in Nat /\ (Old(p) \/ New(p))
      /\ \A p, q \in DOMAIN G : p < q /\ New(p) => New(q) /\ p - l < q - l
      /\ \A p \in DOMAIN F : p \in DOMAIN G /\ Old(p)
      /\ \A p \in DOMAIN F, q \in DOMAIN G : q < p => Old(q)
  <2>1. \A p \in DOMAIN F : p \in DOMAIN G /\ Old(p)
    BY Parts
  <2>2. \A p \in DOMAIN G : /\ p \in Nat
                            /\ p \notin DOMAIN F => /\ p > l /\ p - l \in DOMAIN E
                                                   /\ G[p] = E[p - l]
        /\ l \in Nat /\ DOMAIN F = 1..l /\ \A q \in DOMAIN F : q \in DOMAIN G /\ G[q] = F[q]
    BY Parts
  <2>3. \A p \in DOMAIN G : Old(p) \/ New(p)
    BY <2>2
  <2>4. ASSUME NEW p \in DOMAIN G, NEW q \in DOMAIN G, p < q, New(p)
        PROVE  New(q) /\ p - l < q - l
    <3>1. p - l \in Nat /\ p - l > 0
      BY <2>4, Parts
    <3>2. q \notin DOMAIN F
      BY <2>2, <2>4, <3>1
    <3>3. New(q)
      BY <2>2, <3>2
    <3> QED BY <2>2, <2>4, <3>3
  <2>5. \A p \in DOMAIN F, q \in DOMAIN G : q < p => Old(q)
    BY <2>1, Parts
  <2> QED BY <2>1, <2>2, <2>3, <2>4, <2>5
<1>2. Fitting(c, F) /\ Acked(c, F, k) /\ Waiting(c, F)
  BY DEF Flowing
<1> HIDE DEF G, l
<1>3. \A p \in DOMAIN G : New(p) => G[p].kind # "Acknowledged" /\ G[p].kind # "Ready"
  BY DEF Follows
<1>4. Fitting(c, G)
  <2>1. ASSUME NEW p \in DOMAIN G
        PROVE  /\ G[p].kind = "Ready" => ~c.ready /\ G[p].revision = c.ack
               /\ G[p].kind \in Responding => InGeneration(c) /\ G[p].gen = c.gen
               /\ G[p].kind = "Started" => ~c.started
               /\ G[p].kind \in {"Started", "Finished"} => G[p].pos = c.covered
               /\ G[p].kind = "Closed" => ~c.closure /\ c.closing
               /\ ~c.ready => G[p].kind \in {"none", "Ready"}
    <3>1. CASE Old(p)
      BY <1>2, <3>1 DEF Fitting
    <3>2. CASE New(p)
      BY <3>2 DEF Follows
    <3> QED BY <1>1, <3>1, <3>2
  <2>2. ASSUME NEW p \in DOMAIN G, G[p].kind \in {"Output", "Finished"}, ~c.started
        PROVE  \E q \in DOMAIN G : q < p /\ G[q].kind = "Started"
    <3>1. CASE Old(p)
      <4>1. PICK q \in DOMAIN F : q < p /\ F[q].kind = "Started"
        BY <1>2, <2>2, <3>1 DEF Fitting
      <4> QED BY <1>1, <4>1
    <3>2. CASE New(p)
      <4>1. PICK q \in DOMAIN F : F[q].kind = "Started"
        BY <2>2, <3>2 DEF Follows
      <4> QED BY <3>2, <4>1
    <3> QED BY <1>1, <3>1, <3>2
  <2>3. ASSUME NEW p \in DOMAIN G, NEW q \in DOMAIN G, p < q
        PROVE  /\ G[p].kind \in {"Ready", "Started", "Closed"} => G[q].kind # G[p].kind
               /\ G[p].kind = "Finished" => G[q].kind \notin Responding
    <3>1. CASE Old(p) /\ Old(q)
      BY <1>2, <2>3, <3>1 DEF Fitting
    <3>2. CASE Old(p) /\ New(q)
      BY <3>2 DEF Follows
    <3>3. CASE New(p)
      <4>1. New(q) /\ p - l < q - l
        BY <1>1, <2>3, <3>3
      <4> QED BY <3>3, <4>1 DEF Follows
    <3> QED BY <1>1, <3>1, <3>2, <3>3
  <2> QED BY <2>1, <2>2, <2>3 DEF Fitting
<1>5. Acked(c, G, k)
  <2>1. \A p \in DOMAIN G : G[p].kind = "Acknowledged" => Old(p)
    BY <1>1, <1>3
  <2>2. \A p \in DOMAIN G, i \in 1..k : Acks(G[p], c.commands[i]) => Old(p)
    BY <2>1 DEF Acks
  <2>3. \A i \in 1..k : \E p \in DOMAIN G : Acks(G[p], c.commands[i])
    BY <1>1, <1>2 DEF Acked
  <2>4. \A p \in DOMAIN G : G[p].kind = "Acknowledged" => \E i \in 1..k : Acks(G[p], c.commands[i])
    BY <1>2, <2>1 DEF Acked
  <2>5. ASSUME NEW p \in DOMAIN G, NEW q \in DOMAIN G, NEW i \in 1..k, NEW j \in 1..k,
               p < q, Acks(G[p], c.commands[i]), Acks(G[q], c.commands[j])
        PROVE  i < j
    <3>1. Old(p) /\ Old(q)
      BY <2>2, <2>5
    <3> QED BY <1>2, <2>5, <3>1 DEF Acked
  <2> QED BY <1>2, <2>3, <2>4, <2>5 DEF Acked
<1>6. Waiting(c, G)
  <2> SUFFICES ASSUME NEW i \in DOMAIN c.commands, NEW p \in DOMAIN G,
                      \/ c.commands[i].intent = "Generate" /\ G[p].kind \in Responding
                      \/ c.commands[i].intent = "Close" /\ G[p].kind = "Closed"
               PROVE  \E q \in DOMAIN G : q < p /\ Acks(G[q], c.commands[i])
    BY <1>2 DEF Waiting
  <2>1. CASE Old(p)
    <3>1. PICK q \in DOMAIN F : q < p /\ Acks(F[q], c.commands[i])
      BY <1>2, <2>1 DEF Waiting
    <3> QED BY <1>1, <3>1
  <2>2. CASE New(p)
    <3>1. PICK q \in DOMAIN F : Acks(F[q], c.commands[i])
      BY <2>2 DEF Follows
    <3> QED BY <2>2, <3>1
  <2> QED BY <1>1, <2>1, <2>2
<1> QED BY <1>4, <1>5, <1>6 DEF Flowing, G

\* What is on its way when the rest is lost.
LEMMA LostFlowing ==
  ASSUME NEW c, NEW F \in Seq(Signals), NEW E \in Seq(Signals), NEW k \in Nat,
         Flowing(c, F \o E, k)
  PROVE  \E j \in Nat : Flowing(c, F, j)
<1> DEFINE G == F \o E
           U == {i \in 1..k : \A p \in DOMAIN F : ~Acks(F[p], c.commands[i])}
<1>1. /\ \A p \in DOMAIN F : p \in DOMAIN G /\ G[p] = F[p] /\ p \in Nat
      /\ \A p \in DOMAIN F, q \in DOMAIN G : q < p => q \in DOMAIN F
      /\ \A p \in DOMAIN F, q \in DOMAIN G : q \notin DOMAIN F => p < q
  <2>1. \A p \in DOMAIN F, q \in DOMAIN G : q \notin DOMAIN F => p < q
    BY Parts
  <2> QED BY <2>1, Parts
<1>2. Fitting(c, G) /\ Acked(c, G, k) /\ Waiting(c, G)
  BY DEF Flowing
<1> HIDE DEF G
<1>3. Fitting(c, F)
  <2>1. \A p \in DOMAIN F : F[p].kind \in {"Output", "Finished"} =>
           c.started \/ \E q \in DOMAIN F : q < p /\ F[q].kind = "Started"
    BY <1>1, <1>2 DEF Fitting
  <2> QED BY <1>1, <1>2, <2>1 DEF Fitting
<1>4. Waiting(c, F)
  <2> SUFFICES ASSUME NEW i \in DOMAIN c.commands, NEW p \in DOMAIN F,
                      \/ c.commands[i].intent = "Generate" /\ F[p].kind \in Responding
                      \/ c.commands[i].intent = "Close" /\ F[p].kind = "Closed"
               PROVE  \E q \in DOMAIN F : q < p /\ Acks(F[q], c.commands[i])
    BY <1>2 DEF Waiting
  <2>1. PICK q \in DOMAIN G : q < p /\ Acks(G[q], c.commands[i])
    BY <1>1, <1>2 DEF Waiting
  <2> QED BY <1>1, <2>1
<1>5. ASSUME NEW j \in 0..k, \A i \in 1..j : i \notin U,
             \A p \in DOMAIN F, i \in 1..k : Acks(F[p], c.commands[i]) => i \in 1..j
      PROVE  Acked(c, F, j)
  <2>1. j <= Len(c.commands)
    <3>1. j <= k /\ k <= Len(c.commands) /\ k \in Nat /\ j \in Nat
      BY <1>2 DEF Acked
    <3>2. CASE Len(c.commands) \in Int
      BY <3>1, <3>2
    <3>3. CASE j = k
      BY <3>1, <3>3
    <3> QED BY <3>1, <3>2, <3>3
  <2>2. \A i \in 1..j : i \in 1..k
    OBVIOUS
  <2>3. \A i \in 1..j : \E p \in DOMAIN F : Acks(F[p], c.commands[i])
    BY <1>5, <2>2
  <2>4. \A p \in DOMAIN F : F[p].kind = "Acknowledged" => \E i \in 1..j : Acks(F[p], c.commands[i])
    BY <1>1, <1>2, <1>5 DEF Acked
  <2> QED BY <1>1, <1>2, <2>1, <2>2, <2>3, <2>4 DEF Acked
<1>6. \E j \in 0..k : Acked(c, F, j)
  <2>1. CASE U = {}
    <3>1. k \in 0..k /\ \A i \in 1..k : i \notin U
      BY <2>1
    <3> QED BY <1>5, <3>1
  <2>2. CASE U # {}
    <3> DEFINE u == FirstOf(U)
    <3>1. U \in SUBSET Nat
      OBVIOUS
    <3>2. u \in U /\ \A n \in U : u <= n
      BY <2>2, <3>1, FirstIsLeast
    <3> HIDE DEF U
    <3>3. u \in 1..k
      BY <3>2 DEF U
    <3> HIDE DEF u
    <3>4. u - 1 \in 0..k
      BY <3>3
    <3>5. \A i \in 1..(u - 1) : i \notin U
      BY <3>2, <3>3
    <3>6. ASSUME NEW p \in DOMAIN F, NEW i \in 1..k, Acks(F[p], c.commands[i])
          PROVE  i \in 1..(u - 1)
      <4>1. PICK q \in DOMAIN G : Acks(G[q], c.commands[u])
        BY <1>2, <3>3 DEF Acked
      <4>2. q \notin DOMAIN F
        BY <1>1, <3>2, <4>1 DEF U
      <4>3. i < u
        BY <1>1, <1>2, <3>3, <3>6, <4>1, <4>2 DEF Acked
      <4> QED BY <3>3, <4>3
    <3> QED BY <1>5, <3>4, <3>5, <3>6
  <2> QED BY <2>1, <2>2
<1> QED BY <1>3, <1>4, <1>6 DEF Flowing

-----------------------------------------------------------------------------
\* What the session has to say

\* Option::None is not an event.
LEMMA NoneIsNoSignal ==
  None \notin Events
BY NoneIsNoEvent, ExchangeConstants DEF Events, Ident, IntentNames

\* What is first, what is behind it.
LEMMA Regrouped ==
  \A x \in Events, b, c \in Seq(Events) : (<<x>> \o b) \o c = <<x>> \o (b \o c)
<1> SUFFICES ASSUME NEW x \in Events, NEW b \in Seq(Events), NEW c \in Seq(Events)
             PROVE  (<<x>> \o b) \o c = <<x>> \o (b \o c)
  OBVIOUS
<1> DEFINE a == <<x>>
<1>1. a \in Seq(Events)
  OBVIOUS
<1> HIDE DEF a
<1>2. (a \o b) \o c = a \o (b \o c)
  BY <1>1
<1> QED BY <1>2 DEF a

\* What is sent first, what waits behind it.
LEMMA EmissionTypes ==
  ASSUME NEW s \in UpSessions
  PROVE  /\ s.controls \o s.finishing \in Seq(Events) /\ s.controls \in Seq(Events)
         /\ s.finishing \in Seq(Events)
         /\ Emissions(s) \in Seq(Events)
         /\ s.sending = None => Emissions(s) = s.controls \o s.finishing
         /\ s.sending # None => /\ s.sending \in Events
                                /\ Emissions(s) = <<s.sending>> \o (s.controls \o s.finishing)
<1>1. s.phase = "up" /\ s.controls \in Seq(Events) /\ s.finishing \in Seq(Events)
      /\ s.sending \in Events \cup {None}
  BY SessionTypes
<1>2. s.controls \o s.finishing \in Seq(Events)
  BY <1>1
<1>3. CASE s.sending = None
  <2>1. Emissions(s) = (<<>> \o s.controls) \o s.finishing
    BY <1>1, <1>3 DEF Emissions
  <2>2. <<>> \o s.controls = s.controls
    BY <1>1, ConcatEmptySeq
  <2> QED BY <1>1, <1>2, <1>3, <2>1, <2>2
<1>4. CASE s.sending # None
  <2>1. Emissions(s) = (<<s.sending>> \o s.controls) \o s.finishing
    BY <1>1, <1>4 DEF Emissions
  <2>2. <<s.sending>> \in Seq(Events)
    BY <1>1, <1>4
  <2>3. (<<s.sending>> \o s.controls) \o s.finishing
          = <<s.sending>> \o (s.controls \o s.finishing)
    <3>1. s.sending \in Events
      BY <1>1, <1>4
    <3> QED BY <1>1, <3>1, Regrouped, Zenon
  <2>4. <<s.sending>> \o (s.controls \o s.finishing) \in Seq(Events)
    BY <1>2, <2>2
  <2> QED BY <1>1, <1>2, <1>4, <2>1, <2>3, <2>4
<1> QED BY <1>3, <1>4

\* The fields the top of the loop leaves alone.
SameTask(s, t) ==
    /\ t.revision = s.revision /\ t.position = s.position /\ t.profile = s.profile
    /\ t.sealed = s.sealed /\ t.active = s.active /\ t.sequence = s.sequence

\* The top of the loop moves an emission up and loses none.
LEMMA StageEmissions ==
  ASSUME NEW s \in UpSessions
  PROVE  /\ Emissions(Stage(s)) = Emissions(s)
         /\ \/ Stage(s).phase = "up" /\ SameTask(s, Stage(s))
            \/ Stage(s) = Ended("ok") /\ Emissions(s) = <<>>
<1>1. s.phase = "up" /\ s.controls \in Seq(Events) /\ s.finishing \in Seq(Events)
      /\ s.sending \in Events \cup {None}
  BY SessionTypes
<1>2. CASE s.sending # None
  <2>1. Stage(s) = s
    BY <1>2 DEF Stage
  <2> QED BY <1>1, <2>1 DEF SameTask
<1>3. CASE s.sending = None /\ s.controls # <<>>
  <2> DEFINE t == [s EXCEPT !.sending = Head(s.controls), !.controls = Tail(s.controls)]
  <2>1. Stage(s) = t
    BY <1>3 DEF Stage
  <2>2. Head(s.controls) \in Events /\ Tail(s.controls) \in Seq(Events)
        /\ <<Head(s.controls)>> \o Tail(s.controls) = s.controls
    BY <1>1, <1>3
  <2>3. t \in UpSessions /\ t.sending = Head(s.controls) /\ t.controls = Tail(s.controls)
        /\ t.finishing = s.finishing /\ SameTask(s, t) /\ t.phase = "up"
    BY <1>1, <2>2 DEF UpSessions, SameTask
  <2> HIDE DEF t
  <2>4. t.sending # None
    BY <2>2, <2>3, NoneIsNoSignal
  <2>5. Emissions(t) = <<Head(s.controls)>> \o (Tail(s.controls) \o s.finishing)
    BY <2>3, <2>4, EmissionTypes
  <2>6. <<Head(s.controls)>> \in Seq(Events)
    BY <2>2
  <2>7. <<Head(s.controls)>> \o (Tail(s.controls) \o s.finishing) = s.controls \o s.finishing
    <3>1. (<<Head(s.controls)>> \o Tail(s.controls)) \o s.finishing
             = <<Head(s.controls)>> \o (Tail(s.controls) \o s.finishing)
      BY <1>1, <2>2, Regrouped, Zenon
    <3> QED BY <2>2, <3>1
  <2> QED BY <1>3, <2>1, <2>3, <2>5, <2>7, EmissionTypes
<1>4. CASE s.sending = None /\ s.controls = <<>> /\ s.finishing # <<>>
  <2> DEFINE t == [s EXCEPT !.sending = Head(s.finishing), !.finishing = Tail(s.finishing)]
  <2>1. Stage(s) = t
    BY <1>4 DEF Stage
  <2>2. Head(s.finishing) \in Events /\ Tail(s.finishing) \in Seq(Events)
        /\ <<Head(s.finishing)>> \o Tail(s.finishing) = s.finishing
    BY <1>1, <1>4
  <2>3. t \in UpSessions /\ t.sending = Head(s.finishing) /\ t.controls = <<>>
        /\ t.finishing = Tail(s.finishing) /\ SameTask(s, t) /\ t.phase = "up"
    BY <1>1, <1>4, <2>2 DEF UpSessions, SameTask
  <2> HIDE DEF t
  <2>4. t.sending # None
    BY <2>2, <2>3, NoneIsNoSignal
  <2>5. Emissions(t) = <<Head(s.finishing)>> \o (<<>> \o Tail(s.finishing))
    BY <2>3, <2>4, EmissionTypes
  <2>6. <<>> \o Tail(s.finishing) = Tail(s.finishing) /\ <<>> \o s.finishing = s.finishing
    BY <1>1, <2>2, ConcatEmptySeq
  <2>7. Emissions(s) = s.finishing
    BY <1>4, <2>6, EmissionTypes
  <2> QED BY <2>1, <2>2, <2>3, <2>5, <2>6, <2>7
<1>5. CASE s.sending = None /\ s.controls = <<>> /\ s.finishing = <<>>
  <2>1. s.controls \o s.finishing = s.finishing
    BY <1>1, <1>5, ConcatEmptySeq
  <2>2. Stage(s) = s \/ Stage(s) = Ended("ok")
    BY <1>5 DEF Stage
  <2>3. Emissions(Ended("ok")) = <<>>
    BY DEF Emissions, Ended
  <2> QED BY <1>1, <1>5, <2>1, <2>2, <2>3, EmissionTypes DEF SameTask
<1> QED BY <1>1, <1>2, <1>3, <1>4, <1>5

\* What the work queue tells.
LEMMA ToldTypes ==
  /\ Seq(Events) \subseteq Seq(Signals)
  /\ \A item \in Items : /\ Told(item) \in Signals
                         /\ item.type = "Event" => Told(item) = item.body /\ item.body \in Events
                         /\ item.type # "Event" => Told(item) = NoEvent
<1>1. Events \subseteq Signals
  BY DEF Signals
<1>2. Seq(Events) \subseteq Seq(Signals)
  BY <1>1, SeqMonotonic, Zenon
<1> QED BY <1>1, <1>2, ItemTypes DEF Told, Signals

\* The events that have arrived, in order.
LEMMA ArrivedTypes ==
  ASSUME NEW queue \in Seq(Items)
  PROVE  /\ Arrived(queue) \in Seq(Signals) /\ Len(Arrived(queue)) = Len(queue)
         /\ Len(queue) \in Nat /\ DOMAIN queue = 1..Len(queue)
         /\ DOMAIN Arrived(queue) = DOMAIN queue
         /\ \A i \in DOMAIN queue : queue[i] \in Items /\ Arrived(queue)[i] = Told(queue[i])
         /\ \A item \in Items : Arrived(Append(queue, item)) = Arrived(queue) \o <<Told(item)>>
         /\ queue # <<>> => /\ Arrived(queue) # <<>> /\ Arrived(queue)[1] = Told(Head(queue))
                            /\ Arrived(Tail(queue)) = Tail(Arrived(queue))
<1>1. \A item \in Items : Told(item) \in Signals
  BY ToldTypes
<1>2. Len(queue) \in Nat /\ DOMAIN queue = 1..Len(queue)
      /\ \A i \in 1..Len(queue) : queue[i] \in Items
  OBVIOUS
<1>3. Arrived(queue) \in Seq(Signals) /\ Len(Arrived(queue)) = Len(queue)
      /\ DOMAIN Arrived(queue) = 1..Len(queue)
      /\ \A i \in 1..Len(queue) : Arrived(queue)[i] = Told(queue[i])
  BY <1>1, <1>2 DEF Arrived
<1>4. ASSUME NEW item \in Items
      PROVE  Arrived(Append(queue, item)) = Arrived(queue) \o <<Told(item)>>
  <2> DEFINE longer == Append(queue, item)
             l == Len(queue)
             r == Arrived(queue) \o <<Told(item)>>
  <2>1. longer \in Seq(Items) /\ Len(longer) = l + 1 /\ longer[l + 1] = item
        /\ \A i \in 1..l : longer[i] = queue[i]
    OBVIOUS
  <2>2. <<Told(item)>> \in Seq(Signals) /\ Len(<<Told(item)>>) = 1 /\ <<Told(item)>>[1] = Told(item)
    BY <1>1
  <2>3. /\ r \in Seq(Signals) /\ Len(r) = l + 1
        /\ \A i \in 1..(l + 1) : r[i] = IF i <= l THEN Arrived(queue)[i] ELSE <<Told(item)>>[i - l]
    <3> HIDE DEF longer
    <3> QED BY <1>2, <1>3, <2>2, ConcatProperties
  <2>4. \A i \in 1..(l + 1) : r[i] = Told(longer[i])
    <3>1. \A i \in 1..(l + 1) : ~(i <= l) => i - l = 1 /\ i = l + 1
      BY <1>2
    <3> HIDE DEF longer, r
    <3> QED BY <1>2, <1>3, <2>1, <2>2, <2>3, <3>1
  <2> HIDE DEF longer, r
  <2>5. r = [i \in 1..(l + 1) |-> Told(longer[i])]
    BY <1>2, <2>3, <2>4
  <2> QED BY <2>1, <2>5 DEF Arrived, longer, r
<1>5. ASSUME queue # <<>>
      PROVE  /\ Arrived(queue) # <<>> /\ Arrived(queue)[1] = Told(Head(queue))
             /\ Arrived(Tail(queue)) = Tail(Arrived(queue))
  <2>1. 1 \in 1..Len(queue) /\ Head(queue) = queue[1]
    BY <1>5
  <2>2. Tail(queue) \in Seq(Items) /\ Len(Tail(queue)) = Len(queue) - 1
        /\ \A i \in 1..(Len(queue) - 1) : Tail(queue)[i] = queue[i + 1] /\ i + 1 \in 1..Len(queue)
    BY <1>5
  <2>3. Arrived(queue) # <<>>
    BY <1>3, <2>1
  <2> DEFINE u == Tail(Arrived(queue))
             v == Arrived(Tail(queue))
  <2>4. u \in Seq(Signals) /\ Len(u) = Len(queue) - 1
        /\ \A i \in 1..(Len(queue) - 1) : u[i] = Arrived(queue)[i + 1]
    BY <1>3, <2>3
  <2>5. \A i \in 1..(Len(queue) - 1) : u[i] = Told(Tail(queue)[i])
    BY <1>3, <2>2, <2>4
  <2>6. v = [i \in 1..(Len(queue) - 1) |-> Told(Tail(queue)[i])]
    BY <2>2 DEF Arrived
  <2> HIDE DEF u, v
  <2>7. u = v
    BY <2>4, <2>5, <2>6
  <2> QED BY <1>3, <2>1, <2>3, <2>7 DEF u, v
<1> QED BY <1>2, <1>3, <1>4, <1>5

-----------------------------------------------------------------------------
\* Steps of the session

\* The types of what the session and the engine share.
LEMMA LatestTypes ==
  ASSUME Shape
  PROVE  /\ Sound(Latest) /\ Latest.cursor \in Cursors /\ cp.cursor \in Cursors
         /\ work \in Seq(Items) /\ commands \in Seq(Carried)
         /\ session.phase = "up" => session \in UpSessions /\ CallOrder(session)
                                    /\ session.sequence \in Nat
         /\ eng.pc # "down" => /\ eng \in UpEngines /\ eng.batch \in Batches
                               /\ eng.sent \in SUBSET Ident
<1>1. Sound(Latest) /\ Sound(cp)
  BY EngineTypes DEF Shape, Latest, PlaceShape
<1>2. \A c : Sound(c) => c.cursor \in Cursors
  BY DEF Sound, Checkpoints
<1>3. session.phase = "up" => session \in UpSessions /\ CallOrder(session)
  BY UpIsUp DEF Shape
<1> QED BY <1>1, <1>2, <1>3, SessionTypes, EngineTypes DEF Shape

\* One more item behind a queue.
LEMMA LongerQueue ==
  ASSUME NEW T, NEW queue \in Seq(T), NEW item
  PROVE  LET longer == Append(queue, item)
             x == Len(queue) + 1
         IN  /\ DOMAIN longer = DOMAIN queue \cup {x} /\ longer[x] = item
             /\ DOMAIN queue \subseteq Nat /\ x \in Nat
             /\ \A i \in DOMAIN queue : longer[i] = queue[i] /\ i < x
OBVIOUS

\* An item that is put into the work queue.
Queues(item) ==
    /\ work' = Append(work, item)
    /\ item.type = "Event" => session.phase = "up" /\ item.sequence = session.sequence
    /\ Reports(item) => /\ Reported(item) /\ \A i \in DOMAIN work : ~Reports(work[i])
                        /\ eng.stash # None => ~Reports(eng.stash)
    /\ Agreeing(item)
    /\ session'.phase \in {"up", "ended"}
    /\ session'.phase = "up" => /\ session.phase = "up"
                                /\ session'.sequence = session.sequence
                                                         + (IF item.type = "Event" THEN 1 ELSE 0)
    /\ session'.phase = "ended" /\ session'.result # None => session'.result # "protocol"

\* A session that queues an item numbers it, and reports and agrees as before.
LEMMA QueuedItem ==
  ASSUME Shape, Conversing, eng.pc # "down", UNCHANGED <<cp, eng>>, NEW item \in Items, Queues(item)
  PROVE  Numbering' /\ Reporting' /\ Agreement'
<1> DEFINE x == Len(work) + 1
<1>1. /\ DOMAIN work' = DOMAIN work \cup {x} /\ work'[x] = item /\ work \in Seq(Items)
      /\ DOMAIN work \subseteq Nat /\ x \in Nat
      /\ \A i \in DOMAIN work : work'[i] = work[i] /\ i < x
  BY LatestTypes, LongerQueue DEF Queues
<1>2. /\ cp' = cp /\ eng' = eng /\ Latest' = Latest
  BY DEF Latest
<1>3. Numbering'
  <2> DEFINE Below(c, n) == Before(c.cursor, n)
  <2>1. /\ \A i \in DOMAIN work : work[i].type = "Event" => work[i].sequence \in Nat
        /\ Latest.cursor \in Cursors /\ cp.cursor \in Cursors
    BY <1>1, ItemTypes, LatestTypes
  <2>2. session.phase = "up" => /\ session.sequence \in Nat
                                /\ session.sequence < session.sequence + 1
                                /\ Before(cp.cursor, session.sequence)
                                /\ Before(Latest.cursor, session.sequence)
                                /\ Before(cp.cursor, session.sequence + 1)
                                /\ Before(Latest.cursor, session.sequence + 1)
    BY <2>1, LatestTypes DEF Conversing, Numbering, Before, Cursors
  <2>3. session'.phase = "up" =>
           /\ session.phase = "up"
           /\ session'.sequence = session.sequence \/ session'.sequence = session.sequence + 1
           /\ item.type = "Event" => session'.sequence = session.sequence + 1
    BY <2>2 DEF Queues
  <2>4. session'.phase = "up" => Before(cp.cursor, session'.sequence)
                                 /\ Before(Latest.cursor, session'.sequence)
    BY <2>2, <2>3
  <2>5. ASSUME NEW i \in DOMAIN work', work'[i].type = "Event"
        PROVE  /\ session'.phase = "up" => work'[i].sequence < session'.sequence
               /\ Before(cp.cursor, work'[i].sequence) /\ Before(Latest.cursor, work'[i].sequence)
    <3>1. CASE i = x
      BY <1>1, <2>2, <2>3, <2>5, <3>1 DEF Queues
    <3>2. CASE i \in DOMAIN work
      <4>1. work'[i] = work[i] /\ work[i].type = "Event"
        BY <1>1, <2>5, <3>2
      <4>2. session.phase = "up" => work[i].sequence < session.sequence
        BY <3>2, <4>1 DEF Conversing, Numbering
      <4>3. Before(cp.cursor, work[i].sequence) /\ Before(Latest.cursor, work[i].sequence)
        BY <3>2, <4>1 DEF Conversing, Numbering
      <4>4. work[i].sequence \in Nat
        BY <2>1, <3>2, <4>1
      <4> QED BY <2>2, <2>3, <4>1, <4>2, <4>3, <4>4
    <3> QED BY <1>1, <3>1, <3>2
  <2>6. ASSUME NEW i \in DOMAIN work', NEW j \in DOMAIN work', i < j,
               work'[i].type = "Event", work'[j].type = "Event"
        PROVE  work'[i].sequence < work'[j].sequence
    <3>1. i \in DOMAIN work /\ work'[i] = work[i]
      BY <1>1, <2>6
    <3>2. CASE j = x
      <4>1. item.type = "Event" /\ work'[j] = item
        BY <1>1, <2>6, <3>2
      <4> QED BY <2>6, <3>1, <4>1 DEF Queues, Conversing, Numbering
    <3>3. CASE j \in DOMAIN work
      BY <1>1, <2>6, <3>1, <3>3 DEF Conversing, Numbering
    <3> QED BY <1>1, <3>2, <3>3
  <2> QED BY <1>2, <2>4, <2>5, <2>6 DEF Numbering
<1>4. Reporting'
  <2>1. \A i \in DOMAIN work' : \/ i = x /\ work'[i] = item
                                \/ i \in DOMAIN work /\ work'[i] = work[i]
    BY <1>1
  <2> HIDE DEF x
  <2>2. \A i \in DOMAIN work' : Reports(work'[i]) => Reported(work'[i])
    BY <2>1 DEF Conversing, Reporting, Queues
  <2>3. \A i, j \in DOMAIN work' : Reports(work'[i]) /\ Reports(work'[j]) => i = j
    BY <2>1 DEF Conversing, Reporting, Queues
  <2>4. eng.stash # None /\ Reports(eng.stash) =>
          Reported(eng.stash) /\ \A i \in DOMAIN work' : ~Reports(work'[i])
    BY <2>1 DEF Conversing, Reporting, Queues
  <2>5. ~eng.sending => DOMAIN eng.batch = {}
    BY DEF Conversing, Reporting
  <2> QED BY <1>2, <2>2, <2>3, <2>4, <2>5 DEF Reporting, Reported
<1>5. Agreement'
  <2>1. \A i \in DOMAIN work' : Agreeing(work'[i])
    BY <1>1 DEF Conversing, Agreement, Queues
  <2> QED BY <1>2, <2>1 DEF Conversing, Agreement, Queues
<1> QED BY <1>3, <1>4, <1>5

\* The work queue stays as it is.
LEMMA NothingQueued ==
  ASSUME Conversing, UNCHANGED <<cp, eng, work>>, session'.phase \in {"up", "ended"},
         session'.phase = "up" => session.phase = "up" /\ session'.sequence = session.sequence,
         session'.phase = "ended" /\ session'.result # None => session'.result # "protocol"
  PROVE  Numbering' /\ Reporting' /\ Agreement'
<1>1. /\ cp' = cp /\ eng' = eng /\ Latest' = Latest /\ work' = work
  BY DEF Latest
<1>2. Numbering'
  BY <1>1 DEF Conversing, Numbering
<1>3. Reporting'
  BY <1>1 DEF Conversing, Reporting, Reported
<1>4. Agreement'
  BY <1>1 DEF Conversing, Agreement
<1> QED BY <1>2, <1>3, <1>4

\* A step of the session, seen from the checkpoint it does not change.
LEMMA SessionMeeting ==
  ASSUME UNCHANGED <<cp, eng>>, NEW k \in Nat, Flowing(Latest, Flight', k),
         session'.phase = "up" =>
           Meets(Latest, Flight', k, session', commands', eng.batch, eng.sent)
  PROVE  Meeting'
<1>1. Latest' = Latest /\ eng' = eng
  BY DEF Latest
<1> QED BY <1>1 DEF Meeting

\* The fields of the session that Meets reads.
SameMeeting(s, t) ==
    /\ t.revision = s.revision /\ t.position = s.position /\ t.profile = s.profile
    /\ t.sealed = s.sealed

\* Of a session only what Meets names matters.
LEMMA MeetsAlike ==
  ASSUME NEW c, NEW F, NEW G, NEW k, NEW s, NEW t, NEW q, NEW b, NEW sent,
         Meets(c, F, k, s, q, b, sent), SameMeeting(s, t),
         t.active = None \/ (t.active = s.active /\ G = F)
  PROVE  Meets(c, G, k, t, q, b, sent)
<1>1. Fits(c, t, k)
  BY DEF Meets, Fits, SameMeeting
<1>2. Calling(c, G, k, t)
  BY DEF Meets, Calling
<1>3. Opening(c, t, q, b)
  BY DEF Meets, Opening
<1> QED BY <1>1, <1>2, <1>3 DEF Meets

\* Deliver: what was waiting to be sent is waiting to be handled.
LEMMA DeliverFlow ==
  ASSUME Shape, Conversing, eng.pc # "down", Deliver, UNCHANGED <<cp, eng>>
  PROVE  Conversing'
<1> DEFINE e == session.sending
           t == SentOff(session)
           rest == session.controls \o session.finishing
           item == EventItem(session.sequence, e)
<1>1. session \in UpSessions /\ CallOrder(session) /\ e # None /\ session.phase = "up"
      /\ session.sequence \in Nat
  BY LatestTypes DEF Deliver
<1>2. t \in UpSessions
  BY <1>1, SentOffOrder
<1>3. /\ session' = Stage(t) /\ work' = Append(work, item) /\ commands' = commands
  BY DEF Deliver, SentOff
<1>4. t.sequence = session.sequence + 1 /\ SameMeeting(session, t) /\ t.active = session.active
      /\ t.controls = session.controls /\ t.finishing = session.finishing /\ t.sending = None
  BY <1>1, SessionTypes DEF SentOff, SameMeeting, UpSessions
<1>5. Emissions(session) = <<e>> \o rest /\ e \in Events /\ rest \in Seq(Events)
  BY <1>1, EmissionTypes
<1> HIDE DEF t
<1>6. Emissions(session') = rest
  BY <1>2, <1>3, <1>4, EmissionTypes, StageEmissions
<1>7. \/ session'.phase = "up" /\ SameTask(t, session')
      \/ session' = Ended("ok")
  BY <1>2, <1>3, StageEmissions
<1>8. item \in Items /\ item.type = "Event" /\ item.sequence = session.sequence /\ item.body = e
  BY <1>1, <1>5, ItemTypes DEF EventItem
<1>9. Flight' = Flight
  <2> DEFINE a == Arrived(work)
             b == <<e>>
  <2>1. a \in Seq(Signals) /\ work \in Seq(Items) /\ Arrived(work') = a \o <<Told(item)>>
    BY <1>3, <1>8, ArrivedTypes, LatestTypes
  <2>2. Told(item) = e
    BY <1>8 DEF Told
  <2>3. b \in Seq(Signals) /\ rest \in Seq(Signals)
    BY <1>5, ToldTypes DEF Signals
  <2> HIDE DEF a, b, rest
  <2>4. (a \o b) \o rest = a \o (b \o rest)
    BY <2>1, <2>3
  <2> QED BY <1>5, <1>6, <2>1, <2>2, <2>4 DEF Flight, a, b
<1>10. PICK k \in Nat : Flowing(Latest, Flight, k)
                        /\ Meets(Latest, Flight, k, session, commands, eng.batch, eng.sent)
  BY <1>1 DEF Conversing, Meeting
<1>11. session'.phase = "up" =>
          Meets(Latest, Flight, k, session', commands, eng.batch, eng.sent)
  <2>1. session'.phase = "up" => SameMeeting(session, session') /\ session'.active = session.active
    BY <1>4, <1>7 DEF SameTask, SameMeeting, Ended
  <2> QED BY <1>10, <2>1, MeetsAlike
<1>12. Meeting'
  BY <1>3, <1>9, <1>10, <1>11, SessionMeeting
<1>13. session'.phase \in {"up", "ended"} /\ (session'.phase = "ended" => session'.result = "ok")
       /\ (session'.phase = "up" => session'.sequence = session.sequence + 1)
  BY <1>4, <1>7 DEF Ended, SameTask
<1>14. Queues(item)
  BY <1>1, <1>3, <1>8, <1>13 DEF Queues, Reports, Agreeing
<1>15. Numbering' /\ Reporting' /\ Agreement'
  BY <1>8, <1>14, QueuedItem
<1> QED BY <1>12, <1>13, <1>15 DEF Conversing

\* One more signal behind the first ones.
LEMMA InsertsBehind ==
  ASSUME NEW a \in Seq(Signals), NEW b \in Seq(Signals), NEW e \in Signals
  PROVE  /\ Inserts(a \o b, (a \o <<e>>) \o b, Len(a) + 1, e)
         /\ a \o b \in Seq(Signals) /\ (a \o <<e>>) \o b \in Seq(Signals)
<1> DEFINE u == <<e>>
           F == a \o b
           d == a \o u
           G == d \o b
<1>1. u \in Seq(Signals) /\ Len(u) = 1 /\ u[1] = e
  OBVIOUS
<1> HIDE DEF u
<1>2. /\ F \in Seq(Signals) /\ Len(F) = Len(a) + Len(b) /\ Len(a) \in Nat /\ Len(b) \in Nat
      /\ \A p \in 1..(Len(a) + Len(b)) : F[p] = IF p <= Len(a) THEN a[p] ELSE b[p - Len(a)]
  BY ConcatProperties
<1>3. /\ d \in Seq(Signals) /\ Len(d) = Len(a) + 1
      /\ \A p \in 1..(Len(a) + 1) : d[p] = IF p <= Len(a) THEN a[p] ELSE u[p - Len(a)]
  BY <1>1, ConcatProperties
<1> HIDE DEF d, F
<1>4. /\ G \in Seq(Signals) /\ Len(G) = Len(a) + 1 + Len(b)
      /\ \A p \in 1..(Len(a) + 1 + Len(b)) :
           G[p] = IF p <= Len(a) + 1 THEN d[p] ELSE b[p - (Len(a) + 1)]
  <2>1. /\ G \in Seq(Signals) /\ Len(G) = Len(d) + Len(b)
        /\ \A p \in 1..(Len(d) + Len(b)) : G[p] = IF p <= Len(d) THEN d[p] ELSE b[p - Len(d)]
    <3>1. d \in Seq(Signals)
      BY <1>3
    <3> QED BY <3>1, ConcatProperties
  <2> HIDE DEF G
  <2> QED BY <1>3, <2>1
<1> HIDE DEF G
<1>5. ASSUME NEW p \in 1..Len(G)
      PROVE  G[p] = IF p < Len(a) + 1 THEN F[p] ELSE IF p = Len(a) + 1 THEN e ELSE F[p - 1]
  <2>1. CASE p < Len(a) + 1
    <3>1. p \in 1..(Len(a) + 1) /\ p \in 1..(Len(a) + Len(b)) /\ p <= Len(a)
          /\ p \in 1..(Len(a) + 1 + Len(b)) /\ p <= Len(a) + 1
      BY <1>2, <1>4, <2>1
    <3>2. G[p] = d[p] /\ d[p] = a[p] /\ F[p] = a[p]
      BY <1>2, <1>3, <1>4, <3>1
    <3> QED BY <2>1, <3>2
  <2>2. CASE p = Len(a) + 1
    BY <1>1, <1>2, <1>3, <1>4, <2>2
  <2>3. CASE p > Len(a) + 1
    <3>1. G[p] = b[p - (Len(a) + 1)]
      BY <1>2, <1>4, <2>3
    <3>2. F[p - 1] = b[(p - 1) - Len(a)]
      BY <1>2, <1>4, <2>3
    <3>3. (p - 1) - Len(a) = p - (Len(a) + 1)
      BY <1>2, <1>4
    <3> QED BY <1>2, <1>4, <2>3, <3>1, <3>2, <3>3
  <2>4. p \in Nat /\ Len(a) + 1 \in Nat
    BY <1>2, <1>4
  <2> QED BY <2>1, <2>2, <2>3, <2>4
<1> QED BY <1>2, <1>4, <1>5 DEF Inserts, F, G, d, u

\* A signal without meaning changes nothing for the session.
LEMMA NothingMeets ==
  ASSUME NEW c, NEW F \in Seq(Signals), NEW G \in Seq(Signals), NEW x, Inserts(F, G, x, NoEvent),
         NEW k, NEW s, NEW q, NEW b, NEW sent, Meets(c, F, k, s, q, b, sent)
  PROVE  Meets(c, G, k, s, q, b, sent)
<1>1. \A p \in DOMAIN G : \/ G[p].kind = "none"
                          \/ \E r \in DOMAIN F : G[p] = F[r]
  BY InsertedPlaces DEF NoEvent
<1>2. \A r \in DOMAIN F : \E p \in DOMAIN G : G[p] = F[r]
  BY InsertedPlaces
<1>3. Calling(c, G, k, s)
  BY <1>1, <1>2 DEF Meets, Calling
<1> QED BY <1>3 DEF Meets

\* What is on its way is a sequence of signals.
LEMMA FlightTypes ==
  ASSUME Shape
  PROVE  /\ Emissions(session) \in Seq(Signals) /\ Arrived(work) \in Seq(Signals)
         /\ Flight \in Seq(Signals) /\ Len(Arrived(work)) \in Nat
<1>1. CASE session.phase = "up"
  <2>1. Emissions(session) \in Seq(Signals)
    BY <1>1, EmissionTypes, ToldTypes, LatestTypes
  <2>2. Arrived(work) \in Seq(Signals)
    BY LatestTypes, ArrivedTypes
  <2> QED BY <2>1, <2>2 DEF Flight
<1>2. CASE session.phase # "up"
  <2>1. Emissions(session) = <<>> /\ <<>> \in Seq(Signals)
    BY <1>2 DEF Emissions
  <2> QED BY <2>1, LatestTypes, ArrivedTypes DEF Flight
<1> QED BY <1>1, <1>2

\* An item that is no event tells nothing.
LEMMA QueuedNothing ==
  ASSUME Shape, Conversing, eng.pc # "down", UNCHANGED <<cp, eng, commands>>,
         NEW item \in Items, item.type # "Event", work' = Append(work, item),
         Emissions(session') = Emissions(session),
         session'.phase = "up" => session' = session
  PROVE  Meeting'
<1> DEFINE a == Arrived(work)
           b == Emissions(session)
<1>1. a \in Seq(Signals) /\ b \in Seq(Signals) /\ Flight = a \o b /\ work \in Seq(Items)
  BY FlightTypes, LatestTypes DEF Flight
<1>2. NoEvent \in Signals /\ Told(item) = NoEvent
  BY ToldTypes DEF Signals
<1>3. Flight' = (a \o <<NoEvent>>) \o b
  BY <1>1, <1>2, ArrivedTypes DEF Flight
<1> HIDE DEF a, b
<1>4. Inserts(Flight, Flight', Len(a) + 1, NoEvent) /\ Flight \in Seq(Signals)
      /\ Flight' \in Seq(Signals)
  BY <1>1, <1>2, <1>3, InsertsBehind
<1>5. PICK k \in Nat :
         /\ Flowing(Latest, Flight, k)
         /\ session.phase = "up" =>
              Meets(Latest, Flight, k, session, commands, eng.batch, eng.sent)
  BY DEF Conversing, Meeting
<1>6. Flowing(Latest, Flight', k)
  BY <1>4, <1>5, NothingInserted
<1>7. session'.phase = "up" =>
         Meets(Latest, Flight', k, session', commands', eng.batch, eng.sent)
  BY <1>4, <1>5, NothingMeets
<1> QED BY <1>6, <1>7, SessionMeeting

\* ReportEnd
LEMMA ReportEndFlow ==
  ASSUME Shape, Conversing, eng.pc # "down", ReportEnd, UNCHANGED <<cp, eng>>
  PROVE  Conversing'
<1> DEFINE item == EndItem(session.result)
<1>1. session \in EndedSessions /\ session.phase = "ended" /\ session.result # None
  BY UpIsUp DEF Shape, ReportEnd
<1>2. session.result \in Results /\ session' = [session EXCEPT !.result = None]
      /\ work' = Append(work, item) /\ commands' = commands
  BY <1>1 DEF ReportEnd, EndedSessions
<1>3. session'.phase = "ended" /\ session'.result = None
  BY <1>1, <1>2 DEF EndedSessions
<1>4. item \in Items /\ item.type = "Ended" /\ item.result = session.result
  BY <1>2, ItemTypes DEF EndItem
<1>5. Agreeing(item)
  BY <1>1, <1>4 DEF Conversing, Agreement, Agreeing
<1>6. Queues(item)
  BY <1>2, <1>3, <1>4, <1>5 DEF Queues, Reports
<1>7. Meeting'
  <2>1. Emissions(session') = <<>> /\ Emissions(session) = <<>>
    BY <1>1, <1>3 DEF Emissions
  <2> QED BY <1>2, <1>3, <1>4, <2>1, QueuedNothing
<1> QED BY <1>3, <1>4, <1>6, <1>7, QueuedItem DEF Conversing

\* ReportSent
LEMMA ReportSentFlow ==
  ASSUME Shape, Conversing, eng.pc # "down", ReportSent
  PROVE  Conversing'
<1>1. UNCHANGED <<cp, eng, commands>> /\ session' = session /\ eng.sending
  BY DEF ReportSent
<1>2. PICK result \in {"ok", "error"} : /\ work' = Append(work, SentItem(result))
                                        /\ result = "ok" => eng.batch = <<>>
  BY DEF ReportSent
<1> DEFINE item == SentItem(result)
<1>3. item \in Items /\ item.type = "CommandSent" /\ item.result = result
  BY ItemTypes DEF SentItem
<1>4. /\ \A i \in DOMAIN work : ~Reports(work[i])
      /\ eng.stash # None => ~Reports(eng.stash)
  BY DEF ReportSent, Reports
<1>5. Reported(item)
  BY <1>1, <1>2, <1>3 DEF Reported
<1>6. session'.phase \in {"up", "ended"}
      /\ (session'.phase = "ended" /\ session'.result # None => session'.result # "protocol")
  BY <1>1 DEF Conversing, Agreement
<1>7. session.phase = "up" => session.sequence \in Nat
  BY LatestTypes
<1>8. Queues(item)
  BY <1>1, <1>2, <1>3, <1>4, <1>5, <1>6, <1>7 DEF Queues, Agreeing
<1>9. Meeting'
  BY <1>1, <1>2, <1>3, QueuedNothing
<1> QED BY <1>1, <1>3, <1>6, <1>8, <1>9, QueuedItem DEF Conversing

\* CallFails: what was not sent yet is lost.
LEMMA CallFailsFlow ==
  ASSUME Shape, Conversing, eng.pc # "down", CallFails, UNCHANGED <<cp, eng>>
  PROVE  Conversing'
<1>1. PICK result \in {"error", "uncertain"} : session' = Ended(result)
  BY DEF CallFails
<1>2. session'.phase = "ended" /\ session'.result # "protocol" /\ work' = work
      /\ Emissions(session') = <<>>
  BY <1>1 DEF Ended, Emissions, CallFails
<1>3. PICK k \in Nat : Flowing(Latest, Flight, k)
  BY DEF Conversing, Meeting
<1>4. Flight' = Arrived(work)
  <2>1. Arrived(work) \o <<>> = Arrived(work)
    BY FlightTypes, ConcatEmptySeq
  <2> QED BY <1>2, <2>1 DEF Flight
<1>5. PICK j \in Nat : Flowing(Latest, Flight', j)
  <2>1. Arrived(work) \in Seq(Signals) /\ Emissions(session) \in Seq(Signals)
    BY FlightTypes
  <2> QED BY <1>3, <1>4, <2>1, LostFlowing DEF Flight
<1>6. Meeting'
  BY <1>2, <1>5, SessionMeeting
<1> QED BY <1>2, <1>6, NothingQueued DEF Conversing

\* What the session says before a response that waits behind it.
Saying(s) == (IF s.sending = None THEN <<>> ELSE <<s.sending>>) \o s.controls

\* What a session says before it finishes.
LEMMA SayingTypes ==
  ASSUME NEW s \in UpSessions
  PROVE  /\ Saying(s) \in Seq(Signals) /\ s.finishing \in Seq(Signals)
         /\ Emissions(s) = Saying(s) \o s.finishing
<1>1. s.phase = "up" /\ s.controls \in Seq(Events) /\ s.finishing \in Seq(Events)
      /\ s.sending \in Events \cup {None}
  BY SessionTypes
<1>2. Saying(s) \in Seq(Events)
  <2>1. CASE s.sending = None
    BY <1>1, <2>1 DEF Saying
  <2>2. CASE s.sending # None
    <3>1. <<s.sending>> \in Seq(Events)
      BY <1>1, <2>2
    <3> QED BY <1>1, <2>2, <3>1 DEF Saying
  <2> QED BY <2>1, <2>2
<1>3. Emissions(s) = Saying(s) \o s.finishing
  BY <1>1 DEF Emissions, Saying
<1> QED BY <1>1, <1>2, <1>3, ToldTypes

\* Everything on its way but the response that waits.
LEMMA FlightParts ==
  ASSUME Shape, NEW s \in UpSessions
  PROVE  LET said == Arrived(work) \o Saying(s)
         IN  /\ said \in Seq(Signals)
             /\ Arrived(work) \o Emissions(s) = said \o s.finishing
<1> DEFINE a == Arrived(work)
           b == Saying(s)
           d == s.finishing
<1>1. a \in Seq(Signals) /\ b \in Seq(Signals) /\ d \in Seq(Signals) /\ Emissions(s) = b \o d
  BY FlightTypes, SayingTypes
<1> HIDE DEF a, b, d
<1>2. (a \o b) \o d = a \o (b \o d) /\ a \o b \in Seq(Signals)
  BY <1>1
<1> QED BY <1>1, <1>2 DEF a, b, d

\* FinishEvents: the outputs, then the completion.
LEMMA ResponseTypes ==
  ASSUME NEW gen \in Nat, NEW pos \in Nat, NEW n \in Nat, NEW status \in Statuses
  PROVE  LET f == [i \in 1..n |-> Output(gen, i)] \o <<Finished(gen, pos, status)>>
         IN  /\ f \in Seq(Events)
             /\ \A x \in DOMAIN f : /\ x \in Nat /\ x <= Len(f)
                                    /\ f[x].kind \in {"Output", "Finished"} /\ f[x].gen = gen
                                    /\ f[x].kind = "Finished" => f[x].pos = pos /\ x = Len(f)
<1> DEFINE outs == [i \in 1..n |-> Output(gen, i)]
           last == Finished(gen, pos, status)
           tail == <<last>>
           f == outs \o tail
<1>1. /\ \A i \in 1..n : Output(gen, i) \in Events /\ Output(gen, i).kind = "Output"
                         /\ Output(gen, i).gen = gen
      /\ last \in Events /\ last.kind = "Finished" /\ last.gen = gen /\ last.pos = pos
  BY EventTypes DEF Output, Finished
<1>2. outs \in Seq(Events) /\ Len(outs) = n /\ \A i \in 1..n : outs[i] = Output(gen, i)
  BY <1>1
<1> HIDE DEF last
<1>3. tail \in Seq(Events) /\ Len(tail) = 1 /\ tail[1] = last
  BY <1>1
<1> HIDE DEF outs, tail
<1>4. /\ f \in Seq(Events) /\ Len(f) = Len(outs) + Len(tail)
      /\ \A x \in 1..(Len(outs) + Len(tail)) :
           f[x] = IF x <= Len(outs) THEN outs[x] ELSE tail[x - Len(outs)]
  BY <1>2, <1>3, ConcatProperties
<1> HIDE DEF f
<1>5. Len(f) = n + 1 /\ DOMAIN f = 1..(n + 1)
      /\ \A x \in 1..(n + 1) : f[x] = IF x <= n THEN outs[x] ELSE tail[x - n]
  BY <1>2, <1>3, <1>4
<1>6. \A x \in 1..(n + 1) : (x <= n /\ f[x] = Output(gen, x)) \/ (x = n + 1 /\ f[x] = last)
  <2>1. ASSUME NEW x \in 1..(n + 1) 
        PROVE  (x <= n /\ x \in 1..n) \/ (x = n + 1 /\ x - n = 1 /\ ~(x <= n))
    <3>1. CASE x <= n
      BY <3>1
    <3>2. CASE ~(x <= n)
      <4>1. x = n + 1
        BY <3>2
      <4> QED BY <3>2, <4>1
    <3> QED BY <3>1, <3>2
  <2>2. ASSUME NEW x \in 1..(n + 1), x <= n, x \in 1..n PROVE f[x] = Output(gen, x)
    BY <1>2, <1>5, <2>2
  <2>3. f[n + 1] = last
    <3>1. n + 1 \in 1..(n + 1) /\ ~(n + 1 <= n) /\ (n + 1) - n = 1
      OBVIOUS
    <3>2. f[n + 1] = tail[(n + 1) - n]
      BY <1>5, <3>1
    <3> QED BY <1>3, <3>1, <3>2
  <2>4. ASSUME NEW x \in 1..(n + 1)
        PROVE  (x <= n /\ f[x] = Output(gen, x)) \/ (x = n + 1 /\ f[x] = last)
    <3>1. CASE x <= n /\ x \in 1..n
      BY <2>2, <3>1
    <3>2. CASE x = n + 1
      BY <2>3, <3>2
    <3> QED BY <2>1, <3>1, <3>2
  <2> QED BY <2>4
<1> QED BY <1>1, <1>4, <1>5, <1>6 DEF f, outs, tail, last

\* Respond
LEMMA RespondFlow ==
  ASSUME Shape, Conversing, eng.pc # "down", Respond, UNCHANGED <<cp, eng>>
  PROVE  Conversing'
<1>1. session \in UpSessions /\ CallOrder(session) /\ session.phase = "up" /\ session.generating
  BY LatestTypes DEF Respond
<1>2. PICK n \in Outputs, status \in Statuses : session' = Stage(Returned(session, n, status))
  BY DEF Respond, Returned
<1> DEFINE t == Returned(session, n, status)
           gen == session.active.gen
           pos == session.active.pos
           f == [i \in 1..n |-> Output(gen, i)] \o <<Finished(gen, pos, status)>>
           c == Latest
           F == Flight
<1>3. UNCHANGED <<commands, work>>
  BY DEF Respond
<1>4. session.active \in Calls /\ session.active # None
  BY <1>1, SessionTypes DEF CallOrder
<1>5. gen \in Nat /\ pos \in Nat /\ n \in Nat
  BY <1>4, CallsAreCalls, ExchangeConstants
<1>6. /\ f \in Seq(Events)
      /\ \A x \in DOMAIN f : /\ x \in Nat /\ x <= Len(f)
                             /\ f[x].kind \in {"Output", "Finished"} /\ f[x].gen = gen
                             /\ f[x].kind = "Finished" => f[x].pos = pos /\ x = Len(f)
  BY <1>5, ResponseTypes, SMTT(30)
<1>7. f \in Seq(Signals)
  BY <1>6, ToldTypes
<1>8. t \in UpSessions
  BY <1>1, ReturnedOrder
<1>9. t.finishing = f /\ t.active = None /\ SameMeeting(session, t)
      /\ t.sequence = session.sequence /\ t.sending = session.sending
      /\ t.controls = session.controls
  <2> HIDE DEF f, gen, pos
  <2>1. t = [session EXCEPT !.generating = FALSE, !.active = None, !.finishing = f]
    BY DEF Returned, f, gen, pos
  <2> HIDE DEF t
  <2> QED BY <1>1, <2>1 DEF UpSessions, SameMeeting
<1>10. PICK k \in Nat : Flowing(c, F, k)
                        /\ Meets(c, F, k, session, commands, eng.batch, eng.sent)
  BY <1>1 DEF Conversing, Meeting
<1>11. /\ InGeneration(c) /\ gen = c.gen /\ pos = c.covered
       /\ \A p \in DOMAIN F : F[p].kind \notin {"Output", "Finished"}
       /\ c.started \/ \E p \in DOMAIN F : F[p].kind = "Started"
       /\ \A i \in DOMAIN c.commands : i > k => c.commands[i].intent # "Generate"
       /\ c.ready
  BY <1>4, <1>10 DEF Meets, Calling, Opening
<1> HIDE DEF t, f, gen, pos, c, F
<1> DEFINE said == Arrived(work) \o Saying(session)
<1>12. said \in Seq(Signals) /\ F = said \o session.finishing
       /\ session.finishing \in Seq(Signals)
  BY <1>1, FlightParts, SayingTypes DEF Flight, F
<1> HIDE DEF said
<1>13. session.finishing = <<>>
  <2>1. ASSUME NEW x \in DOMAIN session.finishing PROVE FALSE
    <3>1. Len(said) + x \in DOMAIN F /\ F[Len(said) + x] = session.finishing[x]
      BY <1>12, Parts
    <3>2. session.finishing[x].kind \in {"Output", "Finished"}
      BY <1>1 DEF CallOrder, OfResponse
    <3> QED BY <1>11, <3>1, <3>2
  <2> QED BY <1>12, <2>1
<1>14. F = said
  BY <1>12, <1>13, ConcatEmptySeq
<1>15. Emissions(session') = Emissions(t)
       /\ (\/ session'.phase = "up" /\ SameTask(t, session')
           \/ session' = Ended("ok"))
  BY <1>2, <1>8, StageEmissions DEF t
<1>16. Flight' = F \o f
  <2>1. Saying(t) = Saying(session)
    BY <1>9 DEF Saying
  <2>2. Arrived(work) \o Emissions(t) = said \o f
    BY <1>8, <1>9, <2>1, FlightParts DEF said
  <2> QED BY <1>3, <1>14, <1>15, <2>2 DEF Flight
<1>17. Follows(c, F, f)
  <2>1. c.commands \in Seq(PendingCommands) /\ DOMAIN c.commands = 1..Len(c.commands)
    BY LatestTypes, Outbox, OutboxType DEF c, Sound
  <2>2. ASSUME NEW i \in DOMAIN c.commands, c.commands[i].intent = "Generate"
        PROVE  \E q \in DOMAIN F : Acks(F[q], c.commands[i])
    <3>1. i \in 1..k
      BY <1>11, <2>1, <2>2
    <3> QED BY <1>10, <3>1 DEF Flowing, Acked
  <2>3. \A x, y \in DOMAIN f : x < y => f[x].kind # "Finished"
    BY <1>6
  <2>4. ASSUME NEW x \in DOMAIN f
        PROVE  /\ f[x].kind \notin {"Acknowledged", "Ready", "Started", "Closed"}
               /\ InGeneration(c) /\ f[x].gen = c.gen
               /\ f[x].kind \in {"Started", "Finished"} => f[x].pos = c.covered
               /\ c.started \/ \E q \in DOMAIN F : F[q].kind = "Started"
               /\ \A p \in DOMAIN F : F[p].kind # "Finished"
    BY <1>6, <1>11
  <2> QED BY <1>6, <1>11, <2>2, <2>3, <2>4 DEF Follows
<1>18. Flowing(c, Flight', k)
  <2>1. F \in Seq(Signals)
    BY <1>12, <1>14
  <2> QED BY <1>7, <1>10, <1>16, <1>17, <2>1, FollowedFlowing
<1>19. session'.phase = "up" =>
          Meets(c, Flight', k, session', commands, eng.batch, eng.sent)
  <2>1. session'.phase = "up" => SameMeeting(session, session') /\ session'.active = None
    BY <1>9, <1>15 DEF SameTask, SameMeeting, Ended
  <2> QED BY <1>10, <2>1, MeetsAlike
<1>20. Meeting'
  BY <1>3, <1>18, <1>19, SessionMeeting DEF c
<1>21. session'.phase \in {"up", "ended"} /\ (session'.phase = "ended" => session'.result = "ok")
       /\ (session'.phase = "up" => session'.sequence = session.sequence)
  BY <1>9, <1>15 DEF Ended, SameTask
<1> QED BY <1>1, <1>3, <1>20, <1>21, NothingQueued DEF Conversing

-----------------------------------------------------------------------------
\* The next command is one the session accepts

\* The context revisions of an outbox go on from the acknowledged one.
LEMMA RevisionsFromAck ==
  ASSUME NEW c, Sound(c)
  PROVE  RevisionsFrom(c, 0, c.ack)
<1> DEFINE S == Behind(c, 0, Revising)
<1>1. c.commands \in Seq(PendingCommands) /\ c.ack \in Nat /\ c.revision \in Nat
      /\ DOMAIN c.commands \subseteq Nat
  BY OutboxType DEF Sound, Checkpoints
<1>2. \A i \in DOMAIN c.commands : /\ i > 0 /\ NumbersOf(c)[i] = c.commands[i].n
                                   /\ Kind(c.commands[i]) \in Revising
                                        <=> IsNumbered(c.commands[i])
  <2>1. \A i \in DOMAIN c.commands : i \in 1..Len(c.commands) /\ NumbersOf(c)[i] = c.commands[i].n
    BY <1>1 DEF NumbersOf
  <2>2. \A i \in DOMAIN c.commands :
           Kind(c.commands[i]) \in Revising <=> IsNumbered(c.commands[i])
    <3>1. \A i \in DOMAIN c.commands : c.commands[i].intent \in IntentNames
      BY <1>1, CommandTypes
    <3> QED BY <3>1 DEF Kind, Revising, IsSubmitted, IsNumbered, IntentNames
  <2>3. \A i \in DOMAIN c.commands : i > 0
    BY <1>1, <2>1
  <2> QED BY <2>1, <2>2, <2>3
<1>3. S = {i \in DOMAIN c.commands : IsNumbered(c.commands[i])}
  BY <1>2 DEF Behind
<1> HIDE DEF S
<1>4. c.ack <= c.revision /\ RevisionsOf(c) /\ InOrder(c)
  BY DEF Sound, OutboxOf
<1>5. /\ \A i \in S : NumbersOf(c)[i] \in (c.ack + 1)..c.revision
      /\ \A n \in (c.ack + 1)..c.revision : \E i \in S : NumbersOf(c)[i] = n
  BY <1>2, <1>3, <1>4 DEF RevisionsOf
<1>6. \A i, j \in S : i < j => NumbersOf(c)[i] < NumbersOf(c)[j]
  BY <1>2, <1>3, <1>4 DEF InOrder
<1> QED BY <1>4, <1>5, <1>6 DEF RevisionsFrom, Continues, S

\* What Fits says of the first command: nothing is ahead of it.
LEMMA NothingAhead ==
  ASSUME NEW c, Sound(c), NEW s \in UpSessions, Fits(c, s, 0)
  PROVE  /\ s.revision = c.ack
         /\ \A p \in Nat : InputsFrom(c, 0, p) => s.position = p
         /\ s.profile = c.profile
<1>1. c.ack \in Nat /\ c.revision \in Nat /\ c.input \in Nat /\ c.profile \in Nat
      /\ s.revision \in Nat /\ s.position \in Nat /\ s.profile \in Nat
  BY SessionTypes DEF Sound, Checkpoints
<1>2. \A kinds : Behind(c, 0, kinds) \in SUBSET Nat
  BY OutboxType, Outbox DEF Sound
<1>3. s.revision = c.ack
  BY <1>1, <1>2, RevisionsFromAck, ContinuesUnique DEF Fits, RevisionsFrom
<1>4. ASSUME NEW p \in Nat, InputsFrom(c, 0, p) PROVE s.position = p
  BY <1>1, <1>2, <1>4, ContinuesUnique DEF Fits, InputsFrom
<1>5. s.profile = c.profile
  <2>1. PICK t \in Nat : ProfilesFrom(c, 0, c.profile, t) /\ ProfilesFrom(c, 0, s.profile, t)
    BY DEF Fits
  <2> QED BY <1>1, <1>2, <2>1, ContinuesUnique DEF ProfilesFrom
<1> QED BY <1>3, <1>4, <1>5

\* The command at the head of the queue is the next one of the outbox.
LEMMA HeadOfLine ==
  ASSUME NEW c, Sound(c), NEW k \in Nat, NEW q \in Seq(Carried), q # <<>>, NEW b, NEW sent,
         Lined(c, k, q, b, sent)
  PROVE  /\ k + 1 \in DOMAIN c.commands /\ c.commands \in Seq(PendingCommands)
         /\ c.commands[k + 1] \in PendingCommands /\ Head(q) \in Carried
         /\ Carries(c, Head(q), c.commands[k + 1])
         /\ Id(Head(q)) = Id(c.commands[k + 1])
         /\ Tail(q) \in Seq(Carried)
         /\ Lined(c, k + 1, Tail(q), b, sent)
<1>1. PICK d, m \in Nat : Linked(c, k, d, m, q, b) /\ SentUpTo(c, sent, m)
  BY DEF Lined
<1>2. c.commands \in Seq(PendingCommands) /\ Len(c.commands) \in Nat
      /\ DOMAIN c.commands = 1..Len(c.commands)
  BY OutboxType DEF Sound
<1>3. /\ Head(q) \in Carried /\ Tail(q) \in Seq(Carried) /\ Len(q) \in Nat /\ Len(q) >= 1
      /\ Len(Tail(q)) = Len(q) - 1 /\ Head(q) = q[1] /\ 1 \in DOMAIN q
      /\ \A j \in DOMAIN Tail(q) : j \in Nat /\ j + 1 \in DOMAIN q /\ Tail(q)[j] = q[j + 1]
  OBVIOUS
<1>4. k + 1 \in DOMAIN c.commands
  BY <1>1, <1>2, <1>3 DEF Linked
<1>5. Carries(c, Head(q), c.commands[k + 1])
  BY <1>1, <1>3 DEF Linked
<1>6. Linked(c, k + 1, d, m, Tail(q), b)
  <2>1. k + 1 + Len(Tail(q)) = k + Len(q)
    BY <1>3
  <2>2. \A j \in DOMAIN Tail(q) : Carries(c, Tail(q)[j], c.commands[k + 1 + j])
    <3>1. \A j \in DOMAIN Tail(q) : k + (j + 1) = k + 1 + j
      BY <1>3
    <3> QED BY <1>1, <1>3, <3>1 DEF Linked
  <2> QED BY <1>1, <2>1, <2>2 DEF Linked
<1>7. Id(Head(q)) = Id(c.commands[k + 1])
  BY <1>5 DEF Carries, Id
<1>8. Lined(c, k + 1, Tail(q), b, sent)
  BY <1>1, <1>6 DEF Lined
<1>9. c.commands[k + 1] \in PendingCommands
  BY <1>2, <1>4
<1> QED BY <1>2, <1>3, <1>4, <1>5, <1>7, <1>8, <1>9

\* The next command is not acknowledged, and a call that waits for it has not
\* answered.
LEMMA NextUnacked ==
  ASSUME NEW c, Sound(c), Line(c), NEW F, NEW k \in Nat, Flowing(c, F, k),
         k + 1 \in DOMAIN c.commands
  PROVE  LET command == c.commands[k + 1]
         IN  /\ \A p \in DOMAIN F : ~Acks(F[p], command)
             /\ command.intent \in {"Generate", "Replace", "Close"} =>
                   k = 0 /\ \A p \in DOMAIN F : F[p].kind \notin Responding
             /\ command.intent = "Close" => \A p \in DOMAIN F : F[p].kind # "Closed"
<1> DEFINE command == c.commands[k + 1]
<1>1. ASSUME NEW p \in DOMAIN F, Acks(F[p], command) PROVE FALSE
  <2>1. PICK i \in 1..k : Acks(F[p], c.commands[i])
    BY <1>1 DEF Flowing, Acked, Acks
  <2>2. i \in DOMAIN c.commands /\ Id(c.commands[i]) = Id(command)
    <3>1. DOMAIN c.commands = 1..Len(c.commands) /\ Len(c.commands) \in Nat /\ k <= Len(c.commands)
      BY OutboxType DEF Sound, Flowing, Acked
    <3> QED BY <1>1, <2>1, <3>1 DEF Acks
  <2>3. i = k + 1
    BY <2>2 DEF Line, Distinguished
  <2> QED BY <2>1, <2>3
<1>2. Exclusive(command) => k = 0
  <2>1. Exclusive(command) => k + 1 = 1
    BY DEF Line, Exclusives
  <2> QED BY <2>1
<1>3. command.intent = "Generate" => \A p \in DOMAIN F : F[p].kind \notin Responding
  BY <1>1 DEF Flowing, Waiting
<1>4. command.intent \in {"Replace", "Close"} => \A p \in DOMAIN F : F[p].kind \notin Responding
  BY DEF Line, Exclusives, Flowing, Fitting
<1>5. command.intent = "Close" => \A p \in DOMAIN F : F[p].kind # "Closed"
  BY <1>1 DEF Flowing, Waiting
<1> QED BY <1>1, <1>2, <1>3, <1>4, <1>5 DEF Exclusive

\* Nothing of a response is waiting in the session either.
LEMMA NotBusy ==
  ASSUME Shape, session.phase = "up", NEW c, NEW k \in Nat, k + 1 \in DOMAIN c.commands,
         c.commands[k + 1].intent \in {"Generate", "Replace", "Close"},
         c.commands[k + 1].intent \in {"Replace", "Close"} => ~InGeneration(c),
         \A p \in DOMAIN Flight : Flight[p].kind \notin Responding, Calling(c, Flight, k, session)
  PROVE  ~Busy(session) /\ session.finishing = <<>> /\ session.active = None
         /\ (session.sending # None => ~OfResponse(session.sending))
<1> DEFINE A == Arrived(work)
           E == Emissions(session)
<1>1. session \in UpSessions /\ CallOrder(session)
  BY LatestTypes
<1>2. A \in Seq(Signals) /\ E \in Seq(Signals) /\ Flight = A \o E
  BY FlightTypes DEF Flight
<1>3. session.active = None
  <2>1. k + 1 > k
    OBVIOUS
  <2> QED BY <2>1 DEF Calling
<1>4. session.finishing = <<>>
  <2> DEFINE said == A \o Saying(session)
  <2>1. said \in Seq(Signals) /\ Flight = said \o session.finishing
        /\ session.finishing \in Seq(Signals)
    BY <1>1, <1>2, FlightParts, SayingTypes
  <2> HIDE DEF said
  <2>2. ASSUME NEW x \in DOMAIN session.finishing PROVE FALSE
    <3>1. Len(said) + x \in DOMAIN Flight /\ Flight[Len(said) + x] = session.finishing[x]
      BY <2>1, Parts
    <3>2. session.finishing[x].kind \in Responding
      BY <1>1 DEF CallOrder, OfResponse, Responding
    <3> QED BY <3>1, <3>2
  <2> QED BY <2>1, <2>2
<1>5. session.sending # None => ~OfResponse(session.sending)
  <2> SUFFICES ASSUME session.sending # None, OfResponse(session.sending) PROVE FALSE
    OBVIOUS
  <2> DEFINE rest == session.controls \o session.finishing
  <2>1. E = <<session.sending>> \o rest /\ rest \in Seq(Events) /\ session.sending \in Events
    BY <1>1, EmissionTypes
  <2> HIDE DEF E, A, rest
  <2>2. 1 \in DOMAIN E /\ E[1] = session.sending
    BY <2>1
  <2>3. Len(A) + 1 \in DOMAIN Flight /\ Flight[Len(A) + 1] = session.sending
    BY <1>2, <2>2, Parts
  <2> QED BY <2>3 DEF OfResponse, Responding
<1> QED BY <1>3, <1>4, <1>5 DEF Busy

\* accept: what the projection checks of a command holds of the next one.
LEMMA NextAccepted ==
  ASSUME NEW c, Sound(c), Line(c), NEW k \in Nat, k + 1 \in DOMAIN c.commands,
         NEW s \in UpSessions, Fits(c, s, k), NEW x \in Carried, Carries(c, x, c.commands[k + 1]),
         c.commands[k + 1].intent \in {"Generate", "Replace", "Close"} => k = 0 /\ ~Busy(s)
  PROVE  Accepts(s, x)
<1> DEFINE y == c.commands[k + 1]
           i == k + 1
<1>1. /\ c.commands \in Seq(PendingCommands) /\ y \in PendingCommands
      /\ s.revision \in Nat /\ s.position \in Nat /\ s.profile \in Nat
      /\ c.revision \in Nat /\ c.input \in Nat /\ c.profile \in Nat
      /\ i \in DOMAIN c.commands /\ i > k
  <2>1. c.commands \in Seq(PendingCommands) /\ \A j \in DOMAIN c.commands :
           c.commands[j] \in PendingCommands
    BY OutboxType DEF Sound
  <2> QED BY <2>1, SessionTypes DEF Sound, Checkpoints
<1>2. /\ y.intent \in IntentNames /\ y.n \in Nat /\ x.intent = y.intent /\ x.n = y.n
      /\ NumbersOf(c)[i] = y.n /\ (IsAppend(y) => InputsOf(c)[i] = y.pos)
  BY <1>1, CommandTypes DEF Carries, NumbersOf, InputsOf
<1>3. CASE y.intent = "Generate"
  <2>1. x = y /\ ~Busy(s) /\ k = 0
    BY <1>3 DEF Carries
  <2>2. y.revision = c.ack /\ y.profile = c.profile /\ y.pos = c.covered
        /\ InputsFrom(c, 0, c.covered) /\ c.covered \in Nat
    BY <1>1, <1>3 DEF Line, Requests, Sound, Checkpoints
  <2>3. s.revision = c.ack /\ s.position = c.covered /\ s.profile = c.profile
    BY <2>1, <2>2, NothingAhead
  <2> QED BY <1>3, <2>1, <2>2, <2>3 DEF Accepts
<1>4. Kind(y) \in Revising => y.n = s.revision + 1
  BY <1>1, <1>2, NextFrom DEF Fits, RevisionsFrom
<1>5. CASE y.intent = "Append"
  <2>1. Kind(y) \in Revising
    BY <1>5 DEF Kind, Revising, IsSubmitted
  <2>2. x.intent = "Append" /\ x.pos = y.pos /\ x.source = y.source
        /\ x.entry = c.history[y.entry] /\ x.n = s.revision + 1
    BY <1>2, <1>4, <1>5, <2>1 DEF Carries
  <2>3. x.pos >= s.position
    BY <1>1, <1>5, <2>2 DEF Fits, InputsFrom, IsAppend
  <2>4. s.sealed => ~IsUser(c, i)
    BY <1>1 DEF Fits
  <2>5. ~(x.source = "Submitted" /\ s.sealed /\ x.entry.kind = "User")
    BY <1>5, <2>2, <2>4 DEF IsUser, IsSubmitted
  <2> QED BY <2>2, <2>3, <2>5 DEF Accepts
<1>6. CASE y.intent = "Replace"
  <2>1. Kind(y) \in Revising
    BY <1>6 DEF Kind, Revising, IsSubmitted
  <2> QED BY <1>2, <1>4, <1>6, <2>1 DEF Accepts
<1>7. CASE y.intent = "Profile"
  <2>1. Kind(y) \in Profiling
    BY <1>7 DEF Kind, Profiling, IsSubmitted
  <2>2. PICK t \in Nat : ProfilesFrom(c, k, s.profile, t)
    BY DEF Fits
  <2>3. y.n = s.profile + 1
    BY <1>1, <1>2, <2>1, <2>2, NextFrom DEF ProfilesFrom
  <2> QED BY <1>2, <1>7, <2>3 DEF Accepts
<1>8. CASE y.intent = "Seal"
  BY <1>2, <1>8 DEF Accepts
<1>9. CASE y.intent = "Close"
  BY <1>2, <1>9 DEF Accepts
<1> QED BY <1>2, <1>3, <1>5, <1>6, <1>7, <1>8, <1>9 DEF IntentNames

\* What a command changes of the session, and nothing else.
LEMMA CommandedFields ==
  ASSUME NEW s \in UpSessions, NEW x \in Carried
  PROVE  LET t == Commanded(s, x)
         IN  /\ t.revision = IF x.intent \in {"Append", "Replace"} THEN x.n ELSE s.revision
             /\ t.position = IF x.intent = "Append" THEN x.pos ELSE s.position
             /\ t.profile = IF x.intent = "Profile" THEN x.n ELSE s.profile
             /\ t.sealed = (s.sealed \/ x.intent = "Seal")
             /\ t.finishing = s.finishing /\ t.sequence = s.sequence
<1>1. x.intent \in IntentNames /\ s.sealed \in BOOLEAN
  BY CarriedTypes, SessionTypes
<1>2. CASE x.intent = "Generate"
  BY <1>1, <1>2 DEF Commanded, Applied, UpSessions
<1>3. CASE x.intent = "Append"
  BY <1>1, <1>3 DEF Commanded, Applied, UpSessions
<1>4. CASE x.intent = "Replace"
  BY <1>1, <1>4 DEF Commanded, Applied, UpSessions
<1>5. CASE x.intent = "Profile"
  BY <1>1, <1>5 DEF Commanded, Applied, UpSessions
<1>6. CASE x.intent = "Seal"
  BY <1>1, <1>6 DEF Commanded, Applied, UpSessions
<1>7. CASE x.intent = "Close"
  BY <1>1, <1>7 DEF Commanded, Applied, UpSessions
<1> QED BY <1>1, <1>2, <1>3, <1>4, <1>5, <1>6, <1>7 DEF IntentNames

\* An accepted message has no input position of its own.
LEMMA AcceptedInputs ==
  ASSUME NEW c, Sound(c), Line(c), NEW k \in Nat, k + 1 \in DOMAIN c.commands,
         IsAppend(c.commands[k + 1]), NEW lo \in Nat, InputsFrom(c, k, lo)
  PROVE  InputsFrom(c, k + 1, c.commands[k + 1].pos)
<1> DEFINE y == c.commands[k + 1]
           i == k + 1
<1>1. /\ c.commands \in Seq(PendingCommands) /\ y \in PendingCommands /\ c.input \in Nat
      /\ DOMAIN c.commands \subseteq Nat
      /\ \A j \in DOMAIN c.commands : c.commands[j] \in PendingCommands
      /\ i \in DOMAIN c.commands /\ i > k
  BY OutboxType DEF Sound, Checkpoints
<1>2. /\ \A j \in DOMAIN c.commands : IsAppend(c.commands[j]) =>
            /\ c.commands[j].pos \in Nat /\ InputsOf(c)[j] = c.commands[j].pos
            /\ c.commands[j].pos <= c.input
            /\ j > k => c.commands[j].pos >= lo
  BY <1>1, CommandTypes DEF InputsOf, Line, InputsInOrder, InputsFrom
<1>3. \A j \in DOMAIN c.commands : j > i /\ IsAppend(c.commands[j]) => c.commands[j].pos >= y.pos
  BY <1>1 DEF Line, InputsInOrder
<1>4. CASE IsSubmitted(y)
  <2>1. Kind(y) \in Submitting
    BY <1>4 DEF Kind, Submitting
  <2>2. y.pos = lo + 1 /\ Continues(Behind(c, i, Submitting), InputsOf(c), lo + 1, c.input)
    BY <1>1, <1>2, <2>1, NextFrom DEF InputsFrom
  <2> QED BY <1>3, <2>2 DEF InputsFrom
<1>5. CASE ~IsSubmitted(y)
  <2>1. Kind(y) \notin Submitting
    BY <1>5 DEF Kind, Submitting, IsAppend
  <2>2. Continues(Behind(c, i, Submitting), InputsOf(c), lo, c.input)
    BY <1>1, <2>1, NextFrom DEF InputsFrom
  <2>3. y.pos = lo
    <3> SUFFICES ASSUME y.pos > lo PROVE FALSE
      BY <1>1, <1>2
    <3>1. lo + 1 \in (lo + 1)..c.input /\ y.pos \in Nat
      BY <1>1, <1>2
    <3>2. PICK j \in Behind(c, i, Submitting) : InputsOf(c)[j] = lo + 1
      BY <2>2, <3>1 DEF Continues
    <3>3. j \in DOMAIN c.commands /\ j > i /\ IsSubmitted(c.commands[j])
      <4>1. j \in DOMAIN c.commands /\ j > i /\ Kind(c.commands[j]) = "Submitted"
        BY <3>2 DEF Behind, Submitting
      <4>2. c.commands[j].intent # "Submitted"
        BY <1>1, <4>1, CommandTypes DEF IntentNames
      <4> QED BY <4>1, <4>2 DEF Kind
    <3>4. IsAppend(c.commands[j]) /\ c.commands[j].pos = lo + 1
      BY <1>2, <3>2, <3>3 DEF IsSubmitted, IsAppend
    <3>5. y.pos < c.commands[j].pos
      BY <1>1, <3>3, <3>4 DEF Line, InputsInOrder
    <3> QED BY <3>1, <3>4, <3>5
  <2> QED BY <1>3, <2>2, <2>3 DEF InputsFrom
<1> QED BY <1>4, <1>5

\* The session after the next command fits with the rest of the outbox.
LEMMA AppliedFits ==
  ASSUME NEW c, Sound(c), Line(c), NEW k \in Nat, k + 1 \in DOMAIN c.commands,
         NEW s \in UpSessions, Fits(c, s, k), NEW x \in Carried, Carries(c, x, c.commands[k + 1]),
         NEW t, t.revision = IF x.intent \in {"Append", "Replace"} THEN x.n ELSE s.revision,
         t.position = IF x.intent = "Append" THEN x.pos ELSE s.position,
         t.profile = IF x.intent = "Profile" THEN x.n ELSE s.profile,
         t.sealed = (s.sealed \/ x.intent = "Seal")
  PROVE  Fits(c, t, k + 1)
<1> DEFINE y == c.commands[k + 1]
           i == k + 1
<1>1. /\ c.commands \in Seq(PendingCommands) /\ y \in PendingCommands
      /\ s.revision \in Nat /\ s.position \in Nat /\ s.profile \in Nat
      /\ c.revision \in Nat /\ c.input \in Nat /\ c.profile \in Nat
      /\ i \in DOMAIN c.commands /\ i > k /\ DOMAIN c.commands \subseteq Nat
      /\ \A j \in DOMAIN c.commands : j > i => j > k
  <2>1. c.commands \in Seq(PendingCommands) /\ DOMAIN c.commands \subseteq Nat
        /\ \A j \in DOMAIN c.commands : c.commands[j] \in PendingCommands
    BY OutboxType DEF Sound
  <2> QED BY <2>1, SessionTypes, SMTT(30) DEF Sound, Checkpoints
<1>2. /\ y.intent \in IntentNames /\ y.n \in Nat /\ x.intent = y.intent /\ x.n = y.n
      /\ NumbersOf(c)[i] = y.n
  BY <1>1, CommandTypes DEF Carries, NumbersOf
<1>3. /\ Kind(y) \in Revising <=> y.intent \in {"Append", "Replace"}
      /\ Kind(y) \in Profiling <=> y.intent = "Profile"
      /\ y.intent # "Append" => Kind(y) \notin Submitting
  BY <1>2 DEF Kind, Revising, Profiling, Submitting, IsSubmitted, IntentNames
<1>4. RevisionsFrom(c, i, t.revision)
  <2>1. IF Kind(y) \in Revising
          THEN y.n = s.revision + 1
               /\ Continues(Behind(c, i, Revising), NumbersOf(c), s.revision + 1, c.revision)
          ELSE Continues(Behind(c, i, Revising), NumbersOf(c), s.revision, c.revision)
    BY <1>1, <1>2, NextFrom DEF Fits, RevisionsFrom
  <2> QED BY <1>2, <1>3, <2>1 DEF RevisionsFrom
<1>5. InputsFrom(c, i, t.position)
  <2>1. CASE y.intent = "Append"
    <3>1. InputsFrom(c, i, y.pos)
      BY <1>1, <2>1, AcceptedInputs DEF Fits, IsAppend
    <3> QED BY <1>2, <2>1, <3>1 DEF Carries
  <2>2. CASE y.intent # "Append"
    <3>1. Continues(Behind(c, i, Submitting), InputsOf(c), s.position, c.input)
      BY <1>1, <1>3, <2>2, NextFrom DEF Fits, InputsFrom
    <3> QED BY <1>1, <1>2, <2>2, <3>1 DEF Fits, InputsFrom
  <2> QED BY <2>1, <2>2
<1>6. \E u \in Nat : ProfilesFrom(c, 0, c.profile, u) /\ ProfilesFrom(c, i, t.profile, u)
  <2>1. PICK u \in Nat : ProfilesFrom(c, 0, c.profile, u) /\ ProfilesFrom(c, k, s.profile, u)
    BY DEF Fits
  <2>2. IF Kind(y) \in Profiling
          THEN y.n = s.profile + 1
               /\ Continues(Behind(c, i, Profiling), NumbersOf(c), s.profile + 1, u)
          ELSE Continues(Behind(c, i, Profiling), NumbersOf(c), s.profile, u)
    BY <1>1, <1>2, <2>1, NextFrom DEF ProfilesFrom
  <2>3. ProfilesFrom(c, i, t.profile, u)
    BY <1>2, <1>3, <2>2 DEF ProfilesFrom
  <2> QED BY <2>1, <2>3
<1>7. t.sealed => c.inputClosed /\ \A j \in DOMAIN c.commands : j > i => ~IsUser(c, j)
  <2>1. s.sealed => c.inputClosed /\ \A j \in DOMAIN c.commands : j > i => ~IsUser(c, j)
    BY <1>1 DEF Fits
  <2>2. y.intent = "Seal" => c.inputClosed /\ \A j \in DOMAIN c.commands : j > i => ~IsUser(c, j)
    BY <1>1 DEF Line, Sealing
  <2> QED BY <1>2, <2>1, <2>2
<1> QED BY <1>4, <1>5, <1>6, <1>7 DEF Fits

\* Two signals are one and another.
LEMMA TwoSignals ==
  ASSUME NEW a, NEW b
  PROVE  <<a, b>> = <<a>> \o <<b>>
<1> DEFINE S == {a, b}
           u == <<a>>
           v == <<b>>
           w == <<a, b>>
<1>1. a \in S /\ b \in S
  OBVIOUS
<1> HIDE DEF S
<1>2. u \in Seq(S) /\ Len(u) = 1 /\ u[1] = a
  BY <1>1
<1>3. v \in Seq(S) /\ Len(v) = 1 /\ v[1] = b
  BY <1>1
<1>4. w \in Seq(S) /\ Len(w) = 2 /\ w[1] = a /\ w[2] = b
  BY <1>1
<1> HIDE DEF u, v, w
<1>5. /\ u \o v \in Seq(S) /\ Len(u \o v) = Len(u) + Len(v)
      /\ \A i \in 1..(Len(u) + Len(v)) :
           (u \o v)[i] = IF i <= Len(u) THEN u[i] ELSE v[i - Len(u)]
  BY <1>2, <1>3, ConcatProperties, Zenon
<1>6. u \o v \in Seq(S) /\ Len(u \o v) = 2
  BY <1>2, <1>3, <1>5
<1>7. (u \o v)[1] = a
  BY <1>2, <1>3, <1>5
<1>8. (u \o v)[2] = b
  BY <1>2, <1>3, <1>5
<1>9. \A i \in 1..2 : (u \o v)[i] = w[i]
  <2>1. \A i \in 1..2 : i = 1 \/ i = 2
    OBVIOUS
  <2> QED BY <1>4, <1>7, <1>8, <2>1
<1>10. u \o v = w
  BY <1>4, <1>6, <1>9
<1> QED BY <1>10 DEF u, v, w

\* What an accepted command makes the session say.
LEMMA AnswerTypes ==
  ASSUME NEW x \in Carried
  PROVE  LET ack == Acknowledged(Id(x))
             caused == IF x.intent = "Generate" THEN Started(x.n, x.pos) ELSE ClosedEvent
         IN  /\ ack \in Signals /\ ack.kind = "Acknowledged" /\ ack.id = Id(x)
             /\ x.intent \notin {"Generate", "Close"} => Answer(x) = <<ack>>
             /\ x.intent \in {"Generate", "Close"} =>
                   Answer(x) = <<ack>> \o <<caused>> /\ caused \in Signals
<1>1. /\ x.intent \in IntentNames /\ x.n \in Nat /\ Id(x) \in Ident
      /\ x.intent = "Generate" => x.pos \in Nat
  BY CarriedTypes
<1>2. Acknowledged(Id(x)) \in Events
  BY <1>1, EventTypes
<1>3. x.intent = "Generate" => Started(x.n, x.pos) \in Events
  BY <1>1, EventTypes
<1>4. ClosedEvent \in Events
  BY EventTypes
<1>5. \A a, b : <<a, b>> = <<a>> \o <<b>>
  BY TwoSignals
<1> QED BY <1>1, <1>2, <1>3, <1>4, <1>5 DEF Answer, Signals, Acknowledged

\* What one more signal leaves on its way.
LEMMA InsertedAlike ==
  ASSUME NEW F \in Seq(Signals), NEW G \in Seq(Signals), NEW x, NEW e, Inserts(F, G, x, e)
  PROVE  /\ \A p \in DOMAIN F : \E r \in DOMAIN G : G[r] = F[p]
         /\ \A r \in DOMAIN G : G[r] = e \/ \E p \in DOMAIN F : G[r] = F[p]
         /\ x \in DOMAIN G /\ G[x] = e
<1>1. x \in DOMAIN G /\ G[x] = e
  BY InsertedPlaces
<1>2. \A p \in DOMAIN F : Over(p, x) \in DOMAIN G /\ G[Over(p, x)] = F[p]
  BY InsertedPlaces
<1>3. \A r \in DOMAIN G : r # x => Under(r, x) \in DOMAIN F /\ G[r] = F[Under(r, x)]
  BY InsertedPlaces
<1> QED BY <1>1, <1>2, <1>3

\* What an answer leaves on its way: no more of a call, and the start of one that is asked for.
Leaves(F, G, x) ==
    /\ \A p \in DOMAIN F : \E r \in DOMAIN G : G[r] = F[p]
    /\ \A r \in DOMAIN G : \/ \E p \in DOMAIN F : G[r] = F[p]
                           \/ G[r].kind \notin {"Output", "Finished"}
    /\ x.intent = "Generate" => \E r \in DOMAIN G : G[r].kind = "Started"

\* What is on its way when the next command is accepted and acknowledged.
LEMMA AnsweredFlowing ==
  ASSUME NEW c, Sound(c), Line(c), c.ready, NEW said \in Seq(Signals),
         NEW fin \in Seq(Signals), \A p \in DOMAIN fin : OfResponse(fin[p]),
         NEW k \in Nat, Flowing(c, said \o fin, k), k + 1 \in DOMAIN c.commands,
         NEW x \in Carried, Carries(c, x, c.commands[k + 1]),
         x.intent \in {"Generate", "Close"} => fin = <<>>
  PROVE  LET F == said \o fin
             G == (said \o Answer(x)) \o fin
         IN  G \in Seq(Signals) /\ Flowing(c, G, k + 1) /\ Leaves(F, G, x)
<1> DEFINE y == c.commands[k + 1]
           ack == Acknowledged(Id(x))
           caused == IF x.intent = "Generate" THEN Started(x.n, x.pos) ELSE ClosedEvent
           F == said \o fin
           H == (said \o <<ack>>) \o fin
           G == (said \o Answer(x)) \o fin
           l == Len(said) + 1
<1>1. c.commands \in Seq(PendingCommands) /\ Distinguished(c) /\ Id(x) = Id(y)
      /\ x.intent = y.intent /\ x.n = y.n
  BY OutboxType DEF Sound, Line, Carries, Id
<1>2. /\ ack \in Signals /\ ack.kind = "Acknowledged" /\ ack.id = Id(x)
      /\ x.intent \notin {"Generate", "Close"} => Answer(x) = <<ack>>
      /\ x.intent \in {"Generate", "Close"} => /\ Answer(x) = <<ack>> \o <<caused>>
                                               /\ caused \in Signals
  BY AnswerTypes
<1>3. Inserts(F, H, l, ack) /\ F \in Seq(Signals) /\ H \in Seq(Signals)
  BY <1>2, InsertsBehind
<1>0. Flowing(c, F, k)
  OBVIOUS
<1>4. \A p \in DOMAIN F : p >= l => F[p].kind # "Acknowledged"
  <2>1. ASSUME NEW p \in DOMAIN F, p >= l PROVE F[p].kind # "Acknowledged"
    <3>1. p \notin DOMAIN said
      BY <1>3, <2>1
    <3>2. p - Len(said) \in DOMAIN fin /\ F[p] = fin[p - Len(said)]
      BY <3>1, Parts
    <3> QED BY <3>2 DEF OfResponse
  <2> QED BY <2>1
<1>5. Acks(ack, y)
  BY <1>1, <1>2 DEF Acks
<1> HIDE DEF F, H, l, ack, caused, y, G
<1>6. Flowing(c, H, k + 1)
  BY <1>0, <1>1, <1>2, <1>3, <1>4, <1>5, NextAcked DEF y
<1>7. /\ \A p \in DOMAIN F : \E r \in DOMAIN H : H[r] = F[p]
      /\ \A r \in DOMAIN H : H[r] = ack \/ \E p \in DOMAIN F : H[r] = F[p]
      /\ l \in DOMAIN H /\ H[l] = ack
  BY <1>3, InsertedAlike
<1>8. CASE x.intent \notin {"Generate", "Close"}
  <2>1. G = H
    BY <1>2, <1>8 DEF G, H
  <2> QED BY <1>2, <1>3, <1>6, <1>7, <1>8, <2>1 DEF F, G, Leaves
<1>9. CASE x.intent \in {"Generate", "Close"}
  <2> DEFINE E == <<caused>>
  <2>1. fin = <<>> /\ caused \in Signals /\ Answer(x) = <<ack>> \o <<caused>>
    BY <1>2, <1>9
  <2>2. E \in Seq(Signals) /\ DOMAIN E = {1} /\ E[1] = caused
    BY <2>1
  <2> HIDE DEF E
  <2>3. G = H \o E /\ F = said
    <3> DEFINE a == <<ack>>
    <3>1. a \in Seq(Signals)
      BY <1>2
    <3> HIDE DEF a
    <3>2. (said \o a) \o E = said \o (a \o E) /\ said \o a \in Seq(Signals)
          /\ said \o (a \o E) \in Seq(Signals)
      BY <2>2, <3>1
    <3>3. \A s \in Seq(Signals) : s \o <<>> = s
      BY ConcatEmptySeq
    <3>4. H = said \o a /\ F = said
      BY <2>1, <3>2, <3>3 DEF F, H, a
    <3>5. Answer(x) = a \o E
      BY <2>1 DEF a, E
    <3>6. G = said \o (a \o E)
      BY <2>1, <3>2, <3>3, <3>5 DEF G
    <3> QED BY <2>1, <3>2, <3>3, <3>4, <3>6
  <2>4. /\ k = 0 /\ \A p \in DOMAIN F : F[p].kind \notin Responding
        /\ y.intent = "Close" => \A p \in DOMAIN F : F[p].kind # "Closed"
    BY <1>0, <1>1, <1>3, <1>9, NextUnacked DEF y
  <2>5. y.intent = x.intent /\ y.n = x.n /\ (x.intent = "Generate" => x = y)
    BY <1>1 DEF Carries, y
  <2>6. \A i \in DOMAIN c.commands : c.commands[i].intent \in {"Generate", "Close"} =>
           \E q \in DOMAIN H : Acks(H[q], c.commands[i])
    <3>1. \A i \in DOMAIN c.commands : c.commands[i].intent \in {"Generate", "Close"} => i = k + 1
      BY <2>4 DEF Line, Exclusives, Exclusive
    <3> QED BY <1>5, <1>7, <3>1 DEF y
  <2>7. \A p \in DOMAIN H : /\ H[p].kind \notin Responding
                            /\ y.intent = "Close" => H[p].kind # "Closed"
    BY <1>2, <1>7, <2>4 DEF Responding
  <2>8. /\ y.intent = "Generate" =>
             InGeneration(c) /\ ~c.started /\ y.n = c.gen /\ y.pos = c.covered
        /\ y.intent = "Close" => ~c.closure /\ c.closing
    BY <1>0 DEF Flowing, Waiting, Line, Requests, Exclusives, y
  <2>9. Follows(c, H, E)
    <3>1. CASE x.intent = "Generate"
      <4>1. caused.kind = "Started" /\ caused.gen = c.gen /\ caused.pos = c.covered
        BY <2>5, <2>8, <3>1 DEF caused, Started
      <4>2. InGeneration(c) /\ ~c.started
        BY <2>5, <2>8, <3>1
      <4> QED BY <2>2, <2>6, <2>7, <4>1, <4>2 DEF Follows, Responding
    <3>2. CASE x.intent = "Close"
      <4>1. caused.kind = "Closed"
        BY <3>2 DEF caused, ClosedEvent
      <4>2. ~c.closure /\ c.closing /\ \A p \in DOMAIN H : H[p].kind # "Closed"
        BY <2>5, <2>7, <2>8, <3>2
      <4> QED BY <2>2, <2>6, <2>7, <4>1, <4>2 DEF Follows, Responding
    <3> QED BY <1>9, <3>1, <3>2
  <2>10. Flowing(c, G, k + 1)
    <3>1. k + 1 \in Nat
      OBVIOUS
    <3> QED BY <1>3, <1>6, <2>2, <2>3, <2>9, <3>1, FollowedFlowing
  <2>11. /\ G \in Seq(Signals)
         /\ \A p \in DOMAIN H : \E r \in DOMAIN G : G[r] = H[p]
         /\ \A r \in DOMAIN G : G[r] = caused \/ \E p \in DOMAIN H : G[r] = H[p]
         /\ \E r \in DOMAIN G : G[r] = caused
    <3> DEFINE J == H \o E
    <3>1. J \in Seq(Signals) /\ \A p \in DOMAIN H : p \in DOMAIN J /\ J[p] = H[p]
      BY <1>3, <2>2, Parts
    <3>2. \A x0 \in DOMAIN E : Len(H) + x0 \in DOMAIN J /\ J[Len(H) + x0] = E[x0]
      BY <1>3, <2>2, Parts
    <3>3. \A p \in DOMAIN J : p \notin DOMAIN H => p - Len(H) \in DOMAIN E /\ J[p] = E[p - Len(H)]
      BY <1>3, <2>2, Parts
    <3> HIDE DEF J
    <3>4. 1 \in DOMAIN E
      BY <2>2
    <3>5. \E r \in DOMAIN J : J[r] = caused
      BY <2>2, <3>2, <3>4
    <3>6. \A r \in DOMAIN J : J[r] = caused \/ \E p \in DOMAIN H : J[r] = H[p]
      BY <2>2, <3>1, <3>3
    <3>7. J = G
      BY <2>3 DEF J
    <3> QED BY <3>1, <3>5, <3>6, <3>7
  <2>12. caused.kind \in {"Started", "Closed"} /\ (x.intent = "Generate" => caused.kind = "Started")
    BY DEF caused, Started, ClosedEvent
  <2>13. \A p \in DOMAIN F : \E r \in DOMAIN G : G[r] = F[p]
    BY <1>7, <2>11
  <2>14. \A r \in DOMAIN G : \/ \E p \in DOMAIN F : G[r] = F[p]
                             \/ G[r].kind \notin {"Output", "Finished"}
    <3>1. ack.kind \notin {"Output", "Finished"} /\ caused.kind \notin {"Output", "Finished"}
      BY <1>2, <2>12
    <3>2. \A r \in DOMAIN G : G[r] = caused \/ G[r] = ack \/ \E p \in DOMAIN F : G[r] = F[p]
      <4>1. \A r \in DOMAIN G : G[r] = caused \/ \E p \in DOMAIN H : G[r] = H[p]
        BY <2>11
      <4>2. \A p \in DOMAIN H : H[p] = ack \/ \E q \in DOMAIN F : H[p] = F[q]
        BY <1>7
      <4> SUFFICES ASSUME NEW r \in DOMAIN G
                   PROVE  G[r] = caused \/ G[r] = ack \/ \E p \in DOMAIN F : G[r] = F[p]
        OBVIOUS
      <4>3. ASSUME NEW p \in DOMAIN H, G[r] = H[p]
            PROVE  G[r] = ack \/ \E q \in DOMAIN F : G[r] = F[q]
        <5>1. CASE H[p] = ack
          BY <4>3, <5>1, Zenon
        <5>2. ASSUME NEW q \in DOMAIN F, H[p] = F[q] PROVE G[r] = F[q]
          BY <4>3, <5>2, Zenon
        <5> QED BY <4>2, <5>1, <5>2, Zenon
      <4> QED BY <4>1, <4>3, Zenon
    <3> QED BY <3>1, <3>2
  <2>15. x.intent = "Generate" => \E r \in DOMAIN G : G[r].kind = "Started"
    BY <2>11, <2>12
  <2> QED BY <2>10, <2>11, <2>13, <2>14, <2>15 DEF F, G, Leaves
<1> QED BY <1>8, <1>9

\* SessionTask::command
LEMMA CommandFlow ==
  ASSUME Shape, Conversing, eng.pc # "down", Line(Latest), Command, UNCHANGED <<cp, eng>>
  PROVE  Conversing'
<1> DEFINE s == session
           x == Head(commands)
           c == Latest
           F == Flight
           t == Commanded(session, x)
           said == Arrived(work) \o Saying(session)
           fin == session.finishing
<1>1. /\ s \in UpSessions /\ CallOrder(s) /\ s.phase = "up" /\ s.controls = <<>>
      /\ s.sending # None => OfResponse(s.sending)
      /\ commands \in Seq(Carried) /\ commands # <<>> /\ Sound(c)
  BY LatestTypes DEF Command
<1>2. PICK k \in Nat : Flowing(c, F, k) /\ Meets(c, F, k, s, commands, eng.batch, eng.sent)
  BY <1>1 DEF Conversing, Meeting
<1>3. /\ k + 1 \in DOMAIN c.commands /\ x \in Carried /\ Carries(c, x, c.commands[k + 1])
      /\ Lined(c, k + 1, Tail(commands), eng.batch, eng.sent)
  BY <1>1, <1>2, HeadOfLine DEF Meets
<1>4. c.ready
  BY <1>1, <1>2 DEF Meets, Opening
<1>5. x.intent = c.commands[k + 1].intent /\ x.n = c.commands[k + 1].n
  BY <1>3 DEF Carries
<1>6. x.intent \in {"Generate", "Replace", "Close"} =>
         /\ k = 0 /\ \A p \in DOMAIN F : F[p].kind \notin Responding
         /\ ~Busy(s) /\ fin = <<>> /\ s.active = None
  <2> SUFFICES ASSUME x.intent \in {"Generate", "Replace", "Close"}
               PROVE  /\ k = 0 /\ \A p \in DOMAIN F : F[p].kind \notin Responding
                      /\ ~Busy(s) /\ fin = <<>> /\ s.active = None
    OBVIOUS
  <2>1. k = 0 /\ \A p \in DOMAIN F : F[p].kind \notin Responding
    BY <1>1, <1>2, <1>3, <1>5, NextUnacked
  <2>2. c.commands[k + 1].intent \in {"Replace", "Close"} => ~InGeneration(c)
    BY <1>3 DEF Line, Exclusives
  <2>3. Calling(c, F, k, s)
    BY <1>2 DEF Meets
  <2> QED BY <1>1, <1>3, <1>5, <2>1, <2>2, <2>3, NotBusy
<1>7. Accepts(s, x)
  BY <1>1, <1>2, <1>3, <1>5, <1>6, NextAccepted DEF Meets
<1>8. session' = Stage(t) /\ commands' = Tail(commands) /\ work' = work
  BY <1>7 DEF Command, Commanded
<1>9. t \in UpSessions /\ t.sending = s.sending /\ t.controls = Answer(x)
      /\ t.active = (IF x.intent = "Generate"
                       THEN [gen |-> x.n, pos |-> x.pos, content |-> Projection(s)]
                       ELSE s.active)
  BY <1>1, <1>3, <1>7, CommandedOrder
<1>10. /\ t.revision = IF x.intent \in {"Append", "Replace"} THEN x.n ELSE s.revision
       /\ t.position = IF x.intent = "Append" THEN x.pos ELSE s.position
       /\ t.profile = IF x.intent = "Profile" THEN x.n ELSE s.profile
       /\ t.sealed = (s.sealed \/ x.intent = "Seal")
       /\ t.finishing = fin /\ t.sequence = s.sequence
  BY <1>1, <1>3, CommandedFields
<1> HIDE DEF t
<1>11. Fits(c, t, k + 1)
  BY <1>1, <1>2, <1>3, <1>10, AppliedFits DEF Meets
<1>12. said \in Seq(Signals) /\ F = said \o fin /\ fin \in Seq(Signals)
  BY <1>1, FlightParts, SayingTypes DEF Flight
<1>13. \A p \in DOMAIN fin : OfResponse(fin[p])
  BY <1>1 DEF CallOrder
<1> DEFINE G == (said \o Answer(x)) \o fin
<1>14. G \in Seq(Signals) /\ Flowing(c, G, k + 1) /\ Leaves(F, G, x)
  <2>1. F \in Seq(Signals) /\ Line(c)
    BY FlightTypes
  <2>2. x.intent \in {"Generate", "Close"} => fin = <<>>
    BY <1>6
  <2>3. Sound(c) /\ Line(c) /\ c.ready /\ F \in Seq(Signals) /\ k \in Nat /\ Flowing(c, F, k)
    BY <1>1, <1>2, <1>4, <2>1
  <2>4. said \in Seq(Signals) /\ fin \in Seq(Signals) /\ Flowing(c, said \o fin, k)
    BY <1>12, <2>3
  <2>5. \A p \in DOMAIN fin : OfResponse(fin[p])
    BY <1>13
  <2>6. k + 1 \in DOMAIN c.commands /\ x \in Carried /\ Carries(c, x, c.commands[k + 1])
    BY <1>3
  <2> HIDE DEF c, x, fin, said
  <2>7. x.intent \in {"Generate", "Close"} => fin = <<>>
    BY <2>2
  <2> HIDE DEF F
  <2> DEFINE J == said \o fin
  <2>8. G \in Seq(Signals) /\ Flowing(c, G, k + 1) /\ Leaves(J, G, x)
    BY <2>3, <2>4, <2>5, <2>6, <2>7, AnsweredFlowing, Zenon
  <2>9. F = J
    BY <1>12
  <2> HIDE DEF J, G
  <2> QED BY <2>8, <2>9, Zenon
<1>15. Arrived(work) \o Emissions(t) = G
  <2> DEFINE a == Arrived(work)
             b == IF s.sending = None THEN <<>> ELSE <<s.sending>>
             v == Answer(x)
  <2>1. a \in Seq(Signals) /\ b \in Seq(Signals) /\ v \in Seq(Signals)
    <3>1. s.sending \in Events \cup {None} /\ Answer(x) \in Seq(Events)
      BY <1>1, <1>9, SessionTypes
    <3>2. b \in Seq(Events)
      BY <3>1
    <3> QED BY <3>1, <3>2, FlightTypes, ToldTypes
  <2>2. Saying(s) = b \o <<>> /\ Saying(t) = b \o v
    BY <1>1, <1>9 DEF Saying
  <2> HIDE DEF a, b, v
  <2>3. b \o <<>> = b /\ (a \o b) \o v = a \o (b \o v)
    BY <2>1
  <2>4. Arrived(work) \o Emissions(t) = (a \o Saying(t)) \o fin
    BY <1>9, <1>10, FlightParts DEF a
  <2> QED BY <2>2, <2>3, <2>4 DEF a, v
<1>16. Flight' = G
       /\ (\/ session'.phase = "up" /\ SameTask(t, session')
           \/ session' = Ended("ok"))
  BY <1>8, <1>9, <1>15, StageEmissions DEF Flight
<1> HIDE DEF G, fin, said
<1>17. Calling(c, G, k + 1, t)
  <2>1. CASE x.intent = "Generate"
    <3>1. x = c.commands[k + 1] /\ k = 0
      BY <1>3, <1>5, <1>6, <2>1 DEF Carries
    <3>2. InGeneration(c) /\ x.n = c.gen /\ x.pos = c.covered
      BY <1>2, <1>3, <2>1, <3>1 DEF Flowing, Waiting, Line, Requests
    <3>3. t.active.gen = c.gen /\ t.active.pos = c.covered
      BY <1>9, <2>1, <3>2
    <3>4. \A p \in DOMAIN G : G[p].kind \notin {"Output", "Finished"}
      BY <1>6, <1>14, <2>1 DEF Responding, Leaves
    <3>5. \A i \in DOMAIN c.commands : i > k + 1 => c.commands[i].intent # "Generate"
      BY <3>1 DEF Line, Exclusives, Exclusive
    <3> QED BY <1>14, <2>1, <3>2, <3>3, <3>4, <3>5 DEF Calling, Leaves
  <2>2. CASE x.intent # "Generate"
    <3>1. t.active = s.active /\ Calling(c, F, k, s)
      BY <1>2, <1>9, <2>2 DEF Meets
    <3>2. \A i \in DOMAIN c.commands : i > k + 1 => i > k
      BY <1>1, OutboxType DEF Sound
    <3> QED BY <1>14, <3>1, <3>2 DEF Calling, Leaves
  <2> QED BY <2>1, <2>2
<1>18. Meets(c, G, k + 1, t, Tail(commands), eng.batch, eng.sent)
  BY <1>3, <1>4, <1>11, <1>17 DEF Meets, Opening
<1>19. session'.phase = "up" =>
          Meets(c, G, k + 1, session', Tail(commands), eng.batch, eng.sent)
  <2>1. session'.phase = "up" => SameMeeting(t, session') /\ session'.active = t.active
    BY <1>16 DEF SameTask, SameMeeting, Ended
  <2> QED BY <1>18, <2>1, MeetsAlike
<1>20. Meeting'
  <2>1. k + 1 \in Nat
    OBVIOUS
  <2> QED BY <1>8, <1>14, <1>16, <1>19, <2>1, SessionMeeting
<1>21. session'.phase \in {"up", "ended"} /\ (session'.phase = "ended" => session'.result = "ok")
       /\ (session'.phase = "up" => session'.sequence = session.sequence)
  BY <1>10, <1>16 DEF Ended, SameTask
<1> QED BY <1>1, <1>8, <1>20, <1>21, NothingQueued DEF Conversing

-----------------------------------------------------------------------------
\* Steps of the session

\* The session task takes a step.
LEMMA ModelFlow ==
  ASSUME Shape, Flow, ModelStep
  PROVE  Flow'
<1>1. UNCHANGED <<cp, eng>> /\ Latest' = Latest
  BY DEF ModelStep, Latest
<1>2. session.phase \in {"up", "ended"} \/ session = Absent
  BY DEF Shape, SessionShape, UpSessions, EndedSessions
<1>3. session # Absent
  <2>1. session.phase \in {"up", "ended"}
    BY DEF ModelStep, ExchangeStep, Deliver, Respond, CallFails, Command, ReportEnd
  <2>2. Absent.phase = "absent"
    BY DEF Absent
  <2> QED BY <2>1, <2>2
<1>4. eng.pc \notin Attaching \cup {"down"}
  BY <1>3 DEF Flow, Preparing
<1>5. Conversing /\ Line(Latest)
  BY <1>4 DEF Flow, Latest
<1>6. Conversing'
  <2>1. CASE Deliver
    BY <1>1, <1>4, <1>5, <2>1, DeliverFlow
  <2>2. CASE Respond
    BY <1>1, <1>4, <1>5, <2>2, RespondFlow
  <2>3. CASE CallFails
    BY <1>1, <1>4, <1>5, <2>3, CallFailsFlow
  <2>4. CASE Command
    BY <1>1, <1>4, <1>5, <2>4, CommandFlow
  <2>5. CASE ReportEnd
    BY <1>1, <1>4, <1>5, <2>5, ReportEndFlow
  <2> QED BY <2>1, <2>2, <2>3, <2>4, <2>5 DEF ModelStep, ExchangeStep
<1>7. /\ Line(cp)' /\ (eng.pc = "batch" => Line(eng.staged.cp))'
      /\ (eng.pc # "down" => SentIds(Latest, eng.sent))'
  BY <1>1 DEF Flow
<1> QED BY <1>1, <1>4, <1>6, <1>7 DEF Flow

-----------------------------------------------------------------------------
\* Leaving the engine

\* What Line says of a checkpoint does not depend on its other fields.
LEMMA AlikeLine ==
  ASSUME NEW c, Line(c), NEW d, d.failure # "protocol",
         d.commands = c.commands, d.history = c.history, d.revision = c.revision,
         d.input = c.input, d.profile = c.profile, d.ack = c.ack, d.gen = c.gen,
         d.covered = c.covered, d.closing = c.closing, d.closure = c.closure,
         d.inputClosed = c.inputClosed, d.seals = c.seals, InGeneration(d) => InGeneration(c)
  PROVE  Line(d)
<1>1. NumbersOf(d) = NumbersOf(c) /\ InputsOf(d) = InputsOf(c)
      /\ \A k, kinds : Behind(d, k, kinds) = Behind(c, k, kinds)
  BY DEF NumbersOf, InputsOf, Behind
<1>2. /\ \A p : InputsFrom(d, 0, p) <=> InputsFrom(c, 0, p)
      /\ \A lo, hi : ProfilesFrom(d, 0, lo, hi) <=> ProfilesFrom(c, 0, lo, hi)
      /\ \A i : IsUser(d, i) <=> IsUser(c, i)
  BY <1>1 DEF InputsFrom, ProfilesFrom, IsUser
<1>3. Distinguished(d) /\ Exclusives(d) /\ InputsInOrder(d) /\ Sealing(d) /\ Requests(d)
  BY <1>2 DEF Line, Distinguished, Exclusives, InputsInOrder, Sealing, Requests
<1>4. \E p \in Nat : InputsFrom(d, 0, p)
  BY <1>2 DEF Line
<1>5. \E t \in Nat : ProfilesFrom(d, 0, d.profile, t)
  BY <1>2 DEF Line
<1> QED BY <1>3, <1>4, <1>5 DEF Line

\* What Line says of a checkpoint says nothing of how the run ends.
LEMMA SettledLine ==
  ASSUME NEW c, Sound(c), Line(c)
  PROVE  /\ \A state : Line([c EXCEPT !.state = state])
         /\ \A state : Line([c EXCEPT !.state = state, !.failure = "invalid"])
         /\ \A state : Line([c EXCEPT !.state = state, !.failure = "model"])
         /\ Line([c EXCEPT !.ready = FALSE, !.cursor = None])
<1>1. c \in Checkpoints /\ c.failure # "protocol"
  BY DEF Sound, Line
<1>2. ASSUME NEW state PROVE Line([c EXCEPT !.state = state])
  <2> DEFINE d == [c EXCEPT !.state = state]
  <2>1. /\ d.failure # "protocol"
        /\ d.commands = c.commands /\ d.history = c.history /\ d.revision = c.revision
        /\ d.input = c.input /\ d.profile = c.profile /\ d.ack = c.ack /\ d.gen = c.gen
        /\ d.status = c.status /\ d.covered = c.covered /\ d.closing = c.closing
        /\ d.closure = c.closure /\ d.inputClosed = c.inputClosed /\ d.seals = c.seals
    BY <1>1 DEF Checkpoints
  <2> HIDE DEF d
  <2>2. Line(d)
    BY <2>1, AlikeLine DEF InGeneration
  <2> QED BY <2>2 DEF d
<1>3. ASSUME NEW state, NEW failure \in {"invalid", "model"}
      PROVE  Line([c EXCEPT !.state = state, !.failure = failure])
  <2> DEFINE d == [c EXCEPT !.state = state, !.failure = failure]
  <2>1. /\ d.failure # "protocol"
        /\ d.commands = c.commands /\ d.history = c.history /\ d.revision = c.revision
        /\ d.input = c.input /\ d.profile = c.profile /\ d.ack = c.ack /\ d.gen = c.gen
        /\ d.status = c.status /\ d.covered = c.covered /\ d.closing = c.closing
        /\ d.closure = c.closure /\ d.inputClosed = c.inputClosed /\ d.seals = c.seals
    BY <1>1 DEF Checkpoints
  <2> HIDE DEF d
  <2>2. Line(d)
    BY <2>1, AlikeLine DEF InGeneration
  <2> QED BY <2>2 DEF d
<1>4. Line([c EXCEPT !.ready = FALSE, !.cursor = None])
  <2> DEFINE d == [c EXCEPT !.ready = FALSE, !.cursor = None]
  <2>1. /\ d.failure # "protocol"
        /\ d.commands = c.commands /\ d.history = c.history /\ d.revision = c.revision
        /\ d.input = c.input /\ d.profile = c.profile /\ d.ack = c.ack /\ d.gen = c.gen
        /\ d.status = c.status /\ d.covered = c.covered /\ d.closing = c.closing
        /\ d.closure = c.closure /\ d.inputClosed = c.inputClosed /\ d.seals = c.seals
    BY <1>1 DEF Checkpoints
  <2> HIDE DEF d
  <2>2. Line(d)
    BY <2>1, AlikeLine DEF InGeneration
  <2> QED BY <2>2 DEF d
<1> QED BY <1>2, <1>3, <1>4

\* A commit that ends the execution takes all of it down.
LEMMA LeaveFlow ==
  ASSUME NEW c, Line(c), Leave(c)
  PROVE  Flow'
<1>1. /\ cp' = c /\ eng' = Down /\ Down.pc = "down"
      /\ session' = Absent /\ commands' = <<>> /\ work' = <<>>
  <2>1. Down.pc = "down"
    BY DEF Down
  <2> QED BY <2>1 DEF Leave, TearDown
<1>2. Line(cp)'
  BY <1>1
<1>3. eng'.pc = "down"
  BY <1>1
<1> QED BY <1>1, <1>2, <1>3 DEF Flow, Attaching

\* Whatever ends the execution, but a protocol failure.
LEMMA StoppedFlow ==
  ASSUME Shape, Flow
  PROVE  /\ Suspend => Flow'
         /\ \A state : Leave([cp EXCEPT !.state = state]) => Flow'
         /\ Fail("invalid") \/ Fail("model") => Flow'
<1>1. Sound(cp) /\ Line(cp)
  BY DEF Shape, Flow
<1> QED BY <1>1, SettledLine, LeaveFlow DEF Suspend, Fail

\* The process dies.
LEMMA CrashFlow ==
  ASSUME Flow, Crash
  PROVE  Flow'
BY LeaveFlow DEF Crash, Flow, Leave

-----------------------------------------------------------------------------
\* Passes of the engine

\* What is on its way, and the session, are seen from the engine.
LEMMA EngineMeeting ==
  ASSUME NEW j \in Nat, Flowing(Latest', Flight', j),
         session'.phase = "up" =>
           Meets(Latest', Flight', j, session', commands', eng'.batch, eng'.sent)
  PROVE  Meeting'
BY DEF Meeting

\* The engine commits more commands, or none, and sends nothing.
LEMMA KeptFlow ==
  ASSUME Shape, Flow, eng.pc \notin Attaching \cup {"down", "batch"},
         Keeps(cp, cp'), cp'.cursor = cp.cursor,
         NEW pc \in {"dispatch", "advance", "idle"}, eng' = [eng EXCEPT !.pc = pc],
         UNCHANGED exchangeVars
  PROVE  Flow'
<1>1. /\ eng \in UpEngines /\ eng.sent \in SUBSET Ident /\ eng.batch \in Batches
      /\ commands \in Seq(Carried) /\ (session.phase = "up" => session \in UpSessions)
      /\ Sound(cp)
  BY LatestTypes DEF Shape
<1>2. /\ eng'.pc = pc /\ eng'.sent = eng.sent /\ eng'.batch = eng.batch
      /\ eng'.sending = eng.sending /\ eng'.stash = eng.stash
      /\ commands' = commands /\ work' = work /\ session' = session
  BY <1>1 DEF UpEngines, exchangeVars
<1>3. eng'.pc \notin Attaching \cup {"down", "batch", "failing"}
  BY <1>2 DEF Attaching
<1>4. Latest = cp /\ Latest' = cp' /\ Flight' = Flight
  BY <1>2, <1>3 DEF Latest, Flight
<1>5. Conversing /\ SentIds(cp, eng.sent) /\ Line(cp)
  BY <1>4 DEF Flow
<1>6. PICK k \in Nat :
        /\ Flowing(cp, Flight, k)
        /\ session.phase = "up" =>
              Meets(cp, Flight, k, session, commands, eng.batch, eng.sent)
  BY <1>4, <1>5 DEF Conversing, Meeting
<1>7. /\ Line(cp') /\ SentIds(cp', eng.sent) /\ Flowing(cp', Flight, k)
      /\ Met(cp, Flight, k, eng.sent, cp', Flight, k, eng.sent)
  <2> DEFINE d == cp'
             F == Flight
  <2>1. Keeps(cp, d)
    OBVIOUS
  <2>2. eng.sent \in SUBSET Ident /\ k \in Nat /\ SentIds(cp, eng.sent) /\ Flowing(cp, F, k)
    BY <1>1, <1>5, <1>6
  <2> HIDE DEF d, F
  <2>3. /\ Line(d) /\ SentIds(d, eng.sent) /\ Flowing(d, F, k)
        /\ Met(cp, F, k, eng.sent, d, F, k, eng.sent)
    BY <2>1, <2>2, Zenon DEF Keeps
  <2> QED BY <2>3 DEF d, F
<1>8. session.phase = "up" =>
          Meets(cp', Flight, k, session, commands, eng.batch, eng.sent)
  BY <1>1, <1>6, <1>7 DEF Met
<1>9. Meeting'
  BY <1>2, <1>4, <1>7, <1>8, EngineMeeting
<1>10. Numbering' /\ Reporting' /\ Agreement'
  <2>1. Numbering'
    BY <1>2, <1>4, <1>5 DEF Conversing, Numbering
  <2>2. Reporting'
    BY <1>2, <1>5 DEF Conversing, Reporting, Reported
  <2>3. Agreement'
    BY <1>2, <1>3, <1>5 DEF Conversing, Agreement
  <2> QED BY <2>1, <2>2, <2>3
<1>11. Conversing'
  BY <1>2, <1>5, <1>9, <1>10 DEF Conversing
<1>12. Line(cp)' /\ SentIds(Latest, eng.sent)'
  BY <1>2, <1>4, <1>7
<1> QED BY <1>3, <1>11, <1>12 DEF Flow

\* Nothing is committed.
LEMMA SameKeeps ==
  ASSUME NEW c, Line(c)
  PROVE  Keeps(c, c)
BY DEF Keeps, Met

\* advance
LEMMA AdvanceFlow ==
  ASSUME Shape, Flow, Reduce \/ Generate \/ PrepareClose \/ Rest
  PROVE  Flow'
<1>1. eng.pc = "advance" /\ Sound(cp) /\ Line(cp)
      /\ eng.pc \notin Attaching \cup {"down", "batch"}
  BY DEF Reduce, Generate, PrepareClose, Rest, Advancing, Shape, Flow, Attaching
<1>2. CASE Rest
  BY <1>1, <1>2, KeptFlow, SameKeeps DEF Rest
<1>3. ASSUME NEW d, NEW command, Sound(d), cp' = d, d.cursor = cp.cursor, Pass(d),
             Alone(cp, d, command), ~InGeneration(cp)
      PROVE  Flow'
  <2>1. Keeps(cp, cp')
    BY <1>1, <1>3, AloneKeeps
  <2> QED BY <1>1, <1>3, <2>1, KeptFlow DEF Pass
<1>4. CASE Reduce
  <2> DEFINE revision == cp.revision + 1
             d == [cp EXCEPT !.history = <<Entry("Summary", revision, 0)>>, !.start = 1,
                             !.revision = revision, !.reduced = revision,
                             !.commands = Append(cp.commands, Plain("Replace", revision))]
  <2>1. Pass(d) /\ cp' = d /\ cp.commands = <<>> /\ ~InGeneration(cp)
    BY <1>4 DEF Reduce, Advancing, CanAdvance, Pass
  <2>2. Sound(d) /\ Alone(cp, d, Plain("Replace", revision))
    BY <1>1, <2>1, ReducedSound, ReducedAlone
  <2>3. d.cursor = cp.cursor
    BY <1>1 DEF Sound, Checkpoints
  <2> HIDE DEF d
  <2> QED BY <1>3, <2>1, <2>2, <2>3
<1>5. CASE Generate
  <2> DEFINE d == Generated(cp)
  <2>1. Pass(d) /\ cp' = d /\ cp.commands = <<>> /\ ~InGeneration(cp)
    BY <1>5 DEF Generate, Advancing, CanAdvance, Pass
  <2>2. Sound(d) /\ Alone(cp, d, GenerateCommand(d)) /\ d.cursor = cp.cursor
    BY <1>1, <2>1, GeneratedSound, GeneratedAlone
  <2> HIDE DEF d
  <2> QED BY <1>3, <2>1, <2>2
<1>6. CASE PrepareClose
  <2> DEFINE d == [Prepared(cp, Plain("Close", 1)) EXCEPT !.closing = TRUE]
  <2>1. /\ Pass(d) /\ cp' = d /\ cp.commands = <<>> /\ ~InGeneration(cp)
        /\ ~cp.closing /\ ~cp.closure
    BY <1>6 DEF PrepareClose, Advancing, CanAdvance, Pass
  <2>2. Alone(cp, d, Plain("Close", 1)) /\ d.cursor = cp.cursor
    BY <1>1, <2>1, CloseAlone
  <2>3. Sound(d)
    <3>1. Plain("Close", 1) \in PendingCommands /\ ~IsNumbered(Plain("Close", 1))
      BY CommandTypes DEF IsNumbered, Plain
    <3> QED BY <1>1, <3>1, PreparedSound, FieldsSound
  <2> HIDE DEF d
  <2> QED BY <1>3, <2>1, <2>2, <2>3
<1> QED BY <1>2, <1>4, <1>5, <1>6

-----------------------------------------------------------------------------
\* Sending commands

\* Nothing is left of the batch: what was sent is acknowledged or in the queue.
LEMMA AllSubmitted ==
  ASSUME NEW c, Sound(c), NEW k \in Nat, NEW q \in Seq(Carried), NEW b, DOMAIN b = {}, NEW sent,
         Lined(c, k, q, b, sent)
  PROVE  /\ k + Len(q) \in Nat /\ k + Len(q) <= Len(c.commands)
         /\ SentUpTo(c, sent, k + Len(q))
         /\ \A j \in DOMAIN q : Carries(c, q[j], c.commands[k + j])
<1>1. PICK d, m \in Nat : Linked(c, k, d, m, q, b) /\ SentUpTo(c, sent, m)
  BY DEF Lined
<1>2. Len(q) \in Nat /\ Len(c.commands) \in Nat
  BY OutboxType DEF Sound
<1>3. k + Len(q) <= m /\ m <= Len(c.commands) /\ DOMAIN b = (k + Len(q) + d + 1)..(m + d)
  BY <1>1 DEF Linked
<1>4. m = k + Len(q)
  <2> SUFFICES ASSUME k + Len(q) < m PROVE FALSE
    BY <1>2, <1>3
  <2>1. k + Len(q) + d + 1 \in (k + Len(q) + d + 1)..(m + d)
    BY <1>2
  <2> QED BY <1>3, <2>1
<1> QED BY <1>1, <1>2, <1>3, <1>4 DEF Linked

\* dispatch_commands sends the next commands of the outbox.
LEMMA SendableRange ==
  ASSUME Sound(cp), Line(cp), NEW n \in Nat, SentUpTo(cp, eng.sent, n), Unsent # {}
  PROVE  \E m \in Nat : n <= m /\ m <= Len(cp.commands) /\ Sendable = (n + 1)..m
<1> DEFINE top == Len(cp.commands)
           generates == {i \in Unsent : SentDurably(cp.commands[i])}
<1>1. top \in Nat /\ DOMAIN cp.commands = 1..top
  BY OutboxType DEF Sound
<1>2. Unsent = (n + 1)..top
  BY <1>1 DEF Unsent, SentUpTo
<1>3. n + 1 \in Unsent /\ n + 1 <= top
  BY <1>1, <1>2
<1>4. FirstOf(Unsent) = n + 1
  <2>1. Unsent \in SUBSET Nat
    BY <1>1, <1>2
  <2>2. FirstOf(Unsent) \in Unsent /\ FirstOf(Unsent) <= n + 1
    BY <1>3, <2>1, FirstIsLeast
  <2> QED BY <1>1, <1>2, <2>2
<1>5. \A i \in generates : i = n + 1
  <2>1. \A i \in generates : i = 1 /\ i \in Unsent /\ i \in DOMAIN cp.commands
    BY DEF Line, Exclusives, Exclusive, SentDurably, Unsent
  <2> QED BY <1>1, <1>2, <2>1
<1>6. Sendable = IF n + 1 \in generates THEN {n + 1}
                 ELSE {i \in Unsent : \A j \in generates : i < j}
  BY <1>4 DEF Sendable
<1> HIDE DEF generates, top
<1>7. CASE n + 1 \in generates
  <2>1. Sendable = (n + 1)..(n + 1)
    BY <1>6, <1>7
  <2> QED BY <1>3, <2>1 DEF top
<1>8. CASE n + 1 \notin generates
  <2>1. generates = {}
    BY <1>5, <1>8
  <2>2. Sendable = (n + 1)..top
    BY <1>2, <1>6, <1>8, <2>1
  <2> QED BY <1>1, <1>3, <2>2 DEF top
<1> QED BY <1>7, <1>8

\* command_body: the command is sent as it is, with the entry it is about.
LEMMA BodyCarries ==
  ASSUME Sound(cp), NEW i \in DOMAIN cp.commands
  PROVE  Carries(cp, Body(cp.commands[i]), cp.commands[i])
<1> DEFINE x == cp.commands[i]
<1>1. x \in PendingCommands /\ x.intent \in IntentNames
      /\ (IsAppend(x) => x \in AppendCommands) /\ (x.intent = "Generate" => x \in GenerateCommands)
  BY OutboxType, CommandTypes DEF Sound
<1> HIDE DEF x
<1>2. CASE x.intent = "Append"
  <2>1. x \in AppendCommands
    BY <1>1, <1>2 DEF IsAppend
  <2>2. Body(x) = [x EXCEPT !.entry = cp.history[x.entry]]
    BY <1>2 DEF Body
  <2>3. /\ Body(x).intent = x.intent /\ Body(x).n = x.n /\ Body(x).pos = x.pos
        /\ Body(x).source = x.source /\ Body(x).entry = cp.history[x.entry]
    BY <2>1, <2>2 DEF AppendCommands
  <2> QED BY <1>2, <2>3 DEF Carries, x
<1>3. CASE x.intent = "Replace"
  BY <1>3 DEF Carries, Body, x
<1>4. CASE x.intent \notin {"Append", "Replace"}
  BY <1>4 DEF Carries, Body, x
<1> QED BY <1>2, <1>3, <1>4

\* The new batch is what comes next in the outbox.
LEMMA DispatchedLine ==
  ASSUME Sound(cp), Line(cp), Unsent # {}, DOMAIN eng.batch = {}, NEW k \in Nat,
         NEW q \in Seq(Carried), Lined(cp, k, q, eng.batch, eng.sent)
  PROVE  Lined(cp, k, q, [i \in Sendable |-> Body(cp.commands[i])],
               eng.sent \cup {Id(cp.commands[i]) : i \in Sendable})
<1> DEFINE n == k + Len(q)
           b == [i \in Sendable |-> Body(cp.commands[i])]
           sent == eng.sent \cup {Id(cp.commands[i]) : i \in Sendable}
<1>1. /\ n \in Nat /\ n <= Len(cp.commands) /\ SentUpTo(cp, eng.sent, n)
      /\ \A j \in DOMAIN q : Carries(cp, q[j], cp.commands[k + j])
  BY AllSubmitted
<1>2. PICK m \in Nat : n <= m /\ m <= Len(cp.commands) /\ Sendable = (n + 1)..m
  BY <1>1, SendableRange
<1>3. /\ Len(cp.commands) \in Nat /\ DOMAIN cp.commands = 1..Len(cp.commands)
      /\ \A i \in Sendable : i \in DOMAIN cp.commands /\ i \in Nat /\ i - 0 = i
  BY <1>1, <1>2, OutboxType DEF Sound
<1>4. DOMAIN b = (k + Len(q) + 0 + 1)..(m + 0)
  BY <1>2
<1>5. \A i \in DOMAIN b : Carries(cp, b[i], cp.commands[i - 0])
  BY <1>3, BodyCarries
<1>6. Linked(cp, k, 0, m, q, b)
  BY <1>1, <1>2, <1>4, <1>5 DEF Linked
<1>7. SentUpTo(cp, sent, m)
  <2> SUFFICES ASSUME NEW i \in DOMAIN cp.commands PROVE Id(cp.commands[i]) \in sent <=> i <= m
    BY DEF SentUpTo
  <2>1. Id(cp.commands[i]) \in eng.sent <=> i <= n
    BY <1>1 DEF SentUpTo
  <2>2. i \in Sendable <=> i > n /\ i <= m
    BY <1>1, <1>2, <1>3
  <2>3. Id(cp.commands[i]) \in {Id(cp.commands[j]) : j \in Sendable} <=> i \in Sendable
    BY <1>3 DEF Line, Distinguished
  <2> QED BY <1>1, <1>2, <1>3, <2>1, <2>2, <2>3
<1> HIDE DEF b, sent, n
<1>8. 0 \in Nat
  OBVIOUS
<1>9. Lined(cp, k, q, b, sent)
  BY <1>2, <1>6, <1>7, <1>8 DEF Lined
<1> QED BY <1>9 DEF b, sent

\* dispatch_commands
LEMMA DispatchFlow ==
  ASSUME Shape, Flow, Dispatch
  PROVE  Flow'
<1>1. /\ eng.pc = "dispatch" /\ cp' = cp /\ UNCHANGED exchangeVars /\ Sound(cp) /\ Line(cp)
      /\ eng.pc \notin Attaching \cup {"down", "batch"}
  BY DEF Dispatch, Shape, Flow, Attaching
<1>2. CASE eng.sending \/ ~cp.ready \/ Unsent = {}
  <2>1. eng' = [eng EXCEPT !.pc = "advance"]
    BY <1>2 DEF Dispatch
  <2> QED BY <1>1, <2>1, KeptFlow, SameKeeps
<1>3. CASE ~(eng.sending \/ ~cp.ready \/ Unsent = {})
  <2> DEFINE b == [i \in Sendable |-> Body(cp.commands[i])]
             sent == eng.sent \cup {Id(cp.commands[i]) : i \in Sendable}
  <2>1. /\ eng \in UpEngines /\ eng.sent \in SUBSET Ident /\ commands \in Seq(Carried)
        /\ (session.phase = "up" => session \in UpSessions)
    BY <1>1, LatestTypes
  <2>2. eng' = [eng EXCEPT !.pc = "advance", !.sending = TRUE, !.sent = sent, !.batch = b]
    BY <1>3 DEF Dispatch
  <2>3. /\ eng'.pc = "advance" /\ eng'.sent = sent /\ eng'.batch = b
        /\ eng'.sending = TRUE /\ eng'.stash = eng.stash
        /\ commands' = commands /\ work' = work /\ session' = session
    BY <1>1, <2>1, <2>2 DEF UpEngines, exchangeVars
  <2>4. eng'.pc \notin Attaching \cup {"down", "batch", "failing"}
    BY <2>3 DEF Attaching
  <2>5. Latest = cp /\ Latest' = cp /\ Flight' = Flight
    BY <1>1, <2>3, <2>4 DEF Latest, Flight
  <2>6. Conversing /\ SentIds(cp, eng.sent)
    BY <1>1, <2>5 DEF Flow
  <2>7. PICK k \in Nat :
          /\ Flowing(cp, Flight, k)
          /\ session.phase = "up" =>
                Meets(cp, Flight, k, session, commands, eng.batch, eng.sent)
    BY <2>5, <2>6 DEF Conversing, Meeting
  <2>8. DOMAIN eng.batch = {} /\ Unsent # {} /\ cp.ready
        /\ (\A i \in DOMAIN work : ~Reports(work[i])) /\ (eng.stash # None => ~Reports(eng.stash))
    BY <1>3, <2>6 DEF Conversing, Reporting, Reported
  <2>9. session.phase = "up" => Meets(cp, Flight, k, session, commands, b, sent)
    <3> SUFFICES ASSUME session.phase = "up" PROVE Meets(cp, Flight, k, session, commands, b, sent)
      OBVIOUS
    <3>1. Meets(cp, Flight, k, session, commands, eng.batch, eng.sent)
      BY <2>7
    <3>2. Lined(cp, k, commands, b, sent)
      BY <1>1, <2>1, <2>8, <3>1, DispatchedLine DEF Meets
    <3> HIDE DEF b, sent
    <3> QED BY <2>8, <3>1, <3>2 DEF Meets, Opening
  <2> HIDE DEF b
  <2>10. SentIds(cp, sent)
    <3>1. \A i \in Sendable : i \in DOMAIN cp.commands
      BY <1>1, <2>8, SendableTypes
    <3> QED BY <2>6, <3>1 DEF SentIds
  <2> HIDE DEF sent
  <2>11. Meeting'
    BY <2>3, <2>5, <2>7, <2>9, EngineMeeting
  <2>12. Numbering'
    BY <1>1, <2>3, <2>5, <2>6 DEF Conversing, Numbering
  <2>13. Reporting'
    BY <2>3, <2>8 DEF Reporting
  <2>14. Agreement'
    BY <2>3, <2>4, <2>6 DEF Conversing, Agreement
  <2>15. Conversing'
    BY <2>3, <2>6, <2>11, <2>12, <2>13, <2>14 DEF Conversing
  <2>16. Line(cp)' /\ SentIds(Latest, eng.sent)'
    BY <1>1, <2>3, <2>5, <2>10
  <2> QED BY <2>4, <2>15, <2>16 DEF Flow
<1> QED BY <1>2, <1>3

\* The next command of a batch goes into the queue.
LEMMA SubmittedLine ==
  ASSUME NEW c, Sound(c), NEW k \in Nat, NEW q \in Seq(Carried), NEW b \in Batches, b # <<>>,
         NEW sent, Lined(c, k, q, b, sent)
  PROVE  LET next == FirstOf(DOMAIN b)
         IN  /\ next \in DOMAIN b /\ b[next] \in Carried
             /\ Lined(c, k, Append(q, b[next]), [i \in DOMAIN b \ {next} |-> b[i]], sent)
<1> DEFINE next == FirstOf(DOMAIN b)
           x == b[next]
           longer == Append(q, x)
           rest == [i \in DOMAIN b \ {next} |-> b[i]]
<1>1. PICK d, m \in Nat : Linked(c, k, d, m, q, b) /\ SentUpTo(c, sent, m)
  BY DEF Lined
<1>2. next \in DOMAIN b /\ x \in Carried
  BY BatchTypes
<1>3. /\ k + Len(q) <= m /\ m <= Len(c.commands) /\ DOMAIN b = (k + Len(q) + d + 1)..(m + d)
      /\ \A j \in DOMAIN q : Carries(c, q[j], c.commands[k + j])
      /\ \A i \in DOMAIN b : Carries(c, b[i], c.commands[i - d])
      /\ Len(q) \in Nat /\ Len(c.commands) \in Nat
  BY <1>1, OutboxType DEF Linked, Sound
<1>4. next = k + Len(q) + d + 1
  <2>1. DOMAIN b \in SUBSET Nat
    BY <1>3
  <2> DEFINE least == k + Len(q) + d + 1
  <2>2. least \in DOMAIN b /\ least \in Nat
    BY <1>2, <1>3, <2>1
  <2>3. next <= least
    BY <2>1, <2>2, FirstIsLeast
  <2>4. next \in least..(m + d) /\ next \in Nat
    BY <1>2, <1>3, <2>1
  <2> HIDE DEF next, least
  <2>5. next = least
    BY <2>2, <2>3, <2>4
  <2> QED BY <2>5 DEF least
<1>5. /\ Len(longer) = Len(q) + 1 /\ DOMAIN longer = DOMAIN q \cup {Len(q) + 1}
      /\ longer[Len(q) + 1] = x /\ \A j \in DOMAIN q : longer[j] = q[j]
  BY <1>2, LongerQueue
<1>6. k + Len(longer) <= m
  BY <1>2, <1>3, <1>4, <1>5
<1>7. DOMAIN rest = (k + Len(longer) + d + 1)..(m + d)
  BY <1>3, <1>4, <1>5
<1>8. \A i \in DOMAIN rest : Carries(c, rest[i], c.commands[i - d])
  BY <1>3
<1>9. \A j \in DOMAIN longer : Carries(c, longer[j], c.commands[k + j])
  <2>1. Carries(c, x, c.commands[k + (Len(q) + 1)])
    <3>1. next - d = k + (Len(q) + 1)
      BY <1>3, <1>4
    <3> QED BY <1>2, <1>3, <3>1
  <2> QED BY <1>3, <1>5, <2>1
<1> HIDE DEF longer, rest, x, next
<1>10. Linked(c, k, d, m, longer, rest)
  BY <1>3, <1>6, <1>7, <1>8, <1>9 DEF Linked
<1>11. Lined(c, k, longer, rest, sent)
  BY <1>1, <1>10 DEF Lined
<1> QED BY <1>2, <1>11 DEF longer, rest, x, next

\* control.submit
LEMMA SubmitFlow ==
  ASSUME Shape, Flow, Submit
  PROVE  Flow'
<1> DEFINE next == FirstOf(DOMAIN eng.batch)
           rest == [i \in DOMAIN eng.batch \ {next} |-> eng.batch[i]]
<1>1. /\ eng.pc # "down" /\ eng.sending /\ eng.batch # <<>> /\ session.phase = "up"
      /\ commands' = Append(commands, eng.batch[next])
      /\ eng' = [eng EXCEPT !.batch = rest]
      /\ cp' = cp /\ work' = work /\ session' = session
  BY DEF Submit
<1>2. /\ eng \in UpEngines /\ eng.batch \in Batches /\ commands \in Seq(Carried) /\ Sound(Latest)
      /\ session \in UpSessions
  BY <1>1, LatestTypes
<1>3. /\ eng'.pc = eng.pc /\ eng'.sent = eng.sent /\ eng'.batch = rest /\ eng'.sending = eng.sending
      /\ eng'.stash = eng.stash /\ eng'.staged = eng.staged
  BY <1>1, <1>2 DEF UpEngines
<1>4. Latest' = Latest /\ Flight' = Flight
  BY <1>1, <1>3 DEF Latest, Flight
<1>5. eng.pc \notin Attaching \cup {"down"} /\ Conversing
  BY <1>1 DEF Flow, Preparing
<1>6. PICK k \in Nat : /\ Flowing(Latest, Flight, k)
                       /\ Meets(Latest, Flight, k, session, commands, eng.batch, eng.sent)
  BY <1>1, <1>5 DEF Conversing, Meeting
<1>7. /\ next \in DOMAIN eng.batch /\ Lined(Latest, k, commands', rest, eng.sent)
  BY <1>1, <1>2, <1>6, SubmittedLine DEF Meets
<1>8. Latest.ready
  BY <1>6, <1>7 DEF Meets, Opening
<1> HIDE DEF rest
<1>9. Meets(Latest, Flight, k, session, commands', rest, eng.sent)
  BY <1>6, <1>7, <1>8 DEF Meets, Opening
<1>10. Meeting'
  BY <1>1, <1>3, <1>4, <1>6, <1>9, EngineMeeting
<1>11. Numbering'
  BY <1>1, <1>3, <1>4, <1>5 DEF Conversing, Numbering
<1>12. Reporting'
  <2>1. /\ \A i \in DOMAIN work : Reports(work[i]) => work[i].result # "ok"
        /\ eng.stash # None /\ Reports(eng.stash) => eng.stash.result # "ok"
    BY <1>5, <1>7 DEF Conversing, Reporting, Reported
  <2> QED BY <1>1, <1>3, <1>5, <2>1 DEF Conversing, Reporting, Reported
<1>13. Agreement'
  BY <1>1, <1>3, <1>5 DEF Conversing, Agreement
<1>14. Conversing'
  BY <1>1, <1>5, <1>10, <1>11, <1>12, <1>13 DEF Conversing
<1>15. /\ Line(cp)' /\ (eng.pc = "batch" => Line(eng.staged.cp))'
       /\ SentIds(Latest, eng.sent)'
  BY <1>1, <1>3, <1>4 DEF Flow
<1> QED BY <1>3, <1>5, <1>14, <1>15 DEF Flow

\* Work::CommandSent
LEMMA SenderFlow ==
  ASSUME Shape, Flow, ReportSent
  PROVE  Flow'
<1>1. eng.pc # "down" /\ eng.sending /\ UNCHANGED <<cp, eng>> /\ Latest' = Latest
  BY DEF ReportSent, Latest
<1>2. eng.pc \notin Attaching \cup {"down"} /\ Conversing
  BY <1>1 DEF Flow, Preparing
<1>3. Conversing'
  BY <1>2, ReportSentFlow
<1>4. /\ Line(cp)' /\ (eng.pc = "batch" => Line(eng.staged.cp))'
      /\ SentIds(Latest, eng.sent)'
  BY <1>1 DEF Flow
<1> QED BY <1>1, <1>2, <1>3, <1>4 DEF Flow

-----------------------------------------------------------------------------
\* Receiving work

\* What is behind the first signal.
LEMMA TailOfParts ==
  ASSUME NEW F \in Seq(Signals), F # <<>>, NEW E \in Seq(Signals)
  PROVE  F \o E # <<>> /\ (F \o E)[1] = F[1] /\ Tail(F \o E) = Tail(F) \o E
<1> DEFINE G == F \o E
           R == Tail(F)
           H == R \o E
<1>1. /\ 1 \in DOMAIN F /\ R \in Seq(Signals) /\ Len(R) = Len(F) - 1 /\ Len(F) \in Nat
      /\ \A p \in 1..(Len(F) - 1) : R[p] = F[p + 1]
  OBVIOUS
<1>2. /\ G \in Seq(Signals) /\ Len(G) = Len(F) + Len(E) /\ Len(E) \in Nat
      /\ \A p \in DOMAIN F : G[p] = F[p]
      /\ \A x \in DOMAIN E : G[Len(F) + x] = E[x]
  BY Parts
<1> HIDE DEF R
<1>3. /\ H \in Seq(Signals) /\ Len(H) = Len(R) + Len(E)
      /\ \A p \in DOMAIN R : H[p] = R[p]
      /\ \A x \in DOMAIN E : H[Len(R) + x] = E[x]
  <2>1. R \in Seq(Signals)
    BY <1>1
  <2> QED BY <2>1, Parts
<1> HIDE DEF G, H
<1>4. G # <<>> /\ G[1] = F[1] /\ Tail(G) \in Seq(Signals) /\ Len(Tail(G)) = Len(H)
      /\ \A p \in 1..Len(H) : Tail(G)[p] = G[p + 1]
  <2>1. G \in Seq(Signals) /\ Len(G) = Len(H) + 1 /\ Len(H) \in Nat /\ G[1] = F[1]
    BY <1>1, <1>2, <1>3
  <2>2. G # <<>>
    BY <2>1
  <2> QED BY <2>1, <2>2
<1>5. \A p \in 1..Len(H) : G[p + 1] = H[p]
  <2> SUFFICES ASSUME NEW p \in 1..Len(H) PROVE G[p + 1] = H[p]
    OBVIOUS
  <2>1. CASE p <= Len(R)
    <3>1. p \in DOMAIN R /\ p + 1 \in DOMAIN F /\ p \in 1..(Len(F) - 1)
      BY <1>1, <2>1
    <3> QED BY <1>1, <1>2, <1>3, <3>1
  <2>2. CASE p > Len(R)
    <3> DEFINE x == p - Len(R)
    <3>1. x \in DOMAIN E /\ Len(R) + x = p /\ Len(F) + x = p + 1
      BY <1>1, <1>2, <1>3, <2>2
    <3> HIDE DEF x
    <3> QED BY <1>2, <1>3, <3>1
  <2> QED BY <1>1, <2>1, <2>2
<1>6. Tail(G) = H
  BY <1>3, <1>4, <1>5
<1> QED BY <1>4, <1>6 DEF G, H, R

\* The first item of the work queue is taken.
LEMMA Dequeued ==
  ASSUME Shape, work # <<>>, work' = Tail(work), session' = session
  PROVE  /\ Flight \in Seq(Signals) /\ Flight # <<>> /\ Flight[1] = Told(Head(work))
         /\ Flight' = Tail(Flight) /\ Tail(Flight) \in Seq(Signals)
         /\ Head(work) \in Items /\ Head(work) = work[1] /\ 1 \in DOMAIN work
         /\ \A i \in DOMAIN work' : /\ i \in Nat /\ i + 1 \in DOMAIN work
                                    /\ work'[i] = work[i + 1] /\ 1 < i + 1 /\ 1 # i + 1
         /\ \A i, j \in DOMAIN work' : i < j <=> i + 1 < j + 1
<1>1. work \in Seq(Items)
  BY DEF Shape
<1>2. /\ Arrived(work) \in Seq(Signals) /\ Arrived(work) # <<>>
      /\ Arrived(work)[1] = Told(Head(work)) /\ Arrived(Tail(work)) = Tail(Arrived(work))
  BY <1>1, ArrivedTypes
<1>3. Emissions(session) \in Seq(Signals) /\ Flight \in Seq(Signals)
  BY FlightTypes
<1>4. /\ Flight # <<>> /\ Flight[1] = Arrived(work)[1]
      /\ Tail(Flight) = Tail(Arrived(work)) \o Emissions(session)
  BY <1>2, <1>3, TailOfParts DEF Flight
<1>5. Flight' = Arrived(work') \o Emissions(session')
  BY DEF Flight
<1>6. Flight' = Tail(Flight)
  BY <1>2, <1>4, <1>5
<1>7. Tail(Flight) \in Seq(Signals)
  BY <1>3, <1>4
<1>8. /\ Head(work) \in Items /\ Head(work) = work[1] /\ 1 \in DOMAIN work
      /\ \A i \in DOMAIN work' : /\ i \in Nat /\ i + 1 \in DOMAIN work
                                 /\ work'[i] = work[i + 1] /\ 1 < i + 1 /\ 1 # i + 1
  BY <1>1
<1> QED BY <1>2, <1>3, <1>4, <1>6, <1>7, <1>8, SMTT(30)

\* What is no event is taken from the queue.
LEMMA NothingTaken ==
  ASSUME Shape, Conversing, eng.pc # "down", Line(Latest), work # <<>>,
         Head(work).type # "Event", work' = Tail(work), UNCHANGED <<session, commands>>,
         Latest' = Latest, eng'.batch = eng.batch, eng'.sent = eng.sent
  PROVE  Meeting'
<1>1. /\ Flight \in Seq(Signals) /\ Flight # <<>> /\ Flight' = Tail(Flight) /\ Flight[1] = NoEvent
  BY Dequeued, ToldTypes
<1>2. PICK k \in Nat :
        /\ Flowing(Latest, Flight, k)
        /\ session.phase = "up" =>
              Meets(Latest, Flight, k, session, commands, eng.batch, eng.sent)
  BY DEF Conversing, Meeting
<1>3. Sound(Latest)
  BY LatestTypes
<1> DEFINE c == Latest
<1> HIDE DEF c
<1>4. Sound(c) /\ Line(c) /\ Flowing(c, Flight, k)
  BY <1>2, <1>3 DEF c
<1>5. Takes(c, c, Flight[1])
  <2>1. c.ready \in BOOLEAN /\ c.started \in BOOLEAN /\ c.closure \in BOOLEAN
    BY <1>4 DEF Sound, Checkpoints
  <2> QED BY <1>1, <1>4, <2>1 DEF Takes, NoEvent, Line
<1>6. Flowing(c, Tail(Flight), k)
  <2>1. Flight[1].kind # "Acknowledged"
    BY <1>1 DEF NoEvent
  <2> QED BY <1>1, <1>4, <1>5, <2>1, TakenFlowing
<1>7. session.phase = "up" =>
         Meets(c, Tail(Flight), k, session, commands, eng.batch, eng.sent)
  BY <1>1, <1>2, <1>5, TakenMeets DEF c
<1> QED BY <1>1, <1>6, <1>7, EngineMeeting DEF c

\* The next signal is what the first item of the work queue says.
LEMMA NextSignal ==
  ASSUME Shape, work # <<>>
  PROVE  /\ Flight \in Seq(Signals) /\ Flight # <<>> /\ Flight[1] = Told(Head(work))
         /\ Head(work) \in Items /\ Head(work) = work[1] /\ 1 \in DOMAIN work
<1>1. work \in Seq(Items)
  BY DEF Shape
<1>2. /\ Arrived(work) \in Seq(Signals) /\ Arrived(work) # <<>>
      /\ Arrived(work)[1] = Told(Head(work))
  BY <1>1, ArrivedTypes
<1>3. Emissions(session) \in Seq(Signals) /\ Flight \in Seq(Signals)
  BY FlightTypes
<1>4. Flight # <<>> /\ Flight[1] = Arrived(work)[1]
  BY <1>2, <1>3, TailOfParts DEF Flight
<1> QED BY <1>1, <1>2, <1>3, <1>4

\* The next event is new to the engine, and the one it expects.
LEMMA CollectsNext ==
  ASSUME Shape, Flow, Collect
  PROVE  LET item == Head(work)
         IN  /\ eng.pc \in {"idle", "batch"} /\ Conversing /\ Line(Latest) /\ Staged.cp = Latest
             /\ Staged.next # "failing" /\ work # <<>>
             /\ item.type = "Event" /\ item.sequence \in Nat /\ item.body \in Events
             /\ Flight[1] = item.body /\ Fresh(cp, item) /\ Expected(Staged.cp, item.body)
<1> DEFINE item == Head(work)
<1>1. eng.pc \in {"idle", "batch"} /\ work # <<>> /\ item.type = "Event" /\ Collecting
  BY DEF Collect, Collecting, NextIsEvent
<1>2. Conversing /\ Line(Latest)
  BY <1>1 DEF Flow, Attaching, Latest
<1>3. Staged.cp = Latest
  BY <1>1 DEF Staged, Latest
<1>4. Staged.next # "failing"
  BY <1>1, <1>2 DEF Staged, Conversing, Agreement
<1>5. /\ Flight \in Seq(Signals) /\ Flight # <<>> /\ Flight[1] = Told(item)
      /\ item \in Items /\ item = work[1] /\ 1 \in DOMAIN work
  BY <1>1, NextSignal
<1>6. item.sequence \in Nat /\ item.body \in Events /\ Flight[1] = item.body
  BY <1>1, <1>5, ItemTypes, ToldTypes
<1>7. Fresh(cp, item)
  <2>1. Before(cp.cursor, work[1].sequence)
    BY <1>1, <1>2, <1>5 DEF Conversing, Numbering
  <2>2. cp.cursor \in Cursors
    BY LatestTypes
  <2> HIDE DEF item
  <2> QED BY <1>5, <1>6, <2>1, <2>2 DEF Fresh, Before, Cursors
<1>8. Expected(Latest, item.body)
  <2>1. PICK k \in Nat : Flowing(Latest, Flight, k)
    BY <1>2 DEF Conversing, Meeting
  <2>2. Sound(Latest)
    BY LatestTypes
  <2>3. Expected(Latest, Flight[1])
    BY <1>2, <1>5, <1>6, <2>1, <2>2, NextIsExpected
  <2> QED BY <1>6, <2>3
<1> QED BY <1>1, <1>2, <1>3, <1>4, <1>6, <1>7, <1>8

\* What the engine stages of an event, and what is still on its way.
LEMMA StagedFlow ==
  ASSUME NEW c, Sound(c), Line(c), NEW F \in Seq(Signals), F # <<>>, NEW k \in Nat,
         Flowing(c, F, k), F[1] \in Events, NEW n \in Nat, NEW sent \in SUBSET Ident,
         SentIds(c, sent)
  PROVE  LET e == F[1]
             d == Recorded(Handled([c EXCEPT !.cursor = n], e), e)
             left == IF e.kind = "Acknowledged" THEN sent \ {e.id} ELSE sent
         IN  /\ Line(d) /\ d.cursor = n /\ SentIds(d, left)
             /\ \E j \in Nat : /\ Flowing(d, Tail(F), j)
                               /\ Met(c, F, k, sent, d, Tail(F), j, left)
<1> DEFINE e == F[1]
           a == Handled([c EXCEPT !.cursor = n], e)
           d == Recorded(a, e)
           left == IF e.kind = "Acknowledged" THEN sent \ {e.id} ELSE sent
           G == Tail(F)
<1>1. Sound(a) /\ Line(a) /\ a.cursor = n /\ SentIds(a, left)
      /\ \E j \in Nat : Flowing(a, G, j) /\ Met(c, F, k, sent, a, G, j, left)
  BY HandledFlow
<1>2. left \in SUBSET Ident /\ e \in Events
  OBVIOUS
<1> HIDE DEF e, a, left, G
<1>3. PICK j \in Nat : Flowing(a, G, j) /\ Met(c, F, k, sent, a, G, j, left)
  BY <1>1
<1>4. Sound(d) /\ d.cursor = a.cursor /\ Keeps(a, d)
  BY <1>1, <1>2, RecordedFlow
<1> HIDE DEF d
<1>5. /\ Line(d) /\ SentIds(d, left) /\ Flowing(d, G, j)
      /\ Met(a, G, j, left, d, G, j, left)
  BY <1>1, <1>2, <1>3, <1>4, Zenon DEF Keeps
<1>6. Met(c, F, k, sent, d, G, j, left)
  BY <1>3, <1>5 DEF Met
<1>7. \E i \in Nat : Flowing(d, G, i) /\ Met(c, F, k, sent, d, G, i, left)
  BY <1>5, <1>6
<1> QED BY <1>1, <1>4, <1>5, <1>7 DEF d, a, e, left, G

\* collect
LEMMA CollectFlow ==
  ASSUME Shape, Flow, Collect
  PROVE  Flow'
<1> DEFINE item == Head(work)
           c == Latest
           F == Flight
           e == item.body
           d == Recorded(Handled([c EXCEPT !.cursor = item.sequence], e), e)
           left == IF e.kind = "Acknowledged" THEN eng.sent \ {e.id} ELSE eng.sent
           staged == StagedWith(item)
<1>1. /\ eng.pc \in {"idle", "batch"} /\ Conversing /\ Line(c) /\ Staged.cp = c
      /\ Staged.next # "failing" /\ work # <<>>
      /\ item.type = "Event" /\ item.sequence \in Nat /\ e \in Events
      /\ F[1] = e /\ Fresh(cp, item) /\ Expected(Staged.cp, e)
  BY CollectsNext
<1>2. /\ eng' = [eng EXCEPT !.pc = "batch", !.staged = staged, !.sent = left]
      /\ work' = Tail(work) /\ cp' = cp /\ commands' = commands /\ session' = session
  BY <1>1 DEF Collect
<1>3. staged.cp = d /\ staged.next \in {"suspending", Staged.next}
  BY <1>1 DEF StagedWith
<1>4. /\ eng \in UpEngines /\ eng.sent \in SUBSET Ident /\ eng.batch \in Batches
      /\ commands \in Seq(Carried) /\ (session.phase = "up" => session \in UpSessions)
      /\ Sound(c) /\ cp.cursor \in Cursors
  BY <1>1, LatestTypes
<1> HIDE DEF staged, left
<1>5. /\ eng'.pc = "batch" /\ eng'.staged = staged /\ eng'.sent = left
      /\ eng'.batch = eng.batch /\ eng'.sending = eng.sending /\ eng'.stash = eng.stash
  BY <1>2, <1>4 DEF UpEngines
<1>6. /\ F \in Seq(Signals) /\ F # <<>> /\ Flight' = Tail(F)
      /\ item = work[1] /\ 1 \in DOMAIN work
      /\ \A i \in DOMAIN work' : /\ i \in Nat /\ i + 1 \in DOMAIN work
                                 /\ work'[i] = work[i + 1] /\ 1 < i + 1 /\ 1 # i + 1
      /\ \A i, j \in DOMAIN work' : i < j <=> i + 1 < j + 1
  BY <1>1, <1>2, Dequeued
<1>7. Latest' = d
  BY <1>3, <1>5 DEF Latest
<1>8. SentIds(c, eng.sent)
  BY <1>1 DEF Flow
<1>9. PICK k \in Nat :
        /\ Flowing(c, F, k)
        /\ session.phase = "up" => Meets(c, F, k, session, commands, eng.batch, eng.sent)
  BY <1>1 DEF Conversing, Meeting
<1>10. /\ Line(d) /\ d.cursor = item.sequence /\ SentIds(d, left)
       /\ \E j \in Nat : /\ Flowing(d, Tail(F), j)
                         /\ Met(c, F, k, eng.sent, d, Tail(F), j, left)
  <2>1. Sound(c) /\ Line(c) /\ Flowing(c, F, k) /\ SentIds(c, eng.sent)
    BY <1>1, <1>4, <1>8, <1>9
  <2>2. F \in Seq(Signals) /\ F # <<>> /\ F[1] \in Events /\ F[1] = e
    BY <1>1, <1>6
  <2>3. item.sequence \in Nat /\ eng.sent \in SUBSET Ident
    BY <1>1, <1>4
  <2> DEFINE n == item.sequence
             x == F[1]
             b == Recorded(Handled([c EXCEPT !.cursor = n], x), x)
             rest == IF x.kind = "Acknowledged" THEN eng.sent \ {x.id} ELSE eng.sent
  <2>4. n \in Nat
    BY <2>3
  <2> HIDE DEF c, F, n
  <2>5. /\ Line(b) /\ b.cursor = n /\ SentIds(b, rest)
        /\ \E j \in Nat : /\ Flowing(b, Tail(F), j)
                          /\ Met(c, F, k, eng.sent, b, Tail(F), j, rest)
    BY <2>1, <2>2, <2>3, <2>4, StagedFlow
  <2>6. b = d /\ rest = left
    BY <2>2 DEF n, left
  <2> HIDE DEF b, rest, d, left
  <2> QED BY <2>5, <2>6 DEF n
<1> HIDE DEF d
<1>11. PICK j \in Nat : /\ Flowing(d, Tail(F), j)
                        /\ Met(c, F, k, eng.sent, d, Tail(F), j, left)
  BY <1>10
<1>12. session.phase = "up" =>
          Meets(d, Tail(F), j, session, commands, eng.batch, left)
  BY <1>4, <1>9, <1>11 DEF Met
<1> HIDE DEF F, c
<1>13. Meeting'
  BY <1>2, <1>5, <1>6, <1>7, <1>11, <1>12, EngineMeeting
<1>14. Numbering'
  <2>1. \A i, j0 \in DOMAIN work' :
           i < j0 /\ work'[i].type = "Event" /\ work'[j0].type = "Event"
             => work'[i].sequence < work'[j0].sequence
    BY <1>1, <1>6 DEF Conversing, Numbering
  <2>2. \A i \in DOMAIN work' : work'[i].type = "Event" =>
          /\ session.phase = "up" => work'[i].sequence < session.sequence
          /\ Before(cp.cursor, work'[i].sequence)
          /\ Before(d.cursor, work'[i].sequence)
    BY <1>1, <1>6, <1>10 DEF Conversing, Numbering, Before
  <2>3. session.phase = "up" =>
          Before(cp.cursor, session.sequence) /\ Before(d.cursor, session.sequence)
    BY <1>1, <1>6, <1>10 DEF Conversing, Numbering, Before
  <2> QED BY <1>2, <1>7, <2>1, <2>2, <2>3 DEF Numbering
<1>15. Reporting'
  BY <1>1, <1>5, <1>6 DEF Conversing, Reporting, Reported
<1>16. Agreement'
  <2>1. staged.next # "failing"
    BY <1>1, <1>3
  <2>2. eng'.stash # None => eng'.stash.type # "Event" /\ Agreeing(eng'.stash)
    BY <1>1, <1>5 DEF Conversing, Agreement
  <2>3. \A i \in DOMAIN work' : Agreeing(work'[i])
    BY <1>1, <1>6 DEF Conversing, Agreement
  <2>4. session'.phase = "ended" /\ session'.result # None => session'.result # "protocol"
    BY <1>1, <1>2 DEF Conversing, Agreement
  <2> QED BY <1>5, <2>1, <2>2, <2>3, <2>4 DEF Agreement
<1>17. Conversing'
  BY <1>1, <1>2, <1>13, <1>14, <1>15, <1>16 DEF Conversing
<1>18. Line(cp)' /\ Line(eng.staged.cp)' /\ SentIds(Latest, eng.sent)'
  <2>1. Line(cp)
    BY DEF Flow
  <2> QED BY <1>2, <1>3, <1>5, <1>7, <1>10, <2>1
<1> QED BY <1>5, <1>17, <1>18 DEF Flow, Attaching

\* The batch is committed, and what ended it waits.
LEMMA CommitBatchFlow ==
  ASSUME Shape, Flow, CommitBatch
  PROVE  Flow'
<1> DEFINE c == eng.staged.cp
           stashes == ~BatchClosed /\ work # <<>>
<1>1. eng.pc = "batch" /\ Conversing /\ Line(c) /\ Latest = c /\ SentIds(c, eng.sent)
  BY DEF CommitBatch, Flow, Attaching, Latest
<1>2. CASE eng.staged.cp.state # "Running"
  BY <1>1, <1>2, LeaveFlow DEF CommitBatch
<1>3. CASE ~(eng.staged.cp.state # "Running")
  <2>1. /\ cp' = c
        /\ eng' = [eng EXCEPT !.pc = eng.staged.next, !.staged = None,
                              !.stash = IF stashes THEN Head(work) ELSE None]
        /\ work' = IF stashes THEN Tail(work) ELSE work
        /\ commands' = commands /\ session' = session
    BY <1>3 DEF CommitBatch
  <2>2. /\ eng \in UpEngines /\ eng.staged \in Stagings /\ Line(Latest)
    BY <1>1, LatestTypes DEF Shape, EngineShape, PlaceShape, Down
  <2>3. /\ eng'.pc = eng.staged.next /\ eng'.stash = IF stashes THEN Head(work) ELSE None
        /\ eng'.sent = eng.sent /\ eng'.batch = eng.batch /\ eng'.sending = eng.sending
    BY <2>1, <2>2 DEF UpEngines
  <2>4. eng'.pc \in {"dispatch", "suspending"}
    BY <1>1, <2>2, <2>3 DEF Conversing, Agreement, Stagings
  <2>5. Latest' = c
    BY <2>1, <2>4 DEF Latest
  <2>6. stashes => work # <<>> /\ Head(work).type # "Event" /\ work' = Tail(work)
    BY <2>1 DEF CommitBatch, NextIsEvent
  <2> HIDE DEF c, stashes
  <2>7. Meeting'
    <3>1. CASE stashes
      BY <1>1, <2>1, <2>2, <2>3, <2>5, <2>6, <3>1, NothingTaken
    <3>2. CASE ~stashes
      <4>1. Flight' = Flight
        BY <2>1, <3>2 DEF Flight
      <4> QED BY <1>1, <2>1, <2>3, <2>5, <4>1, EngineMeeting DEF Conversing, Meeting
    <3> QED BY <3>1, <3>2
  <2>8. Numbering' /\ Reporting' /\ Agreement'
    <3>1. CASE stashes
      <4>1. /\ Head(work) = work[1] /\ 1 \in DOMAIN work
            /\ \A i \in DOMAIN work' : /\ i \in Nat /\ i + 1 \in DOMAIN work
                                       /\ work'[i] = work[i + 1] /\ 1 < i + 1 /\ 1 # i + 1
            /\ \A i, j \in DOMAIN work' : i < j <=> i + 1 < j + 1
        BY <2>1, <2>6, <3>1, Dequeued
      <4>2. Numbering'
        <5>1. \A i, j \in DOMAIN work' :
                 i < j /\ work'[i].type = "Event" /\ work'[j].type = "Event"
                   => work'[i].sequence < work'[j].sequence
          BY <1>1, <4>1 DEF Conversing, Numbering
        <5>2. \A i \in DOMAIN work' : work'[i].type = "Event" =>
                /\ session.phase = "up" => work'[i].sequence < session.sequence
                /\ Before(c.cursor, work'[i].sequence)
          BY <1>1, <4>1 DEF Conversing, Numbering
        <5> QED BY <1>1, <2>1, <2>5, <5>1, <5>2 DEF Conversing, Numbering
      <4>3. Reporting'
        BY <1>1, <2>3, <3>1, <4>1 DEF Conversing, Reporting, Reported
      <4>4. Agreement'
        <5>1. eng'.stash.type # "Event" /\ Agreeing(eng'.stash)
          BY <1>1, <2>3, <2>6, <3>1, <4>1 DEF Conversing, Agreement
        <5>2. \A i \in DOMAIN work' : Agreeing(work'[i])
          BY <1>1, <4>1 DEF Conversing, Agreement
        <5> QED BY <1>1, <2>1, <2>4, <5>1, <5>2 DEF Conversing, Agreement
      <4> QED BY <4>2, <4>3, <4>4
    <3>2. CASE ~stashes
      <4>1. work' = work /\ eng'.stash = None
        BY <2>1, <2>3, <3>2
      <4>2. Numbering'
        BY <1>1, <2>1, <2>5, <4>1 DEF Conversing, Numbering
      <4>3. Reporting'
        BY <1>1, <2>3, <4>1 DEF Conversing, Reporting, Reported
      <4>4. Agreement'
        BY <1>1, <2>1, <2>4, <4>1 DEF Conversing, Agreement
      <4> QED BY <4>2, <4>3, <4>4
    <3> QED BY <3>1, <3>2
  <2>9. Conversing'
    BY <1>1, <2>1, <2>7, <2>8 DEF Conversing
  <2>10. Line(cp)' /\ SentIds(Latest, eng.sent)'
    BY <1>1, <2>1, <2>3, <2>5
  <2> QED BY <2>4, <2>9, <2>10 DEF Flow, Attaching
<1> QED BY <1>2, <1>3

\* handle: an item that is no event is done with.
LEMMA HandleFlow ==
  ASSUME Shape, Flow, NEW type \in {"CommandSent", "Ended"}, Receives(type),
         NEW e \in {eng, [eng EXCEPT !.sending = FALSE]}, Handle(e),
         e # eng => type = "CommandSent" /\ Received = "ok"
  PROVE  Flow'
<1> DEFINE stashed == eng.stash # None
           item == IF stashed THEN eng.stash ELSE Head(work)
<1>1. eng.pc = "idle" /\ Conversing /\ Line(cp) /\ Latest = cp /\ SentIds(cp, eng.sent)
  BY DEF Receives, Flow, Attaching, Latest
<1>2. item.type = type /\ Received = item.result /\ (~stashed => work # <<>>)
  BY DEF Receives, Received
<1>3. /\ cp' = cp /\ work' = (IF stashed THEN work ELSE Tail(work))
      /\ commands' = commands /\ session' = session
      /\ eng' = [e EXCEPT !.pc = "dispatch", !.stash = None]
  BY DEF Handle
<1>4. eng \in UpEngines
  BY <1>1, LatestTypes
<1>5. /\ eng'.pc = "dispatch" /\ eng'.stash = None /\ eng'.sent = eng.sent
      /\ eng'.batch = eng.batch
      /\ eng'.sending = eng.sending \/ (~eng'.sending /\ type = "CommandSent" /\ Received = "ok")
  BY <1>3, <1>4 DEF UpEngines
<1>6. Latest' = cp
  BY <1>3, <1>5 DEF Latest
<1>7. /\ ~stashed => item = work[1] /\ 1 \in DOMAIN work
      /\ \A i \in DOMAIN work' :
           \E j \in DOMAIN work : work'[i] = work[j] /\ (~stashed => j # 1)
      /\ \A i, j \in DOMAIN work' : i < j => \E x, y \in DOMAIN work :
           x < y /\ work'[i] = work[x] /\ work'[j] = work[y]
  <2>1. CASE stashed
    <3>1. work' = work
      BY <1>3, <2>1
    <3> QED BY <2>1, <3>1
  <2>2. CASE ~stashed
    <3>1. /\ Head(work) = work[1] /\ 1 \in DOMAIN work
          /\ \A i \in DOMAIN work' : /\ i \in Nat /\ i + 1 \in DOMAIN work
                                     /\ work'[i] = work[i + 1] /\ 1 < i + 1 /\ 1 # i + 1
          /\ \A i, j \in DOMAIN work' : i < j <=> i + 1 < j + 1
      BY <1>2, <1>3, <2>2, Dequeued
    <3> QED BY <2>2, <3>1
  <2> QED BY <2>1, <2>2
<1>8. Meeting'
  <2>1. CASE stashed
    <3>1. Flight' = Flight
      BY <1>3, <2>1 DEF Flight
    <3> QED BY <1>1, <1>3, <1>5, <1>6, <3>1, EngineMeeting DEF Conversing, Meeting
  <2>2. CASE ~stashed
    BY <1>1, <1>2, <1>3, <1>5, <1>6, <2>2, NothingTaken
  <2> QED BY <2>1, <2>2
<1> HIDE DEF stashed, item
<1>9. Numbering'
  <2>1. \A i \in DOMAIN work' : work'[i].type = "Event" =>
          /\ session.phase = "up" => work'[i].sequence < session.sequence
          /\ Before(cp.cursor, work'[i].sequence)
    BY <1>1, <1>7 DEF Conversing, Numbering
  <2>2. \A i, j \in DOMAIN work' :
           i < j /\ work'[i].type = "Event" /\ work'[j].type = "Event"
             => work'[i].sequence < work'[j].sequence
    BY <1>1, <1>7 DEF Conversing, Numbering
  <2> QED BY <1>1, <1>3, <1>6, <2>1, <2>2 DEF Conversing, Numbering
<1>10. Reporting'
  <2>1. Reports(item) => Reported(item) /\ \A i \in DOMAIN work' : ~Reports(work'[i])
    BY <1>1, <1>7 DEF Conversing, Reporting, item, stashed
  <2>2. \A i \in DOMAIN work' : Reports(work'[i]) => Reported(work'[i])
    BY <1>1, <1>7 DEF Conversing, Reporting
  <2>3. \A i, j \in DOMAIN work' : Reports(work'[i]) /\ Reports(work'[j]) => i = j
    <3>1. CASE stashed
      <4>1. work' = work
        BY <1>3, <3>1
      <4> QED BY <1>1, <4>1 DEF Conversing, Reporting
    <3>2. CASE ~stashed
      <4>1. \A i \in DOMAIN work' : /\ i \in Nat /\ i + 1 \in DOMAIN work
                                    /\ work'[i] = work[i + 1]
        BY <1>2, <1>3, <3>2, Dequeued
      <4> QED BY <1>1, <4>1 DEF Conversing, Reporting
    <3> QED BY <3>1, <3>2
  <2>4. CASE eng'.sending = eng.sending
    BY <1>1, <1>5, <2>2, <2>3, <2>4 DEF Conversing, Reporting, Reported
  <2>5. CASE ~eng'.sending /\ type = "CommandSent" /\ Received = "ok"
    <3>1. Reported(item) /\ DOMAIN eng.batch = {} /\ \A i \in DOMAIN work' : ~Reports(work'[i])
      BY <1>2, <2>1, <2>5 DEF Reports, Reported
    <3> QED BY <1>5, <3>1 DEF Reporting
  <2> QED BY <1>5, <2>4, <2>5
<1>11. Agreement'
  <2>1. \A i \in DOMAIN work' : Agreeing(work'[i])
    BY <1>1, <1>7 DEF Conversing, Agreement
  <2> QED BY <1>1, <1>3, <1>5, <2>1 DEF Conversing, Agreement
<1>12. Conversing'
  BY <1>1, <1>3, <1>8, <1>9, <1>10, <1>11 DEF Conversing
<1>13. Line(cp)' /\ SentIds(Latest, eng.sent)'
  BY <1>1, <1>3, <1>5, <1>6
<1> QED BY <1>5, <1>12, <1>13 DEF Flow, Attaching

\* receive_work: the run never fails for the protocol.
LEMMA WorkFlow ==
  ASSUME Shape, Flow, WorkStep
  PROVE  Flow'
<1>1. CASE Collect
  BY <1>1, CollectFlow
<1>2. CASE CommitBatch
  BY <1>2, CommitBatchFlow
<1>3. CASE SuspendAfterBatch
  <2>1. eng.pc # "failing"
    BY <1>3 DEF SuspendAfterBatch, Flow, Attaching, Conversing, Agreement
  <2> QED BY <1>3, <2>1, StoppedFlow DEF SuspendAfterBatch
<1>4. CASE CommandSent
  <2>1. CASE Received = "ok"
    BY <1>4, <2>1, HandleFlow DEF CommandSent
  <2>2. CASE Received # "ok"
    BY <1>4, <2>2, StoppedFlow DEF CommandSent
  <2> QED BY <2>1, <2>2
<1>5. CASE ModelEnded
  <2>1. Receives("Ended") /\ eng.pc = "idle" /\ Conversing
    BY <1>5 DEF ModelEnded, Receives, Flow, Attaching
  <2>2. Received # "protocol"
    <3>1. CASE eng.stash # None
      BY <2>1, <3>1 DEF Receives, Received, Conversing, Agreement, Agreeing
    <3>2. CASE eng.stash = None
      <4>1. work # <<>> /\ Head(work).type = "Ended" /\ Received = Head(work).result
        BY <2>1, <3>2 DEF Receives, Received
      <4>2. Head(work) = work[1] /\ 1 \in DOMAIN work
        BY <4>1, NextSignal
      <4> QED BY <2>1, <4>1, <4>2 DEF Conversing, Agreement, Agreeing
    <3> QED BY <3>1, <3>2
  <2>3. CASE Received = "ok" /\ cp.closure
    BY <1>5, <2>1, <2>3, HandleFlow DEF ModelEnded
  <2>4. CASE ~(Received = "ok" /\ cp.closure) /\ Received \in {"ok", "uncertain"}
    BY <1>5, <2>4, StoppedFlow DEF ModelEnded
  <2>5. CASE ~(Received = "ok" /\ cp.closure) /\ Received \notin {"ok", "uncertain"}
    <3>1. Received \in Results
      <4>1. CASE eng.stash # None
        <5>1. eng.stash \in Items /\ eng.stash.type = "Ended"
          BY <2>1, <4>1, LatestTypes, EngineTypes DEF Receives
        <5> QED BY <4>1, <5>1, ItemTypes DEF Received
      <4>2. CASE eng.stash = None
        <5>1. work # <<>> /\ Head(work).type = "Ended" /\ Received = Head(work).result
          BY <2>1, <4>2 DEF Receives, Received
        <5> QED BY <5>1, NextSignal, ItemTypes
      <4> QED BY <4>1, <4>2
    <3>2. Received = "error"
      BY <2>2, <2>5, <3>1 DEF Results
    <3> QED BY <1>5, <2>5, <3>2, StoppedFlow DEF ModelEnded
  <2> QED BY <2>3, <2>4, <2>5
<1> QED BY <1>1, <1>2, <1>3, <1>4, <1>5 DEF WorkStep

-----------------------------------------------------------------------------
\* The host

\* A control adds one command to the outbox.
LEMMA ControlFlow ==
  ASSUME Shape, Flow, Serving, NEW command, Sound(cp'), Extends(cp, cp', command),
         SameCall(cp, cp'), ~Exclusive(command), cp'.cursor = cp.cursor, eng' = Served,
         UNCHANGED exchangeVars
  PROVE  Flow'
<1>1. Sound(cp) /\ Line(cp)
  BY DEF Shape, Flow
<1>2. CASE eng.pc = "idle"
  <2>1. eng' = [eng EXCEPT !.pc = "dispatch"]
    BY <1>2 DEF Served
  <2>2. Keeps(cp, cp')
    BY <1>1, BesideKeeps
  <2>3. eng.pc \notin Attaching \cup {"down", "batch"}
    BY <1>2 DEF Attaching
  <2> QED BY <2>1, <2>2, <2>3, KeptFlow
<1>3. CASE eng.pc \in {"catalog", "opening"}
  <2>1. eng \in UpEngines /\ (eng.pc = "opening" => eng.open \in UpSessions)
    BY <1>3, LatestTypes DEF Shape, EngineShape, PlaceShape, Down
  <2>2. eng' = eng
    <3>1. eng' = [eng EXCEPT !.pc = eng.pc]
      BY <1>3 DEF Served
    <3> QED BY <2>1, <3>1 DEF UpEngines
  <2>3. Latest = cp /\ Latest' = cp'
    BY <1>3, <2>2 DEF Latest
  <2>4. Preparing /\ SentIds(cp, eng.sent)
    BY <1>3, <2>3 DEF Flow, Attaching
  <2>5. /\ commands' = commands /\ work' = work /\ session' = session
    BY DEF exchangeVars
  <2>6. Line(cp')
    BY <1>1, BesideLine
  <2>7. SentIds(cp', eng.sent)
    <3>1. eng.sent \in SUBSET Ident /\ cp.gen <= cp'.gen
      BY <1>1, <2>1 DEF UpEngines, SameCall, Sound, Checkpoints
    <3> QED BY <1>1, <2>4, <3>1, ExtendedSentIds
  <2>8. (\A i \in DOMAIN cp.commands : cp.commands[i].intent # "Generate")
          => \A i \in DOMAIN cp'.commands : cp'.commands[i].intent # "Generate"
    <3>1. command.intent # "Generate"
      BY DEF Exclusive
    <3> QED BY <1>1, <3>1, ExtendedPlaces
  <2>9. cp'.ack = cp.ack
    BY DEF Extends
  <2>10. eng.pc = "opening" => Fits(cp', eng.open, 0)
    <3>1. eng.pc = "opening" => Fits(cp, eng.open, 0) /\ 0 \in 0..Len(cp.commands)
      BY <1>1, <2>4, ExtendedPlaces DEF Preparing
    <3> QED BY <1>1, <2>1, <3>1, ExtendedFits
  <2>11. Preparing'
    BY <2>2, <2>4, <2>5, <2>8, <2>9, <2>10 DEF Preparing
  <2>12. Line(cp)' /\ SentIds(Latest, eng.sent)'
    BY <2>2, <2>3, <2>6, <2>7
  <2> QED BY <1>3, <2>2, <2>11, <2>12 DEF Flow, Attaching
<1> QED BY <1>2, <1>3 DEF Serving

\* A message, the seal of the input or a profile is one more command.
LEMMA ControlsFlow ==
  ASSUME Shape, Flow, (\E kind \in InputKinds : ControlInput(kind)) \/ ControlSeal \/ ControlProfile
  PROVE  Flow'
<1>1. /\ Sound(cp) /\ Line(cp) /\ cp \in Checkpoints
  BY DEF Shape, Flow, Sound
<1>2. ASSUME NEW kind \in InputKinds, ControlInput(kind) PROVE Flow'
  <2>1. kind \in {"User", "External"} /\ Insertable(cp, kind) /\ cp' = Inserted(cp, kind)
        /\ Serving /\ eng' = Served /\ UNCHANGED exchangeVars
    BY <1>2, EngineConstants DEF ControlInput
  <2>2. Sound(cp')
    BY <1>1, <2>1, InsertedSound
  <2>3. PICK command : Extends(cp, cp', command) /\ SameCall(cp, cp') /\ ~Exclusive(command)
                       /\ cp'.cursor = cp.cursor
    BY <1>1, <2>1, InsertedExtends
  <2> QED BY <2>1, <2>2, <2>3, ControlFlow
<1>3. ASSUME ControlSeal PROVE Flow'
  <2> DEFINE command == Plain("Seal", cp.seals + 1)
             a == Prepared(cp, command)
             d == [a EXCEPT !.inputClosed = TRUE, !.seals = @ + 1]
  <2>1. Serving /\ cp' = d /\ eng' = Served /\ UNCHANGED exchangeVars
    BY <1>3 DEF ControlSeal
  <2>2. cp.seals + 1 \in Nat /\ cp.seals \in Nat
    BY <1>1 DEF Checkpoints
  <2>3. command \in PendingCommands /\ ~IsNumbered(command) /\ ~Exclusive(command)
    BY <2>2, CommandTypes DEF IsNumbered, Exclusive, Plain
  <2> HIDE DEF command
  <2>4. Sound(a) /\ a = [cp EXCEPT !.commands = Append(cp.commands, command)]
    BY <1>1, <2>3, PreparedSound
  <2>5. d = [a EXCEPT !.inputClosed = TRUE, !.seals = cp.seals + 1]
    BY <1>1, <2>4 DEF Checkpoints
  <2>6. Sound(d)
    BY <2>2, <2>4, <2>5, FieldsSound
  <2>7. d = [cp EXCEPT !.commands = Append(cp.commands, command), !.inputClosed = TRUE,
                       !.seals = cp.seals + 1]
    BY <1>1, <2>4, <2>5 DEF Checkpoints
  <2> HIDE DEF d, a
  <2>8. /\ d.commands = Append(cp.commands, command) /\ d.failure = cp.failure /\ d.ack = cp.ack
        /\ d.profile = cp.profile /\ d.closure = cp.closure /\ d.ready = cp.ready
        /\ d.revision = cp.revision /\ d.input = cp.input /\ d.history = cp.history
        /\ d.inputClosed = TRUE /\ d.seals = cp.seals + 1 /\ d.cursor = cp.cursor
        /\ d.gen = cp.gen /\ d.started = cp.started /\ d.status = cp.status
        /\ d.covered = cp.covered /\ d.closing = cp.closing
    BY <1>1, <2>7 DEF Checkpoints
  <2>9. Extends(cp, d, command)
    BY <1>1, <2>2, <2>8, PlainExtends DEF command
  <2> QED BY <2>1, <2>3, <2>6, <2>8, <2>9, ControlFlow DEF SameCall
<1>4. ASSUME ControlProfile PROVE Flow'
  <2> DEFINE n == cp.profile + Cardinality(Pending("Profile")) + 1
             command == Plain("Profile", n)
             d == Prepared(cp, command)
  <2>1. Serving /\ cp' = d /\ eng' = Served /\ UNCHANGED exchangeVars
    BY <1>4 DEF ControlProfile
  <2>2. n \in Nat
    BY <1>1, PendingCount DEF Checkpoints
  <2>3. \A t \in Nat : LastProfile(cp, t) => n = t + 1
    BY <1>1, ProfileCount
  <2> HIDE DEF n
  <2>4. command \in PendingCommands /\ ~IsNumbered(command) /\ ~Exclusive(command)
    BY <2>2, CommandTypes DEF IsNumbered, Exclusive, Plain
  <2>5. Sound(d) /\ d = [cp EXCEPT !.commands = Append(cp.commands, command)]
    BY <1>1, <2>4, PreparedSound
  <2> HIDE DEF d, command
  <2>6. /\ d.commands = Append(cp.commands, command) /\ d.failure = cp.failure /\ d.ack = cp.ack
        /\ d.profile = cp.profile /\ d.closure = cp.closure /\ d.ready = cp.ready
        /\ d.revision = cp.revision /\ d.input = cp.input /\ d.history = cp.history
        /\ d.inputClosed = cp.inputClosed /\ d.seals = cp.seals /\ d.cursor = cp.cursor
        /\ d.gen = cp.gen /\ d.started = cp.started /\ d.status = cp.status
        /\ d.covered = cp.covered /\ d.closing = cp.closing
    BY <1>1, <2>5 DEF Checkpoints
  <2>7. Extends(cp, d, command)
    BY <1>1, <2>2, <2>3, <2>6, PlainExtends DEF command
  <2> QED BY <2>1, <2>4, <2>5, <2>6, <2>7, ControlFlow DEF SameCall
<1> QED BY <1>2, <1>3, <1>4

\* checkpoint::initial of a recovered run
LEMMA AttachedFlow ==
  ASSUME Shape, Flow, NEW abandon \in BOOLEAN, NEW message \in {None, "User", "External"},
         Attach(abandon, message)
  PROVE  Flow'
<1> DEFINE request == [abandon |-> abandon, message |-> message]
           durable == {j \in DOMAIN cp.commands : SentDurably(cp.commands[j])}
           sent == {Id(cp.commands[i]) : i \in durable}
           d == [cp EXCEPT !.state = "Running"]
<1>1. /\ eng.pc = "down" /\ cp' = d /\ eng' = Running("catalog", request, sent)
      /\ commands' = commands /\ work' = work /\ session' = session
      /\ session = Absent /\ commands = <<>> /\ work = <<>>
      /\ Sound(cp) /\ Line(cp)
  BY DEF Attach, exchangeVars, Flow, Shape
<1>2. request # None
  <2>1. request \in [abandon : BOOLEAN, message : {None, "User", "External"}]
    OBVIOUS
  <2> QED BY <2>1, NoneIsNoRequest
<1>3. d.commands = cp.commands
  BY <1>1 DEF Sound, Checkpoints
<1>4. Line(d)
  BY <1>1, SettledLine
<1>5. (\A id \in sent : id[1] = "Generate") /\ SentIds(d, sent)
  BY <1>3 DEF SentIds, Id, SentDurably
<1> HIDE DEF request, sent, d
<1>6. /\ eng'.pc = "catalog" /\ eng'.request # None /\ eng'.sent = sent /\ ~eng'.sending
      /\ eng'.batch = <<>> /\ eng'.stash = None
  BY <1>1, <1>2 DEF Running
<1>7. Latest' = d
  BY <1>1, <1>6 DEF Latest
<1>8. Preparing'
  BY <1>1, <1>5, <1>6 DEF Preparing
<1>9. Line(cp)' /\ SentIds(Latest, eng.sent)'
  BY <1>1, <1>4, <1>5, <1>6, <1>7
<1> QED BY <1>6, <1>8, <1>9 DEF Flow, Attaching

\* What the host may do
LEMMA HostFlow ==
  ASSUME Shape, Flow, Host
  PROVE  Flow'
<1>1. CASE (\E kind \in InputKinds : ControlInput(kind)) \/ ControlSeal \/ ControlProfile
  BY <1>1, ControlsFlow
<1>2. CASE ControlPause \/ Interrupt
  BY <1>2, StoppedFlow DEF ControlPause, Interrupt
<1>3. CASE Continue
  BY <1>3, AttachedFlow DEF Continue
<1>4. CASE Resume
  <2>1. InGeneration(cp) \in BOOLEAN
    BY DEF InGeneration
  <2>2. \E abandon \in BOOLEAN, message \in {None, "User", "External"} : Attach(abandon, message)
    BY <1>4, <2>1, EngineConstants DEF Resume
  <2> QED BY <2>2, AttachedFlow
<1> QED BY <1>1, <1>2, <1>3, <1>4 DEF Host

-----------------------------------------------------------------------------
\* Attach, recovery and open_model

\* An abandoned generation loses its command, which is the first one.
LEMMA AbandonedLine ==
  ASSUME NEW c, Sound(c), Line(c), NEW sent, SentIds(c, sent)
  PROVE  Line(Abandoned(c)) /\ SentIds(Abandoned(c), sent)
<1> DEFINE id == <<"Generate", c.gen>>
           d == Abandoned(c)
<1>1. /\ c \in Checkpoints /\ c.commands \in Seq(PendingCommands) /\ c.gen \in Nat
      /\ Len(c.commands) \in Nat /\ DOMAIN c.commands = 1..Len(c.commands)
      /\ c.failure # "protocol"
  BY OutboxType DEF Sound, Checkpoints, Line
<1>2. /\ d.commands = Dropped(c.commands, id) /\ d.status = "Continuation"
      /\ d.history = c.history /\ d.revision = c.revision /\ d.input = c.input
      /\ d.profile = c.profile /\ d.ack = c.ack /\ d.gen = c.gen /\ d.covered = c.covered
      /\ d.closing = c.closing /\ d.closure = c.closure /\ d.inputClosed = c.inputClosed
      /\ d.seals = c.seals /\ d.failure = c.failure
  BY <1>1 DEF Abandoned, Checkpoints
<1>3. ~InGeneration(d)
  BY <1>2, NoneIsNoValue DEF InGeneration
<1> HIDE DEF d
<1>4. CASE Places(c.commands, id) = {}
  <2>1. d.commands = c.commands
    BY <1>2, <1>4 DEF Dropped
  <2> QED BY <1>1, <1>2, <1>3, <2>1, AlikeLine DEF SentIds, d
<1>5. CASE Places(c.commands, id) # {}
  <2>1. PICK i \in DOMAIN c.commands : Id(c.commands[i]) = id
    BY <1>5 DEF Places
  <2>2. i = 1 /\ c.commands[1].intent = "Generate" /\ c.commands # <<>>
    <3>1. c.commands[i].intent = "Generate"
      BY <2>1 DEF Id
    <3>2. i = 1
      BY <3>1 DEF Line, Exclusives, Exclusive
    <3> QED BY <1>1, <2>1, <3>1, <3>2
  <2> DEFINE r == [c EXCEPT !.commands = Tail(c.commands)]
  <2>3. /\ r.commands = Tail(c.commands) /\ r.ack = c.ack /\ r.profile = c.profile
        /\ r.history = c.history /\ r.revision = c.revision /\ r.input = c.input
        /\ r.inputClosed = c.inputClosed /\ r.seals = c.seals /\ r.failure = c.failure
        /\ r.closure = c.closure /\ r.ready = c.ready /\ r.gen = c.gen /\ r.closing = c.closing
        /\ r.covered = c.covered /\ r.status = c.status /\ r.started = c.started
    BY <1>1 DEF Checkpoints
  <2> HIDE DEF r
  <2>4. Retires(c, r) /\ SameCall(c, r)
    BY <2>2, <2>3 DEF Retires, SameCall, IsNumbered, IsProfile
  <2>5. Line(r)
    BY <2>4, RetiredLine
  <2>6. d.commands = r.commands
    BY <1>2, <2>1, <2>2, <2>3, FirstDropped
  <2>7. Line(d)
    BY <1>1, <1>2, <1>3, <2>3, <2>5, <2>6, AlikeLine
  <2>8. SentIds(d, sent)
    <3> SUFFICES ASSUME NEW e \in sent
                 PROVE  \/ \E j \in DOMAIN d.commands : Id(d.commands[j]) = e
                        \/ e[1] = "Generate" /\ e[2] <= d.gen
      BY DEF SentIds
    <3>1. CASE e = id
      <4>1. e[1] = "Generate" /\ e[2] = c.gen
        BY <3>1
      <4> QED BY <1>1, <1>2, <4>1
    <3>2. CASE e # id
      <4>1. CASE e[1] = "Generate" /\ e[2] <= c.gen
        BY <1>2, <4>1
      <4>2. CASE \E j \in DOMAIN c.commands : Id(c.commands[j]) = e
        <5>1. PICK j \in DOMAIN c.commands : Id(c.commands[j]) = e
          BY <4>2
        <5>2. j # 1
          BY <2>1, <2>2, <3>2, <5>1
        <5>3. j - 1 \in DOMAIN r.commands /\ r.commands[j - 1] = c.commands[j]
          BY <2>4, <5>2, RetiredPlaces
        <5> QED BY <2>6, <5>1, <5>3
      <4> QED BY <4>1, <4>2 DEF SentIds
    <3> QED BY <3>1, <3>2
  <2> QED BY <2>7, <2>8 DEF d
<1> QED BY <1>4, <1>5

\* Recovery commits a checkpoint in line, and sends nothing.
LEMMA RecoveringFlow ==
  ASSUME Shape, Flow, eng.pc \in {"catalog", "recover"}, Line(cp'), SentIds(cp', eng.sent),
         eng'.pc \in {"recover", "open"}, eng'.sent = eng.sent, eng'.batch = eng.batch,
         eng'.sending = eng.sending, eng'.stash = eng.stash, UNCHANGED exchangeVars,
         eng'.pc = "open" => \A i \in DOMAIN cp'.commands : cp'.commands[i].intent # "Generate"
  PROVE  Flow'
<1>1. Preparing /\ commands' = commands /\ work' = work /\ session' = session
  BY DEF Flow, Attaching, exchangeVars
<1>2. Preparing'
  BY <1>1 DEF Preparing
<1>3. Latest' = cp'
  BY DEF Latest
<1>4. Line(cp)' /\ SentIds(Latest, eng.sent)'
  BY <1>3
<1> QED BY <1>2, <1>4 DEF Flow, Attaching

\* apply_recovery
LEMMA RecoveryFlow ==
  ASSUME Shape, Flow, CatalogOpened \/ Resolve \/ ResumeMessage \/ DecideRecovery
  PROVE  Flow'
<1>1. /\ eng.pc \in {"catalog", "recover"} /\ eng \in UpEngines /\ PlaceShape(eng)
      /\ Sound(cp) /\ Line(cp) /\ Latest = cp /\ SentIds(cp, eng.sent) /\ Preparing
  <2>1. eng.pc \in {"catalog", "recover"}
    BY DEF CatalogOpened, Resolve, ResumeMessage, DecideRecovery
  <2>2. Latest = cp
    BY <2>1 DEF Latest
  <2> QED BY <2>1, <2>2, EngineTypes DEF Shape, Flow, Attaching
<1>2. CASE CatalogOpened
  <2>1. UNCHANGED <<cp, exchangeVars>> /\ eng.pc = "catalog"
    BY <1>2 DEF CatalogOpened
  <2>2. /\ eng'.pc = (IF eng.request = None THEN "open" ELSE "recover")
        /\ eng'.sent = eng.sent /\ eng'.batch = eng.batch /\ eng'.sending = eng.sending
        /\ eng'.stash = eng.stash
    BY <1>1, <1>2 DEF CatalogOpened, UpEngines
  <2>3. eng.request = None
          => \A i \in DOMAIN cp.commands : cp.commands[i].intent # "Generate"
    BY <1>1, <2>1 DEF Preparing
  <2> QED BY <1>1, <2>1, <2>2, <2>3, RecoveringFlow
<1>3. CASE Resolve
  <2>1. /\ cp' = Abandoned(cp) /\ UNCHANGED exchangeVars /\ eng.request \in Resumptions
        /\ eng.pc = "recover"
    BY <1>1, <1>3 DEF Resolve, PlaceShape
  <2>2. /\ eng'.pc = "recover" /\ eng'.sent = eng.sent /\ eng'.batch = eng.batch
        /\ eng'.sending = eng.sending /\ eng'.stash = eng.stash
    <3> DEFINE r == [eng.request EXCEPT !.abandon = FALSE]
    <3>1. eng' = [eng EXCEPT !.request = r]
      BY <1>1, <1>3, <2>1 DEF Resolve, Resumptions
    <3> HIDE DEF r
    <3> QED BY <1>1, <2>1, <3>1 DEF UpEngines
  <2>3. Line(cp') /\ SentIds(cp', eng.sent)
    BY <1>1, <2>1, AbandonedLine
  <2> QED BY <1>1, <2>1, <2>2, <2>3, RecoveringFlow
<1>4. CASE ResumeMessage
  <2>1. eng.request \in Resumptions /\ eng.pc = "recover"
    BY <1>1, <1>4 DEF ResumeMessage, PlaceShape
  <2>2. CASE ~Insertable(cp, eng.request.message)
    BY <1>4, <2>2, StoppedFlow DEF ResumeMessage
  <2>3. CASE Insertable(cp, eng.request.message)
    <3>1. cp' = Inserted(cp, eng.request.message) /\ UNCHANGED exchangeVars
          /\ eng.request.message \in {"User", "External"}
      BY <1>4, <2>1, <2>3 DEF ResumeMessage, Resumptions
    <3>2. /\ eng'.pc = "recover" /\ eng'.sent = eng.sent /\ eng'.batch = eng.batch
          /\ eng'.sending = eng.sending /\ eng'.stash = eng.stash
      <4> DEFINE r == [eng.request EXCEPT !.message = None]
      <4>1. eng' = [eng EXCEPT !.request = r]
        BY <1>4, <2>1, <2>3 DEF ResumeMessage, Resumptions
      <4> HIDE DEF r
      <4> QED BY <1>1, <2>1, <4>1 DEF UpEngines
    <3>3. PICK command : Extends(cp, cp', command) /\ SameCall(cp, cp') /\ ~Exclusive(command)
      BY <1>1, <2>3, <3>1, InsertedExtends
    <3>4. Sound(cp')
      BY <1>1, <2>3, <3>1, InsertedSound
    <3>5. eng.sent \in SUBSET Ident /\ cp.gen <= cp'.gen
      BY <1>1, <3>3 DEF UpEngines, SameCall, Sound, Checkpoints
    <3>6. Line(cp') /\ SentIds(cp', eng.sent)
      BY <1>1, <3>3, <3>4, <3>5, BesideLine, ExtendedSentIds
    <3> QED BY <1>1, <3>1, <3>2, <3>6, RecoveringFlow
  <2> QED BY <2>2, <2>3
<1>5. CASE DecideRecovery
  <2>1. CASE Suspend
    BY <2>1, StoppedFlow
  <2>2. CASE ~Suspend
    <3>1. /\ eng' = [eng EXCEPT !.pc = "open"] /\ UNCHANGED <<cp, exchangeVars>>
          /\ \A i \in DOMAIN cp.commands : ~SentDurably(cp.commands[i])
      BY <1>5, <2>2 DEF DecideRecovery
    <3>2. /\ eng'.pc = "open" /\ eng'.sent = eng.sent /\ eng'.batch = eng.batch
          /\ eng'.sending = eng.sending /\ eng'.stash = eng.stash
      BY <1>1, <3>1 DEF UpEngines
    <3>3. \A i \in DOMAIN cp.commands : cp.commands[i].intent # "Generate"
      BY <3>1 DEF SentDurably
    <3> QED BY <1>1, <3>1, <3>2, <3>3, RecoveringFlow
  <2> QED BY <2>1, <2>2
<1> QED BY <1>2, <1>3, <1>4, <1>5

\* The seed leaves out the inputs of the outbox, and no other.
LEMMA SeededInputs ==
  ASSUME NEW c, Sound(c), Line(c)
  PROVE  InputsFrom(c, 0, SeedPosition(c))
<1> DEFINE S == {i \in Appends(c) : /\ c.commands[i].source = "Submitted"
                                    /\ IsInput(c.history[c.commands[i].entry])}
<1>1. /\ c.commands \in Seq(PendingCommands) /\ c.input \in Nat
      /\ \A i \in DOMAIN c.commands : i \in Nat /\ i > 0
  BY OutboxType DEF Sound, Checkpoints
<1>2. S = Behind(c, 0, Submitting)
  <2>1. \A i \in DOMAIN c.commands :
           Kind(c.commands[i]) \in Submitting <=> IsSubmitted(c.commands[i])
    <3>1. \A i \in DOMAIN c.commands : c.commands[i].intent \in IntentNames
      BY <1>1, CommandTypes
    <3> QED BY <3>1 DEF Kind, Submitting, IntentNames
  <2>2. \A i \in DOMAIN c.commands : IsSubmitted(c.commands[i])
          => IsInput(c.history[c.commands[i].entry])
    BY DEF Line, InputsInOrder
  <2> QED BY <1>1, <2>1, <2>2 DEF Behind, Appends, IsSubmitted
<1>3. SeedPosition(c) = IF S = {} THEN c.input ELSE c.commands[FirstOf(S)].pos - 1
  BY DEF SeedPosition
<1> HIDE DEF S
<1>4. S \in SUBSET Nat
  BY <1>1, <1>2, Outbox
<1>5. PICK p \in Nat : InputsFrom(c, 0, p)
  BY DEF Line
<1>6. Continues(S, InputsOf(c), p, c.input)
  BY <1>2, <1>5 DEF InputsFrom
<1>7. SeedPosition(c) = p
  <2>1. CASE S = {}
    BY <1>1, <1>3, <1>6, <2>1, ContinuesEmpty
  <2>2. CASE S # {}
    <3> DEFINE x == FirstOf(S)
    <3>1. x \in S /\ \A i \in S : x <= i
      BY <1>4, <2>2, FirstIsLeast
    <3> HIDE DEF x
    <3>2. InputsOf(c)[x] = p + 1
      BY <1>1, <1>4, <1>6, <3>1, ContinuesCut
    <3>3. x \in DOMAIN c.commands /\ IsAppend(c.commands[x])
      <4>1. x \in DOMAIN c.commands /\ Kind(c.commands[x]) \in Submitting
        BY <1>2, <3>1 DEF Behind
      <4>2. c.commands[x].intent \in IntentNames
        BY <1>1, <4>1, CommandTypes
      <4> QED BY <4>1, <4>2 DEF Kind, Submitting, IsSubmitted, IsAppend, IntentNames
    <3>4. c.commands[x].pos = p + 1
      BY <3>2, <3>3 DEF InputsOf
    <3> QED BY <1>3, <2>2, <3>4 DEF x
  <2> QED BY <2>1, <2>2
<1> QED BY <1>5, <1>7

-----------------------------------------------------------------------------
\* The session is opened

\* Its first signal is Ready, at the acknowledged revision.
LEMMA OpenedEmissions ==
  ASSUME NEW seed, NEW revision \in Nat, NEW position, NEW profile
  PROVE  LET s == SessionTask(seed, revision, position, profile)
         IN  Emissions(s) = <<Ready(revision)>> /\ s.active = None
<1> DEFINE s == SessionTask(seed, revision, position, profile)
           e == Ready(revision)
<1>1. /\ s.phase = "up" /\ s.sending = e /\ s.controls = <<>> /\ s.finishing = <<>>
      /\ s.active = None
  BY DEF SessionTask
<1>2. e \in Events
  BY EventTypes DEF Ready
<1>3. e # None
  BY <1>2, NoneIsNoSignal
<1> HIDE DEF s, e
<1>4. Emissions(s) = (<<e>> \o <<>>) \o <<>>
  BY <1>1, <1>3 DEF Emissions
<1>5. (<<e>> \o <<>>) \o <<>> = <<e>>
  BY <1>2
<1> QED BY <1>1, <1>4, <1>5 DEF s, e

\* open_model: the session fits the checkpoint it is opened with.
LEMMA OpenModelFlow ==
  ASSUME Shape, Flow, OpenModel
  PROVE  Flow'
<1> DEFINE seed == SubSeq(cp.history, 1, SeedEnd(cp))
           t == SessionTask(seed, cp.ack, SeedPosition(cp), cp.profile)
<1>1. /\ eng.pc = "open" /\ eng \in UpEngines /\ Sound(cp) /\ Line(cp) /\ Preparing
      /\ Latest = cp /\ SentIds(cp, eng.sent)
  <2>1. eng.pc = "open"
    BY DEF OpenModel
  <2>2. Latest = cp
    BY <2>1 DEF Latest
  <2> QED BY <2>1, <2>2, EngineTypes DEF Shape, Flow, Attaching
<1>2. cp.ack \in Nat /\ cp.profile \in Nat /\ SeedPosition(cp) \in Nat
  BY <1>1, SeedTypes DEF Sound, Checkpoints
<1>3. Emissions(t) = <<Ready(cp.ack)>> /\ t.active = None
  BY <1>2, OpenedEmissions
<1>4. t.revision = cp.ack /\ t.position = SeedPosition(cp) /\ t.profile = cp.profile /\ ~t.sealed
  BY DEF SessionTask
<1>5. eng' = [eng EXCEPT !.pc = "opening", !.open = t] /\ UNCHANGED <<cp, exchangeVars>>
  BY DEF OpenModel
<1> HIDE DEF t, seed
<1>6. /\ eng'.pc = "opening" /\ eng'.open = t /\ eng'.sent = eng.sent /\ eng'.batch = eng.batch
      /\ eng'.sending = eng.sending /\ eng'.stash = eng.stash
  BY <1>1, <1>5 DEF UpEngines
<1>7. Fits(cp, t, 0)
  <2>1. RevisionsFrom(cp, 0, t.revision) /\ InputsFrom(cp, 0, t.position)
    BY <1>1, <1>4, RevisionsFromAck, SeededInputs
  <2>2. \E p \in Nat : ProfilesFrom(cp, 0, cp.profile, p) /\ ProfilesFrom(cp, 0, t.profile, p)
    BY <1>1, <1>4 DEF Line
  <2> QED BY <1>4, <2>1, <2>2 DEF Fits
<1>8. /\ cp' = cp /\ commands' = commands /\ work' = work /\ session' = session
      /\ Latest' = cp
  BY <1>5, <1>6 DEF exchangeVars, Latest
<1>9. Preparing'
  <2>1. \A i \in DOMAIN cp.commands : cp.commands[i].intent # "Generate"
    BY <1>1 DEF Preparing
  <2> QED BY <1>1, <1>3, <1>6, <1>7, <1>8, <2>1 DEF Preparing
<1>10. Line(cp)' /\ SentIds(Latest, eng.sent)'
  BY <1>1, <1>6, <1>8
<1> QED BY <1>6, <1>9, <1>10 DEF Flow, Attaching

\* Nothing but Ready is on its way in a session just opened.
LEMMA OpenedMeeting ==
  ASSUME NEW c, Sound(c), ~c.ready, \A i \in DOMAIN c.commands : c.commands[i].intent # "Generate",
         NEW s, Fits(c, s, 0), s.active = None, NEW b, DOMAIN b = {},
         NEW sent, \A id \in sent : id[1] = "Generate"
  PROVE  LET F == <<Ready(c.ack)>>
         IN  Flowing(c, F, 0) /\ Meets(c, F, 0, s, <<>>, b, sent)
<1> DEFINE F == <<Ready(c.ack)>>
<1>1. /\ DOMAIN F = {1} /\ F[1].kind = "Ready" /\ F[1].revision = c.ack
  BY DEF Ready
<1>2. Len(c.commands) \in Nat /\ DOMAIN c.commands = 1..Len(c.commands)
  BY OutboxType DEF Sound
<1> HIDE DEF F
<1>3. Fitting(c, F)
  BY <1>1 DEF Fitting, Responding
<1>4. Acked(c, F, 0)
  BY <1>1, <1>2 DEF Acked
<1>5. Waiting(c, F)
  BY <1>1 DEF Waiting
<1>6. Lined(c, 0, <<>>, b, sent)
  <2>1. Linked(c, 0, 0, 0, <<>>, b)
    <3>1. DOMAIN <<>> = {} /\ Len(<<>>) = 0 /\ (0 + 0 + 0 + 1)..(0 + 0) = {}
      OBVIOUS
    <3> QED BY <1>2, <3>1 DEF Linked
  <2>2. SentUpTo(c, sent, 0)
    <3>1. \A i \in DOMAIN c.commands : ~(i <= 0) /\ Id(c.commands[i]) \notin sent
      BY <1>2 DEF Id
    <3> QED BY <3>1 DEF SentUpTo
  <2> QED BY <2>1, <2>2 DEF Lined
<1>7. Meets(c, F, 0, s, <<>>, b, sent)
  BY <1>6 DEF Meets, Calling, Opening
<1> QED BY <1>3, <1>4, <1>5, <1>7 DEF Flowing, F

\* The session starts: its Ready is awaited, and its events are numbered anew.
LEMMA SessionOpenedFlow ==
  ASSUME Shape, Flow, SessionOpened
  PROVE  Flow'
<1> DEFINE d == [cp EXCEPT !.ready = FALSE, !.cursor = None]
<1>1. /\ eng.pc = "opening" /\ eng \in UpEngines /\ Sound(cp) /\ Line(cp) /\ Preparing
      /\ Latest = cp /\ SentIds(cp, eng.sent)
      /\ eng.open \in UpSessions
  <2>1. eng.pc = "opening"
    BY DEF SessionOpened
  <2>2. Latest = cp
    BY <2>1 DEF Latest
  <2> QED BY <2>1, <2>2, EngineTypes DEF Shape, Flow, Attaching, EngineShape, PlaceShape
<1>2. /\ cp' = d /\ session' = eng.open /\ commands' = <<>> /\ work' = <<>>
      /\ eng' = [eng EXCEPT !.pc = "dispatch", !.open = None]
  BY <1>1 DEF SessionOpened, Preparing
<1>3. /\ eng'.pc = "dispatch" /\ eng'.sent = eng.sent /\ eng'.batch = eng.batch
      /\ eng'.sending = eng.sending /\ eng'.stash = eng.stash
  BY <1>1, <1>2 DEF UpEngines
<1>4. /\ ~d.ready /\ d.cursor = None /\ d.commands = cp.commands /\ d.ack = cp.ack
      /\ d.revision = cp.revision /\ d.input = cp.input /\ d.profile = cp.profile
      /\ d.inputClosed = cp.inputClosed /\ d.history = cp.history /\ d.gen = cp.gen
  BY <1>1 DEF Sound, Checkpoints
<1>5. Sound(d) /\ Line(d)
  BY <1>1, FieldsSound, SettledLine
<1> HIDE DEF d
<1>6. Fits(d, eng.open, 0)
  <2>1. NumbersOf(d) = NumbersOf(cp) /\ InputsOf(d) = InputsOf(cp)
        /\ \A k, kinds : Behind(d, k, kinds) = Behind(cp, k, kinds)
    BY <1>4 DEF NumbersOf, InputsOf, Behind
  <2> QED BY <1>1, <1>4, <2>1 DEF Preparing, Fits, RevisionsFrom, InputsFrom, ProfilesFrom, IsUser
<1>7. Flight' = <<Ready(d.ack)>>
  <2>1. Emissions(session') = <<Ready(d.ack)>>
    BY <1>1, <1>2, <1>4 DEF Preparing
  <2>2. Arrived(work') = <<>>
    BY <1>2 DEF Arrived
  <2>3. Flight' = <<>> \o <<Ready(d.ack)>>
    BY <2>1, <2>2 DEF Flight
  <2> QED BY <2>3
<1>8. Latest' = d /\ session'.phase = "up" /\ DOMAIN eng.batch = {}
  BY <1>1, <1>2, <1>3, SessionTypes DEF Latest, Preparing
<1>9. Meeting'
  <2>1. Flowing(d, <<Ready(d.ack)>>, 0)
        /\ Meets(d, <<Ready(d.ack)>>, 0, eng.open, <<>>, eng.batch, eng.sent)
    BY <1>1, <1>4, <1>5, <1>6, OpenedMeeting DEF Preparing
  <2> QED BY <1>2, <1>3, <1>7, <1>8, <2>1, EngineMeeting
<1>10. Numbering' /\ Reporting' /\ Agreement'
  <2>1. DOMAIN work' = {}
    BY <1>2
  <2>2. Numbering'
    BY <1>2, <1>4, <1>8, <2>1 DEF Numbering, Before
  <2>3. Reporting'
    BY <1>1, <1>3, <2>1 DEF Preparing, Reporting
  <2>4. Agreement'
    BY <1>1, <1>3, <1>8, <2>1 DEF Preparing, Agreement
  <2> QED BY <2>2, <2>3, <2>4
<1>11. Conversing'
  BY <1>8, <1>9, <1>10 DEF Conversing
<1>12. SentIds(Latest, eng.sent)'
  <2>1. SentIds(d, eng.sent)
    BY <1>1, <1>4 DEF SentIds
  <2> QED BY <1>3, <1>8, <2>1
<1>13. Line(cp)'
  BY <1>2, <1>5
<1> QED BY <1>3, <1>11, <1>12, <1>13 DEF Flow, Attaching

\* Attach, recovery and open_model
LEMMA AttachFlow ==
  ASSUME Shape, Flow, AttachStep
  PROVE  Flow'
<1>1. CASE OpenFails
  BY <1>1, StoppedFlow DEF OpenFails
<1> QED BY <1>1, RecoveryFlow, OpenModelFlow, SessionOpenedFlow DEF AttachStep

-----------------------------------------------------------------------------
\* The theorem

\* A pass of the engine's loop.
LEMMA LoopFlow ==
  ASSUME Shape, Flow, LoopStep
  PROVE  Flow'
<1>1. CASE RequestsExhausted \/ Complete
  BY <1>1, StoppedFlow DEF RequestsExhausted, Complete
<1> QED BY <1>1, DispatchFlow, AdvanceFlow DEF LoopStep

\* A new run has an empty outbox, and no session yet.
LEMMA InitFlow ==
  Init => Flow
<1> SUFFICES ASSUME Init PROVE Flow
  OBVIOUS
<1>1. /\ cp = Initial(Mode) /\ eng = Running("catalog", None, {}) /\ commands = <<>>
      /\ work = <<>> /\ session = Absent
  BY DEF Init
<1>2. /\ cp.commands = <<>> /\ DOMAIN cp.commands = {} /\ cp.failure # "protocol"
      /\ cp.input = 0 /\ cp.profile = 0
  BY <1>1, NoneIsNoFailure DEF Initial
<1>3. /\ eng.pc = "catalog" /\ DOMAIN eng.batch = {} /\ ~eng.sending /\ eng.stash = None
      /\ eng.sent = {}
  BY <1>1 DEF Running
<1>4. \A k \in Nat : \A kinds : Behind(cp, k, kinds) = {}
  BY <1>2 DEF Behind
<1>5. InputsFrom(cp, 0, 0) /\ ProfilesFrom(cp, 0, cp.profile, 0)
  <2>1. \A number : Continues({}, number, 0, 0)
    BY ContinuesEmpty
  <2>2. Behind(cp, 0, Submitting) = {} /\ Behind(cp, 0, Profiling) = {}
    BY <1>4
  <2> QED BY <1>2, <2>1, <2>2 DEF InputsFrom, ProfilesFrom
<1>6. Line(cp)
  <2>1. Distinguished(cp) /\ Exclusives(cp) /\ InputsInOrder(cp) /\ Sealing(cp) /\ Requests(cp)
    BY <1>2 DEF Distinguished, Exclusives, InputsInOrder, Sealing, Requests
  <2> QED BY <1>2, <1>5, <2>1 DEF Line
<1>7. Preparing
  BY <1>1, <1>2, <1>3 DEF Preparing
<1>8. SentIds(Latest, eng.sent)
  BY <1>3 DEF SentIds
<1> QED BY <1>3, <1>6, <1>7, <1>8 DEF Flow, Attaching

\* Every step keeps the pipeline in line.
LEMMA NextFlow ==
  ASSUME Shape, Flow, [Next]_vars
  PROVE  Flow'
<1>1. CASE Done \/ UNCHANGED vars
  <2>1. UNCHANGED vars
    BY <1>1 DEF Done
  <2>2. /\ cp' = cp /\ eng' = eng /\ commands' = commands /\ work' = work /\ session' = session
    BY <2>1 DEF vars
  <2>3. Latest' = Latest /\ Flight' = Flight
    BY <2>2 DEF Latest, Flight
  <2>4. Conversing => Conversing'
    BY <2>2, <2>3 DEF Conversing, Numbering, Reporting, Reported, Agreement, Meeting
  <2>5. Preparing => Preparing'
    BY <2>2 DEF Preparing
  <2> QED BY <2>2, <2>3, <2>4, <2>5 DEF Flow
<1> QED BY <1>1, HostFlow, AttachFlow, LoopFlow, SubmitFlow, SenderFlow, WorkFlow, ModelFlow,
           CrashFlow DEF Next, EngineStep, SubmitStep

\* Engine and session never disagree: every event is one apply_event expects
\* and every command one the projection accepts, whatever the host adds
\* meanwhile, however late the acknowledgements are, and whatever crashes,
\* suspensions and rebuilt sessions came before.
THEOREM NeverDisagrees == Spec => []NoProtocolFailure
<1>1. Init => Flow
  BY InitFlow
<1>2. Shape /\ Flow /\ [Next]_vars => Flow'
  BY NextFlow
<1>3. Flow => NoProtocolFailure
  BY DEF Flow, Line, NoProtocolFailure
<1> QED BY <1>1, <1>2, <1>3, Shaped, PTL DEF Spec
=============================================================================
