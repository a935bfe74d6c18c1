--------------------------- MODULE LocalRun_proofs ---------------------------
(***************************************************************************)
(* Proofs about LocalRun, for any history, limits and host, and any order  *)
(* of crashes, suspensions and resumptions: the outbox is what the         *)
(* projection lacks.                                                       *)
(***************************************************************************)
EXTENDS LocalRun, TLAPS, WellFoundedInduction, SequenceTheorems, FiniteSetTheorems

-----------------------------------------------------------------------------
\* The shape of the state

RunStates == {"Running", "Suspended", "Completed", "Failed", "Limited", "Cancelled"}
Failures == {None, "model", "protocol", "invalid", "generation"}
Responses == Statuses \cup {None, "Continuation"}
Ident == IntentNames \X Nat

Entries == [kind : {"User", "External", "Output", "Finished", "Summary"}, n : Nat, item : Nat]
Histories == Seq(Entries)

AppendCommands ==
    [intent : {"Append"}, n : Nat, entry : Nat, pos : Nat, source : {"Accepted"}]
      \cup [intent : {"Append"}, n : Nat, entry : Nat, pos : Nat \ {0}, source : {"Submitted"}]
GenerateCommands == [intent : {"Generate"}, n : Nat, revision : Nat, pos : Nat, profile : Nat]
PlainCommands == [intent : {"Replace", "Profile", "Seal", "Close"}, n : Nat]
PendingCommands == AppendCommands \cup GenerateCommands \cup PlainCommands
Outboxes == Seq(PendingCommands)

Cursors == Nat \cup {None}
Checkpoints ==
    [state : RunStates, failure : Failures, gen : Nat, started : BOOLEAN, status : Responses,
     needs : BOOLEAN, revision : Nat, ack : Nat, input : Nat, covered : Nat, start : Nat,
     ready : BOOLEAN, inputClosed : BOOLEAN, closing : BOOLEAN, closure : BOOLEAN,
     cursor : Cursors, profile : Nat, seals : Nat, reduced : Cursors,
     history : Histories, commands : Outboxes]

\* The outbox of a checkpoint completes its projection.
IsNumbered(command) == command.intent \in {"Append", "Replace"}
IsAppend(command) == command.intent = "Append"
RevisionsOf(c) ==
    /\ \A i \in DOMAIN c.commands : IsNumbered(c.commands[i])
          => c.commands[i].n \in (c.ack + 1)..c.revision
    /\ \A n \in (c.ack + 1)..c.revision :
          \E i \in DOMAIN c.commands : IsNumbered(c.commands[i]) /\ c.commands[i].n = n
LastEntries(c, p) ==
    /\ \A i \in DOMAIN c.commands : IsAppend(c.commands[i])
          => c.commands[i].entry \in (p + 1)..Len(c.history)
    /\ \A k \in (p + 1)..Len(c.history) :
          \E i \in DOMAIN c.commands : IsAppend(c.commands[i]) /\ c.commands[i].entry = k
InOrder(c) ==
    \A i, j \in DOMAIN c.commands : i < j =>
      /\ IsNumbered(c.commands[i]) /\ IsNumbered(c.commands[j])
            => c.commands[i].n < c.commands[j].n
      /\ IsAppend(c.commands[i]) /\ IsAppend(c.commands[j])
            => c.commands[i].entry < c.commands[j].entry
OutboxOf(c) ==
    RevisionsOf(c) /\ InOrder(c) /\ \E p \in 0..Len(c.history) : LastEntries(c, p)

Sound(c) ==
    /\ c \in Checkpoints
    /\ OutboxOf(c)
    /\ c.ack <= c.revision
    /\ c.covered <= c.input
    /\ c.start <= Len(c.history)

-----------------------------------------------------------------------------
\* Facts about the operators of Engine

\* The least of some numbers is one of them.
LEMMA FirstIsLeast ==
  ASSUME NEW S \in SUBSET Nat, S # {}
  PROVE  FirstOf(S) \in S /\ \A n \in S : FirstOf(S) <= n
<1>1. PICK x \in S : \A y \in S : ~(<<y, x>> \in OpToRel(<, Nat))
  BY NatLessThanWellFounded, WFMin, Zenon
<1>2. ASSUME NEW y \in S, y < x PROVE FALSE
  <2>1. <<y, x>> \in Nat \X Nat /\ <<y, x>>[1] < <<y, x>>[2]
    BY <1>2
  <2>2. <<y, x>> \in OpToRel(<, Nat)
    BY <2>1, Zenon DEF OpToRel
  <2> QED BY <1>1, <2>2
<1>3. \A y \in S : x <= y
  BY <1>2
<1> QED BY <1>3 DEF FirstOf

\* What is left when an element is taken out.
LEMMA Removal ==
  ASSUME NEW T, NEW s \in Seq(T), NEW k \in 1..Len(s)
  PROVE  /\ RemoveAt(s, k) \in Seq(T)
         /\ Len(RemoveAt(s, k)) = Len(s) - 1
         /\ \A i \in 1..(Len(s) - 1) : RemoveAt(s, k)[i] = IF i < k THEN s[i] ELSE s[i + 1]
<1> DEFINE a == SubSeq(s, 1, k - 1)
           b == SubSeq(s, k + 1, Len(s))
<1>1. a \in Seq(T) /\ Len(a) = k - 1 /\ \A i \in 1..(k - 1) : a[i] = s[i]
  OBVIOUS
<1>2. b \in Seq(T) /\ Len(b) = Len(s) - k /\ \A i \in 1..(Len(s) - k) : b[i] = s[k + i]
  OBVIOUS
<1> HIDE DEF a, b
<1>3. RemoveAt(s, k) = a \o b
  BY DEF RemoveAt, a, b
<1>4. /\ a \o b \in Seq(T) /\ Len(a \o b) = Len(a) + Len(b)
      /\ \A i \in 1..(Len(a) + Len(b)) : (a \o b)[i] = IF i <= Len(a) THEN a[i] ELSE b[i - Len(a)]
  BY <1>1, <1>2, ConcatProperties, Zenon
<1>5. ASSUME NEW i \in 1..(Len(s) - 1) PROVE (a \o b)[i] = IF i < k THEN s[i] ELSE s[i + 1]
  <2>1. CASE i < k
    BY <1>1, <1>2, <1>4, <2>1
  <2>2. CASE ~(i < k)
    <3>1. (a \o b)[i] = b[i - (k - 1)]
      BY <1>1, <1>2, <1>4, <2>2
    <3>2. i - (k - 1) \in 1..(Len(s) - k) /\ k + (i - (k - 1)) = i + 1
      BY <2>2
    <3> QED BY <1>2, <2>2, <3>1, <3>2
  <2> QED BY <2>1, <2>2
<1> QED BY <1>1, <1>2, <1>3, <1>4, <1>5

\* PendingCommand: what each kind of pending command carries, and its identity.
LEMMA CommandTypes ==
  /\ \A c \in PendingCommands :
        /\ c.intent \in IntentNames /\ c.n \in Nat
        /\ IsAppend(c) => /\ c \in AppendCommands /\ c.entry \in Nat /\ c.pos \in Nat
                          /\ c.source = "Submitted" => c.pos # 0
        /\ c.intent = "Generate" => c \in GenerateCommands
        /\ Id(c) \in Ident
  /\ \A intent \in {"Replace", "Profile", "Seal", "Close"}, n \in Nat :
        Plain(intent, n) \in PendingCommands
BY DEF PendingCommands, AppendCommands, GenerateCommands, PlainCommands, IntentNames, IsAppend,
       Id, Ident, Plain

-----------------------------------------------------------------------------
\* Changes of a checkpoint

\* The numbered commands of d are those of c, in the same order.
Embeds(c, d, at) ==
    /\ d.ack = c.ack /\ d.revision = c.revision /\ Len(d.history) = Len(c.history)
    /\ DOMAIN c.commands \subseteq Nat /\ DOMAIN d.commands \subseteq Nat
    /\ at \in [DOMAIN d.commands -> Nat]
    /\ \A i \in DOMAIN d.commands : IsNumbered(d.commands[i])
          => at[i] \in DOMAIN c.commands /\ c.commands[at[i]] = d.commands[i]
    /\ \A i, j \in DOMAIN d.commands : i < j => at[i] < at[j]
    /\ \A k \in DOMAIN c.commands : IsNumbered(c.commands[k])
          => \E i \in DOMAIN d.commands : d.commands[i] = c.commands[k]

\* Commands that are not numbered do not matter.
LEMMA SameOutbox ==
  ASSUME NEW c, NEW d, NEW at, OutboxOf(c), Embeds(c, d, at)
  PROVE  OutboxOf(d)
<1>1. \A command : IsAppend(command) => IsNumbered(command)
  BY DEF IsAppend, IsNumbered
<1>2. RevisionsOf(d)
  BY SMTT(30) DEF OutboxOf, RevisionsOf, Embeds
<1>3. InOrder(d)
  BY <1>1, SMTT(30) DEF OutboxOf, InOrder, Embeds
<1>4. ASSUME NEW p \in 0..Len(c.history), LastEntries(c, p) PROVE LastEntries(d, p)
  <2>1. ASSUME NEW i \in DOMAIN d.commands, IsAppend(d.commands[i])
        PROVE  d.commands[i].entry \in (p + 1)..Len(d.history)
    BY <1>1, <1>4, <2>1 DEF LastEntries, Embeds
  <2>2. ASSUME NEW n \in (p + 1)..Len(d.history)
        PROVE  \E i \in DOMAIN d.commands : IsAppend(d.commands[i]) /\ d.commands[i].entry = n
    <3>1. PICK k \in DOMAIN c.commands : IsAppend(c.commands[k]) /\ c.commands[k].entry = n
      BY <1>4 DEF LastEntries, Embeds
    <3> QED BY <1>1, <3>1 DEF Embeds
  <2> QED BY <2>1, <2>2 DEF LastEntries
<1>5. PICK p \in 0..Len(c.history) : LastEntries(c, p)
  BY DEF OutboxOf
<1>6. p \in 0..Len(d.history)
  BY DEF Embeds
<1> QED BY <1>2, <1>3, <1>4, <1>5, <1>6 DEF OutboxOf

\* The outbox and the history of a checkpoint are sequences of their types.
LEMMA OutboxType ==
  ASSUME NEW c \in Checkpoints
  PROVE  /\ c.commands \in Seq(PendingCommands) /\ Len(c.commands) \in Nat
         /\ DOMAIN c.commands = 1..Len(c.commands)
         /\ \A i \in DOMAIN c.commands : c.commands[i] \in PendingCommands
         /\ c.history \in Seq(Entries) /\ Len(c.history) \in Nat
BY DEF Checkpoints, Outboxes, Histories

\* A command that is not numbered changes nothing for the projection.
LEMMA PreparedSound ==
  ASSUME NEW c, Sound(c), NEW command \in PendingCommands, ~IsNumbered(command)
  PROVE  Sound(Prepared(c, command))
         /\ Prepared(c, command) = [c EXCEPT !.commands = Append(c.commands, command)]
<1> DEFINE d == Prepared(c, command)
<1>1. Append(c.commands, command) \in Outboxes
  BY OutboxType DEF Sound, Outboxes
<1>2. /\ d \in Checkpoints /\ d.commands = Append(c.commands, command)
      /\ d.history = c.history /\ d.ack = c.ack /\ d.revision = c.revision
      /\ d.covered = c.covered /\ d.input = c.input /\ d.start = c.start
      /\ d = [c EXCEPT !.commands = Append(c.commands, command)]
  BY <1>1 DEF Sound, Prepared, Checkpoints
<1>3. /\ DOMAIN c.commands \subseteq Nat /\ DOMAIN d.commands \subseteq Nat
      /\ DOMAIN c.commands \subseteq DOMAIN d.commands
      /\ \A i \in DOMAIN c.commands : d.commands[i] = c.commands[i]
      /\ \A i \in DOMAIN d.commands : IsNumbered(d.commands[i]) => i \in DOMAIN c.commands
  BY <1>2, OutboxType DEF Sound
<1> HIDE DEF d
<1>4. OutboxOf(d)
  <2> DEFINE at == [i \in DOMAIN d.commands |-> i]
  <2>1. at \in [DOMAIN d.commands -> Nat] /\ \A i \in DOMAIN d.commands : at[i] = i
    BY <1>3
  <2> HIDE DEF at
  <2>2. Embeds(c, d, at)
    BY <1>2, <1>3, <2>1 DEF Embeds
  <2> QED BY <2>2, SameOutbox DEF Sound
<1> QED BY <1>2, <1>4 DEF Sound, d

\* Taking out a command that is not numbered changes nothing either.
LEMMA DroppedSound ==
  ASSUME NEW c, Sound(c), NEW id \in Ident, id[1] \notin {"Append", "Replace"}
  PROVE  LET d == [c EXCEPT !.commands = Dropped(c.commands, id)]
         IN  /\ Sound(d)
             /\ \A i \in DOMAIN d.commands : \E j \in DOMAIN c.commands :
                    d.commands[i] = c.commands[j]
<1> DEFINE d == [c EXCEPT !.commands = Dropped(c.commands, id)]
<1>1. CASE Places(c.commands, id) = {}
  BY <1>1 DEF Dropped, Sound, Checkpoints
<1>2. CASE Places(c.commands, id) # {}
  <2> DEFINE k == FirstOf(Places(c.commands, id))
  <2>1. k \in 1..Len(c.commands) /\ Id(c.commands[k]) = id
    <3>1. Places(c.commands, id) \in SUBSET (1..Len(c.commands)) /\ Len(c.commands) \in Nat
      BY OutboxType DEF Places, Sound
    <3>2. k \in Places(c.commands, id)
      BY <1>2, <3>1, FirstIsLeast
    <3> QED BY <3>1, <3>2 DEF Places
  <2>2. ~IsNumbered(c.commands[k])
    BY <2>1 DEF IsNumbered, Id
  <2>3. /\ RemoveAt(c.commands, k) \in Seq(PendingCommands)
        /\ Len(RemoveAt(c.commands, k)) = Len(c.commands) - 1
        /\ \A i \in 1..(Len(c.commands) - 1) :
             RemoveAt(c.commands, k)[i] = IF i < k THEN c.commands[i] ELSE c.commands[i + 1]
    BY <2>1, OutboxType, Removal DEF Sound
  <2>4. /\ d \in Checkpoints /\ d.commands = RemoveAt(c.commands, k)
        /\ d.history = c.history /\ d.ack = c.ack /\ d.revision = c.revision
        /\ d.covered = c.covered /\ d.input = c.input /\ d.start = c.start
    BY <1>2, <2>3 DEF Sound, Dropped, Checkpoints, Outboxes
  <2> HIDE DEF d, k
  <2> DEFINE at == [i \in DOMAIN d.commands |-> IF i < k THEN i ELSE i + 1]
  <2>5. DOMAIN d.commands = 1..(Len(c.commands) - 1) /\ DOMAIN c.commands = 1..Len(c.commands)
        /\ Len(c.commands) \in Nat
    BY <2>3, <2>4, OutboxType DEF Sound
  <2>6. \A i \in DOMAIN d.commands : at[i] = IF i < k THEN i ELSE i + 1
    OBVIOUS
  <2>9. at \in [DOMAIN d.commands -> Nat] /\ \A i, j \in DOMAIN d.commands : i < j => at[i] < at[j]
    BY <2>1, <2>5
  <2> HIDE DEF at
  <2>10. \A i \in DOMAIN d.commands : d.commands[i] = c.commands[at[i]]
    BY <2>3, <2>4, <2>5, <2>6
  <2>11. \A i \in DOMAIN d.commands : at[i] \in DOMAIN c.commands
    BY <2>1, <2>5, <2>6
  <2>7. ASSUME NEW n \in DOMAIN c.commands, IsNumbered(c.commands[n])
        PROVE  \E i \in DOMAIN d.commands : d.commands[i] = c.commands[n]
    <3>1. CASE n < k
      <4>1. n \in DOMAIN d.commands /\ at[n] = n
        BY <2>1, <2>5, <2>6, <3>1
      <4> QED BY <2>10, <4>1
    <3>2. CASE n > k
      <4>1. n - 1 \in DOMAIN d.commands
        BY <2>1, <2>5, <3>2
      <4>2. at[n - 1] = n
        BY <2>1, <2>5, <2>6, <3>2, <4>1
      <4> QED BY <2>10, <4>1, <4>2
    <3> QED BY <2>1, <2>2, <2>5, <2>7, <3>1, <3>2
  <2>8. OutboxOf(d)
    <3>1. Embeds(c, d, at)
      BY <2>4, <2>5, <2>7, <2>9, <2>10, <2>11 DEF Embeds
    <3> QED BY <3>1, SameOutbox DEF Sound
  <2> QED BY <2>4, <2>8, <2>10, <2>11 DEF Sound, d
<1> QED BY <1>1, <1>2

\* What the outbox does not depend on may change.
LEMMA UpdatedSound ==
  ASSUME NEW c, Sound(c), NEW d \in Checkpoints, d.commands = c.commands, d.history = c.history,
         d.ack = c.ack, d.revision = c.revision, d.covered <= d.input, d.start <= Len(d.history)
  PROVE  Sound(d)
BY DEF Sound, OutboxOf, RevisionsOf, LastEntries, InOrder

\* A new last entry comes with the next revision.
LEMMA AppendedSound ==
  ASSUME NEW c, Sound(c), NEW d \in Checkpoints, NEW entry \in Entries,
         NEW command \in AppendCommands,
         d.history = Append(c.history, entry), d.commands = Append(c.commands, command),
         d.revision = c.revision + 1, command.n = d.revision, d.ack = c.ack,
         command.entry = Len(c.history) + 1, d.covered <= d.input, d.start = c.start
  PROVE  Sound(d)
<1> DEFINE last == Len(c.commands) + 1
<1>1. /\ c.commands \in Seq(PendingCommands) /\ c.history \in Seq(Entries)
      /\ command \in PendingCommands
  BY OutboxType DEF Sound, PendingCommands
<1>2. /\ DOMAIN d.commands = 1..last /\ DOMAIN c.commands = 1..(last - 1) /\ last \in Nat
      /\ d.commands[last] = command
      /\ \A i \in DOMAIN c.commands : d.commands[i] = c.commands[i]
      /\ Len(d.history) = Len(c.history) + 1 /\ Len(c.history) \in Nat
  BY <1>1
<1>3. /\ c.ack \in Nat /\ c.revision \in Nat /\ c.ack <= c.revision
      /\ IsNumbered(command) /\ IsAppend(command)
  BY DEF Sound, Checkpoints, AppendCommands, IsNumbered, IsAppend
<1>4. \A i \in DOMAIN d.commands : i = last \/ i \in DOMAIN c.commands
  BY <1>2
<1>5. \A i \in DOMAIN c.commands : i \in DOMAIN d.commands /\ i < last /\ last \in DOMAIN d.commands
  BY <1>2
<1>6. \A i \in DOMAIN c.commands : c.commands[i] \in PendingCommands
  BY <1>1
<1> HIDE DEF last
<1>7. RevisionsOf(d)
  <2>1. \A n \in (d.ack + 1)..d.revision : n = d.revision \/ n \in (c.ack + 1)..c.revision
    BY <1>3
  <2>2. \A n \in (c.ack + 1)..c.revision : n \in (d.ack + 1)..d.revision
    BY <1>3
  <2>3. d.revision \in (d.ack + 1)..d.revision
    BY <1>3
  <2>4. last \in DOMAIN d.commands
    BY <1>2
  <2> QED BY <1>2, <1>3, <1>4, <1>5, <2>1, <2>2, <2>3, <2>4, ZenonT(30)
          DEF Sound, OutboxOf, RevisionsOf
<1>8. InOrder(d)
  <2>1. PICK p \in 0..Len(c.history) : LastEntries(c, p)
    BY DEF Sound, OutboxOf
  <2>2. ASSUME NEW i \in DOMAIN c.commands
        PROVE  /\ IsNumbered(d.commands[i]) => d.commands[i].n < d.commands[last].n
               /\ IsAppend(d.commands[i]) => d.commands[i].entry < d.commands[last].entry
    <3>1. IsNumbered(c.commands[i]) => c.commands[i].n \in (c.ack + 1)..c.revision
      BY DEF Sound, OutboxOf, RevisionsOf
    <3>2. IsAppend(c.commands[i]) => c.commands[i].entry \in (p + 1)..Len(c.history)
      BY <2>1 DEF LastEntries
    <3>3. d.commands[i] = c.commands[i] /\ d.commands[last] = command
      BY <1>2
    <3>4. /\ IsNumbered(c.commands[i]) => c.commands[i].n < command.n
          /\ IsAppend(c.commands[i]) => c.commands[i].entry < command.entry
      BY <1>2, <1>3, <3>1, <3>2, SMTT(30)
    <3> QED BY <3>3, <3>4
  <2>3. ASSUME NEW i \in DOMAIN d.commands, NEW j \in DOMAIN d.commands, i < j
        PROVE  /\ i \in DOMAIN c.commands
               /\ j = last \/ j \in DOMAIN c.commands
    BY <1>2, <2>3
  <2>4. ASSUME NEW i \in DOMAIN d.commands, NEW j \in DOMAIN d.commands, i < j
        PROVE  /\ IsNumbered(d.commands[i]) /\ IsNumbered(d.commands[j])
                    => d.commands[i].n < d.commands[j].n
               /\ IsAppend(d.commands[i]) /\ IsAppend(d.commands[j])
                    => d.commands[i].entry < d.commands[j].entry
    <3>1. CASE j = last
      BY <2>2, <2>3, <2>4, <3>1
    <3>2. CASE j \in DOMAIN c.commands
      BY <1>2, <2>3, <2>4, <3>2 DEF Sound, OutboxOf, InOrder
    <3> QED BY <2>3, <2>4, <3>1, <3>2
  <2> QED BY <2>4 DEF InOrder
<1>9. ASSUME NEW p \in 0..Len(c.history), LastEntries(c, p) PROVE LastEntries(d, p)
  <2>1. \A k \in (p + 1)..Len(d.history) : k = Len(d.history) \/ k \in (p + 1)..Len(c.history)
    BY <1>2
  <2>2. \A k \in (p + 1)..Len(c.history) : k \in (p + 1)..Len(d.history)
    BY <1>2
  <2>3. Len(d.history) \in (p + 1)..Len(d.history) /\ command.entry = Len(d.history)
    BY <1>2
  <2>4. last \in DOMAIN d.commands
    BY <1>2
  <2> QED BY <1>2, <1>3, <1>4, <1>5, <1>9, <2>1, <2>2, <2>3, <2>4, ZenonT(30) DEF LastEntries
<1>10. PICK p \in 0..Len(c.history) : LastEntries(c, p)
  BY DEF Sound, OutboxOf
<1>11. p \in 0..Len(d.history)
  BY <1>2
<1>12. d.ack <= d.revision /\ d.start <= Len(d.history)
  <2>1. c.start \in Nat /\ c.start <= Len(c.history)
    BY DEF Sound, Checkpoints
  <2> QED BY <1>2, <1>3, <2>1, SMTT(30)
<1> QED BY <1>7, <1>8, <1>9, <1>10, <1>11, <1>12 DEF Sound, OutboxOf

\* insert: the message and its command.
LEMMA InsertedSound ==
  ASSUME NEW c, Sound(c), NEW kind \in {"User", "External"}
  PROVE  Sound(Inserted(c, kind)) /\ Inserted(c, kind).state = c.state
<1> DEFINE entry == Entry(kind, c.input + 1, 0)
           command == AppendCommand(c.revision + 1, Len(c.history) + 1, c.input + 1, "Submitted")
           d == Inserted(c, kind)
<1>1. /\ c \in Checkpoints /\ c.input \in Nat /\ c.revision \in Nat /\ Len(c.history) \in Nat
      /\ c.covered \in Nat /\ c.covered <= c.input
  BY OutboxType DEF Sound, Checkpoints
<1>2. entry \in Entries
  BY <1>1 DEF Entry, Entries
<1>3. command \in AppendCommands /\ command.n = c.revision + 1 /\ command.entry = Len(c.history) + 1
  BY <1>1 DEF AppendCommand, AppendCommands
<1>4. Append(c.history, entry) \in Histories /\ Append(c.commands, command) \in Outboxes
  <2>1. command \in PendingCommands
    BY <1>3 DEF PendingCommands
  <2> QED BY <1>1, <1>2, <2>1, OutboxType DEF Histories, Outboxes
<1>5. d = [c EXCEPT !.history = Append(c.history, entry), !.input = c.input + 1, !.needs = TRUE,
                    !.revision = c.revision + 1, !.commands = Append(c.commands, command)]
  BY <1>1 DEF Inserted, WithAppend, Checkpoints
<1> HIDE DEF d, entry, command
<1>6. d \in Checkpoints
  <2>1. c.revision + 1 \in Nat /\ c.input + 1 \in Nat /\ TRUE \in BOOLEAN
    BY <1>1
  <2> DEFINE h == Append(c.history, entry)
             o == Append(c.commands, command)
             n == c.revision + 1
             m == c.input + 1
  <2>2. h \in Histories /\ o \in Outboxes /\ n \in Nat /\ m \in Nat /\ c \in Checkpoints
        /\ d = [c EXCEPT !.history = h, !.input = m, !.needs = TRUE, !.revision = n, !.commands = o]
    BY <1>1, <1>4, <1>5, <2>1
  <2> HIDE DEF h, o, n, m
  <2> QED BY <2>2 DEF Checkpoints
<1>7. /\ d.history = Append(c.history, entry) /\ d.commands = Append(c.commands, command)
      /\ d.revision = c.revision + 1 /\ d.ack = c.ack /\ d.covered = c.covered
      /\ d.input = c.input + 1 /\ d.start = c.start /\ d.state = c.state
  BY <1>1, <1>5 DEF Checkpoints
<1>8. d.covered <= d.input
  BY <1>1, <1>7
<1>9. Sound(d)
  BY <1>2, <1>3, <1>6, <1>7, <1>8, AppendedSound
<1> QED BY <1>7, <1>9 DEF d

\* stage_entries: an output or a completion and its command.
LEMMA WithEntrySound ==
  ASSUME NEW c, Sound(c), NEW entry \in Entries
  PROVE  Sound(WithEntry(c, entry)) /\ WithEntry(c, entry).state = c.state
<1> DEFINE command == AppendCommand(c.revision + 1, Len(c.history) + 1, c.input, "Accepted")
           d == WithEntry(c, entry)
<1>1. /\ c \in Checkpoints /\ c.input \in Nat /\ c.revision \in Nat /\ Len(c.history) \in Nat
      /\ c.covered \in Nat /\ c.covered <= c.input
  BY OutboxType DEF Sound, Checkpoints
<1>3. command \in AppendCommands /\ command.n = c.revision + 1 /\ command.entry = Len(c.history) + 1
  BY <1>1 DEF AppendCommand, AppendCommands
<1>4. Append(c.history, entry) \in Histories /\ Append(c.commands, command) \in Outboxes
  <2>1. command \in PendingCommands
    BY <1>3 DEF PendingCommands
  <2> QED BY <1>1, <2>1, OutboxType DEF Histories, Outboxes
<1>5. d = [c EXCEPT !.history = Append(c.history, entry),
                    !.revision = c.revision + 1, !.commands = Append(c.commands, command)]
  BY <1>1 DEF WithEntry, WithAppend, Checkpoints
<1> HIDE DEF d, command
<1>6. d \in Checkpoints
  <2> DEFINE h == Append(c.history, entry)
             o == Append(c.commands, command)
             n == c.revision + 1
  <2>2. h \in Histories /\ o \in Outboxes /\ n \in Nat /\ c \in Checkpoints
        /\ d = [c EXCEPT !.history = h, !.revision = n, !.commands = o]
    BY <1>1, <1>4, <1>5
  <2> HIDE DEF h, o, n
  <2> QED BY <2>2 DEF Checkpoints
<1>7. /\ d.history = Append(c.history, entry) /\ d.commands = Append(c.commands, command)
      /\ d.revision = c.revision + 1 /\ d.ack = c.ack /\ d.covered = c.covered
      /\ d.input = c.input /\ d.start = c.start /\ d.state = c.state
  BY <1>1, <1>5 DEF Checkpoints
<1>9. Sound(d)
  BY <1>1, <1>3, <1>6, <1>7, AppendedSound
<1> QED BY <1>7, <1>9 DEF d

\* The acknowledged revision was the first one pending, and leaves the outbox.
LEMMA ConfirmedSound ==
  ASSUME NEW c, Sound(c), NEW id \in Ident, id[1] \in {"Append", "Replace"},
         id[2] = c.ack + 1, Places(c.commands, id) # {}
  PROVE  Sound([c EXCEPT !.commands = Dropped(c.commands, id), !.ack = id[2]])
<1> DEFINE d == [c EXCEPT !.commands = Dropped(c.commands, id), !.ack = id[2]]
           k == FirstOf(Places(c.commands, id))
<1>1. k \in 1..Len(c.commands) /\ Id(c.commands[k]) = id
  <2>1. Places(c.commands, id) \in SUBSET (1..Len(c.commands)) /\ Len(c.commands) \in Nat
    BY OutboxType DEF Places, Sound
  <2>2. k \in Places(c.commands, id)
    BY <2>1, FirstIsLeast
  <2> QED BY <2>1, <2>2 DEF Places
<1>2. IsNumbered(c.commands[k]) /\ c.commands[k].n = c.ack + 1
  BY <1>1 DEF IsNumbered, Id
<1>3. /\ RemoveAt(c.commands, k) \in Seq(PendingCommands)
      /\ Len(RemoveAt(c.commands, k)) = Len(c.commands) - 1
      /\ \A i \in 1..(Len(c.commands) - 1) :
           RemoveAt(c.commands, k)[i] = IF i < k THEN c.commands[i] ELSE c.commands[i + 1]
  BY <1>1, OutboxType, Removal DEF Sound
<1>4. /\ d.commands = RemoveAt(c.commands, k)
      /\ d.history = c.history /\ d.ack = c.ack + 1 /\ d.revision = c.revision
      /\ d.covered = c.covered /\ d.input = c.input /\ d.start = c.start
  BY DEF Sound, Dropped, Checkpoints
<1>5. c.ack \in Nat /\ c.revision \in Nat /\ Len(c.commands) \in Nat /\ Len(c.history) \in Nat
  BY OutboxType DEF Sound, Checkpoints
<1>6. d \in Checkpoints
  <2>1. Dropped(c.commands, id) \in Outboxes
    BY <1>3 DEF Dropped, Outboxes
  <2> DEFINE o == Dropped(c.commands, id)
             n == id[2]
  <2>2. o \in Outboxes /\ n \in Nat /\ c \in Checkpoints
        /\ d = [c EXCEPT !.commands = o, !.ack = n]
    BY <1>5, <2>1 DEF Sound
  <2> HIDE DEF o, n
  <2> QED BY <2>2 DEF Checkpoints
<1> HIDE DEF d, k
<1>7. DOMAIN d.commands = 1..(Len(c.commands) - 1) /\ DOMAIN c.commands = 1..Len(c.commands)
  BY <1>3, <1>4, OutboxType DEF Sound
<1>8. \A i \in DOMAIN c.commands : IsNumbered(c.commands[i])
          => c.commands[i].n \in (c.ack + 1)..c.revision
  BY DEF Sound, OutboxOf, RevisionsOf
<1>9. \A i, j \in DOMAIN c.commands : i < j =>
        /\ IsNumbered(c.commands[i]) /\ IsNumbered(c.commands[j])
              => c.commands[i].n < c.commands[j].n
        /\ IsAppend(c.commands[i]) /\ IsAppend(c.commands[j])
              => c.commands[i].entry < c.commands[j].entry
  BY DEF Sound, OutboxOf, InOrder
\* Every other numbered command is behind it.
<1>10. ASSUME NEW i \in DOMAIN c.commands, IsNumbered(c.commands[i]), i # k
       PROVE  k < i /\ c.commands[i].n \in (c.ack + 2)..c.revision
  <2>1. k \in DOMAIN c.commands /\ c.commands[i].n \in (c.ack + 1)..c.revision
    BY <1>1, <1>7, <1>8, <1>10
  <2>2. i < k => c.commands[i].n < c.commands[k].n
    BY <1>2, <1>9, <1>10, <2>1
  <2>3. k < i => c.commands[k].n < c.commands[i].n
    BY <1>2, <1>9, <1>10, <2>1
  <2>4. i \in Nat /\ k \in Nat
    BY <1>1, <1>5, <1>7
  <2>5. k < i
    BY <1>2, <1>5, <1>10, <2>1, <2>2, <2>4
  <2> QED BY <1>2, <1>5, <2>1, <2>3, <2>5
<1>11. ASSUME NEW i \in DOMAIN d.commands, IsNumbered(d.commands[i])
       PROVE  i + 1 \in DOMAIN c.commands /\ d.commands[i] = c.commands[i + 1] /\ k < i + 1
  <2>0. /\ i \in 1..(Len(c.commands) - 1) /\ i \in Nat /\ k \in Nat
        /\ i \in DOMAIN c.commands /\ i + 1 \in DOMAIN c.commands
        /\ d.commands[i] = IF i < k THEN c.commands[i] ELSE c.commands[i + 1]
    BY <1>1, <1>3, <1>4, <1>5, <1>7, SMTT(30)
  <2>1. CASE i < k
    <3>1. d.commands[i] = c.commands[i] /\ i # k
      BY <2>0, <2>1
    <3>2. k < i
      BY <1>10, <1>11, <2>0, <3>1
    <3> QED BY <2>0, <2>1, <3>2
  <2>2. CASE ~(i < k)
    BY <2>0, <2>2
  <2> QED BY <2>1, <2>2
<1>12. ASSUME NEW i \in DOMAIN c.commands, k < i
       PROVE  i - 1 \in DOMAIN d.commands /\ d.commands[i - 1] = c.commands[i]
  <2>1. i - 1 \in 1..(Len(c.commands) - 1) /\ ~(i - 1 < k) /\ (i - 1) + 1 = i
    BY <1>1, <1>5, <1>7, <1>12, SMTT(30)
  <2> QED BY <1>3, <1>4, <1>7, <2>1
<1>13. \A command : IsAppend(command) => IsNumbered(command)
  BY DEF IsAppend, IsNumbered
<1>14. RevisionsOf(d)
  <2>1. ASSUME NEW i \in DOMAIN d.commands, IsNumbered(d.commands[i])
        PROVE  d.commands[i].n \in (d.ack + 1)..d.revision
    <3>1. i + 1 \in DOMAIN c.commands /\ d.commands[i] = c.commands[i + 1] /\ i + 1 # k
      BY <1>1, <1>11, <2>1
    <3>2. d.commands[i].n \in (c.ack + 2)..c.revision
      BY <1>10, <2>1, <3>1
    <3> QED BY <1>4, <1>5, <3>2
  <2>2. ASSUME NEW n \in (d.ack + 1)..d.revision
        PROVE  \E i \in DOMAIN d.commands : IsNumbered(d.commands[i]) /\ d.commands[i].n = n
    <3>1. n \in (c.ack + 1)..c.revision /\ n # c.ack + 1
      BY <1>4, <1>5
    <3>2. PICK i \in DOMAIN c.commands : IsNumbered(c.commands[i]) /\ c.commands[i].n = n
      BY <3>1 DEF Sound, OutboxOf, RevisionsOf
    <3>3. k < i
      BY <1>2, <1>10, <3>1, <3>2
    <3> QED BY <1>12, <3>2, <3>3
  <2> QED BY <2>1, <2>2 DEF RevisionsOf
<1>15. InOrder(d)
  <2>1. ASSUME NEW i \in DOMAIN d.commands, NEW j \in DOMAIN d.commands, i < j,
               IsNumbered(d.commands[i]), IsNumbered(d.commands[j])
        PROVE  /\ i + 1 \in DOMAIN c.commands /\ d.commands[i] = c.commands[i + 1]
               /\ j + 1 \in DOMAIN c.commands /\ d.commands[j] = c.commands[j + 1]
               /\ i + 1 < j + 1
    BY <1>7, <1>11, <2>1, SMTT(30)
  <2> QED BY <1>9, <1>13, <2>1 DEF InOrder
<1>16. PICK p \in 0..Len(c.history) : LastEntries(c, p)
  BY DEF Sound, OutboxOf
<1>17. \E q \in 0..Len(d.history) : LastEntries(d, q)
  <2>1. CASE ~IsAppend(c.commands[k])
    <3>1. ASSUME NEW i \in DOMAIN d.commands, IsAppend(d.commands[i])
          PROVE  d.commands[i].entry \in (p + 1)..Len(d.history)
      BY <1>4, <1>11, <1>13, <1>16, <3>1 DEF LastEntries
    <3>2. ASSUME NEW n \in (p + 1)..Len(d.history)
          PROVE  \E i \in DOMAIN d.commands : IsAppend(d.commands[i]) /\ d.commands[i].entry = n
      <4>1. PICK i \in DOMAIN c.commands : IsAppend(c.commands[i]) /\ c.commands[i].entry = n
        BY <1>4, <1>16 DEF LastEntries
      <4>2. k < i
        BY <1>10, <1>13, <2>1, <4>1
      <4> QED BY <1>12, <4>1, <4>2
    <3> QED BY <1>4, <3>1, <3>2 DEF LastEntries
  <2>2. CASE IsAppend(c.commands[k])
    <3>1. k \in DOMAIN c.commands /\ c.commands[k].entry \in (p + 1)..Len(c.history)
      BY <1>1, <1>7, <1>16, <2>2 DEF LastEntries
    <3>2. ASSUME NEW i \in DOMAIN c.commands, IsAppend(c.commands[i]), i # k
          PROVE  k < i /\ c.commands[k].entry < c.commands[i].entry
      BY <1>9, <1>10, <1>13, <2>2, <3>1, <3>2
    <3>3. c.commands[k].entry = p + 1
      <4>1. p + 1 \in (p + 1)..Len(c.history)
        BY <1>5, <3>1
      <4>2. PICK i \in DOMAIN c.commands : IsAppend(c.commands[i]) /\ c.commands[i].entry = p + 1
        BY <1>16, <4>1 DEF LastEntries
      <4>3. ~(i # k)
        BY <3>1, <3>2, <4>2
      <4> QED BY <4>2, <4>3
    <3>4. p + 1 \in 0..Len(d.history)
      BY <1>4, <1>5, <3>1
    <3>5. ASSUME NEW i \in DOMAIN d.commands, IsAppend(d.commands[i])
          PROVE  d.commands[i].entry \in ((p + 1) + 1)..Len(d.history)
      <4>1. i + 1 \in DOMAIN c.commands /\ d.commands[i] = c.commands[i + 1] /\ i + 1 # k
        BY <1>1, <1>11, <1>13, <3>5
      <4>2. c.commands[i + 1].entry \in (p + 1)..Len(c.history)
        BY <1>16, <3>5, <4>1 DEF LastEntries
      <4>3. p + 1 < c.commands[i + 1].entry
        BY <3>2, <3>3, <3>5, <4>1
      <4> QED BY <1>4, <1>5, <4>1, <4>2, <4>3
    <3>6. ASSUME NEW n \in ((p + 1) + 1)..Len(d.history)
          PROVE  \E i \in DOMAIN d.commands : IsAppend(d.commands[i]) /\ d.commands[i].entry = n
      <4>1. n \in (p + 1)..Len(c.history) /\ n # p + 1
        BY <1>4, <1>5
      <4>2. PICK i \in DOMAIN c.commands : IsAppend(c.commands[i]) /\ c.commands[i].entry = n
        BY <1>16, <4>1 DEF LastEntries
      <4>3. k < i
        BY <3>2, <3>3, <4>1, <4>2
      <4> QED BY <1>12, <4>2, <4>3
    <3> QED BY <3>4, <3>5, <3>6 DEF LastEntries
  <2> QED BY <2>1, <2>2
<1>18. d.ack <= d.revision
  BY <1>1, <1>2, <1>4, <1>5, <1>7, <1>8
<1> QED BY <1>4, <1>6, <1>14, <1>15, <1>17, <1>18 DEF Sound, OutboxOf, d

-----------------------------------------------------------------------------
\* Session events

Events ==
    [kind : {"Ready"}, revision : Nat] \cup [kind : {"Acknowledged"}, id : Ident]
      \cup [kind : {"Started"}, gen : Nat, pos : Nat]
      \cup [kind : {"Output"}, gen : Nat, item : Nat]
      \cup [kind : {"Finished"}, gen : Nat, pos : Nat, status : Statuses] \cup [kind : {"Closed"}]

EventKinds == {"Ready", "Acknowledged", "Started", "Output", "Finished", "Closed"}

\* SessionEventBody: what each kind of event carries.
LEMMA EventTypes ==
  /\ \A e \in Events :
        /\ e.kind \in EventKinds
        /\ e.kind = "Ready" => e.revision \in Nat
        /\ e.kind = "Acknowledged" => e.id \in Ident
        /\ e.kind = "Started" => e.gen \in Nat /\ e.pos \in Nat
        /\ e.kind = "Output" => e.gen \in Nat /\ e.item \in Nat
        /\ e.kind = "Finished" => e.gen \in Nat /\ e.pos \in Nat /\ e.status \in Statuses
  /\ \A n \in Nat : Ready(n) \in Events
  /\ \A id \in Ident : Acknowledged(id) \in Events
  /\ \A gen, pos \in Nat : Started(gen, pos) \in Events
  /\ \A gen, item \in Nat : Output(gen, item) \in Events
  /\ \A gen, pos \in Nat, status \in Statuses : Finished(gen, pos, status) \in Events
  /\ ClosedEvent \in Events
BY DEF Events, EventKinds, Ready, Acknowledged, Started, Output, Finished, ClosedEvent

\* acknowledge_command
LEMMA RetiredSound ==
  ASSUME NEW c, Sound(c), NEW id \in Ident, Places(c.commands, id) # {},
         id[1] \in {"Append", "Replace"} => id[2] = c.ack + 1
  PROVE  Sound(Retired(c, id))
<1>1. CASE id[1] \in {"Append", "Replace"}
  <2>1. Retired(c, id) = [c EXCEPT !.commands = Dropped(c.commands, id), !.ack = id[2]]
    BY <1>1 DEF Retired, Sound, Checkpoints
  <2>2. id[2] = c.ack + 1
    BY <1>1
  <2>3. Sound([c EXCEPT !.commands = Dropped(c.commands, id), !.ack = id[2]])
    BY <1>1, <2>2, ConfirmedSound
  <2> QED BY <2>1, <2>3
<1>2. CASE id[1] \notin {"Append", "Replace"}
  <2> DEFINE d == [c EXCEPT !.commands = Dropped(c.commands, id)]
             n == id[2]
  <2>1. Sound(d)
    BY <1>2, DroppedSound
  <2>2. Retired(c, id) = IF id[1] = "Profile" THEN [d EXCEPT !.profile = n] ELSE d
    BY <1>2 DEF Retired
  <2>3. n \in Nat
    BY DEF Ident
  <2> HIDE DEF d, n
  <2>4. CASE id[1] = "Profile"
    <3>1. d \in Checkpoints /\ [d EXCEPT !.profile = n] \in Checkpoints
      BY <2>1, <2>3 DEF Sound, Checkpoints
    <3> DEFINE e == [d EXCEPT !.profile = n]
    <3>2. /\ e.commands = d.commands /\ e.history = d.history /\ e.ack = d.ack
          /\ e.revision = d.revision /\ e.covered = d.covered /\ e.input = d.input
             /\ e.start = d.start
      BY <3>1 DEF Checkpoints
    <3>3. Sound(e)
      BY <2>1, <3>1, <3>2, UpdatedSound DEF Sound
    <3> QED BY <2>2, <2>4, <3>3
  <2> QED BY <2>1, <2>2, <2>4
<1> QED BY <1>1, <1>2

\* complete_response
LEMMA AnsweredSound ==
  ASSUME NEW c, Sound(c), NEW e, e.pos \in c.covered..c.input, e.status \in Statuses, e.pos \in Nat
  PROVE  Sound(Answered(c, e))
<1> DEFINE d == Answered(c, e)
           needs == e.status = "Continuation" \/ c.input > e.pos
           state == IF e.status = "Failed" THEN "Failed" ELSE c.state
           failure == IF e.status = "Failed" THEN "generation" ELSE c.failure
           status == e.status
           pos == e.pos
<1>1. c \in Checkpoints /\ c.state \in RunStates /\ c.failure \in Failures
  BY DEF Sound, Checkpoints
<1>2. state \in RunStates /\ failure \in Failures /\ needs \in BOOLEAN /\ status \in Responses
      /\ pos \in Nat
  BY <1>1 DEF RunStates, Failures, Responses
<1>3. d = [c EXCEPT !.covered = pos, !.status = status, !.needs = needs, !.state = state,
                    !.failure = failure]
  BY <1>1 DEF Answered, Checkpoints
<1>4. pos <= c.input
  BY <1>1 DEF Checkpoints
<1> HIDE DEF d, needs, state, failure, status, pos
<1>5. d \in Checkpoints
  BY <1>1, <1>2, <1>3 DEF Checkpoints
<1>6. /\ d.commands = c.commands /\ d.history = c.history /\ d.ack = c.ack
      /\ d.revision = c.revision /\ d.covered = pos /\ d.input = c.input /\ d.start = c.start
  BY <1>1, <1>3 DEF Checkpoints
<1>7. Sound(d)
  BY <1>4, <1>5, <1>6, UpdatedSound DEF Sound
<1> QED BY <1>7 DEF d

\* apply_event keeps a sound checkpoint sound.
LEMMA HandledSound ==
  ASSUME NEW c, Sound(c), NEW e \in Events, Expected(c, e)
  PROVE  Sound(Handled(c, e))
<1> DEFINE d == Handled(c, e)
<1>0. c \in Checkpoints /\ e.kind \in EventKinds /\ TRUE \in BOOLEAN /\ c.covered <= c.input
      /\ c.start <= Len(c.history)
  BY EventTypes DEF Sound
<1>1. CASE e.kind = "Ready"
  <2>1. d = [c EXCEPT !.ready = TRUE]
    BY <1>1 DEF Handled
  <2>2. d \in Checkpoints /\ d.commands = c.commands /\ d.history = c.history /\ d.ack = c.ack
        /\ d.revision = c.revision /\ d.covered = c.covered /\ d.input = c.input
           /\ d.start = c.start
    BY <1>0, <2>1, ZenonT(30) DEF Checkpoints
  <2> QED BY <1>0, <2>2, UpdatedSound
<1>2. CASE e.kind = "Started"
  <2>1. d = [c EXCEPT !.started = TRUE]
    BY <1>2 DEF Handled
  <2>2. d \in Checkpoints /\ d.commands = c.commands /\ d.history = c.history /\ d.ack = c.ack
        /\ d.revision = c.revision /\ d.covered = c.covered /\ d.input = c.input
           /\ d.start = c.start
    BY <1>0, <2>1, ZenonT(30) DEF Checkpoints
  <2> QED BY <1>0, <2>2, UpdatedSound
<1>3. CASE e.kind = "Acknowledged"
  <2>1. d = Retired(c, e.id) /\ e.id \in Ident
    BY <1>3, EventTypes DEF Handled
  <2>2. Places(c.commands, e.id) # {} /\ (e.id[1] \in {"Append", "Replace"} => e.id[2] = c.ack + 1)
    BY <1>3 DEF Expected
  <2> QED BY <2>1, <2>2, RetiredSound
<1>4. CASE e.kind = "Output"
  BY <1>4 DEF Handled
<1>5. CASE e.kind = "Finished"
  <2>1. d = Answered(c, e) /\ e.status \in Statuses /\ e.pos \in Nat
    BY <1>5, EventTypes DEF Handled
  <2>2. e.pos \in c.covered..c.input
    BY <1>5 DEF Expected
  <2> QED BY <2>1, <2>2, AnsweredSound
<1>6. CASE e.kind = "Closed"
  <2>1. d = [c EXCEPT !.closure = TRUE, !.inputClosed = TRUE]
    BY <1>6 DEF Handled
  <2>2. d \in Checkpoints /\ d.commands = c.commands /\ d.history = c.history /\ d.ack = c.ack
        /\ d.revision = c.revision /\ d.covered = c.covered /\ d.input = c.input
           /\ d.start = c.start
    BY <1>0, <2>1, ZenonT(30) DEF Checkpoints
  <2> QED BY <1>0, <2>2, UpdatedSound
<1> QED BY <1>0, <1>1, <1>2, <1>3, <1>4, <1>5, <1>6 DEF EventKinds

\* The entry an output or a completion adds keeps the outbox complete
\* (stage_entries).
LEMMA RecordedSound ==
  ASSUME NEW c, Sound(c), NEW e \in Events
  PROVE  Sound(Recorded(c, e))
<1>1. CASE e.kind = "Output"
  <2>1. Entry("Output", e.gen, e.item) \in Entries
    BY <1>1, EventTypes DEF Entry, Entries
  <2> QED BY <1>1, <2>1, WithEntrySound DEF Recorded
<1>2. CASE e.kind = "Finished"
  <2>1. Entry("Finished", e.gen, 0) \in Entries
    BY <1>2, EventTypes DEF Entry, Entries
  <2> QED BY <1>2, <2>1, WithEntrySound DEF Recorded
<1>3. CASE e.kind \notin {"Output", "Finished"}
  BY <1>3 DEF Recorded
<1> QED BY <1>1, <1>2, <1>3

-----------------------------------------------------------------------------
\* What the engine does to the checkpoint

\* prepare_generation: the generation and its command.
LEMMA GeneratedSound ==
  ASSUME NEW c, Sound(c)
  PROVE  Sound(Generated(c))
<1> DEFINE n == c.gen + 1
           last == Len(c.history)
           m == c.input
           d == [c EXCEPT !.gen = n, !.started = FALSE, !.status = None, !.needs = FALSE,
                          !.covered = m, !.start = last]
<1>1. c \in Checkpoints /\ n \in Nat /\ last \in Nat /\ m \in Nat /\ None \in Responses
      /\ FALSE \in BOOLEAN
  BY OutboxType DEF Sound, Checkpoints, Responses
<1>2. Generated(c) = Prepared(d, GenerateCommand(d))
  BY DEF Generated
<1>3. /\ d \in Checkpoints /\ d.commands = c.commands /\ d.history = c.history
      /\ d.ack = c.ack /\ d.revision = c.revision /\ d.covered = m /\ d.input = m
      /\ d.start = last
  <2> HIDE DEF n, last
  <2> QED BY <1>1 DEF Checkpoints
<1>4. last = Len(d.history) /\ last <= last /\ m <= m
  BY <1>1, <1>3
<1> HIDE DEF d, n, last, m
<1>5. Sound(d)
  BY <1>3, <1>4, UpdatedSound
<1>6. GenerateCommand(d) \in PendingCommands /\ ~IsNumbered(GenerateCommand(d))
  BY <1>3 DEF Checkpoints, GenerateCommand, PendingCommands, GenerateCommands, IsNumbered
<1> QED BY <1>2, <1>5, <1>6, PreparedSound

\* The reducer: one summary, one Replace.
LEMMA ReducedSound ==
  ASSUME NEW c, Sound(c), c.commands = <<>>
  PROVE  LET revision == c.revision + 1
         IN  Sound([c EXCEPT !.history = <<Entry("Summary", revision, 0)>>, !.start = 1,
                             !.revision = revision, !.reduced = revision,
                             !.commands = Append(c.commands, Plain("Replace", revision))])
<1> DEFINE n == c.revision + 1
           h == <<Entry("Summary", n, 0)>>
           o == Append(c.commands, Plain("Replace", n))
           d == [c EXCEPT !.history = h, !.start = 1, !.revision = n, !.reduced = n, !.commands = o]
<1>1. c \in Checkpoints /\ c.revision \in Nat /\ c.ack \in Nat /\ c.ack <= c.revision /\ n \in Nat
  BY DEF Sound, Checkpoints
<1>2. Plain("Replace", n) \in PendingCommands /\ n \in Cursors /\ Len(h) = 1
  BY <1>1, CommandTypes DEF Cursors
<1>3. h \in Histories
  BY <1>1 DEF Histories, Entries, Entry
<1>4. o \in Outboxes /\ DOMAIN o = {1} /\ o[1] = Plain("Replace", n)
  <2>1. o = <<Plain("Replace", n)>>
    OBVIOUS
  <2> QED BY <1>2, <2>1 DEF Outboxes
<1> HIDE DEF h, o
<1>5. /\ d \in Checkpoints /\ d.history = h /\ d.start = 1 /\ d.revision = n /\ d.commands = o
      /\ d.ack = c.ack /\ d.covered = c.covered /\ d.input = c.input
  <2> HIDE DEF n
  <2> QED BY <1>1, <1>2, <1>3, <1>4 DEF Checkpoints
<1>6. c.ack = c.revision
  <2>1. ~(c.ack < c.revision)
    <3>1. ASSUME c.ack < c.revision PROVE FALSE
      <4>1. c.ack + 1 \in (c.ack + 1)..c.revision
        BY <1>1, <3>1
      <4>2. DOMAIN c.commands = {}
        OBVIOUS
      <4> QED BY <4>1, <4>2 DEF Sound, OutboxOf, RevisionsOf
    <3> QED BY <3>1
  <2> QED BY <1>1, <2>1
<1> HIDE DEF d
<1>7. \A i \in DOMAIN d.commands : d.commands[i].intent = "Replace" /\ d.commands[i].n = n
  BY <1>4, <1>5 DEF Plain
<1>8. RevisionsOf(d) /\ InOrder(d)
  <2>1. \A m \in (d.ack + 1)..d.revision : m = n
    BY <1>1, <1>5, <1>6
  <2>2. n \in (d.ack + 1)..d.revision /\ 1 \in DOMAIN d.commands
    BY <1>1, <1>4, <1>5, <1>6
  <2>3. RevisionsOf(d)
    BY <1>7, <2>1, <2>2 DEF RevisionsOf, IsNumbered
  <2>4. \A i, j \in DOMAIN d.commands : ~(i < j)
    BY <1>4, <1>5
  <2> QED BY <2>3, <2>4 DEF InOrder
<1>9. LastEntries(d, 1) /\ 1 \in 0..Len(d.history)
  <2>1. Len(d.history) = 1
    BY <1>2, <1>5
  <2>2. \A i \in DOMAIN d.commands : ~IsAppend(d.commands[i])
    BY <1>7 DEF IsAppend
  <2>3. \A k \in (1 + 1)..Len(d.history) : FALSE
    BY <2>1
  <2> QED BY <2>1, <2>2, <2>3 DEF LastEntries
<1>10. d.ack <= d.revision /\ d.start <= Len(d.history)
  <2>1. Len(d.history) = 1 /\ d.revision = c.revision + 1 /\ d.ack = c.revision
    BY <1>2, <1>5, <1>6 DEF n
  <2> QED BY <1>1, <1>5, <2>1
<1>11. d.covered <= d.input
  BY <1>5 DEF Sound
<1>12. Sound(d)
  BY <1>5, <1>8, <1>9, <1>10, <1>11 DEF Sound, OutboxOf
<1> QED BY <1>12 DEF d, h, o

\* The host gives up the generation.
LEMMA AbandonedSound ==
  ASSUME NEW c, Sound(c)
  PROVE  Sound(Abandoned(c))
<1> DEFINE id == <<"Generate", c.gen>>
           d == [c EXCEPT !.commands = Dropped(c.commands, id)]
           e == [d EXCEPT !.status = "Continuation", !.needs = TRUE]
<1>1. id \in Ident /\ id[1] \notin {"Append", "Replace"}
  BY DEF Sound, Checkpoints, Ident, IntentNames
<1>2. Sound(d)
  BY <1>1, DroppedSound
<1>3. Abandoned(c) = e
  BY DEF Sound, Abandoned
<1>4. "Continuation" \in Responses /\ TRUE \in BOOLEAN
  BY DEF Responses
<1> HIDE DEF d
<1>5. e \in Checkpoints /\ e.commands = d.commands /\ e.history = d.history /\ e.ack = d.ack
      /\ e.revision = d.revision /\ e.covered = d.covered /\ e.input = d.input /\ e.start = d.start
  BY <1>2, <1>4 DEF Sound, Checkpoints
<1>6. Sound(e)
  BY <1>2, <1>5, UpdatedSound DEF Sound
<1> QED BY <1>3, <1>6

\* Fields the outbox does not depend on.
LEMMA FieldsSound ==
  ASSUME NEW c, Sound(c)
  PROVE  /\ \A state \in RunStates : Sound([c EXCEPT !.state = state])
         /\ \A state \in RunStates, failure \in Failures :
               Sound([c EXCEPT !.state = state, !.failure = failure])
         /\ Sound([c EXCEPT !.ready = FALSE, !.cursor = None])
         /\ \A n \in Nat : Sound([c EXCEPT !.cursor = n])
         /\ \A n \in Nat : Sound([c EXCEPT !.inputClosed = TRUE, !.seals = n])
         /\ Sound([c EXCEPT !.closing = TRUE])
<1>1. /\ c \in Checkpoints /\ TRUE \in BOOLEAN /\ FALSE \in BOOLEAN /\ None \in Cursors
      /\ c.covered <= c.input /\ c.start <= Len(c.history)
      /\ \A n \in Nat : n \in Cursors
  BY DEF Sound, Cursors
<1> DEFINE Same(d) == /\ d \in Checkpoints /\ d.commands = c.commands /\ d.history = c.history
                      /\ d.ack = c.ack /\ d.revision = c.revision /\ d.covered = c.covered
                      /\ d.input = c.input /\ d.start = c.start
<1>2. ASSUME NEW d, Same(d) PROVE Sound(d)
  BY <1>1, <1>2, UpdatedSound
<1>3. ASSUME NEW state \in RunStates, NEW failure \in Failures, NEW n \in Nat
      PROVE  /\ Same([c EXCEPT !.state = state])
             /\ Same([c EXCEPT !.state = state, !.failure = failure])
             /\ Same([c EXCEPT !.ready = FALSE, !.cursor = None])
             /\ Same([c EXCEPT !.cursor = n])
             /\ Same([c EXCEPT !.inputClosed = TRUE, !.seals = n])
             /\ Same([c EXCEPT !.closing = TRUE])
  <2>1. Same([c EXCEPT !.state = state])
    BY <1>1 DEF Checkpoints
  <2>2. Same([c EXCEPT !.state = state, !.failure = failure])
    BY <1>1 DEF Checkpoints
  <2>3. Same([c EXCEPT !.ready = FALSE, !.cursor = None])
    BY <1>1 DEF Checkpoints
  <2>4. Same([c EXCEPT !.cursor = n])
    BY <1>1 DEF Checkpoints
  <2>5. Same([c EXCEPT !.inputClosed = TRUE, !.seals = n])
    BY <1>1 DEF Checkpoints
  <2>6. Same([c EXCEPT !.closing = TRUE])
    BY <1>1 DEF Checkpoints
  <2> QED BY <2>1, <2>2, <2>3, <2>4, <2>5, <2>6
<1> HIDE DEF Same
<1>4. "Running" \in RunStates /\ None \in Failures /\ 0 \in Nat
  BY DEF RunStates, Failures
<1> QED BY <1>2, <1>3, <1>4, Zenon

-----------------------------------------------------------------------------
\* The shape of the rest of the state

\* What a command carries once it is sent.
Carried ==
    [intent : {"Append"}, n : Nat, entry : Entries, pos : Nat, source : {"Accepted", "Submitted"}]
      \cup GenerateCommands
      \cup [intent : {"Replace"}, n : Nat, entries : Histories]
      \cup [intent : {"Profile", "Seal", "Close"}, n : Nat]
Batches == UNION {[places -> Carried] : places \in SUBSET Nat}

Results == {"ok", "error", "uncertain", "protocol"}
Items == [type : {"Event"}, sequence : Nat, body : Events] \cup [type : {"Ended"}, result : Results]
           \cup [type : {"CommandSent"}, result : {"ok", "error"}]

Calls == [gen : Nat, pos : Nat, content : Histories]
UpSessions ==
    [phase : {"up"}, controls : Seq(Events), sending : Events \cup {None}, generating : BOOLEAN,
     active : Calls \cup {None}, finishing : Seq(Events), closing : BOOLEAN, sealed : BOOLEAN,
     seed : Histories, history : Histories, revision : Nat, position : Nat, profile : Nat,
     sequence : Nat]
EndedSessions == [phase : {"ended"}, result : Results \cup {None}]

\* ResponseStarted waits behind its acknowledgement, for a call not made yet.
Sends(s, kind) == s.sending # None /\ s.sending.kind = kind
StartPending(s) ==
  Sends(s, "Started") \/ \E i \in DOMAIN s.controls : s.controls[i].kind = "Started"
CallOrder(s) ==
    /\ \A i \in DOMAIN s.controls : s.controls[i].kind = "Started" => i = Len(s.controls)
    /\ Sends(s, "Started") => s.controls = <<>>
    /\ StartPending(s) => s.active # None /\ ~s.generating
    /\ s.generating => s.active # None
    /\ \A i \in DOMAIN s.finishing : OfResponse(s.finishing[i])
SessionShape(s) == \/ s = Absent
                   \/ s \in EndedSessions
                   \/ s \in UpSessions /\ CallOrder(s)

EnginePlaces == {"catalog", "recover", "open", "opening", "dispatch", "advance", "idle", "batch",
            "suspending", "failing"}
Resumptions == [abandon : BOOLEAN, message : {None, "User", "External"}]
Stagings == [cp : Checkpoints, next : {"dispatch", "suspending", "failing"}, events : Nat]
UpEngines ==
    [pc : EnginePlaces, request : Resumptions \cup {None}, open : UpSessions \cup {None},
     sent : SUBSET Ident, sending : BOOLEAN, batch : Batches, staged : Stagings \cup {None},
     stash : Items \cup {None}]
PlaceShape(e) ==
    /\ e.pc = "recover" => e.request \in Resumptions
    /\ e.pc = "opening" => e.open \in UpSessions /\ CallOrder(e.open)
    /\ e.pc = "batch" => e.staged \in Stagings /\ Sound(e.staged.cp)
EngineShape(e) == e = Down \/ (e \in UpEngines /\ PlaceShape(e))

Shape ==
    /\ Sound(cp)
    /\ EngineShape(eng)
    /\ commands \in Seq(Carried)
    /\ work \in Seq(Items)
    /\ SessionShape(session)
    /\ asked \in Seq([gen : Nat, content : Histories])

\* SessionCommand: what a command carries once command_body has read it.
LEMMA CarriedTypes ==
  \A c \in Carried :
    /\ c.intent \in IntentNames /\ c.n \in Nat /\ Id(c) \in Ident
    /\ c.intent = "Append" => c.entry \in Entries /\ c.pos \in Nat
    /\ c.intent = "Generate" => c.pos \in Nat
    /\ c.intent = "Replace" => c.entries \in Histories
BY DEF Carried, GenerateCommands, IntentNames, Id, Ident

\* Work: an event, the session's end, or the report of a submission.
LEMMA ItemTypes ==
  /\ \A item \in Items :
        /\ item.type \in {"Event", "Ended", "CommandSent"}
        /\ item.type = "Event" => item.sequence \in Nat /\ item.body \in Events
        /\ item.type # "Event" => item.result \in Results
  /\ \A sequence \in Nat, body \in Events : EventItem(sequence, body) \in Items
  /\ \A result \in Results : EndItem(result) \in Items
  /\ \A result \in {"ok", "error"} : SentItem(result) \in Items
BY DEF Items, EventItem, EndItem, SentItem, Results

\* The fields of a session task that is up.
LEMMA SessionTypes ==
  \A s \in UpSessions :
    /\ s.phase = "up" /\ s.controls \in Seq(Events) /\ s.sending \in Events \cup {None}
    /\ s.generating \in BOOLEAN /\ s.active \in Calls \cup {None} /\ s.finishing \in Seq(Events)
    /\ s.closing \in BOOLEAN /\ s.sealed \in BOOLEAN /\ s.seed \in Histories
    /\ s.history \in Histories /\ s.revision \in Nat /\ s.position \in Nat /\ s.profile \in Nat
    /\ s.sequence \in Nat
BY DEF UpSessions

\* A call in progress is not None.
LEMMA CallsAreCalls ==
  /\ None \notin Calls
  /\ \A call \in Calls : call.gen \in Nat /\ call.pos \in Nat /\ call.content \in Histories
BY NoneIsNoValue DEF Calls, Histories, Entries

\* The three parts of a session that has ended or is absent.
LEMMA IdleShape ==
  /\ SessionShape(Absent)
  /\ \A result \in Results \cup {None} : SessionShape(Ended(result))
     /\ Ended(result).phase = "ended"
BY DEF SessionShape, Ended, EndedSessions

\* The top of the session's loop.
LEMMA StageShape ==
  ASSUME NEW s \in UpSessions, CallOrder(s)
  PROVE  SessionShape(Stage(s))
<1>0. /\ s.controls \in Seq(Events) /\ s.finishing \in Seq(Events)
  BY SessionTypes
<1>1. CASE s.sending # None
  BY <1>1 DEF Stage, SessionShape
<1>2. CASE s.sending = None /\ s.controls # <<>>
  <2> DEFINE h == Head(s.controls)
             r == Tail(s.controls)
             t == [s EXCEPT !.sending = h, !.controls = r]
  <2>1. /\ h \in Events /\ r \in Seq(Events) /\ h = s.controls[1] /\ 1 \in DOMAIN s.controls
        /\ Len(r) = Len(s.controls) - 1 /\ DOMAIN r = 1..(Len(s.controls) - 1)
        /\ \A i \in DOMAIN r : r[i] = s.controls[i + 1] /\ i + 1 \in DOMAIN s.controls
        /\ Len(s.controls) \in Nat
    BY <1>0, <1>2
  <2>2. Stage(s) = t
    BY <1>2 DEF Stage
  <2>3. h.kind = "Started" => r = <<>>
    <3>1. h.kind = "Started" => Len(s.controls) = 1
      BY <2>1 DEF CallOrder
    <3> QED BY <2>1, <3>1
  <2>6. \A i \in DOMAIN r : r[i].kind = "Started" => i = Len(r)
    <3>1. ASSUME NEW i \in DOMAIN r, r[i].kind = "Started" PROVE i = Len(r)
      <4>1. i + 1 = Len(s.controls)
        BY <2>1, <3>1 DEF CallOrder
      <4> QED BY <2>1, <4>1
    <3> QED BY <3>1
  <2>7. (h.kind = "Started" \/ \E i \in DOMAIN r : r[i].kind = "Started") => StartPending(s)
    BY <2>1 DEF StartPending
  <2> HIDE DEF h, r
  <2>4. t \in UpSessions /\ t.sending = h /\ t.controls = r /\ t.active = s.active
        /\ t.generating = s.generating /\ t.finishing = s.finishing
    BY <2>1 DEF UpSessions
  <2> HIDE DEF t
  <2>5. CallOrder(t)
    BY <2>3, <2>4, <2>6, <2>7 DEF CallOrder, Sends, StartPending
  <2> QED BY <2>2, <2>4, <2>5 DEF SessionShape
<1>3. CASE s.sending = None /\ s.controls = <<>> /\ s.finishing # <<>>
  <2> DEFINE h == Head(s.finishing)
             r == Tail(s.finishing)
             t == [s EXCEPT !.sending = h, !.finishing = r]
  <2>1. /\ h \in Events /\ r \in Seq(Events) /\ h = s.finishing[1] /\ 1 \in DOMAIN s.finishing
        /\ \A i \in DOMAIN r : r[i] = s.finishing[i + 1] /\ i + 1 \in DOMAIN s.finishing
    BY <1>0, <1>3
  <2>2. Stage(s) = t
    BY <1>3 DEF Stage
  <2>3. h.kind # "Started" /\ \A i \in DOMAIN r : OfResponse(r[i])
    <3>1. OfResponse(h)
      BY <2>1 DEF CallOrder
    <3>2. \A i \in DOMAIN r : OfResponse(r[i])
      BY <2>1 DEF CallOrder
    <3> QED BY <3>1, <3>2 DEF OfResponse
  <2> HIDE DEF h, r
  <2>4. t \in UpSessions /\ t.sending = h /\ t.controls = <<>> /\ t.active = s.active
        /\ t.generating = s.generating /\ t.finishing = r
    BY <1>3, <2>1 DEF UpSessions
  <2> HIDE DEF t
  <2>5. CallOrder(t)
    BY <2>3, <2>4 DEF CallOrder, Sends, StartPending
  <2> QED BY <2>2, <2>4, <2>5 DEF SessionShape
<1>4. CASE s.sending = None /\ s.controls = <<>> /\ s.finishing = <<>> /\ s.closing
  <2>1. Stage(s) = Ended("ok")
    BY <1>4 DEF Stage, Ended
  <2> QED BY <2>1, IdleShape DEF Results
<1>5. CASE s.sending = None /\ s.controls = <<>> /\ s.finishing = <<>> /\ ~s.closing
  BY <1>5 DEF Stage, SessionShape
<1> QED BY <1>1, <1>2, <1>3, <1>4, <1>5

\* open: a session with its seed and Ready on the way.
LEMMA SessionTaskShape ==
  ASSUME NEW seed \in Histories, NEW revision \in Nat, NEW position \in Nat, NEW profile \in Nat
  PROVE  LET s == SessionTask(seed, revision, position, profile)
         IN  s \in UpSessions /\ CallOrder(s)
<1> DEFINE s == SessionTask(seed, revision, position, profile)
<1>1. Ready(revision) \in Events /\ Ready(revision).kind = "Ready"
  BY EventTypes DEF Ready
<1>2. <<>> \in Seq(Events) /\ <<>> \in Histories /\ DOMAIN <<>> = {}
  BY DEF Histories
<1>3. s \in UpSessions
  BY <1>1, <1>2 DEF SessionTask, UpSessions
<1>4. /\ s.controls = <<>> /\ s.sending = Ready(revision) /\ s.finishing = <<>>
      /\ s.generating = FALSE
  BY DEF SessionTask
<1> HIDE DEF s
<1>5. CallOrder(s)
  BY <1>1, <1>2, <1>4 DEF CallOrder, Sends, StartPending
<1> QED BY <1>3, <1>5 DEF s

-----------------------------------------------------------------------------
\* The session's steps keep the shape

\* A phase says which kind of session it is.
LEMMA UpIsUp ==
  ASSUME NEW s, SessionShape(s)
  PROVE  /\ s.phase = "up" => s \in UpSessions /\ CallOrder(s)
         /\ s.phase = "ended" => s \in EndedSessions
BY DEF SessionShape, Absent, EndedSessions, UpSessions

\* What is queued stays typed.
LEMMA QueueTypes ==
  ASSUME NEW T, NEW q \in Seq(T)
  PROVE  /\ \A x \in T : Append(q, x) \in Seq(T)
         /\ q # <<>> => Head(q) \in T /\ Tail(q) \in Seq(T)
         /\ \A i \in DOMAIN q : q[i] \in T
OBVIOUS

\* The session after its task sent what it was sending, after the model
\* returned, and after a command was applied, each before the top of the loop.
SentOff(s) ==
    [s EXCEPT !.sending = None, !.sequence = s.sequence + 1,
              !.generating = s.generating \/ s.sending.kind = "Started"]
Returned(s, n, status) ==
    [s EXCEPT !.generating = FALSE, !.active = None,
              !.finishing = [i \in 1..n |-> Output(s.active.gen, i)]
                               \o <<Finished(s.active.gen, s.active.pos, status)>>]
Commanded(s, c) == [Applied(s, c) EXCEPT !.controls = Answer(c)]

\* Delivering an event starts a call only when one waits for it.
LEMMA SentOffOrder ==
  ASSUME NEW s \in UpSessions, CallOrder(s), s.sending # None
  PROVE  LET t == SentOff(s)
         IN  /\ t \in UpSessions /\ CallOrder(t)
             /\ t.sending = None /\ t.controls = s.controls /\ t.active = s.active
             /\ t.generating = (s.generating \/ s.sending.kind = "Started")
             /\ s.sending.kind = "Started" => s.active \in Calls
<1> DEFINE e == s.sending
           starts == e.kind = "Started"
           n == s.sequence + 1
           g == s.generating \/ starts
           t == [s EXCEPT !.sending = None, !.sequence = n, !.generating = g]
<1>2. /\ e \in Events /\ s.sequence \in Nat /\ n \in Nat /\ g \in BOOLEAN
      /\ s.active \in Calls \cup {None} /\ s.controls \in Seq(Events)
  BY SessionTypes
<1>3. starts => s.active \in Calls /\ s.controls = <<>> /\ s.active # None
  BY <1>2 DEF CallOrder, StartPending, Sends
<1>4. t \in UpSessions /\ t.sending = None /\ t.controls = s.controls
      /\ t.active = s.active /\ t.generating = g /\ t.finishing = s.finishing
  <2> HIDE DEF n, g
  <2> QED BY <1>2 DEF UpSessions
<1>5. CallOrder(t)
  <2>1. ~Sends(t, "Started")
    BY <1>4 DEF Sends
  <2>2. \A i \in DOMAIN t.controls : t.controls[i].kind = "Started" => i = Len(t.controls)
    BY <1>4 DEF CallOrder
  <2>3. StartPending(t) => t.active # None /\ ~t.generating
    <3>1. CASE starts
      <4>1. DOMAIN t.controls = {}
        BY <1>3, <1>4, <3>1
      <4> QED BY <2>1, <4>1 DEF StartPending
    <3>2. CASE ~starts
      <4> HIDE DEF t
      <4> QED BY <1>4, <2>1, <3>2 DEF CallOrder, StartPending
    <3> QED BY <3>1, <3>2
  <2>4. t.generating => t.active # None
    BY <1>3, <1>4 DEF CallOrder
  <2>5. \A i \in DOMAIN t.finishing : OfResponse(t.finishing[i])
    BY <1>4 DEF CallOrder
  <2> HIDE DEF t
  <2> QED BY <2>1, <2>2, <2>3, <2>4, <2>5 DEF CallOrder
<1>6. SentOff(s) = t
  BY DEF SentOff
<1> HIDE DEF t
<1> QED BY <1>3, <1>4, <1>5, <1>6

\* Deliver: the event goes to the work queue, and a started call is recorded.
LEMMA DeliverShape ==
  ASSUME Shape, Deliver, UNCHANGED <<cp, eng>>
  PROVE  Shape'
<1> DEFINE e == session.sending
           starts == e.kind = "Started"
           t == SentOff(session)
<1>1. session \in UpSessions /\ CallOrder(session) /\ e # None
  BY UpIsUp DEF Shape, Deliver
<1>2. e \in Events /\ session.sequence \in Nat
  BY <1>1, SessionTypes
<1>3. t \in UpSessions /\ CallOrder(t) /\ (starts => session.active \in Calls)
  BY <1>1, SentOffOrder
<1>6. session' = Stage(t) /\ work' = Append(work, EventItem(session.sequence, e))
      /\ commands' = commands
  BY DEF Deliver, SentOff
<1>7. EventItem(session.sequence, e) \in Items
  BY <1>2, ItemTypes
<1>8. asked' \in Seq([gen : Nat, content : Histories])
  <2>1. CASE starts
    <3>1. asked' = Append(asked, [gen |-> session.active.gen, content |-> session.active.content])
      BY <2>1 DEF Deliver
    <3>2. [gen |-> session.active.gen, content |-> session.active.content]
             \in [gen : Nat, content : Histories]
      BY <1>3, <2>1, CallsAreCalls
    <3> QED BY <3>1, <3>2 DEF Shape
  <2>2. CASE ~starts
    BY <2>2 DEF Deliver, Shape
  <2> QED BY <2>1, <2>2
<1> HIDE DEF t, e, starts
<1>9. SessionShape(session')
  BY <1>3, <1>6, StageShape
<1>10. work' \in Seq(Items)
  BY <1>6, <1>7, QueueTypes DEF Shape
<1> QED BY <1>6, <1>8, <1>9, <1>10 DEF Shape

\* A model call that returned leaves only its response to send.
LEMMA ReturnedOrder ==
  ASSUME NEW s \in UpSessions, CallOrder(s), s.generating, NEW n \in Outputs,
         NEW status \in Statuses
  PROVE  LET t == Returned(s, n, status)
         IN  /\ t \in UpSessions /\ CallOrder(t)
             /\ t.sending = s.sending /\ t.controls = s.controls /\ t.active = None
<1> DEFINE gen == s.active.gen
           pos == s.active.pos
           outs == [i \in 1..n |-> Output(gen, i)]
           last == Finished(gen, pos, status)
           f == outs \o <<last>>
           t == [s EXCEPT !.generating = FALSE, !.active = None, !.finishing = f]
<1>3. s.active \in Calls /\ ~StartPending(s) /\ s.controls \in Seq(Events)
  BY SessionTypes DEF CallOrder
<1>4. gen \in Nat /\ pos \in Nat /\ n \in Nat
  BY <1>3, CallsAreCalls, ExchangeConstants
<1>5. /\ last \in Events /\ OfResponse(last)
      /\ \A i \in Nat : Output(gen, i) \in Events /\ OfResponse(Output(gen, i))
  BY <1>4, EventTypes DEF OfResponse, Output, Finished
<1>6. outs \in Seq(Events) /\ Len(outs) = n /\ \A i \in 1..n : OfResponse(outs[i])
  BY <1>4, <1>5
<1> HIDE DEF outs, last, gen, pos
<1>7. /\ f \in Seq(Events) /\ Len(f) = n + 1
      /\ \A i \in 1..(n + 1) : f[i] = IF i <= n THEN outs[i] ELSE last
  <2>1. <<last>> \in Seq(Events) /\ Len(<<last>>) = 1 /\ <<last>>[1] = last
    BY <1>5
  <2>2. /\ outs \o <<last>> \in Seq(Events)
        /\ Len(outs \o <<last>>) = Len(outs) + Len(<<last>>)
        /\ \A i \in 1..(Len(outs) + Len(<<last>>)) :
             (outs \o <<last>>)[i] = IF i <= Len(outs) THEN outs[i] ELSE <<last>>[i - Len(outs)]
    BY <1>6, <2>1, ConcatProperties, Zenon
  <2>3. \A i \in 1..(n + 1) : ~(i <= n) => i - n = 1
    BY <1>4
  <2> QED BY <1>6, <2>1, <2>2, <2>3
<1>8. \A i \in DOMAIN f : OfResponse(f[i])
  BY <1>4, <1>5, <1>6, <1>7
<1> HIDE DEF f
<1>9. t \in UpSessions /\ t.sending = s.sending /\ t.controls = s.controls
      /\ t.active = None /\ t.generating = FALSE /\ t.finishing = f
  BY <1>7 DEF UpSessions
<1>10. Returned(s, n, status) = t
  BY DEF Returned, f, outs, last, gen, pos
<1> HIDE DEF t
<1>11. CallOrder(t)
  BY <1>3, <1>8, <1>9 DEF CallOrder, StartPending, Sends
<1> QED BY <1>9, <1>10, <1>11

\* Respond: the outputs and the completion wait to be sent.
LEMMA RespondShape ==
  ASSUME Shape, Respond, UNCHANGED <<cp, eng>>
  PROVE  Shape'
<1>1. session \in UpSessions /\ CallOrder(session) /\ session.generating
  BY UpIsUp DEF Shape, Respond
<1>2. PICK n \in Outputs, status \in Statuses : session' = Stage(Returned(session, n, status))
  BY DEF Respond, Returned
<1>3. SessionShape(session')
  BY <1>1, <1>2, ReturnedOrder, StageShape
<1> QED BY <1>3 DEF Shape, Respond

\* SessionTask::command: what the task does with a command it accepts.
LEMMA CommandedOrder ==
  ASSUME NEW s \in UpSessions, CallOrder(s), NEW c \in Carried, Accepts(s, c),
         s.controls = <<>>, s.sending # None => OfResponse(s.sending)
  PROVE  LET t == Commanded(s, c)
         IN  /\ t \in UpSessions /\ CallOrder(t)
             /\ t.sending = s.sending /\ t.controls = Answer(c)
             /\ t.active = (IF c.intent = "Generate"
                              THEN [gen |-> c.n, pos |-> c.pos, content |-> Projection(s)]
                              ELSE s.active)
             /\ c.intent = "Generate" => s.active = None /\ t.active \in Calls
             /\ t.generating = s.generating
             /\ \A i \in DOMAIN Answer(c) :
                  /\ Answer(c)[i].kind = "Started" => c.intent = "Generate"
                  /\ Answer(c)[i].kind = "Closed" => c.intent = "Close"
<1> DEFINE a == Applied(s, c)
           t == [a EXCEPT !.controls = Answer(c)]
           call == [gen |-> c.n, pos |-> c.pos, content |-> Projection(s)]
<1>1. ~Sends(s, "Started") /\ ~StartPending(s)
  <2>1. ~Sends(s, "Started")
    BY DEF Sends, OfResponse
  <2>2. DOMAIN s.controls = {}
    OBVIOUS
  <2> QED BY <2>1, <2>2 DEF StartPending
<1>2. /\ c.intent \in IntentNames /\ c.n \in Nat /\ Id(c) \in Ident
      /\ c.intent = "Append" => c.entry \in Entries /\ c.pos \in Nat
      /\ c.intent = "Generate" => c.pos \in Nat
      /\ c.intent = "Replace" => c.entries \in Histories
  BY CarriedTypes
<1>3. /\ Answer(c) \in Seq(Events)
      /\ \A i \in DOMAIN Answer(c) :
           /\ Answer(c)[i].kind = "Started" => c.intent = "Generate" /\ i = Len(Answer(c))
           /\ Answer(c)[i].kind = "Closed" => c.intent = "Close"
  <2> DEFINE ack == Acknowledged(Id(c))
             more == IF c.intent = "Generate" THEN Started(c.n, c.pos) ELSE ClosedEvent
  <2>1. /\ ack \in Events /\ ack.kind = "Acknowledged"
        /\ more \in Events /\ more.kind = IF c.intent = "Generate" THEN "Started" ELSE "Closed"
    <3>1. ack \in Events /\ more \in Events
      BY <1>2, EventTypes
    <3>2. ack.kind = "Acknowledged"
      BY DEF Acknowledged
    <3>3. more.kind = IF c.intent = "Generate" THEN "Started" ELSE "Closed"
      BY DEF Started, ClosedEvent
    <3> QED BY <3>1, <3>2, <3>3
  <2>2. Answer(c) = IF c.intent \in {"Generate", "Close"} THEN <<ack, more>> ELSE <<ack>>
    BY DEF Answer
  <2> HIDE DEF ack, more
  <2>3. CASE c.intent \in {"Generate", "Close"}
    <3>1. Answer(c) = <<ack, more>>
      BY <2>2, <2>3
    <3>2. <<ack, more>> \in Seq(Events)
      BY <2>1
    <3>3. /\ Len(<<ack, more>>) = 2 /\ DOMAIN <<ack, more>> = 1..2
          /\ <<ack, more>>[1] = ack /\ <<ack, more>>[2] = more
      OBVIOUS
    <3>4. \A i \in 1..2 : i = 1 \/ i = 2
      OBVIOUS
    <3> QED BY <2>1, <2>3, <3>1, <3>2, <3>3, <3>4
  <2>4. CASE c.intent \notin {"Generate", "Close"}
    <3>1. Answer(c) = <<ack>>
      BY <2>2, <2>4
    <3>2. <<ack>> \in Seq(Events)
      BY <2>1
    <3>3. DOMAIN <<ack>> = 1..1 /\ <<ack>>[1] = ack
      OBVIOUS
    <3>4. \A i \in 1..1 : i = 1
      OBVIOUS
    <3> QED BY <2>1, <3>1, <3>2, <3>3, <3>4
  <2> QED BY <2>3, <2>4
<1>4. c.intent = "Generate" => call \in Calls
  <2>1. Projection(s) \in Histories
    BY SessionTypes DEF Projection, Histories
  <2> QED BY <1>2, <2>1 DEF Calls
<1>5. /\ a \in UpSessions /\ a.sending = s.sending /\ a.finishing = s.finishing
      /\ a.generating = s.generating
      /\ a.active = IF c.intent = "Generate" THEN call ELSE s.active
  <2> HIDE DEF call
  <2>1. CASE c.intent = "Generate"
    <3>1. a = [s EXCEPT !.active = call]
      BY <2>1 DEF Applied, call
    <3> QED BY <1>4, <2>1, <3>1 DEF UpSessions
  <2>2. CASE c.intent = "Append"
    <3> DEFINE h == Append(s.history, c.entry)
    <3>1. h \in Histories
      BY <1>2, <2>2, SessionTypes DEF Histories
    <3>2. a = [s EXCEPT !.history = h, !.revision = c.n, !.position = c.pos]
      BY <2>2 DEF Applied, UpSessions
    <3> HIDE DEF h
    <3> QED BY <1>2, <2>2, <3>1, <3>2, ZenonT(30) DEF UpSessions
  <2>3. CASE c.intent = "Replace"
    <3>1. <<>> \in Histories
      BY DEF Histories
    <3>2. a = [s EXCEPT !.seed = c.entries, !.history = <<>>, !.revision = c.n]
      BY <2>3 DEF Applied
    <3> QED BY <1>2, <2>3, <3>1, <3>2, ZenonT(30) DEF UpSessions
  <2>4. CASE c.intent = "Profile"
    BY <1>2, <2>4 DEF Applied, UpSessions
  <2>5. CASE c.intent = "Seal"
    BY <1>2, <2>5 DEF Applied, UpSessions
  <2>6. CASE c.intent = "Close"
    BY <1>2, <2>6 DEF Applied, UpSessions
  <2> QED BY <1>2, <2>1, <2>2, <2>3, <2>4, <2>5, <2>6 DEF IntentNames
<1>6. c.intent = "Generate" => s.active = None /\ ~s.generating
  <2>1. c.intent = "Generate" => s.active = None
    BY DEF Accepts, Busy
  <2> QED BY <2>1 DEF CallOrder
<1> HIDE DEF a, call
<1>7. t \in UpSessions /\ t.sending = s.sending /\ t.controls = Answer(c)
      /\ t.active = a.active /\ t.generating = s.generating /\ t.finishing = s.finishing
  BY <1>3, <1>5 DEF UpSessions
<1>8. Commanded(s, c) = t
  BY DEF Commanded, a
<1> HIDE DEF t
<1>9. CallOrder(t)
  <2>1. ~Sends(t, "Started")
    BY <1>1, <1>7 DEF Sends
  <2>2. StartPending(t) => c.intent = "Generate"
    BY <1>3, <1>7, <2>1 DEF StartPending
  <2>3. c.intent = "Generate" => t.active # None /\ ~t.generating
    BY <1>4, <1>5, <1>6, <1>7, CallsAreCalls
  <2>4. t.generating => t.active # None
    BY <1>5, <1>7, <2>3 DEF CallOrder
  <2> QED BY <1>3, <1>7, <2>1, <2>2, <2>3, <2>4 DEF CallOrder
<1> QED BY <1>3, <1>4, <1>5, <1>6, <1>7, <1>8, <1>9 DEF call

\* A command finds the task with nothing of a response before its start.
LEMMA CommandShape ==
  ASSUME Shape, Command, UNCHANGED <<cp, eng>>
  PROVE  Shape'
<1> DEFINE c == Head(commands)
<1>1. session \in UpSessions /\ CallOrder(session) /\ session.controls = <<>>
      /\ (session.sending # None => OfResponse(session.sending))
  BY UpIsUp DEF Shape, Command
<1>2. c \in Carried /\ Tail(commands) \in Seq(Carried) /\ commands' = Tail(commands)
  BY QueueTypes DEF Shape, Command
<1>3. SessionShape(session')
  <2>1. CASE Accepts(session, c)
    <3>1. session' = Stage(Commanded(session, c))
      BY <2>1 DEF Command, Commanded
    <3> QED BY <1>1, <1>2, <2>1, <3>1, CommandedOrder, StageShape
  <2>2. CASE ~Accepts(session, c)
    <3>1. session' = Ended("protocol")
      BY <2>2 DEF Command
    <3> QED BY <3>1, IdleShape DEF Results
  <2> QED BY <2>1, <2>2
<1> QED BY <1>2, <1>3 DEF Shape, Command

\* The session's steps keep the shape.
LEMMA ModelShape ==
  ASSUME Shape, ModelStep
  PROVE  Shape'
<1>1. CASE Deliver
  BY <1>1, DeliverShape DEF ModelStep
<1>2. CASE Respond
  BY <1>2, RespondShape DEF ModelStep
<1>3. CASE CallFails
  <2>1. SessionShape(session')
    BY <1>3, IdleShape DEF CallFails, Results
  <2> QED BY <1>3, <2>1 DEF CallFails, Shape, ModelStep
<1>4. CASE Command
  BY <1>4, CommandShape DEF ModelStep
<1>5. CASE ReportEnd
  <2>1. session \in EndedSessions
    BY <1>5, UpIsUp DEF Shape, ReportEnd
  <2>2. session.result \in Results
    BY <1>5, <2>1 DEF ReportEnd, EndedSessions
  <2>3. EndItem(session.result) \in Items
    BY <2>2, ItemTypes
  <2>4. work' \in Seq(Items)
    BY <1>5, <2>3, QueueTypes DEF ReportEnd, Shape
  <2>5. session' \in EndedSessions
    BY <1>5, <2>1 DEF ReportEnd, EndedSessions
  <2> QED BY <1>5, <2>4, <2>5 DEF Shape, ReportEnd, ModelStep, SessionShape
<1> QED BY <1>1, <1>2, <1>3, <1>4, <1>5 DEF ModelStep, ExchangeStep

-----------------------------------------------------------------------------
\* The engine's steps keep the shape

\* The fields of an engine that is up.
LEMMA EngineTypes ==
  /\ \A e \in UpEngines :
        /\ e.pc \in EnginePlaces /\ e.pc # "down" /\ e.request \in Resumptions \cup {None}
        /\ e.open \in UpSessions \cup {None} /\ e.sent \in SUBSET Ident /\ e.sending \in BOOLEAN
        /\ e.batch \in Batches /\ e.staged \in Stagings \cup {None} /\ e.stash \in Items \cup {None}
  /\ \A e : EngineShape(e) /\ e.pc # "down" => e \in UpEngines /\ PlaceShape(e)
  /\ EngineShape(Down) /\ Down.pc = "down"
<1>1. \A e : EngineShape(e) /\ e.pc # "down" => e \in UpEngines /\ PlaceShape(e)
  BY DEF EngineShape, Down
<1>2. EngineShape(Down) /\ Down.pc = "down"
  BY DEF EngineShape, Down
<1>3. ASSUME NEW e \in UpEngines
      PROVE
        /\ e.pc \in EnginePlaces /\ e.pc # "down" /\ e.request \in Resumptions \cup {None}
        /\ e.open \in UpSessions \cup {None} /\ e.sent \in SUBSET Ident /\ e.sending \in BOOLEAN
        /\ e.batch \in Batches /\ e.staged \in Stagings \cup {None} /\ e.stash \in Items \cup {None}
  BY DEF UpEngines, EnginePlaces
<1> QED BY <1>1, <1>2, <1>3

\* The engine goes on to a place without demands of its own.
LEMMA MovedShape ==
  ASSUME NEW e \in UpEngines,
         NEW pc \in {"open", "dispatch", "advance", "idle", "suspending", "failing"}
  PROVE  EngineShape([e EXCEPT !.pc = pc]) /\ [e EXCEPT !.pc = pc] \in UpEngines
BY DEF UpEngines, EnginePlaces, PlaceShape, EngineShape

\* A control served leaves the engine where it was, or at the top of a pass.
LEMMA ServedShape ==
  ASSUME Shape, Serving
  PROVE  eng \in UpEngines /\ EngineShape(Served)
<1>1. eng \in UpEngines
  BY EngineTypes DEF Shape, Serving
<1>2. CASE eng.pc = "idle"
  BY <1>1, <1>2, MovedShape DEF Served
<1>3. CASE eng.pc # "idle"
  <2>1. Served = eng
    BY <1>1, <1>3 DEF Served, UpEngines
  <2> QED BY <1>1, <2>1 DEF Shape
<1> QED BY <1>1, <1>2, <1>3

\* The execution ends with a commit.
LEMMA LeaveShape ==
  ASSUME Shape, NEW c, Sound(c), Leave(c)
  PROVE  Shape'
<1>1. <<>> \in Seq(Carried) /\ <<>> \in Seq(Items)
  OBVIOUS
<1>2. cp' = c /\ eng' = Down /\ session' = Absent /\ commands' = <<>> /\ work' = <<>>
      /\ asked' = asked
  BY DEF Leave, TearDown
<1>3. EngineShape(eng') /\ SessionShape(session')
  BY <1>2, EngineTypes, IdleShape
<1> QED BY <1>1, <1>2, <1>3 DEF Shape

\* settle: a suspension, a failure or a stop ends the execution in shape.
LEMMA StoppedShape ==
  ASSUME Shape
  PROVE  /\ Suspend => Shape'
         /\ \A reason \in Failures : Fail(reason) => Shape'
         /\ \A state \in RunStates : Leave([cp EXCEPT !.state = state]) => Shape'
<1>1. "Suspended" \in RunStates /\ "Failed" \in RunStates
  BY DEF RunStates
<1>2. /\ \A state \in RunStates : Sound([cp EXCEPT !.state = state])
      /\ \A reason \in Failures : Sound([cp EXCEPT !.state = "Failed", !.failure = reason])
  BY <1>1, FieldsSound DEF Shape
<1>3. ASSUME NEW reason \in Failures, Fail(reason) PROVE Shape'
  BY <1>2, <1>3, LeaveShape DEF Fail
<1>4. ASSUME NEW state \in RunStates, Leave([cp EXCEPT !.state = state]) PROVE Shape'
  BY <1>2, <1>4, LeaveShape
<1>5. Suspend => Shape'
  BY <1>1, <1>4 DEF Suspend
<1> QED BY <1>3, <1>4, <1>5

\* Everything but the checkpoint and the engine stays.
LEMMA SteppedShape ==
  ASSUME Shape, Sound(cp'), EngineShape(eng'), UNCHANGED exchangeVars
  PROVE  Shape'
BY DEF Shape, exchangeVars

\* Recovery: the host's resolution and message, and the decision.
LEMMA RecoveryShape ==
  ASSUME Shape, CatalogOpened \/ Resolve \/ ResumeMessage \/ DecideRecovery
  PROVE  Shape'
<1>1. CASE CatalogOpened
  <2>1. eng \in UpEngines /\ eng.request \in Resumptions \cup {None}
    BY <1>1, EngineTypes DEF Shape, CatalogOpened
  <2>2. CASE eng.request = None
    <3>1. eng' = [eng EXCEPT !.pc = "open"]
      BY <1>1, <2>2 DEF CatalogOpened
    <3> QED BY <1>1, <2>1, <3>1, MovedShape, SteppedShape DEF CatalogOpened, Shape
  <2>3. CASE eng.request # None
    <3>1. eng' = [eng EXCEPT !.pc = "recover"]
      BY <1>1, <2>3 DEF CatalogOpened
    <3>2. EngineShape(eng')
      BY <2>1, <2>3, <3>1 DEF UpEngines, EnginePlaces, PlaceShape, EngineShape
    <3> QED BY <1>1, <3>2, SteppedShape DEF CatalogOpened, Shape
  <2> QED BY <2>2, <2>3
<1>2. CASE Resolve
  <2>1. eng \in UpEngines /\ eng.request \in Resumptions /\ eng.pc = "recover"
    BY <1>2, EngineTypes DEF Shape, Resolve, EngineShape, PlaceShape
  <2> DEFINE r == [eng.request EXCEPT !.abandon = FALSE]
  <2>2. r \in Resumptions /\ eng' = [eng EXCEPT !.request = r]
    BY <1>2, <2>1 DEF Resolve, Resumptions
  <2> HIDE DEF r
  <2>3. EngineShape(eng')
    BY <2>1, <2>2 DEF UpEngines, PlaceShape, EngineShape
  <2>4. Sound(cp')
    BY <1>2, AbandonedSound DEF Resolve, Shape
  <2> QED BY <1>2, <2>3, <2>4, SteppedShape DEF Resolve
<1>3. CASE ResumeMessage
  <2>1. eng \in UpEngines /\ eng.request \in Resumptions /\ eng.pc = "recover"
    BY <1>3, EngineTypes DEF Shape, ResumeMessage, EngineShape, PlaceShape
  <2>2. CASE ~Insertable(cp, eng.request.message)
    BY <1>3, <2>2, StoppedShape DEF ResumeMessage, Failures
  <2>3. CASE Insertable(cp, eng.request.message)
    <3> DEFINE r == [eng.request EXCEPT !.message = None]
    <3>1. r \in Resumptions /\ eng' = [eng EXCEPT !.request = r]
          /\ eng.request.message \in {"User", "External"}
      BY <1>3, <2>1, <2>3 DEF ResumeMessage, Resumptions
    <3> HIDE DEF r
    <3>2. EngineShape(eng')
      BY <2>1, <3>1 DEF UpEngines, PlaceShape, EngineShape
    <3>3. Sound(cp')
      BY <1>3, <2>3, <3>1, InsertedSound DEF ResumeMessage, Shape
    <3> QED BY <1>3, <2>3, <3>2, <3>3, SteppedShape DEF ResumeMessage
  <2> QED BY <2>2, <2>3
<1>4. CASE DecideRecovery
  <2>1. eng \in UpEngines
    BY <1>4, EngineTypes DEF Shape, DecideRecovery
  <2>2. Suspend \/ (eng' = [eng EXCEPT !.pc = "open"] /\ UNCHANGED <<cp, exchangeVars>>)
    BY <1>4 DEF DecideRecovery
  <2> QED BY <2>1, <2>2, StoppedShape, MovedShape, SteppedShape DEF Shape
<1> QED BY <1>1, <1>2, <1>3, <1>4

\* The seed is a part of the history, and of the input position.
LEMMA SeedTypes ==
  ASSUME NEW c, Sound(c)
  PROVE  /\ SeedEnd(c) \in 0..Len(c.history) /\ SeedPosition(c) \in Nat
         /\ SubSeq(c.history, 1, SeedEnd(c)) \in Histories
<1>1. /\ Len(c.history) \in Nat /\ Len(c.commands) \in Nat /\ c.history \in Seq(Entries)
      /\ DOMAIN c.commands = 1..Len(c.commands) /\ c.input \in Nat
      /\ \A i \in DOMAIN c.commands : c.commands[i] \in PendingCommands
  BY OutboxType DEF Sound, Checkpoints
<1>2. SeedEnd(c) \in 0..Len(c.history)
  <2>1. CASE Appends(c) = {}
    BY <1>1, <2>1 DEF SeedEnd
  <2>2. CASE Appends(c) # {}
    <3> DEFINE S == {c.commands[i].entry : i \in Appends(c)}
    <3>1. PICK p \in 0..Len(c.history) : LastEntries(c, p)
      BY DEF Sound, OutboxOf
    <3>2. S \in SUBSET Nat /\ S # {} /\ \A n \in S : n \in (p + 1)..Len(c.history)
      <4>1. \A i \in Appends(c) : c.commands[i].entry \in (p + 1)..Len(c.history)
        BY <3>1 DEF LastEntries, Appends, IsAppend
      <4> QED BY <1>1, <2>2, <3>1, <4>1
    <3> HIDE DEF S
    <3>3. FirstOf(S) \in S
      BY <3>2, FirstIsLeast
    <3>4. FirstOf(S) - 1 \in 0..Len(c.history)
      <4>1. FirstOf(S) \in (p + 1)..Len(c.history)
        BY <3>2, <3>3
      <4>2. p \in Nat
        BY <1>1, <3>1
      <4> QED BY <1>1, <4>1, <4>2
    <3> QED BY <2>2, <3>4 DEF SeedEnd, S
  <2> QED BY <2>1, <2>2
<1>3. SeedPosition(c) \in Nat
  <2> DEFINE S == {i \in Appends(c) : /\ c.commands[i].source = "Submitted"
                                      /\ IsInput(c.history[c.commands[i].entry])}
  <2>1. SeedPosition(c) = IF S = {} THEN c.input ELSE c.commands[FirstOf(S)].pos - 1
    BY DEF SeedPosition
  <2>2. CASE S = {}
    BY <1>1, <2>1, <2>2
  <2>3. CASE S # {}
    <3>1. S \in SUBSET Nat
      BY <1>1 DEF Appends
    <3>2. FirstOf(S) \in S
      BY <2>3, <3>1, FirstIsLeast
    <3> DEFINE x == c.commands[FirstOf(S)]
    <3>3. x \in PendingCommands /\ IsAppend(x) /\ x.source = "Submitted"
      BY <1>1, <3>2 DEF Appends, IsAppend
    <3>4. x.pos \in Nat /\ x.pos # 0
      BY <3>3, CommandTypes
    <3> HIDE DEF x
    <3>5. x.pos - 1 \in Nat
      BY <3>4
    <3> QED BY <2>1, <2>3, <3>5 DEF x
  <2> QED BY <2>2, <2>3
<1>4. SubSeq(c.history, 1, SeedEnd(c)) \in Histories
  BY <1>1, <1>2 DEF Histories
<1> QED BY <1>2, <1>3, <1>4

\* The model is opened, or fails to open.
LEMMA OpeningShape ==
  ASSUME Shape, OpenModel \/ SessionOpened \/ OpenFails
  PROVE  Shape'
<1>1. CASE OpenModel
  <2> DEFINE t == SessionTask(SubSeq(cp.history, 1, SeedEnd(cp)), cp.ack,
                                SeedPosition(cp), cp.profile)
  <2>1. eng \in UpEngines
    BY <1>1, EngineTypes DEF Shape, OpenModel
  <2>2. cp.ack \in Nat /\ cp.profile \in Nat
    BY DEF Shape, Sound, Checkpoints
  <2>3. t \in UpSessions /\ CallOrder(t)
    BY <2>2, SeedTypes, SessionTaskShape DEF Shape
  <2>4. eng' = [eng EXCEPT !.pc = "opening", !.open = t]
    BY <1>1 DEF OpenModel
  <2> HIDE DEF t
  <2>5. EngineShape(eng')
    BY <2>1, <2>3, <2>4 DEF UpEngines, EnginePlaces, PlaceShape, EngineShape
  <2> QED BY <1>1, <2>5, SteppedShape DEF OpenModel, Shape
<1>2. CASE SessionOpened
  <2>1. eng \in UpEngines /\ eng.open \in UpSessions /\ CallOrder(eng.open)
    BY <1>2, EngineTypes DEF Shape, SessionOpened, EngineShape, PlaceShape
  <2>2. EngineShape(eng')
    BY <1>2, <2>1 DEF SessionOpened, UpEngines, EnginePlaces, PlaceShape, EngineShape
  <2>3. SessionShape(session')
    BY <1>2, <2>1 DEF SessionOpened, SessionShape
  <2>4. Sound(cp')
    BY <1>2, FieldsSound DEF SessionOpened, Shape
  <2> QED BY <1>2, <2>2, <2>3, <2>4 DEF SessionOpened, Shape
<1>3. CASE OpenFails
  BY <1>3, StoppedShape DEF OpenFails, Failures
<1> QED BY <1>1, <1>2, <1>3

\* A command as it is sent.
LEMMA BodyType ==
  ASSUME Sound(cp), NEW i \in DOMAIN cp.commands
  PROVE  Body(cp.commands[i]) \in Carried /\ Id(Body(cp.commands[i])) = Id(cp.commands[i])
<1> DEFINE c == cp.commands[i]
<1>1. c \in PendingCommands /\ cp.history \in Seq(Entries) /\ Len(cp.history) \in Nat
  BY OutboxType DEF Sound
<1>2. CASE c.intent = "Append"
  <2>1. PICK p \in 0..Len(cp.history) : LastEntries(cp, p)
    BY DEF Sound, OutboxOf
  <2>2. c.entry \in (p + 1)..Len(cp.history)
    BY <1>2, <2>1 DEF LastEntries, IsAppend
  <2>3. cp.history[c.entry] \in Entries
    BY <1>1, <2>1, <2>2
  <2>4. c \in AppendCommands
    BY <1>1, <1>2, CommandTypes DEF IsAppend
  <2> DEFINE entry == cp.history[c.entry]
             b == [c EXCEPT !.entry = entry]
  <2>5. Body(c) = b
    BY <1>2 DEF Body
  <2> HIDE DEF c, entry
  <2>6. b \in [intent : {"Append"}, n : Nat, entry : Entries, pos : Nat,
               source : {"Accepted", "Submitted"}] /\ b.intent = c.intent /\ b.n = c.n
    BY <2>3, <2>4 DEF AppendCommands, entry
  <2> QED BY <2>5, <2>6 DEF Carried, Id, c
<1>3. CASE c.intent = "Replace"
  <2>1. Body(c) = [intent |-> "Replace", n |-> c.n, entries |-> cp.history] /\ c.n \in Nat
    BY <1>1, <1>3, CommandTypes DEF Body
  <2> QED BY <1>1, <1>3, <2>1 DEF Carried, Id, Histories
<1>4. CASE c.intent \notin {"Append", "Replace"}
  <2>1. Body(c) = c
    BY <1>4 DEF Body
  <2>2. c \in GenerateCommands \cup [intent : {"Profile", "Seal", "Close"}, n : Nat]
    BY <1>1, <1>4 DEF PendingCommands, AppendCommands, PlainCommands
  <2> QED BY <2>1, <2>2 DEF Carried
<1> QED BY <1>2, <1>3, <1>4

\* A batch is sent in the order of its places.
LEMMA BatchTypes ==
  ASSUME NEW batch \in Batches
  PROVE  /\ batch # <<>> => FirstOf(DOMAIN batch) \in DOMAIN batch
         /\ \A i \in DOMAIN batch : batch[i] \in Carried
         /\ \A i \in DOMAIN batch : [j \in DOMAIN batch \ {i} |-> batch[j]] \in Batches
<1>1. PICK places \in SUBSET Nat : batch \in [places -> Carried]
  BY DEF Batches
<1>2. batch # <<>> => FirstOf(DOMAIN batch) \in DOMAIN batch
  <2>1. batch # <<>> => places # {}
    <3>1. ASSUME places = {} PROVE batch = <<>>
      <4>1. batch \in [{} -> Carried] /\ <<>> \in [{} -> Carried]
        BY <1>1, <3>1
      <4> QED BY <4>1
    <3> QED BY <3>1
  <2>2. DOMAIN batch = places
    BY <1>1
  <2> QED BY <2>1, <2>2, FirstIsLeast
<1>3. ASSUME NEW i \in DOMAIN batch
      PROVE  [j \in DOMAIN batch \ {i} |-> batch[j]] \in Batches
  <2>1. [j \in DOMAIN batch \ {i} |-> batch[j]] \in [places \ {i} -> Carried]
    BY <1>1
  <2> QED BY <2>1 DEF Batches
<1> QED BY <1>1, <1>2, <1>3

\* What is sent together was pending and not sent.
LEMMA SendableTypes ==
  ASSUME Sound(cp), Unsent # {}
  PROVE  /\ Sendable \subseteq Unsent /\ Sendable \subseteq DOMAIN cp.commands
            /\ Sendable \in SUBSET Nat
         /\ \A i, j \in Sendable : SentDurably(cp.commands[i]) => i = j
<1>1. Unsent \in SUBSET Nat /\ Unsent \subseteq DOMAIN cp.commands
  BY OutboxType DEF Unsent, Sound
<1>2. FirstOf(Unsent) \in Unsent
  BY <1>1, FirstIsLeast
<1>3. Sendable \subseteq Unsent
  BY <1>2 DEF Sendable
<1>4. \A i, j \in Sendable : SentDurably(cp.commands[i]) => i = j
  <2>1. CASE SentDurably(cp.commands[FirstOf(Unsent)])
    BY <1>2, <2>1 DEF Sendable
  <2>2. CASE ~SentDurably(cp.commands[FirstOf(Unsent)])
    <3>1. ASSUME NEW i \in Sendable, SentDurably(cp.commands[i]) PROVE FALSE
      <4>1. i < i /\ i \in Nat
        BY <1>1, <1>2, <1>3, <2>2, <3>1 DEF Sendable
      <4> QED BY <4>1
    <3> QED BY <3>1
  <2> QED BY <2>1, <2>2
<1> QED BY <1>1, <1>3, <1>4

\* dispatch_commands
LEMMA DispatchShape ==
  ASSUME Shape, Dispatch
  PROVE  Shape'
<1>1. eng \in UpEngines
  BY EngineTypes DEF Shape, Dispatch
<1> DEFINE ids == eng.sent \cup {Id(cp.commands[i]) : i \in Sendable}
           batch == [i \in Sendable |-> Body(cp.commands[i])]
<1>3. Unsent # {} => Sendable \subseteq DOMAIN cp.commands /\ Sendable \in SUBSET Nat
  BY SendableTypes DEF Shape
<1>4. Unsent # {} => ids \in SUBSET Ident
  <2>1. \A i \in DOMAIN cp.commands : Id(cp.commands[i]) \in Ident
    BY OutboxType, CommandTypes DEF Shape, Sound
  <2> QED BY <1>1, <1>3, <2>1, EngineTypes
<1>5. Unsent # {} => batch \in Batches
  <2>1. Unsent # {} => batch \in [Sendable -> Carried]
    BY <1>3, BodyType DEF Shape
  <2> QED BY <1>3, <2>1 DEF Batches
<1>6. CASE eng.sending \/ ~cp.ready \/ Unsent = {}
  <2>1. eng' = [eng EXCEPT !.pc = "advance"] /\ UNCHANGED <<cp, exchangeVars>>
    BY <1>6 DEF Dispatch
  <2> QED BY <1>1, <2>1, MovedShape, SteppedShape DEF Shape
<1>7. CASE ~(eng.sending \/ ~cp.ready \/ Unsent = {})
  <2>1. eng' = [eng EXCEPT !.pc = "advance", !.sending = TRUE, !.sent = ids, !.batch = batch]
        /\ UNCHANGED <<cp, exchangeVars>>
    BY <1>7 DEF Dispatch
  <2>2. ids \in SUBSET Ident /\ batch \in Batches
    BY <1>4, <1>5, <1>7
  <2> HIDE DEF ids, batch
  <2>3. EngineShape(eng')
    BY <1>1, <2>1, <2>2 DEF UpEngines, EnginePlaces, PlaceShape, EngineShape
  <2> QED BY <2>1, <2>3, SteppedShape DEF Shape
<1> QED BY <1>6, <1>7

\* advance
LEMMA AdvanceShape ==
  ASSUME Shape, RequestsExhausted \/ Reduce \/ Generate \/ PrepareClose \/ Complete \/ Rest
  PROVE  Shape'
<1>0. eng \in UpEngines
  BY EngineTypes DEF Shape, RequestsExhausted, Reduce, Generate, PrepareClose, Complete, Rest,
                     Advancing
<1>1. ASSUME NEW c, Sound(c), Pass(c) PROVE Shape'
  <2>1. EngineShape(eng')
    BY <1>0, <1>1, MovedShape DEF Pass
  <2> QED BY <1>1, <2>1, SteppedShape DEF Pass
<1>2. CASE RequestsExhausted
  BY <1>2, StoppedShape DEF RequestsExhausted, RunStates
<1>3. CASE Reduce
  <2>1. cp.commands = <<>>
    BY <1>3 DEF Reduce, Advancing, CanAdvance
  <2>2. Sound([cp EXCEPT !.history = <<Entry("Summary", cp.revision + 1, 0)>>, !.start = 1,
                         !.revision = cp.revision + 1, !.reduced = cp.revision + 1,
                         !.commands = Append(cp.commands, Plain("Replace", cp.revision + 1))])
    BY <2>1, ReducedSound DEF Shape
  <2>3. Pass([cp EXCEPT !.history = <<Entry("Summary", cp.revision + 1, 0)>>, !.start = 1,
                         !.revision = cp.revision + 1, !.reduced = cp.revision + 1,
                         !.commands = Append(cp.commands, Plain("Replace", cp.revision + 1))])
    BY <1>3 DEF Reduce
  <2> QED BY <1>1, <2>2, <2>3
<1>4. CASE Generate
  BY <1>1, <1>4, GeneratedSound DEF Generate, Shape
<1>5. CASE PrepareClose
  <2> DEFINE c == Prepared(cp, Plain("Close", 1))
  <2>1. Plain("Close", 1) \in PendingCommands /\ ~IsNumbered(Plain("Close", 1))
    BY CommandTypes DEF IsNumbered, Plain
  <2>2. Sound(c)
    BY <2>1, PreparedSound DEF Shape
  <2>3. Pass([c EXCEPT !.closing = TRUE])
    BY <1>5 DEF PrepareClose
  <2> HIDE DEF c
  <2> QED BY <1>1, <2>2, <2>3, FieldsSound
<1>6. CASE Complete
  BY <1>6, StoppedShape DEF Complete, RunStates
<1>7. CASE Rest
  <2>1. eng' = [eng EXCEPT !.pc = "idle"] /\ UNCHANGED <<cp, exchangeVars>>
    BY <1>7 DEF Rest
  <2> QED BY <1>0, <2>1, MovedShape, SteppedShape DEF Shape
<1> QED BY <1>2, <1>3, <1>4, <1>5, <1>6, <1>7

\* The task that submits a batch.
LEMMA SubmitShape ==
  ASSUME Shape, SubmitStep
  PROVE  Shape'
<1>0. eng \in UpEngines /\ eng.batch \in Batches /\ PlaceShape(eng)
  BY EngineTypes DEF Shape, SubmitStep, Submit, ReportSent
<1>1. CASE Submit
  <2> DEFINE next == FirstOf(DOMAIN eng.batch)
             batch == [i \in DOMAIN eng.batch \ {next} |-> eng.batch[i]]
  <2>1. next \in DOMAIN eng.batch /\ eng.batch[next] \in Carried /\ batch \in Batches
    BY <1>0, <1>1, BatchTypes DEF Submit
  <2>2. commands' = Append(commands, eng.batch[next]) /\ eng' = [eng EXCEPT !.batch = batch]
        /\ UNCHANGED <<cp, work, session, asked>>
    BY <1>1 DEF Submit
  <2>3. commands' \in Seq(Carried)
    BY <2>1, <2>2, QueueTypes DEF Shape
  <2> HIDE DEF batch
  <2>4. EngineShape(eng')
    BY <1>0, <2>1, <2>2 DEF UpEngines, PlaceShape, EngineShape
  <2> QED BY <2>2, <2>3, <2>4 DEF Shape
<1>2. CASE ReportSent
  <2>1. PICK result \in {"ok", "error"} : work' = Append(work, SentItem(result))
    BY <1>2 DEF ReportSent
  <2>2. work' \in Seq(Items)
    BY <2>1, ItemTypes, QueueTypes DEF Shape
  <2> QED BY <1>2, <2>2 DEF ReportSent, Shape
<1> QED BY <1>1, <1>2 DEF SubmitStep

\* What events are staged on.
LEMMA StagedShape ==
  ASSUME Shape, Collecting
  PROVE  /\ eng \in UpEngines /\ PlaceShape(eng)
         /\ Staged \in Stagings /\ Sound(Staged.cp)
         /\ eng.pc # "batch" => Staged.cp = cp
<1>1. eng \in UpEngines /\ PlaceShape(eng)
  BY EngineTypes DEF Shape, Collecting
<1>2. CASE eng.pc = "batch"
  BY <1>1, <1>2 DEF Staged, PlaceShape
<1>3. CASE eng.pc # "batch"
  <2>1. Staged = [cp |-> cp, next |-> "dispatch", events |-> 0]
    BY <1>3 DEF Staged
  <2> QED BY <1>1, <1>3, <2>1 DEF Stagings, Shape, Sound
<1> QED BY <1>1, <1>2, <1>3

\* What is expected does not depend on the cursor.
LEMMA ExpectedCursor ==
  ASSUME NEW b, Sound(b), NEW n, NEW e, Expected(b, e)
  PROVE  Expected([b EXCEPT !.cursor = n], e)
<1> DEFINE c == [b EXCEPT !.cursor = n]
<1>1. /\ c.ready = b.ready /\ c.ack = b.ack /\ c.started = b.started
      /\ c.gen = b.gen /\ c.covered = b.covered /\ c.input = b.input
      /\ c.commands = b.commands /\ c.status = b.status
      /\ c.closure = b.closure
  BY DEF Sound, Checkpoints
<1> HIDE DEF c
<1>2. Expected(c, e)
  BY <1>1 DEF Expected, InGeneration
<1> QED BY <1>2 DEF c

\* An expected event is applied to a sound checkpoint.
LEMMA StagedWithShape ==
  ASSUME Shape, Collecting, NEW item \in Items, item.type = "Event", Expected(Staged.cp, item.body)
  PROVE  StagedWith(item) \in Stagings /\ Sound(StagedWith(item).cp)
<1> DEFINE c == [Staged.cp EXCEPT !.cursor = item.sequence]
           h == Handled(c, item.body)
           next == IF Unsettled(h, item.body) THEN "suspending" ELSE Staged.next
<1>1. item.sequence \in Nat /\ item.body \in Events
  BY ItemTypes
<1>2. Staged \in Stagings /\ Sound(Staged.cp)
  BY StagedShape
<1>3. Sound(c)
  BY <1>1, <1>2, FieldsSound
<1>4. Expected(c, item.body)
  BY <1>2, ExpectedCursor
<1> HIDE DEF c
<1>5. Sound(h)
  BY <1>1, <1>3, <1>4, HandledSound
<1>6. Sound(Recorded(h, item.body))
  BY <1>1, <1>5, RecordedSound
<1>7. next \in {"dispatch", "suspending", "failing"} /\ Staged.events + 1 \in Nat
  BY <1>2 DEF Stagings
<1>8. StagedWith(item) = [cp |-> Recorded(h, item.body), next |-> next,
                           events |-> Staged.events + 1]
  BY DEF StagedWith, c
<1> HIDE DEF h, next
<1> QED BY <1>6, <1>7, <1>8 DEF Stagings, Sound

\* collect: taking an event keeps the shape, whether it is new, replayed or
\* unexpected.
LEMMA CollectShape ==
  ASSUME Shape, Collect
  PROVE  Shape'
<1> DEFINE item == Head(work)
<1>1. /\ Collecting /\ work # <<>> /\ item \in Items /\ item.type = "Event"
      /\ Tail(work) \in Seq(Items)
  BY QueueTypes DEF Collect, NextIsEvent, Shape
<1>2. eng \in UpEngines /\ PlaceShape(eng)
  BY <1>1, StagedShape
<1>3. CASE ~Fresh(cp, item)
  <2>1. eng' = [eng EXCEPT !.pc = IF eng.pc = "idle" THEN "dispatch" ELSE eng.pc]
        /\ work' = Tail(work) /\ UNCHANGED <<cp, commands, session, asked>>
    BY <1>2, <1>3 DEF Collect, UpEngines
  <2>2. EngineShape(eng')
    <3>1. CASE eng.pc = "idle"
      BY <1>2, <2>1, <3>1, MovedShape
    <3>2. CASE eng.pc # "idle"
      BY <1>2, <2>1, <3>2 DEF UpEngines, EngineShape
    <3> QED BY <3>1, <3>2
  <2> QED BY <1>1, <2>1, <2>2 DEF Shape
<1>4. CASE Fresh(cp, item) /\ Expected(Staged.cp, item.body)
  <2> DEFINE staged == StagedWith(item)
             sent == IF item.body.kind = "Acknowledged" THEN eng.sent \ {item.body.id} ELSE eng.sent
  <2>1. eng' = [eng EXCEPT !.pc = "batch", !.staged = staged, !.sent = sent]
        /\ work' = Tail(work) /\ UNCHANGED <<cp, commands, session, asked>>
    BY <1>2, <1>4 DEF Collect, UpEngines
  <2>2. staged \in Stagings /\ Sound(staged.cp)
    BY <1>1, <1>4, StagedWithShape
  <2>3. sent \in SUBSET Ident
    BY <1>2, EngineTypes
  <2> HIDE DEF staged, sent
  <2>4. EngineShape(eng')
    BY <1>2, <2>1, <2>2, <2>3 DEF UpEngines, EnginePlaces, PlaceShape, EngineShape
  <2> QED BY <1>1, <2>1, <2>4 DEF Shape
<1>5. CASE Fresh(cp, item) /\ ~Expected(Staged.cp, item.body)
  <2>1. CASE eng.pc = "idle"
    BY <1>5, <2>1, StoppedShape DEF Collect, Failures
  <2>2. CASE eng.pc # "idle"
    <3>1. eng.pc = "batch" /\ eng.staged \in Stagings /\ Sound(eng.staged.cp)
      BY <1>1, <1>2, <2>2 DEF Collecting, PlaceShape
    <3> DEFINE staged == [eng.staged EXCEPT !.next = "failing"]
    <3>2. eng' = [eng EXCEPT !.staged = staged] /\ UNCHANGED <<cp, exchangeVars>>
      BY <1>5, <2>2 DEF Collect
    <3>3. staged \in Stagings /\ Sound(staged.cp)
      BY <3>1 DEF Stagings
    <3> HIDE DEF staged
    <3>4. EngineShape(eng')
      BY <1>2, <3>1, <3>2, <3>3 DEF UpEngines, PlaceShape, EngineShape
    <3> QED BY <3>2, <3>4, SteppedShape DEF Shape
  <2> QED BY <2>1, <2>2
<1> QED BY <1>3, <1>4, <1>5

\* The commit of a batch keeps the shape.
LEMMA CommitBatchShape ==
  ASSUME Shape, CommitBatch
  PROVE  Shape'
<1>1. /\ eng \in UpEngines /\ eng.staged \in Stagings /\ Sound(eng.staged.cp)
      /\ eng.staged.next \in {"dispatch", "suspending", "failing"}
  BY EngineTypes DEF Shape, CommitBatch, PlaceShape, Stagings
<1>2. CASE eng.staged.cp.state # "Running"
  BY <1>1, <1>2, LeaveShape DEF CommitBatch
<1>3. CASE eng.staged.cp.state = "Running"
  <2> DEFINE stashes == ~BatchClosed /\ work # <<>>
             stash == IF stashes THEN Head(work) ELSE None
             next == eng.staged.next
  <2>1. /\ cp' = eng.staged.cp
        /\ eng' = [eng EXCEPT !.pc = next, !.staged = None, !.stash = stash]
        /\ work' = IF stashes THEN Tail(work) ELSE work
        /\ UNCHANGED <<commands, session, asked>>
    BY <1>3 DEF CommitBatch
  <2>2. stash \in Items \cup {None} /\ work' \in Seq(Items)
    BY <2>1, QueueTypes DEF Shape
  <2> HIDE DEF stash, next
  <2>3. EngineShape(eng')
    BY <1>1, <2>1, <2>2 DEF UpEngines, EnginePlaces, PlaceShape, EngineShape, next
  <2> QED BY <1>1, <2>1, <2>2, <2>3 DEF Shape
<1> QED BY <1>2, <1>3

\* handle: the work received is consumed, and the engine goes on.
LEMMA HandleShape ==
  ASSUME Shape, NEW type, Receives(type), NEW e \in {eng, [eng EXCEPT !.sending = FALSE]}, Handle(e)
  PROVE  Shape'
<1>1. eng \in UpEngines
  BY EngineTypes DEF Shape, Receives
<1>2. e \in UpEngines
  BY <1>1 DEF UpEngines
<1>3. EngineShape(eng')
  BY <1>2 DEF Handle, UpEngines, EnginePlaces, PlaceShape, EngineShape
<1>4. work' \in Seq(Items)
  BY QueueTypes DEF Shape, Handle, Receives
<1> QED BY <1>3, <1>4 DEF Handle, Shape

\* receive_work and handle keep the shape.
LEMMA WorkShape ==
  ASSUME Shape, WorkStep
  PROVE  Shape'
<1>1. CASE Collect
  BY <1>1, CollectShape
<1>2. CASE CommitBatch
  BY <1>2, CommitBatchShape
<1>3. CASE SuspendAfterBatch
  BY <1>3, StoppedShape DEF SuspendAfterBatch, Failures
<1>4. CASE CommandSent
  BY <1>4, StoppedShape, HandleShape DEF CommandSent
<1>5. CASE ModelEnded
  <2>1. Handle(eng) \/ Suspend \/ Fail("model") \/ Fail("protocol")
    BY <1>5 DEF ModelEnded
  <2> QED BY <1>5, <2>1, StoppedShape, HandleShape DEF ModelEnded, Failures
<1> QED BY <1>1, <1>2, <1>3, <1>4, <1>5 DEF WorkStep

\* The engine of an attached run.
LEMMA RunningShape ==
  ASSUME NEW request \in Resumptions \cup {None}, NEW sent \in SUBSET Ident
  PROVE  EngineShape(Running("catalog", request, sent))
<1>1. <<>> \in Batches
  <2>1. <<>> \in [{} -> Carried]
    OBVIOUS
  <2> QED BY <2>1 DEF Batches
<1> QED BY <1>1 DEF Running, UpEngines, EnginePlaces, PlaceShape, EngineShape

\* Pending profiles can be counted.
LEMMA PendingCount ==
  ASSUME Sound(cp), NEW intent
  PROVE  Cardinality(Pending(intent)) \in Nat
<1>1. Pending(intent) \in SUBSET (1..Len(cp.commands)) /\ Len(cp.commands) \in Nat
  BY OutboxType DEF Pending, Sound
<1>2. IsFiniteSet(1..Len(cp.commands))
  BY <1>1, FS_Interval
<1>3. IsFiniteSet(Pending(intent))
  BY <1>1, <1>2, FS_Subset
<1> QED BY <1>3, FS_CardinalityType

\* The host's controls, and a crash.
LEMMA HostShape ==
  ASSUME Shape, Host \/ Crash
  PROVE  Shape'
<1>1. ASSUME NEW kind \in InputKinds, ControlInput(kind) PROVE Shape'
  <2>1. kind \in {"User", "External"}
    BY EngineConstants
  <2> QED BY <1>1, <2>1, InsertedSound, ServedShape, SteppedShape DEF ControlInput, Shape
<1>2. ASSUME ControlPause PROVE Shape'
  BY <1>2, StoppedShape DEF ControlPause
<1>3. ASSUME Interrupt PROVE Shape'
  BY <1>3, StoppedShape DEF Interrupt, RunStates
<1>4. ASSUME ControlSeal PROVE Shape'
  <2> DEFINE c == Prepared(cp, Plain("Seal", cp.seals + 1))
  <2>1. cp.seals + 1 \in Nat
    BY DEF Shape, Sound, Checkpoints
  <2>2. Plain("Seal", cp.seals + 1) \in PendingCommands /\ ~IsNumbered(Plain("Seal", cp.seals + 1))
    BY <2>1, CommandTypes DEF IsNumbered, Plain
  <2>3. Sound(c) /\ c = [cp EXCEPT !.commands = Append(cp.commands, Plain("Seal", cp.seals + 1))]
    BY <2>2, PreparedSound DEF Shape
  <2>4. c.seals = cp.seals
    BY <2>3 DEF Shape, Sound, Checkpoints
  <2>5. cp' = [c EXCEPT !.inputClosed = TRUE, !.seals = c.seals + 1]
    BY <1>4, <2>3 DEF ControlSeal, Sound, Checkpoints
  <2> HIDE DEF c
  <2>6. Sound(cp')
    BY <2>1, <2>3, <2>4, <2>5, FieldsSound
  <2> QED BY <1>4, <2>6, ServedShape, SteppedShape DEF ControlSeal
<1>5. ASSUME ControlProfile PROVE Shape'
  <2> DEFINE n == cp.profile + Cardinality(Pending("Profile")) + 1
  <2>1. n \in Nat
    <3>1. cp.profile \in Nat
      BY DEF Shape, Sound, Checkpoints
    <3>2. Cardinality(Pending("Profile")) \in Nat
      BY PendingCount DEF Shape
    <3> QED BY <3>1, <3>2
  <2> HIDE DEF n
  <2>2. Plain("Profile", n) \in PendingCommands /\ ~IsNumbered(Plain("Profile", n))
    BY <2>1, CommandTypes DEF IsNumbered, Plain
  <2>3. Sound(Prepared(cp, Plain("Profile", n)))
    BY <2>2, PreparedSound DEF Shape
  <2>4. cp' = Prepared(cp, Plain("Profile", n)) /\ Serving /\ eng' = Served
        /\ UNCHANGED exchangeVars
    BY <1>5 DEF ControlProfile, n
  <2> QED BY <2>3, <2>4, ServedShape, SteppedShape
<1>6. ASSUME NEW abandon \in BOOLEAN, NEW message \in {None, "User", "External"},
             Attach(abandon, message)
      PROVE  Shape'
  <2> DEFINE ids == {Id(cp.commands[i]) : i \in {j \in DOMAIN cp.commands :
                                                     SentDurably(cp.commands[j])}}
             request == [abandon |-> abandon, message |-> message]
  <2>1. ids \in SUBSET Ident
    BY OutboxType, CommandTypes DEF Shape, Sound
  <2>2. request \in Resumptions
    BY DEF Resumptions
  <2>3. cp' = [cp EXCEPT !.state = "Running"] /\ eng' = Running("catalog", request, ids)
        /\ UNCHANGED exchangeVars
    BY <1>6 DEF Attach
  <2> HIDE DEF ids, request
  <2>4. EngineShape(eng')
    BY <2>1, <2>2, <2>3, RunningShape
  <2>5. Sound(cp')
    BY <2>3, FieldsSound DEF Shape, RunStates
  <2> QED BY <2>3, <2>4, <2>5, SteppedShape
<1>7. ASSUME Continue PROVE Shape'
  BY <1>6, <1>7 DEF Continue
<1>8. ASSUME Resume PROVE Shape'
  <2>1. PICK abandon \in {InGeneration(cp), FALSE},
             message \in {None} \cup (IF cp.input < MaxInputs THEN InputKinds ELSE {}) :
          Attach(abandon, message)
    BY <1>8 DEF Resume
  <2>2. abandon \in BOOLEAN /\ message \in {None, "User", "External"}
    BY EngineConstants DEF InGeneration
  <2> QED BY <1>6, <2>1, <2>2
<1>9. ASSUME Crash PROVE Shape'
  BY <1>9, LeaveShape DEF Crash, Leave, Shape
<1> QED BY <1>1, <1>2, <1>3, <1>4, <1>5, <1>7, <1>8, <1>9 DEF Host

-----------------------------------------------------------------------------
\* The shape is an invariant

\* checkpoint::initial has the shape.
LEMMA InitShape ==
  ASSUME Init
  PROVE  Shape
<1>1. Entry("User", 0, 0) \in Entries /\ 0 \in Nat
  BY DEF Entry, Entries
<1>2. <<Entry("User", 0, 0)>> \in Histories /\ Len(<<Entry("User", 0, 0)>>) = 1
  BY <1>1 DEF Histories
<1> DEFINE h == <<Entry("User", 0, 0)>>
<1> HIDE DEF h
<1>3. /\ cp.history = h /\ cp.commands = <<>> /\ cp.ack = 0 /\ cp.revision = 0 /\ cp.covered = 0
      /\ cp.input = 0 /\ cp.start = 0
  BY DEF Init, Initial, h
<1>4. cp \in Checkpoints
  <2>1. <<>> \in Outboxes /\ h \in Histories /\ None \in Cursors /\ None \in Responses
        /\ None \in Failures /\ "Running" \in RunStates
    BY <1>2 DEF Outboxes, Cursors, Responses, Failures, RunStates, h
  <2>2. cp = [state |-> "Running", failure |-> None,
       gen |-> 0, started |-> FALSE, status |-> None, needs |-> TRUE,
       revision |-> 0, ack |-> 0, input |-> 0, covered |-> 0, start |-> 0,
       ready |-> FALSE, inputClosed |-> Mode = "Task", closing |-> FALSE,
       closure |-> FALSE, cursor |-> None, profile |-> 0, seals |-> 0,
       reduced |-> None, history |-> h, commands |-> <<>>]
    BY DEF Init, Initial, h
  <2> QED BY <2>1, <2>2 DEF Checkpoints
<1>5. OutboxOf(cp)
  <2>1. DOMAIN cp.commands = {} /\ Len(cp.history) = 1
    BY <1>2, <1>3 DEF h
  <2>2. \A k \in (1 + 1)..Len(cp.history) : FALSE
    BY <2>1
  <2>3. LastEntries(cp, 1) /\ 1 \in 0..Len(cp.history)
    BY <2>1, <2>2 DEF LastEntries
  <2>4. \A n \in (cp.ack + 1)..cp.revision : FALSE
    BY <1>3
  <2> QED BY <2>1, <2>3, <2>4 DEF OutboxOf, RevisionsOf, InOrder
<1>6. Sound(cp)
  <2>1. cp.start <= Len(cp.history)
    BY <1>2, <1>3 DEF h
  <2> QED BY <1>3, <1>4, <1>5, <2>1 DEF Sound
<1>7. EngineShape(eng)
  BY RunningShape DEF Init
<1> QED BY <1>6, <1>7, IdleShape DEF Init, Shape

\* Every step keeps the shape.
LEMMA NextShape ==
  ASSUME Shape, [Next]_vars
  PROVE  Shape'
<1>1. CASE Host \/ Crash
  BY <1>1, HostShape
<1>2. CASE AttachStep
  BY <1>2, RecoveryShape, OpeningShape DEF AttachStep
<1>3. CASE LoopStep
  BY <1>3, DispatchShape, AdvanceShape DEF LoopStep
<1>4. CASE SubmitStep
  BY <1>4, SubmitShape
<1>5. CASE WorkStep
  BY <1>5, WorkShape
<1>6. CASE ModelStep
  BY <1>6, ModelShape
<1>7. CASE Done \/ UNCHANGED vars
  BY <1>7 DEF Done, vars, Shape
<1> QED BY <1>1, <1>2, <1>3, <1>4, <1>5, <1>6, <1>7 DEF Next, EngineStep

\* Every state a run reaches has the shape.
THEOREM Shaped == Spec => []Shape
<1>1. Init => Shape
  BY InitShape
<1>2. Shape /\ [Next]_vars => Shape'
  BY NextShape
<1> QED BY <1>1, <1>2, PTL DEF Spec

\* The checkpoint and the session stay within their types, for any limits,
\* statuses and host.
THEOREM StateIsTyped == Spec => []TypeOK
<1>1. ASSUME Shape PROVE TypeOK
  <2>1. cp \in Checkpoints /\ cp.ack <= cp.revision /\ cp.covered <= cp.input
        /\ cp.start <= Len(cp.history)
    BY <1>1 DEF Shape, Sound
  <2>2. \A i \in DOMAIN cp.commands : cp.commands[i].intent \in IntentNames
    BY <2>1, OutboxType, CommandTypes
  <2>3. session.phase = "up" => session \in UpSessions
    BY <1>1, UpIsUp DEF Shape
  <2>4. session.phase = "up" =>
          {session.revision, session.position, session.profile, session.sequence} \subseteq Nat
    BY <2>3, SessionTypes
  <2>5. /\ cp.state \in RunStates /\ cp.failure \in Failures /\ cp.status \in Responses
        /\ {cp.gen, cp.revision, cp.ack, cp.input, cp.covered, cp.start, cp.profile} \subseteq Nat
    BY <2>1 DEF Checkpoints
  <2> QED BY <2>1, <2>2, <2>4, <2>5 DEF TypeOK, RunStates, Failures, Responses
<1> QED BY <1>1, Shaped, PTL

\* A crash between any two commits can rebuild the projection: what it lacks
\* is the outbox, each revision and each entry once and in order.
THEOREM OutboxIsComplete == Spec => []OutboxCompletesProjection
<1>1. ASSUME Shape PROVE OutboxCompletesProjection
  <2>1. RevisionsOf(cp) /\ InOrder(cp) /\ \E p \in 0..Len(cp.history) : LastEntries(cp, p)
    BY <1>1 DEF Shape, Sound, OutboxOf
  <2>2. /\ Numbered = {i \in DOMAIN cp.commands : IsNumbered(cp.commands[i])}
        /\ Unprojected = {i \in DOMAIN cp.commands : IsAppend(cp.commands[i])}
    BY DEF Numbered, Unprojected, IsNumbered, IsAppend
  <2>3. {cp.commands[i].n : i \in Numbered} = (cp.ack + 1)..cp.revision
    BY <2>1, <2>2 DEF RevisionsOf
  <2>4. \A i, j \in Numbered : i < j => cp.commands[i].n < cp.commands[j].n
    BY <2>1, <2>2 DEF InOrder
  <2>5. ASSUME NEW p \in 0..Len(cp.history), LastEntries(cp, p)
        PROVE  {cp.commands[i].entry : i \in Unprojected} = (p + 1)..Len(cp.history)
    BY <2>2, <2>5 DEF LastEntries
  <2>6. \A i, j \in Unprojected : i < j => cp.commands[i].entry < cp.commands[j].entry
    BY <2>1, <2>2 DEF InOrder
  <2> QED BY <2>1, <2>3, <2>4, <2>5, <2>6 DEF OutboxCompletesProjection
<1> QED BY <1>1, Shaped, PTL
=============================================================================
