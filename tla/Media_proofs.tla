---------------------------- MODULE Media_proofs ----------------------------
(***************************************************************************)
(* What a host exchanges with one invocation, for every instance of media  *)
(* and every size of the observer queue.                                   *)
(*                                                                         *)
(* Media: a stream is archived once, the checkpoint leads to exactly what  *)
(* was committed to it, input reaches the model in its order and before    *)
(* the commands that must not overtake it, and the host gets no output of  *)
(* an old epoch.  Observer: who adds up the gaps it is told of knows       *)
(* exactly what it has missed.                                             *)
(***************************************************************************)
EXTENDS MCMedia, FiniteSetTheorems, SequenceTheorems, WellFoundedInduction, TLAPS

\* What the state is made of.
Directions == {"input", "output"}
Keys == Directions \X (Streams \cup Nat) \X Nat
\* Chunks up to an epoch, and commands up to an epoch and a number.
Chunks(epoch) ==
    [stream : Streams \cup Nat, epoch : 0..epoch, sequence : Nat, end : BOOLEAN]
Commands(epoch, prepared) ==
    [id : 1..prepared, intent : {"Flush", "Seal", "Interrupt", "Close"}, epoch : 0..epoch,
     sent : BOOLEAN]
Nodes == [key : Keys, sealed : Nat, complete : BOOLEAN]
Cursors == [sequence : Nat, sealed : Nat]
Events == [kind : {"Ack"}, id : Nat] \cup [kind : {"Finished", "Closed"}]
MediaChunks == [stream : Streams \cup Nat, epoch : Nat, sequence : Nat, end : BOOLEAN]
Segments == [key : Keys, previous : Nat, chunks : Seq(MediaChunks)]

\* No elements, and a function on some of D.
Empty == <<>>
Partial(f, D, R) == DOMAIN f \subseteq D /\ f \in [DOMAIN f -> R]

\* The parts of the state, each typed by the checkpoint's epoch and numbers.
\* A chunk of input always has epoch zero; what is heard of the output never
\* has a later epoch than the checkpoint.
CheckpointShape ==
    /\ cp \in [state : {"Running", "Suspended", "Completed", "Failed", "Cancelled"},
               epoch : Nat, cursors : {cp.cursors}, archive : Seq(Nodes),
               commands : Seq(Commands(cp.epoch, cp.prepared)), prepared : Nat, flushes : Nat,
               opened : BOOLEAN, response : {"active", "done"}, inputClosed : BOOLEAN,
               closing : BOOLEAN, closure : BOOLEAN]
    /\ Partial(cp.cursors, Keys, Cursors) /\ IsFiniteSet(DOMAIN cp.cursors)
Engines(epoch, prepared) ==
    [on : {TRUE}, ready : BOOLEAN, sent : SUBSET Nat,
     sending : Commands(epoch, prepared) \cup {None}, inputSending : BOOLEAN,
     held : Chunks(0) \cup {None}, ended : (SUBSET Keys) \cup {None},
     mediaPending : BOOLEAN, minEpoch : {epoch}]
\* An engine that is up works at the committed epoch, one that is down keeps it.
EngineShape ==
    eng = [on |-> FALSE, minEpoch |-> cp.epoch] \/ eng \in Engines(cp.epoch, cp.prepared)
OutputShape ==
    /\ queue \in Seq(Chunks(cp.epoch)) /\ hostOut \in Seq(Chunks(cp.epoch))
    /\ sealer \in [at : {"idle", "ready", "delivering", "failed"},
                   held : Chunks(cp.epoch) \cup {None}, segment : Seq(Chunks(cp.epoch)),
                   ref : Nat, previous : {sealer.previous}]
    /\ sealer.at \in {"ready", "delivering"} => sealer.segment # <<>>
    /\ Partial(sealer.previous, Keys, Nat)
InputShape ==
    /\ hostIn \in [queue : Seq(Chunks(0)), closed : BOOLEAN]
    /\ sender \in [at : {"idle", "ready", "sending", "sent", "failed"}, segment : Seq(Chunks(0)),
                   ref : Nat]
    /\ sender.at \in {"ready", "sending"} <=> sender.segment # <<>>
    /\ sender.at # "idle" <=> eng.on /\ eng.inputSending
RemoteShape ==
    /\ remote \in [open : BOOLEAN, epoch : 0..cp.epoch, next : [Streams -> Nat],
                   inbox : Seq(Commands(cp.epoch, cp.prepared)), events : Seq(Events),
                   in : Seq(Chunks(0)), reacted : {remote.reacted}, done : SUBSET Nat,
                   finished : BOOLEAN, closed : BOOLEAN]
    /\ Partial(remote.reacted, 1..cp.prepared, Nat)
SeenShape ==
    /\ seen \in [accepted : Seq(Chunks(0)), committed : {seen.committed},
                 received : Seq(Chunks(cp.epoch)), marks : {seen.marks}, attempts : Nat]
    /\ Partial(seen.marks, 1..cp.prepared, 0..Len(seen.accepted))
Shape ==
    /\ limits \in M!Limits /\ store \in Seq(Segments)
    /\ CheckpointShape /\ EngineShape /\ OutputShape /\ InputShape /\ RemoteShape /\ SeenShape

\* The archived keys an engine remembers are those of the checkpoint.
KnowsEnded == eng.on /\ eng.ended # None => eng.ended = M!Archived(cp)

\* Sequences one after another.
Then(s, t) == s \o t
One(x) == <<x>>
\* Accepted input is with the model, in the segment being forwarded, or waits
\* for its turn, in this order; only a failed forward loses some.
Waits == M!WithHeld(eng.held, hostIn.queue)
InFlight ==
    eng.on /\ sender.at # "failed" =>
        seen.accepted = Then(remote.in, Then(sender.segment, Waits))
\* A command on its way that was marked with accepted input follows all of it;
\* no interruption is marked.
Before(command) ==
    command.id \in DOMAIN seen.marks => seen.marks[command.id] <= Len(remote.in)
MarkedFirst ==
    /\ \A i \in DOMAIN cp.commands :
           cp.commands[i].intent = "Interrupt" => cp.commands[i].id \notin DOMAIN seen.marks
    /\ eng.on /\ eng.sending # None => Before(eng.sending)
    /\ \A i \in DOMAIN remote.inbox : Before(remote.inbox[i])

\* The inductive invariant.
MediaInv == Shape /\ KnowsEnded /\ ArchivedForGood /\ InFlight /\ InputFirst /\ MarkedFirst
-----------------------------------------------------------------------------
\* Facts about the operators of Media

\* The first of some positions.
LEMMA FirstPosition ==
  ASSUME NEW P \in SUBSET Nat, P # {}
  PROVE  \E i \in P : \A j \in P : i <= j
<1>1. PICK i \in P : \A j \in P : ~(<<j, i>> \in OpToRel(<, Nat))
  BY NatLessThanWellFounded, WFMin, Zenon
<1>2. \A j \in P : i <= j
  <2> SUFFICES ASSUME NEW j \in P, j < i PROVE FALSE
    OBVIOUS
  <2>1. <<j, i>> \in Nat \X Nat /\ <<j, i>>[1] < <<j, i>>[2]
    OBVIOUS
  <2>2. <<j, i>> \in OpToRel(<, Nat)
    BY <2>1, Zenon DEF OpToRel
  <2> QED BY <1>1, <2>2
<1> QED BY <1>2

\* Segment takes the beginning of a queue, and nothing of it is lost.
LEMMA SegmentParts ==
  ASSUME limits \in M!Limits, NEW S, None \notin S, NEW q \in Seq(S), q # <<>>
  PROVE  LET cut == M!Segment(q)
         IN  /\ cut.segment \in Seq(S) /\ cut.segment # <<>>
             /\ Head(q) \in S /\ Head(cut.segment) = Head(q)
             /\ cut.held \in S \cup {None} /\ cut.rest \in Seq(S)
             /\ M!WithHeld(cut.held, cut.rest) \in Seq(S)
             /\ q = cut.segment \o M!WithHeld(cut.held, cut.rest)
<1> DEFINE max == limits.packets
           Right(n) == /\ n <= Len(q)
                       /\ \A i \in 1..(n - 1) : M!Joins(q[i], q[i + 1])
                       /\ n = max \/ n = Len(q) \/ ~M!Joins(q[n], q[n + 1])
           most == CHOOSE n \in 1..max : Right(n)
           stopped == most < max /\ most < Len(q)
           segment == SubSeq(q, 1, most)
           held == IF stopped THEN q[most + 1] ELSE None
           rest == SubSeq(q, most + (IF stopped THEN 2 ELSE 1), Len(q))
<1>1. max \in Nat /\ max >= 1 /\ Len(q) \in Nat /\ Len(q) >= 1
  BY DEF M!Limits
<1>2. \A i \in 1..Len(q) : q[i] \in S
  OBVIOUS
<1>3. most \in 1..max /\ most <= Len(q)
  <2> DEFINE P == {n \in 1..max : /\ n <= Len(q)
                                  /\ n = max \/ n = Len(q) \/ ~M!Joins(q[n], q[n + 1])}
  <2>1. P \in SUBSET Nat
    BY <1>1
  <2>2. P # {}
    <3>1. CASE max <= Len(q)
      BY <1>1, <3>1
    <3>2. CASE max > Len(q)
      BY <1>1, <3>2
    <3> QED BY <1>1, <3>1, <3>2
  <2> HIDE DEF P
  <2>3. PICK n \in P : \A j \in P : n <= j
    BY <2>1, <2>2, FirstPosition
  <2> USE DEF P
  <2>4. \A i \in 1..(n - 1) : M!Joins(q[i], q[i + 1])
    <3> SUFFICES ASSUME NEW i \in 1..(n - 1), ~M!Joins(q[i], q[i + 1]) PROVE FALSE
      OBVIOUS
    <3>1. i \in P /\ ~(n <= i)
      BY <1>1, <2>3
    <3> QED BY <2>3, <3>1
  <2>5. n \in 1..max /\ Right(n)
    BY <2>3, <2>4
  <2> HIDE DEF Right, P
  <2>6. most \in 1..max /\ Right(most)
    BY <2>5
  <2> QED BY <2>6 DEF Right
<1>4. M!Segment(q) = [segment |-> segment, held |-> held, rest |-> rest]
  BY DEF M!Segment
<1> HIDE DEF most
<1>5. /\ segment \in Seq(S) /\ Len(segment) = most
      /\ \A i \in 1..most : segment[i] = q[i]
  BY <1>1, <1>2, <1>3, SubSeqProperties
<1>6. segment # <<>> /\ Head(segment) = Head(q) /\ Head(q) \in S
  BY <1>1, <1>2, <1>3, <1>5
<1>7. held \in S \cup {None} /\ (held # None <=> stopped)
  BY <1>1, <1>2, <1>3
<1>8. ASSUME stopped
      PROVE  /\ rest \in Seq(S) /\ M!WithHeld(held, rest) \in Seq(S)
             /\ q = segment \o M!WithHeld(held, rest)
  <2>1. rest = SubSeq(q, most + 2, Len(q)) /\ held = q[most + 1]
    BY <1>8
  <2>2. SubSeq(q, most + 1, Len(q)) = <<q[most + 1]>> \o SubSeq(q, most + 2, Len(q))
    BY <1>1, <1>3, <1>8, SubSeqRecursiveFirst
  <2>3. M!WithHeld(held, rest) = SubSeq(q, most + 1, Len(q))
    BY <1>7, <1>8, <2>1, <2>2 DEF M!WithHeld
  <2>4. rest \in Seq(S) /\ SubSeq(q, most + 1, Len(q)) \in Seq(S)
    BY <1>1, <1>2, <1>3, <2>1
  <2>5. q = segment \o SubSeq(q, most + 1, Len(q))
    <3>1. segment \o SubSeq(q, most + 1, Len(q)) = SubSeq(q, 1, Len(q))
      BY <1>1, <1>3, ConcatAdjacentSubSeq
    <3> QED BY <3>1, SubSeqFull
  <2> QED BY <2>3, <2>4, <2>5
<1>9. ASSUME ~stopped
      PROVE  /\ rest \in Seq(S) /\ M!WithHeld(held, rest) \in Seq(S)
             /\ q = segment \o M!WithHeld(held, rest)
  <2>1. rest = SubSeq(q, most + 1, Len(q)) /\ held = None
    BY <1>9
  <2>2. M!WithHeld(held, rest) = rest
    BY <2>1 DEF M!WithHeld
  <2>3. rest \in Seq(S)
    BY <1>1, <1>2, <1>3, <2>1
  <2>4. q = segment \o rest
    <3>1. segment \o rest = SubSeq(q, 1, Len(q))
      BY <1>1, <1>3, <2>1, ConcatAdjacentSubSeq
    <3> QED BY <3>1, SubSeqFull
  <2> QED BY <2>2, <2>3, <2>4
<1>10. /\ rest \in Seq(S) /\ M!WithHeld(held, rest) \in Seq(S)
       /\ q = segment \o M!WithHeld(held, rest)
  BY <1>8, <1>9
<1>11. held \in S \cup {None}
  BY <1>7
<1> HIDE DEF segment, held, rest, stopped
<1> QED BY <1>4, <1>5, <1>6, <1>10, <1>11

\* Cardinality is the same wherever it is used.
LEMMA SameCardinality == \A T : M!Cardinality(T) = Cardinality(T)
BY DEF M!Cardinality, Cardinality

\* SetToSeq lists each element of a finite set once.
LEMMA Listed ==
  ASSUME NEW T, IsFiniteSet(T)
  PROVE  LET list == M!SetToSeq(T)
         IN  /\ list \in Seq(T)
             /\ T = {list[i] : i \in 1..Len(list)}
             /\ \A i, j \in 1..Len(list) : list[i] = list[j] => i = j
<1> DEFINE n == Cardinality(T)
           Listing(f) == M!IsInjective(f)
           list == CHOOSE f \in [1..n -> T] : Listing(f)
<1>1. n \in Nat
  BY FS_CardinalityType
<1>2. PICK f \in [1..n -> T] : /\ \A i, j \in 1..n : f[i] = f[j] => i = j
                               /\ \A t \in T : \E i \in 1..n : f[i] = t
  <2>1. ExistsBijection(1..n, T)
    BY FS_CardinalityType
  <2> HIDE DEF n
  <2> QED BY <2>1 DEF ExistsBijection, Bijection, Injection, Surjection, IsInjective
<1>3. M!SetToSeq(T) = list
  BY SameCardinality DEF M!SetToSeq
<1>4. Listing(f)
  BY <1>2 DEF M!IsInjective
<1> HIDE DEF Listing, n
<1>5. list \in [1..n -> T] /\ Listing(list)
  BY <1>2, <1>4
<1> HIDE DEF list
<1>6. \A i, j \in 1..n : list[i] = list[j] => i = j
  BY <1>5 DEF Listing, M!IsInjective
<1>7. list \in Seq(T) /\ Len(list) = n
  BY <1>1, <1>5
<1>8. \A t \in T : \E i \in 1..n : list[i] = t
  <2>1. list \in Injection(1..n, T)
    BY <1>5, <1>6 DEF Injection, IsInjective
  <2>2. IsFiniteSet(1..n) /\ Cardinality(1..n) = n
    BY <1>1, FS_Interval
  <2>3. list \in Surjection(1..n, T)
    BY <2>1, <2>2, FS_Injection DEF n
  <2> QED BY <2>3 DEF Surjection
<1> QED BY <1>3, <1>5, <1>6, <1>7, <1>8

\* A beginning stays one when more follows.
LEMMA Beginnings ==
  ASSUME NEW S, NEW s \in Seq(S), NEW t \in Seq(S)
  PROVE  /\ M!IsPrefix(<<>>, t) /\ M!IsPrefix(s, s \o t)
         /\ \A x \in S : M!IsPrefix(s, t) => M!IsPrefix(s, Append(t, x))
<1>1. M!IsPrefix(<<>>, t)
  <2>1. Len(<<>>) = 0 /\ SubSeq(<<>>, 1, 0) = <<>> /\ SubSeq(t, 1, 0) = <<>>
    BY SubSeqEmpty
  <2>2. Len(t) \in Nat
    OBVIOUS
  <2> QED BY <2>1, <2>2 DEF M!IsPrefix
<1>2. M!IsPrefix(s, s \o t)
  <2>1. /\ s \o t \in Seq(S) /\ Len(s \o t) = Len(s) + Len(t)
        /\ \A i \in 1..Len(s) : (s \o t)[i] = s[i]
    BY ConcatProperties
  <2>2. SubSeq(s \o t, 1, Len(s)) = SubSeq(s, 1, Len(s))
    BY <2>1
  <2> QED BY <2>1, <2>2 DEF M!IsPrefix
<1>3. ASSUME NEW x \in S, M!IsPrefix(s, t) PROVE M!IsPrefix(s, Append(t, x))
  <2>1. SubSeq(Append(t, x), 1, Len(s)) = SubSeq(t, 1, Len(s)) /\ Len(s) <= Len(t)
    BY <1>3 DEF M!IsPrefix
  <2> QED BY <1>3, <2>1 DEF M!IsPrefix
<1> QED BY <1>1, <1>2, <1>3

\* The first element of a sequence, and what follows it.
LEMMA Popped ==
  ASSUME NEW S, NEW s \in Seq(S), s # <<>>
  PROVE  /\ Head(s) \in S /\ Tail(s) \in Seq(S)
         /\ s = <<Head(s)>> \o Tail(s)
         /\ Tail(s) = <<>> <=> Len(s) = 1
<1>1. /\ Head(s) \in S /\ Tail(s) \in Seq(S) /\ Len(s) \in Nat /\ Len(s) > 0
      /\ Head(s) = s[1] /\ Len(Tail(s)) = Len(s) - 1
      /\ \A i \in 1..Len(Tail(s)) : Tail(s)[i] = s[i + 1]
  BY HeadTailProperties
<1>2. s = <<Head(s)>> \o Tail(s)
  <2>1. <<Head(s)>> \in Seq(S)
    BY <1>1
  <2>2. /\ <<Head(s)>> \o Tail(s) \in Seq(S) /\ Len(<<Head(s)>> \o Tail(s)) = Len(s)
        /\ \A i \in 1..Len(s) : (<<Head(s)>> \o Tail(s))[i] = s[i]
    BY <1>1, <2>1
  <2> QED BY <2>2, SeqEqual
<1> QED BY <1>1, <1>2

\* It does not matter how sequences are put together: the whole is one,
LEMMA ThenType ==
  \A S : \A a, b \in Seq(S) : Then(a, b) \in Seq(S)
BY ConcatProperties DEF Then

\* as long as its parts,
LEMMA ThenLength ==
  \A S : \A a, b \in Seq(S) : Len(Then(a, b)) = Len(a) + Len(b)
BY ConcatProperties DEF Then

\* in whatever order it was put together;
LEMMA ThenAgain ==
  \A S : \A a, b, c \in Seq(S) : Then(Then(a, b), c) = Then(a, Then(b, c))
<1> TAKE S
<1> TAKE a, b, c \in Seq(S)
<1>1. (a \o b) \o c = a \o (b \o c)
  BY ConcatAssociative
<1> QED BY <1>1 DEF Then

\* an element is appended as a sequence of one;
LEMMA ThenOne ==
  \A S : \A a \in Seq(S), x \in S : One(x) \in Seq(S) /\ Append(a, x) = Then(a, One(x))
BY AppendIsConcat DEF Then, One

\* an empty part before
LEMMA NothingThen == \A S : \A a \in Seq(S) : Then(<<>>, a) = a
BY ConcatEmptySeq DEF Then

\* or behind changes nothing;
LEMMA ThenNothing == \A S : \A a \in Seq(S) : Then(a, <<>>) = a
BY ConcatEmptySeq DEF Then

\* and the first element can be taken off again.
LEMMA FirstThen == \A S : \A a \in Seq(S) : a # <<>> => a = Then(One(Head(a)), Tail(a))
<1> TAKE S
<1> TAKE a \in Seq(S)
<1> HAVE a # <<>>
<1>1. a = <<Head(a)>> \o Tail(a)
  BY Popped
<1> QED BY <1>1 DEF Then, One

\* What was typed for an epoch and a number is for later ones.
LEMMA Upwards ==
  ASSUME NEW m \in Nat, NEW n \in Nat, m <= n, NEW p \in Nat, NEW r \in Nat, p <= r
  PROVE  /\ Chunks(m) \subseteq Chunks(n) /\ Seq(Chunks(m)) \subseteq Seq(Chunks(n))
         /\ Commands(m, p) \subseteq Commands(n, r)
         /\ Seq(Commands(m, p)) \subseteq Seq(Commands(n, r))
<1>1. 0..m \subseteq 0..n /\ 1..p \subseteq 1..r
  OBVIOUS
<1>2. Chunks(m) \subseteq Chunks(n)
  BY <1>1 DEF Chunks
<1>3. Commands(m, p) \subseteq Commands(n, r)
  BY <1>1 DEF Commands
<1> QED BY <1>2, <1>3, SeqMonotonic

\* Nothing that is carried is None.
LEMMA ChunkIsSome == \A n : None \notin Chunks(n)
<1> SUFFICES ASSUME NEW n, None \in Chunks(n) PROVE FALSE
  OBVIOUS
<1>1. 0..n \subseteq Nat
  OBVIOUS
<1> QED BY <1>1, NoneIsNoChunk DEF Chunks

\* A key of a chunk, and a map with one key more or some less.
LEMMA ChunkKeys ==
  ASSUME NEW n, NEW chunk \in Chunks(n), NEW direction \in Directions
  PROVE  M!Key(direction, chunk) \in Keys
<1>1. chunk.stream \in Streams \cup Nat /\ chunk.epoch \in 0..n
  BY DEF Chunks
<1> QED BY <1>1 DEF M!Key, Keys

\* Nothing is a sequence, and a map, of anything.
LEMMA EmptyIn ==
  /\ Empty = <<>> /\ \A S : Empty \in Seq(S)
  /\ \A D, R : Partial(Empty, D, R)
BY DEF Empty, Partial

-----------------------------------------------------------------------------
\* What a step leaves alone

\* Parts of the state that do not move.
LEMMA Unmoved ==
  ASSUME Shape, cp'.epoch = cp.epoch, cp'.prepared = cp.prepared
  PROVE  /\ UNCHANGED <<queue, sealer, hostOut>> => OutputShape'
         /\ UNCHANGED <<hostIn, sender>> /\ eng'.on = eng.on
              /\ eng'.inputSending = eng.inputSending => InputShape'
         /\ UNCHANGED remote => RemoteShape'
         /\ UNCHANGED seen => SeenShape'
         /\ UNCHANGED eng => EngineShape'
         /\ UNCHANGED <<limits, store>> => limits' \in M!Limits /\ store' \in Seq(Segments)
<1>1. UNCHANGED <<queue, sealer, hostOut>> => OutputShape'
  BY DEF Shape, OutputShape, Partial
<1>2. UNCHANGED <<hostIn, sender>> /\ eng'.on = eng.on
        /\ eng'.inputSending = eng.inputSending => InputShape'
  BY DEF Shape, InputShape
<1>3. UNCHANGED remote => RemoteShape'
  BY DEF Shape, RemoteShape, Partial
<1>4. UNCHANGED seen => SeenShape'
  BY DEF Shape, SeenShape, Partial
<1>5. UNCHANGED eng => EngineShape'
  BY DEF Shape, EngineShape
<1> QED BY <1>1, <1>2, <1>3, <1>4, <1>5 DEF Shape

\* The host's floor is the committed epoch, with an engine or without.
LEMMA EngineFloor == Shape => /\ eng.minEpoch = cp.epoch
                              /\ eng.on => eng \in Engines(cp.epoch, cp.prepared)
<1>1. CASE eng = [on |-> FALSE, minEpoch |-> cp.epoch]
  BY <1>1
<1>2. CASE eng \in Engines(cp.epoch, cp.prepared)
  BY <1>2 DEF Engines
<1> QED BY <1>1, <1>2 DEF Shape, EngineShape

\* The archive stays as it is.
LEMMA ArchiveKept ==
  ASSUME KnowsEnded, ArchivedForGood, cp'.cursors = cp.cursors, cp'.archive = cp.archive,
         eng'.on => eng'.ended = None \/ (eng.on /\ eng'.ended = eng.ended)
  PROVE  KnowsEnded' /\ ArchivedForGood'
BY DEF KnowsEnded, ArchivedForGood, M!ArchivedForGood, M!Archived

\* Nothing is accepted or forwarded, no command goes on.
LEMMA InputKept ==
  ASSUME InFlight, InputFirst, MarkedFirst,
         seen'.accepted = seen.accepted, seen'.marks = seen.marks,
         remote'.in = remote.in, remote'.reacted = remote.reacted,
         eng'.on => /\ eng.on /\ eng'.held = eng.held /\ sender'.segment = sender.segment
                    /\ sender'.at # "failed" => sender.at # "failed"
                    /\ hostIn'.queue = hostIn.queue /\ eng'.sending \in {eng.sending, None},
         \A i \in DOMAIN cp'.commands : \E j \in DOMAIN cp.commands :
             /\ cp'.commands[i].id = cp.commands[j].id
             /\ cp'.commands[i].intent = cp.commands[j].intent,
         remote'.inbox \in {remote.inbox, <<>>}
  PROVE  InFlight' /\ InputFirst' /\ MarkedFirst'
<1>1. InFlight'
  BY DEF InFlight, Waits, M!WithHeld
<1>2. InputFirst'
  BY DEF InputFirst, M!InputFirst
<1>3. MarkedFirst'
  BY DEF MarkedFirst, Before
<1> QED BY <1>1, <1>2, <1>3

\* A step elsewhere: nothing of the checkpoint, the engine or the input moves.
LEMMA ElsewhereInv ==
  ASSUME MediaInv, Shape', UNCHANGED <<cp, eng, hostIn, sender>>,
         seen'.accepted = seen.accepted, seen'.marks = seen.marks, remote'.in = remote.in,
         remote'.reacted = remote.reacted, remote'.inbox = remote.inbox
  PROVE  MediaInv'
<1>1. KnowsEnded' /\ ArchivedForGood'
  BY ArchiveKept DEF MediaInv
<1>2. InFlight' /\ InputFirst' /\ MarkedFirst'
  BY InputKept DEF MediaInv
<1> QED BY <1>1, <1>2 DEF MediaInv

-----------------------------------------------------------------------------
\* The end of an executor, and the next one

\* Every task ends; the checkpoint keeps its commands or loses some.
LEMMA StopsInv ==
  ASSUME MediaInv, M!StopTasks, UNCHANGED <<limits, store, seen>>, hostOut' \in {hostOut, <<>>},
         CheckpointShape', cp'.epoch = cp.epoch, cp'.prepared = cp.prepared,
         cp'.cursors = cp.cursors, cp'.archive = cp.archive,
         \A i \in DOMAIN cp'.commands : \E j \in DOMAIN cp.commands :
             /\ cp'.commands[i].id = cp.commands[j].id
             /\ cp'.commands[i].intent = cp.commands[j].intent
  PROVE  MediaInv'
<1> Shape
  BY DEF MediaInv
<1>1. /\ eng' = [on |-> FALSE, minEpoch |-> eng.minEpoch] /\ queue' = Empty
      /\ sealer' = [at |-> "idle", held |-> None, segment |-> Empty, ref |-> 0, previous |-> Empty]
      /\ hostIn' = [queue |-> Empty, closed |-> TRUE]
      /\ sender' = [at |-> "idle", segment |-> Empty, ref |-> 0]
      /\ remote' = [remote EXCEPT !.open = FALSE, !.inbox = Empty, !.events = Empty]
      /\ hostOut' \in {hostOut, Empty}
  BY DEF M!StopTasks, M!Down, M!Idle, M!Waiting, Empty
<1>2. eng.minEpoch = cp.epoch /\ eng'.on = FALSE
  BY <1>1, EngineFloor
<1>3. EngineShape' /\ InputShape'
  BY <1>1, <1>2, EmptyIn DEF EngineShape, InputShape
<1>4. OutputShape'
  <2>1. hostOut' \in Seq(Chunks(cp.epoch)) /\ queue' \in Seq(Chunks(cp.epoch))
    BY <1>1, EmptyIn DEF Shape, OutputShape
  <2> QED BY <1>1, <2>1, EmptyIn DEF OutputShape
<1>5. RemoteShape'
  <2>1. remote'.reacted = remote.reacted
    BY <1>1 DEF Shape, RemoteShape
  <2> QED BY <1>1, <2>1, EmptyIn DEF Shape, RemoteShape
<1>6. Shape'
  BY <1>3, <1>4, <1>5, Unmoved DEF Shape
<1>7. KnowsEnded' /\ ArchivedForGood'
  BY <1>2, ArchiveKept DEF MediaInv
<1>8. remote'.in = remote.in /\ remote'.reacted = remote.reacted /\ remote'.inbox = <<>>
  BY <1>1, EmptyIn DEF Shape, RemoteShape
<1>9. InFlight' /\ InputFirst' /\ MarkedFirst'
  BY <1>2, <1>8, InputKept DEF MediaInv
<1> QED BY <1>6, <1>7, <1>9 DEF MediaInv

\* An engine settles a run, or its process dies.
LEMMA LeavesInv ==
  ASSUME MediaInv, UNCHANGED limits,
         M!Crash \/ \E state \in {"Suspended", "Completed", "Failed", "Cancelled"} : M!Settle(state)
  PROVE  MediaInv'
<1> Shape
  BY DEF MediaInv
<1>1. CASE M!Crash
  BY <1>1, StopsInv DEF M!Crash, Shape, CheckpointShape
<1>2. ASSUME NEW state \in {"Suspended", "Completed", "Failed", "Cancelled"}, M!Settle(state)
      PROVE  MediaInv'
  <2>1. cp' = [cp EXCEPT !.state = state] /\ M!StopTasks /\ UNCHANGED <<store, hostOut, seen>>
    BY <1>2 DEF M!Settle
  <2>2. CheckpointShape'
    BY <2>1 DEF Shape, CheckpointShape, Partial
  <2>3. /\ cp'.epoch = cp.epoch /\ cp'.prepared = cp.prepared /\ cp'.cursors = cp.cursors
        /\ cp'.archive = cp.archive /\ cp'.commands = cp.commands
    BY <2>1 DEF Shape, CheckpointShape
  <2> QED BY <2>1, <2>2, <2>3, StopsInv
<1> QED BY <1>1, <1>2

\* A new executor forgets what the last one accepted and marked.
LEMMA AttachInv ==
  ASSUME MediaInv, M!Attach, UNCHANGED limits
  PROVE  MediaInv'
<1> Shape
  BY DEF MediaInv
<1> DEFINE sent == {c.id : c \in {d \in M!ToSet(cp.commands) : d.sent}}
<1>1. /\ cp' = [cp EXCEPT !.state = "Running"]
      /\ eng' = [on |-> TRUE, ready |-> FALSE, sent |-> sent, sending |-> None,
                 inputSending |-> FALSE, held |-> None, ended |-> None, mediaPending |-> FALSE,
                 minEpoch |-> cp.epoch]
      /\ hostOut' = Empty /\ hostIn' = [queue |-> Empty, closed |-> FALSE]
      /\ remote' = [remote EXCEPT !.in = Empty, !.reacted = Empty]
      /\ seen' = [seen EXCEPT !.attempts = @ + 1, !.accepted = Empty, !.marks = Empty]
      /\ UNCHANGED <<store, queue, sealer, sender>>
  BY DEF M!Attach, M!Engine, Empty
<1>2. ~eng.on
  BY DEF M!Attach
<1>3. sent \in SUBSET Nat
  <2> SUFFICES ASSUME NEW i \in DOMAIN cp.commands PROVE cp.commands[i].id \in Nat
    BY DEF M!ToSet
  <2>1. cp.commands \in Seq(Commands(cp.epoch, cp.prepared)) /\ cp.prepared \in Nat
    BY DEF Shape, CheckpointShape
  <2>2. cp.commands[i] \in Commands(cp.epoch, cp.prepared)
    BY <2>1
  <2> QED BY <2>1, <2>2 DEF Commands
<1> HIDE DEF sent
<1>4. /\ cp'.epoch = cp.epoch /\ cp'.prepared = cp.prepared /\ cp'.cursors = cp.cursors
      /\ cp'.archive = cp.archive /\ cp'.commands = cp.commands
  BY <1>1 DEF Shape, CheckpointShape
<1>5. CheckpointShape'
  BY <1>1 DEF Shape, CheckpointShape, Partial
<1>6. EngineShape'
  BY <1>1, <1>3, <1>4 DEF EngineShape, Engines
<1>7. OutputShape'
  BY <1>1, <1>4, EmptyIn DEF Shape, OutputShape
<1>8. sender.at = "idle" /\ sender.segment = <<>>
  BY <1>2 DEF Shape, InputShape
<1>9. InputShape'
  BY <1>1, <1>8, EmptyIn DEF Shape, InputShape
<1>10. RemoteShape'
  <2>1. remote'.reacted = Empty
    BY <1>1 DEF Shape, RemoteShape
  <2> QED BY <1>1, <1>4, <2>1, EmptyIn DEF Shape, RemoteShape
<1>11. SeenShape'
  <2>1. /\ seen'.accepted = Empty /\ seen'.marks = Empty /\ seen'.committed = seen.committed
    BY <1>1 DEF Shape, SeenShape
  <2>2. seen' = [accepted |-> Empty, committed |-> seen.committed, received |-> seen.received,
                 marks |-> Empty, attempts |-> seen.attempts + 1]
    BY <1>1 DEF Shape, SeenShape
  <2>3. seen.attempts + 1 \in Nat /\ seen.received \in Seq(Chunks(cp'.epoch))
    BY <1>4 DEF Shape, SeenShape
  <2> QED BY <2>2, <2>3, EmptyIn DEF SeenShape
<1>12. Shape'
  BY <1>1, <1>4, <1>5, <1>6, <1>7, <1>9, <1>10, <1>11 DEF Shape
<1>13. KnowsEnded' /\ ArchivedForGood'
  BY <1>1, <1>4, ArchiveKept DEF MediaInv
<1>14. /\ seen'.accepted = <<>> /\ seen'.marks = <<>> /\ remote'.in = <<>>
       /\ remote'.reacted = <<>> /\ hostIn'.queue = <<>>
  BY <1>1, EmptyIn DEF Shape, SeenShape, RemoteShape
<1>15. InFlight'
  BY <1>1, <1>8, <1>14 DEF InFlight, Waits, M!WithHeld, Then
<1>16. InputFirst'
  <2>1. Empty \in Seq(Nat) /\ Empty = <<>>
    BY EmptyIn
  <2>2. M!IsPrefix(<<>>, <<>>)
    BY <2>1, Beginnings
  <2> QED BY <1>14, <2>2 DEF InputFirst, M!InputFirst
<1>17. MarkedFirst'
  BY <1>1, <1>14 DEF MarkedFirst, Before
<1> QED BY <1>12, <1>13, <1>15, <1>16, <1>17 DEF MediaInv

\* The commands in the outbox are numbered.
LEMMA Outbox ==
  ASSUME Shape
  PROVE  /\ cp.commands \in Seq(Commands(cp.epoch, cp.prepared))
         /\ cp.prepared \in Nat /\ cp.epoch \in Nat
         /\ \A i \in DOMAIN cp.commands :
               /\ cp.commands[i] \in Commands(cp.epoch, cp.prepared)
               /\ cp.commands[i].id \in 1..cp.prepared
<1>1. /\ cp.commands \in Seq(Commands(cp.epoch, cp.prepared))
      /\ cp.prepared \in Nat /\ cp.epoch \in Nat
  BY DEF Shape, CheckpointShape
<1>2. ASSUME NEW i \in DOMAIN cp.commands
      PROVE  /\ cp.commands[i] \in Commands(cp.epoch, cp.prepared)
             /\ cp.commands[i].id \in 1..cp.prepared
  <2>1. cp.commands[i] \in Commands(cp.epoch, cp.prepared)
    BY <1>1
  <2> QED BY <2>1 DEF Commands
<1> QED BY <1>1, <1>2

\* What a continued session replays are events.
LEMMA ReplayType ==
  ASSUME Shape
  PROVE  M!Replay \in Seq(Events)
<1> DEFINE ids == {c.id : c \in M!ToSet(cp.commands)} \cap remote.done
           done == M!SetToSeq(ids)
           acks == [i \in DOMAIN done |-> [kind |-> "Ack", id |-> done[i]]]
           finished == IF remote.finished /\ cp.response = "active"
                       THEN <<[kind |-> "Finished"]>> ELSE <<>>
           closed == IF remote.closed /\ ~cp.closure THEN <<[kind |-> "Closed"]>> ELSE <<>>
<1>1. ids \in SUBSET (1..cp.prepared)
  <2> SUFFICES ASSUME NEW c \in M!ToSet(cp.commands) PROVE c.id \in 1..cp.prepared
    OBVIOUS
  <2>1. PICK i \in DOMAIN cp.commands : c = cp.commands[i]
    BY DEF M!ToSet
  <2> QED BY <2>1, Outbox
<1>2. IsFiniteSet(ids)
  <2>1. IsFiniteSet(1..cp.prepared)
    <3>1. 1 \in Int /\ cp.prepared \in Int
      BY Outbox
    <3> QED BY <3>1, FS_Interval
  <2> QED BY <1>1, <2>1, FS_Subset
<1>3. done \in Seq(ids)
  BY <1>2, Listed
<1>4. M!Replay = acks \o finished \o closed
  BY DEF M!Replay
<1> HIDE DEF ids
<1> HIDE DEF done
<1>5. Len(done) \in Nat /\ DOMAIN done = 1..Len(done) /\ \A i \in DOMAIN done : done[i] \in Nat
  <2>1. 1..cp.prepared \in SUBSET Nat
    BY Outbox
  <2>2. ids \in SUBSET Nat
    BY <1>1, <2>1
  <2>3. Len(done) \in Nat /\ DOMAIN done = 1..Len(done)
    BY <1>3
  <2>4. \A i \in 1..Len(done) : done[i] \in ids
    BY <1>3, ElementOfSeq
  <2> QED BY <2>2, <2>3, <2>4
<1>6. acks \in Seq(Events)
  <2>1. \A i \in DOMAIN done : [kind |-> "Ack", id |-> done[i]] \in Events
    BY <1>5 DEF Events
  <2> QED BY <1>5, <2>1
<1>7. [kind |-> "Finished"] \in Events /\ [kind |-> "Closed"] \in Events
  BY DEF Events
<1>8. finished \in Seq(Events) /\ closed \in Seq(Events)
  BY <1>7
<1> HIDE DEF acks, finished, closed
<1> QED BY <1>4, <1>6, <1>8

\* The session opens at the committed epoch.
LEMMA OpenedInv ==
  ASSUME MediaInv, M!Opened, UNCHANGED limits
  PROVE  MediaInv'
<1> Shape
  BY DEF MediaInv
<1> DEFINE links == [k \in DOMAIN cp.cursors |-> cp.cursors[k].sealed]
           next == IF remote.epoch = cp.epoch THEN remote.next ELSE [s \in Streams |-> 1]
<1>1. /\ cp' = [cp EXCEPT !.opened = TRUE]
      /\ eng' = [eng EXCEPT !.ready = TRUE, !.mediaPending = TRUE]
      /\ sealer' = [at |-> "idle", held |-> None, segment |-> Empty, ref |-> 0, previous |-> links]
      /\ remote' = [remote EXCEPT !.open = ~remote.closed, !.events = M!Replay, !.next = next,
                                  !.epoch = cp.epoch]
      /\ UNCHANGED <<store, queue, hostOut, hostIn, sender, seen>>
  BY DEF M!Opened, M!Idle, Empty
<1>2. /\ cp'.epoch = cp.epoch /\ cp'.prepared = cp.prepared /\ cp'.cursors = cp.cursors
      /\ cp'.archive = cp.archive /\ cp'.commands = cp.commands
  BY <1>1 DEF Shape, CheckpointShape
<1>3. CheckpointShape'
  BY <1>1 DEF Shape, CheckpointShape
<1>4. Partial(links, Keys, Nat)
  <2>1. \A k \in DOMAIN cp.cursors : cp.cursors[k].sealed \in Nat /\ k \in Keys
    BY DEF Shape, CheckpointShape, Partial, Cursors
  <2> QED BY <2>1 DEF Partial
<1>5. eng \in Engines(cp.epoch, cp.prepared)
  BY EngineFloor DEF M!Opened
<1>6. EngineShape'
  BY <1>1, <1>2, <1>5 DEF EngineShape, Engines
<1>7. /\ eng'.on = eng.on /\ eng'.held = eng.held /\ eng'.sending = eng.sending
      /\ eng'.inputSending = eng.inputSending /\ eng'.ended = eng.ended
  BY <1>1, <1>5 DEF Engines
<1> HIDE DEF links
<1>8. OutputShape'
  BY <1>1, <1>2, <1>4, EmptyIn DEF Shape, OutputShape
<1>9. RemoteShape' /\ remote'.in = remote.in /\ remote'.reacted = remote.reacted
      /\ remote'.inbox = remote.inbox
  <2>1. next \in [Streams -> Nat] /\ cp.epoch \in 0..cp.epoch
    BY Outbox DEF Shape, RemoteShape
  <2> HIDE DEF next
  <2>2. /\ remote'.in = remote.in /\ remote'.reacted = remote.reacted
        /\ remote'.inbox = remote.inbox
    BY <1>1 DEF Shape, RemoteShape
  <2> QED BY <1>1, <1>2, <2>1, <2>2, ReplayType DEF Shape, RemoteShape
<1>10. Shape'
  BY <1>1, <1>2, <1>3, <1>6, <1>7, <1>8, <1>9, Unmoved DEF Shape
<1>11. KnowsEnded' /\ ArchivedForGood'
  BY <1>2, <1>7, ArchiveKept DEF MediaInv
<1>12. InFlight' /\ InputFirst' /\ MarkedFirst'
  BY <1>1, <1>2, <1>7, <1>9, InputKept DEF MediaInv
<1> QED BY <1>10, <1>11, <1>12 DEF MediaInv

-----------------------------------------------------------------------------
\* Sealing

\* A queue and the chunk held back in front of it.
LEMMA HeldFirst ==
  ASSUME NEW S, None \notin S, NEW q \in Seq(S), NEW held \in S \cup {None}
  PROVE  M!WithHeld(held, q) \in Seq(S)
BY DEF M!WithHeld

\* A sealed segment is stored behind the others.
LEMMA SealedType ==
  ASSUME Shape, NEW key \in Keys, NEW n \in Nat, NEW segment \in Seq(Chunks(n)),
         NEW previous \in Nat
  PROVE  /\ M!Sealed(key, segment, previous) \in Seq(Segments)
         /\ Len(store) + 1 \in Nat
<1>1. Chunks(n) \subseteq MediaChunks
  <2>1. 0..n \subseteq Nat
    OBVIOUS
  <2> QED BY <2>1 DEF Chunks, MediaChunks
<1>2. segment \in Seq(MediaChunks)
  BY <1>1, SeqMonotonic
<1>3. [key |-> key, chunks |-> segment, previous |-> previous] \in Segments
  BY <1>2 DEF Segments
<1>4. store \in Seq(Segments)
  BY DEF Shape
<1> QED BY <1>3, <1>4 DEF M!Sealed

\* The engine knows what has ended.
LEMMA EndedIsArchived ==
  ASSUME KnowsEnded, eng.on
  PROVE  M!Ended = M!Archived(cp)
BY DEF KnowsEnded, M!Ended

\* One more stream in the archive.
LEMMA ArchivedOne ==
  ASSUME NEW c, NEW d, NEW node \in Nodes, c.archive \in Seq(Nodes),
         d.archive = Append(c.archive, node)
  PROVE  M!Archived(d) = M!Archived(c) \cup {node.key}
<1>1. /\ DOMAIN c.archive = 1..Len(c.archive) /\ Len(c.archive) \in Nat
      /\ DOMAIN d.archive = 1..(Len(c.archive) + 1)
      /\ d.archive[Len(c.archive) + 1] = node
      /\ \A i \in 1..Len(c.archive) : d.archive[i] = c.archive[i]
  OBVIOUS
<1> QED BY <1>1 DEF M!Archived

\* What a commit of a segment does to the checkpoint.
LEMMA CursorMoves ==
  ASSUME MediaInv, eng.on, NEW key \in Keys, NEW n \in Nat, NEW segment \in Seq(Chunks(n)),
         segment # <<>>, NEW ref \in Nat, M!Extends(key, segment),
         cp' = M!Cursor(key, segment, ref)
  PROVE  /\ CheckpointShape' /\ ArchivedForGood'
         /\ M!Archived(cp)' = IF M!Last(segment).end THEN M!Archived(cp) \cup {key}
                                                     ELSE M!Archived(cp)
         /\ cp'.epoch = cp.epoch /\ cp'.prepared = cp.prepared /\ cp'.commands = cp.commands
<1> Shape
  BY DEF MediaInv
<1> DEFINE c == cp'
           node == [key |-> key, sealed |-> ref, complete |-> TRUE]
           cursor == [sequence |-> M!Last(segment).sequence, sealed |-> ref]
<1>1. node \in Nodes
  BY DEF Nodes
<1>2. cursor \in Cursors
  <2>1. M!Last(segment) \in Chunks(n)
    BY DEF M!Last
  <2> QED BY <2>1 DEF Chunks, Cursors
<1>3. /\ cp.archive \in Seq(Nodes) /\ Partial(cp.cursors, Keys, Cursors)
      /\ IsFiniteSet(DOMAIN cp.cursors)
  BY DEF Shape, CheckpointShape
<1>4. key \notin M!Archived(cp)
  BY EndedIsArchived DEF MediaInv, M!Extends, ArchivedForGood, M!ArchivedForGood
<1>5. CASE M!Last(segment).end
  <2> DEFINE cursors == M!Without(cp.cursors, {key})
             archive == Append(cp.archive, node)
  <2>1. cp' = [[cp EXCEPT !.archive = archive] EXCEPT !.cursors = cursors]
    BY <1>5 DEF M!Cursor, M!Archive, Shape, CheckpointShape
  <2>2. /\ Partial(cursors, Keys, Cursors) /\ DOMAIN cursors = DOMAIN cp.cursors \ {key}
        /\ IsFiniteSet(DOMAIN cursors)
    <3>1. Partial(cursors, Keys, Cursors) /\ DOMAIN cursors = DOMAIN cp.cursors \ {key}
      BY <1>3 DEF Partial, M!Without
    <3>2. IsFiniteSet(DOMAIN cp.cursors \ {key})
      BY <1>3, FS_RemoveElement
    <3> QED BY <3>1, <3>2
  <2>3. archive \in Seq(Nodes)
    BY <1>1, <1>3
  <2> HIDE DEF cursors, archive
  <2>4. /\ cp'.archive = archive /\ cp'.cursors = cursors
        /\ cp'.epoch = cp.epoch /\ cp'.prepared = cp.prepared /\ cp'.commands = cp.commands
    BY <2>1 DEF Shape, CheckpointShape
  <2>5. CheckpointShape'
    BY <2>1, <2>2, <2>3, <2>4 DEF Shape, CheckpointShape
  <2>6. M!Archived(c) = M!Archived(cp) \cup {key}
    <3>1. M!Archived(c) = M!Archived(cp) \cup {node.key}
      <4>1. c.archive = Append(cp.archive, node)
        BY <2>4 DEF archive
      <4> HIDE DEF node, c
      <4> QED BY <1>1, <1>3, <4>1, ArchivedOne
    <3> QED BY <3>1
  <2>7. M!Archived(cp)' = M!Archived(cp) \cup {key}
    BY <2>6 DEF M!Archived
  <2>8. M!Archived(cp)' \cap DOMAIN cp'.cursors = {}
    BY <2>2, <2>4, <2>7 DEF MediaInv, ArchivedForGood, M!ArchivedForGood
  <2>9. ASSUME NEW i \in DOMAIN cp'.archive, NEW j \in DOMAIN cp'.archive,
               cp'.archive[i].key = cp'.archive[j].key
        PROVE  i = j
    <3>1. /\ DOMAIN cp.archive = 1..Len(cp.archive) /\ Len(cp.archive) \in Nat
          /\ DOMAIN cp'.archive = 1..(Len(cp.archive) + 1)
          /\ cp'.archive[Len(cp.archive) + 1] = node
          /\ \A m \in 1..Len(cp.archive) : cp'.archive[m] = cp.archive[m]
      BY <1>3, <1>1, <2>4 DEF archive
    <3>2. \A m \in 1..Len(cp.archive) : cp.archive[m].key # key
      BY <1>4, <3>1 DEF M!Archived
    <3>3. node.key = key
      OBVIOUS
    <3>4. \A m, k \in DOMAIN cp.archive : cp.archive[m].key = cp.archive[k].key => m = k
      BY DEF MediaInv, ArchivedForGood, M!ArchivedForGood
    <3> HIDE DEF node
    <3>5. ASSUME NEW m \in 1..Len(cp.archive)
          PROVE  cp'.archive[m].key # cp'.archive[Len(cp.archive) + 1].key
      BY <3>1, <3>2, <3>3
    <3>6. CASE i \in 1..Len(cp.archive) /\ j \in 1..Len(cp.archive)
      <4>1. cp'.archive[i] = cp.archive[i] /\ cp'.archive[j] = cp.archive[j]
        BY <3>1, <3>6
      <4> QED BY <2>9, <3>1, <3>4, <3>6, <4>1
    <3>7. CASE i = Len(cp.archive) + 1 /\ j = Len(cp.archive) + 1
      BY <3>7
    <3>8. CASE i \in 1..Len(cp.archive) /\ j = Len(cp.archive) + 1
      BY <2>9, <3>5, <3>8
    <3>9. CASE i = Len(cp.archive) + 1 /\ j \in 1..Len(cp.archive)
      BY <2>9, <3>5, <3>9
    <3>10. /\ i \in 1..Len(cp.archive) \/ i = Len(cp.archive) + 1
           /\ j \in 1..Len(cp.archive) \/ j = Len(cp.archive) + 1
      BY <3>1
    <3> QED BY <3>6, <3>7, <3>8, <3>9, <3>10
  <2>10. ArchivedForGood'
    BY <2>8, <2>9 DEF ArchivedForGood, M!ArchivedForGood
  <2> QED BY <1>5, <2>4, <2>5, <2>7, <2>10
<1>6. CASE ~M!Last(segment).end
  <2> DEFINE cursors == M!With(cp.cursors, key, cursor)
  <2>1. cp' = [cp EXCEPT !.cursors = cursors]
    BY <1>6 DEF M!Cursor
  <2>2. /\ Partial(cursors, Keys, Cursors) /\ DOMAIN cursors = DOMAIN cp.cursors \cup {key}
        /\ IsFiniteSet(DOMAIN cursors)
    <3> HIDE DEF cursor
    <3>1. Partial(cursors, Keys, Cursors) /\ DOMAIN cursors = DOMAIN cp.cursors \cup {key}
      BY <1>2, <1>3 DEF Partial, M!With
    <3>2. IsFiniteSet(DOMAIN cp.cursors \cup {key})
      BY <1>3, FS_AddElement
    <3> QED BY <3>1, <3>2
  <2> HIDE DEF cursors
  <2>3. /\ cp'.archive = cp.archive /\ cp'.cursors = cursors
        /\ cp'.epoch = cp.epoch /\ cp'.prepared = cp.prepared /\ cp'.commands = cp.commands
    BY <2>1 DEF Shape, CheckpointShape
  <2>4. CheckpointShape'
    BY <2>1, <2>2, <2>3 DEF Shape, CheckpointShape
  <2>5. M!Archived(cp)' = M!Archived(cp)
    BY <2>3 DEF M!Archived
  <2>6. ArchivedForGood'
    BY <1>4, <2>2, <2>3, <2>5 DEF MediaInv, ArchivedForGood, M!ArchivedForGood
  <2> QED BY <1>6, <2>3, <2>4, <2>5, <2>6
<1> QED BY <1>5, <1>6

\* And to the engine's memory and the history.
LEMMA SealMoves ==
  ASSUME MediaInv, eng.on, NEW key \in Keys, NEW n \in Nat, NEW segment \in Seq(Chunks(n)),
         segment # <<>>, NEW ref \in Nat, M!Extends(key, segment),
         cp' = M!Cursor(key, segment, ref), eng' = M!AfterSeal(key, segment),
         seen' = M!Committed(key, segment)
  PROVE  /\ EngineShape' /\ SeenShape' /\ KnowsEnded'
         /\ eng'.on = eng.on /\ eng'.held = eng.held /\ eng'.sending = eng.sending
         /\ eng'.inputSending = eng.inputSending
         /\ seen'.accepted = seen.accepted /\ seen'.marks = seen.marks
<1> Shape
  BY DEF MediaInv
<1>1. /\ M!Archived(cp)' = IF M!Last(segment).end THEN M!Archived(cp) \cup {key}
                                                   ELSE M!Archived(cp)
      /\ cp'.epoch = cp.epoch /\ cp'.prepared = cp.prepared
  BY CursorMoves
<1>2. eng \in Engines(cp.epoch, cp.prepared)
  BY EngineFloor
<1> DEFINE known == IF key \in DOMAIN cp.cursors THEN eng.ended ELSE M!Ended
           ended == IF M!Last(segment).end THEN M!EndedStream(known, key) ELSE known
<1>3. eng' = [eng EXCEPT !.ended = ended]
  BY DEF M!AfterSeal
<1>4. M!Archived(cp) \in SUBSET Keys
  <2> SUFFICES ASSUME NEW i \in DOMAIN cp.archive PROVE cp.archive[i].key \in Keys
    BY DEF M!Archived
  <2>1. cp.archive \in Seq(Nodes)
    BY DEF Shape, CheckpointShape
  <2>2. cp.archive[i] \in Nodes
    BY <2>1
  <2> QED BY <2>2 DEF Nodes
<1>5. known \in {None, M!Archived(cp)}
  BY EndedIsArchived DEF MediaInv, KnowsEnded
<1>6. ended = None \/ (ended = M!Archived(cp)' /\ ended \in SUBSET Keys)
  BY <1>1, <1>4, <1>5 DEF M!EndedStream
<1> HIDE DEF ended
<1>7. /\ eng'.ended = ended /\ eng'.on = eng.on /\ eng'.held = eng.held
      /\ eng'.sending = eng.sending /\ eng'.inputSending = eng.inputSending
  BY <1>2, <1>3 DEF Engines
<1>8. EngineShape'
  BY <1>1, <1>2, <1>3, <1>6 DEF EngineShape, Engines
<1>9. KnowsEnded'
  <2>1. KnowsEnded' <=> (eng'.on /\ eng'.ended # None => eng'.ended = M!Archived(cp)')
    BY DEF KnowsEnded, M!Archived
  <2> QED BY <1>6, <1>7, <2>1
<1>10. seen' = [seen EXCEPT !.committed = seen'.committed]
  <2> DEFINE all == M!With(seen.committed, key, (IF key \in DOMAIN seen.committed
                                                 THEN seen.committed[key] ELSE <<>>) \o segment)
  <2>1. seen' = [seen EXCEPT !.committed = all]
    BY DEF M!Committed
  <2> HIDE DEF all
  <2>2. seen'.committed = all
    BY <2>1 DEF Shape, SeenShape
  <2> QED BY <2>1, <2>2
<1>11. /\ seen'.accepted = seen.accepted /\ seen'.marks = seen.marks
       /\ seen'.received = seen.received /\ seen'.attempts = seen.attempts
  BY <1>10 DEF Shape, SeenShape
<1>12. SeenShape'
  <2>1. seen' = [accepted |-> seen.accepted, committed |-> seen'.committed,
                 received |-> seen.received, marks |-> seen.marks, attempts |-> seen.attempts]
    BY <1>10, <1>11 DEF Shape, SeenShape
  <2> QED BY <1>1, <1>11, <2>1 DEF Shape, SeenShape, Partial
<1> QED BY <1>7, <1>8, <1>9, <1>11, <1>12

-----------------------------------------------------------------------------
\* Output

\* The sealer takes a segment of what the model spoke.
LEMMA SealerTakeInv ==
  ASSUME MediaInv, M!SealerTake, UNCHANGED limits
  PROVE  MediaInv'
<1> Shape
  BY DEF MediaInv
<1> DEFINE n == cp.epoch
           q == M!WithHeld(sealer.held, queue)
           cut == M!Segment(q)
           key == M!Key("output", Head(q))
           ref == Len(store) + 1
<1>1. /\ limits \in M!Limits /\ n \in Nat /\ None \notin Chunks(n) /\ store \in Seq(Segments)
      /\ queue \in Seq(Chunks(n)) /\ sealer.held \in Chunks(n) \cup {None}
      /\ sealer.segment \in Seq(Chunks(n)) /\ sealer.ref \in Nat
      /\ Partial(sealer.previous, Keys, Nat)
  BY Outbox, ChunkIsSome DEF Shape, OutputShape
<1>2. q \in Seq(Chunks(n)) /\ q # <<>>
  BY <1>1, HeldFirst DEF M!SealerTake
<1>3. /\ cut.segment \in Seq(Chunks(n)) /\ cut.segment # <<>> /\ Head(q) \in Chunks(n)
      /\ cut.held \in Chunks(n) \cup {None} /\ cut.rest \in Seq(Chunks(n))
  BY <1>1, <1>2, SegmentParts
<1>4. key \in Keys
  BY <1>3, ChunkKeys DEF Directions
<1>5. /\ queue' = cut.rest
      /\ \/ /\ store' = M!Sealed(key, cut.segment, M!Link(sealer.previous, key))
            /\ sealer' = [sealer EXCEPT !.at = "ready", !.held = cut.held,
                                        !.segment = cut.segment, !.ref = ref]
         \/ sealer' = [sealer EXCEPT !.at = "failed"] /\ UNCHANGED store
      /\ UNCHANGED <<cp, eng, hostOut, hostIn, sender, remote, seen>>
  BY DEF M!SealerTake
<1> HIDE DEF q, cut, key
<1>6. store' \in Seq(Segments) /\ ref \in Nat
  <2>1. M!Link(sealer.previous, key) \in Nat
    BY <1>1 DEF M!Link, Partial
  <2> QED BY <1>1, <1>3, <1>4, <1>5, <2>1, SealedType
<1>7. OutputShape'
  <2> HIDE DEF ref
  <2>1. sealer'.previous = sealer.previous
    BY <1>5 DEF Shape, OutputShape
  <2> QED BY <1>1, <1>3, <1>5, <1>6, <2>1 DEF Shape, OutputShape
<1>8. Shape'
  BY <1>5, <1>6, <1>7, Unmoved DEF Shape, CheckpointShape
<1> QED BY <1>5, <1>8, ElsewhereInv

\* What moves when a segment is refused, delivered or emitted is typed.
LEMMA SealerDeliverInv ==
  ASSUME MediaInv, M!SealerDeliver, UNCHANGED limits
  PROVE  MediaInv'
<1> Shape
  BY DEF MediaInv
<1> DEFINE n == cp.epoch
<1>1. /\ queue \in Seq(Chunks(n)) /\ hostOut \in Seq(Chunks(n))
      /\ sealer.held \in Chunks(n) \cup {None}
      /\ sealer.segment \in Seq(Chunks(n)) /\ sealer.segment # <<>> /\ sealer.ref \in Nat
      /\ Partial(sealer.previous, Keys, Nat)
  BY DEF Shape, OutputShape, M!SealerDeliver
<1>2. /\ Head(sealer.segment) \in Chunks(n) /\ Tail(sealer.segment) \in Seq(Chunks(n))
      /\ Len(sealer.segment) # 1 => Tail(sealer.segment) # <<>>
  BY <1>1, Popped
<1>3. /\ hostOut' = Append(hostOut, Head(sealer.segment))
      /\ \/ sealer' = [at |-> "idle", held |-> sealer.held, segment |-> Empty, ref |-> 0,
                       previous |-> sealer.previous]
         \/ /\ Len(sealer.segment) # 1
            /\ sealer' = [sealer EXCEPT !.segment = Tail(sealer.segment)]
      /\ UNCHANGED <<cp, store, eng, queue, hostIn, sender, remote, seen>>
  BY DEF M!SealerDeliver, M!Idle, Empty
<1>4. hostOut' \in Seq(Chunks(n))
  BY <1>1, <1>2, <1>3
<1>5. OutputShape'
  <2>1. CASE sealer' = [at |-> "idle", held |-> sealer.held, segment |-> Empty, ref |-> 0,
                        previous |-> sealer.previous]
    BY <1>1, <1>3, <1>4, <2>1, EmptyIn DEF OutputShape
  <2>2. CASE /\ Len(sealer.segment) # 1
             /\ sealer' = [sealer EXCEPT !.segment = Tail(sealer.segment)]
    <3>1. sealer'.previous = sealer.previous /\ sealer'.segment = Tail(sealer.segment)
      BY <2>2 DEF Shape, OutputShape
    <3> QED BY <1>1, <1>2, <1>3, <1>4, <2>2, <3>1 DEF Shape, OutputShape
  <2> QED BY <1>3, <2>1, <2>2
<1>6. Shape'
  BY <1>3, <1>5, Unmoved DEF Shape, CheckpointShape
<1> QED BY <1>3, <1>6, ElsewhereInv

\* What the sealer has ready is committed and delivered, or dropped with its epoch.
LEMMA MediaReadyInv ==
  ASSUME MediaInv, M!MediaReady, UNCHANGED limits
  PROVE  MediaInv'
<1> Shape
  BY DEF MediaInv
<1> DEFINE n == cp.epoch
           segment == sealer.segment
           key == M!Key("output", Head(segment))
<1>1. /\ n \in Nat /\ queue \in Seq(Chunks(n)) /\ hostOut \in Seq(Chunks(n))
      /\ sealer.held \in Chunks(n) \cup {None}
      /\ segment \in Seq(Chunks(n)) /\ segment # <<>> /\ sealer.ref \in Nat
      /\ Partial(sealer.previous, Keys, Nat)
  BY Outbox DEF Shape, OutputShape, M!MediaReady
<1>2. key \in Keys
  <2>1. Head(segment) \in Chunks(n)
    BY <1>1
  <2> HIDE DEF segment
  <2> QED BY <2>1, ChunkKeys DEF Directions
<1>3. CASE ~M!Current(segment)
  <2>1. /\ sealer' = [at |-> "idle", held |-> sealer.held, segment |-> Empty, ref |-> 0,
                      previous |-> sealer.previous]
        /\ UNCHANGED <<cp, store, eng, queue, hostOut, hostIn, sender, remote, seen>>
    BY <1>3 DEF M!MediaReady, M!Idle, Empty
  <2>2. OutputShape'
    BY <1>1, <2>1, EmptyIn DEF OutputShape
  <2>3. Shape'
    BY <2>1, <2>2, Unmoved DEF Shape, CheckpointShape
  <2> QED BY <2>1, <2>3, ElsewhereInv
<1>4. CASE M!Current(segment) /\ M!Extends(key, segment)
  <2> DEFINE links == M!Links(key, segment, sealer.ref)
  <2>1. /\ eng.on /\ cp' = M!Cursor(key, segment, sealer.ref)
        /\ eng' = M!AfterSeal(key, segment) /\ seen' = M!Committed(key, segment)
        /\ sealer' = [sealer EXCEPT !.at = "delivering", !.previous = links]
        /\ UNCHANGED <<store, queue, hostOut, hostIn, sender, remote>>
    BY <1>4 DEF M!MediaReady
  <2>2. Partial(links, Keys, Nat)
    BY <1>1, <1>2 DEF M!Links, M!Without, M!With, Partial
  <2> HIDE DEF links, key
  <2>3. /\ CheckpointShape' /\ ArchivedForGood'
        /\ cp'.epoch = cp.epoch /\ cp'.prepared = cp.prepared /\ cp'.commands = cp.commands
    BY <1>1, <1>2, <1>4, <2>1, CursorMoves
  <2>4. /\ EngineShape' /\ SeenShape' /\ KnowsEnded'
        /\ eng'.on = eng.on /\ eng'.held = eng.held /\ eng'.sending = eng.sending
        /\ eng'.inputSending = eng.inputSending
        /\ seen'.accepted = seen.accepted /\ seen'.marks = seen.marks
    BY <1>1, <1>2, <1>4, <2>1, SealMoves
  <2>5. OutputShape'
    <3>1. sealer'.previous = links
      BY <2>1 DEF Shape, OutputShape
    <3> QED BY <1>1, <2>1, <2>2, <2>3, <3>1 DEF Shape, OutputShape
  <2>6. Shape'
    BY <2>1, <2>3, <2>4, <2>5, Unmoved DEF Shape
  <2>7. InFlight' /\ InputFirst' /\ MarkedFirst'
    BY <2>1, <2>3, <2>4, InputKept DEF MediaInv
  <2> QED BY <2>3, <2>4, <2>6, <2>7 DEF MediaInv
<1>5. CASE M!Current(segment) /\ ~M!Extends(key, segment)
  <2>1. M!Settle("Failed")
    BY <1>5 DEF M!MediaReady
  <2> QED BY <2>1, LeavesInv
<1> QED BY <1>3, <1>4, <1>5

\* The end of output, and the host's side.
LEMMA OutputEndsInv ==
  ASSUME MediaInv, M!MediaDone \/ M!HostReceive, UNCHANGED limits
  PROVE  MediaInv'
<1> Shape
  BY DEF MediaInv
<1>1. CASE M!MediaDone
  <2>1. /\ eng.on /\ eng' = [eng EXCEPT !.mediaPending = FALSE]
        /\ UNCHANGED <<cp, store, queue, sealer, hostOut, hostIn, sender, remote, seen>>
    BY <1>1 DEF M!MediaDone
  <2>2. eng \in Engines(cp.epoch, cp.prepared)
    BY <2>1, EngineFloor
  <2>3. /\ EngineShape' /\ eng'.on = eng.on /\ eng'.held = eng.held /\ eng'.sending = eng.sending
        /\ eng'.inputSending = eng.inputSending /\ eng'.ended = eng.ended
    BY <2>1, <2>2 DEF EngineShape, Engines
  <2>4. Shape'
    BY <2>1, <2>3, Unmoved DEF Shape, CheckpointShape
  <2>5. KnowsEnded' /\ ArchivedForGood'
    BY <2>1, <2>3, ArchiveKept DEF MediaInv
  <2>6. InFlight' /\ InputFirst' /\ MarkedFirst'
    BY <2>1, <2>3, InputKept DEF MediaInv
  <2> QED BY <2>4, <2>5, <2>6 DEF MediaInv
<1>2. CASE M!HostReceive
  <2>1. /\ hostOut # <<>> /\ hostOut' = Tail(hostOut)
        /\ UNCHANGED <<cp, store, eng, queue, sealer, hostIn, sender, remote>>
        /\ seen' = [seen EXCEPT !.received = IF M!Passes(Head(hostOut))
                                             THEN Append(seen.received, Head(hostOut))
                                             ELSE seen.received]
    BY <1>2 DEF M!HostReceive
  <2>2. /\ hostOut \in Seq(Chunks(cp.epoch)) /\ seen.received \in Seq(Chunks(cp.epoch))
    BY DEF Shape, OutputShape, SeenShape
  <2>3. Head(hostOut) \in Chunks(cp.epoch) /\ Tail(hostOut) \in Seq(Chunks(cp.epoch))
    BY <2>1, <2>2
  <2> DEFINE received == IF M!Passes(Head(hostOut)) THEN Append(seen.received, Head(hostOut))
                                                    ELSE seen.received
  <2>4. received \in Seq(Chunks(cp.epoch)) /\ seen' = [seen EXCEPT !.received = received]
    <3>1. Append(seen.received, Head(hostOut)) \in Seq(Chunks(cp.epoch))
      BY <2>2, <2>3, AppendProperties
    <3> QED BY <2>1, <2>2, <3>1
  <2> HIDE DEF received
  <2>5. SeenShape' /\ seen'.accepted = seen.accepted /\ seen'.marks = seen.marks
    <3>1. /\ seen'.accepted = seen.accepted /\ seen'.marks = seen.marks
          /\ seen'.committed = seen.committed
      BY <2>4 DEF Shape, SeenShape
    <3> QED BY <2>1, <2>4, <3>1 DEF Shape, SeenShape, Partial
  <2>6. OutputShape'
    BY <2>1, <2>3 DEF Shape, OutputShape
  <2>7. Shape'
    BY <2>1, <2>5, <2>6, Unmoved DEF Shape, CheckpointShape
  <2> QED BY <2>1, <2>5, <2>7, ElsewhereInv
<1> QED BY <1>1, <1>2

-----------------------------------------------------------------------------
\* The model

\* It speaks, ends its response, or reacts to the next command.
LEMMA SpeaksInv ==
  ASSUME MediaInv, (\E s \in Streams, end \in BOOLEAN : M!Emit(s, end)) \/ M!Finish,
         UNCHANGED limits
  PROVE  MediaInv'
<1> Shape
  BY DEF MediaInv
<1>0. /\ remote.epoch \in 0..cp.epoch /\ remote.next \in [Streams -> Nat]
      /\ remote.events \in Seq(Events)
  BY DEF Shape, RemoteShape
<1>1. ASSUME NEW s \in Streams, NEW end \in BOOLEAN, M!Emit(s, end) PROVE MediaInv'
  <2> DEFINE chunk == M!Chunk(s, remote.epoch, remote.next[s], end)
             next == [remote.next EXCEPT ![s] = @ + 1]
  <2>1. /\ queue' = Append(queue, chunk) /\ remote' = [remote EXCEPT !.next = next]
        /\ UNCHANGED <<cp, store, eng, sealer, hostOut, hostIn, sender, seen>>
    BY <1>0, <1>1 DEF M!Emit
  <2>2. chunk \in Chunks(cp.epoch)
    BY <1>0 DEF M!Chunk, Chunks
  <2>3. next \in [Streams -> Nat]
    BY <1>0
  <2> HIDE DEF chunk, next
  <2>4. /\ remote'.in = remote.in /\ remote'.reacted = remote.reacted
        /\ remote'.inbox = remote.inbox
    BY <2>1 DEF Shape, RemoteShape
  <2>5. RemoteShape'
    BY <2>1, <2>3, <2>4 DEF Shape, RemoteShape
  <2>6. OutputShape'
    <3>1. queue' \in Seq(Chunks(cp.epoch))
      BY <2>1, <2>2, AppendProperties DEF Shape, OutputShape
    <3> QED BY <2>1, <3>1 DEF Shape, OutputShape
  <2>7. Shape'
    BY <2>1, <2>5, <2>6, Unmoved DEF Shape, CheckpointShape
  <2> QED BY <2>1, <2>4, <2>7, ElsewhereInv
<1>2. CASE M!Finish
  <2> DEFINE events == Append(remote.events, [kind |-> "Finished"])
  <2>1. /\ remote' = [remote EXCEPT !.finished = TRUE, !.events = events]
        /\ UNCHANGED <<cp, store, eng, queue, sealer, hostOut, hostIn, sender, seen>>
    BY <1>2 DEF M!Finish
  <2>2. events \in Seq(Events)
    <3>1. [kind |-> "Finished"] \in Events
      BY DEF Events
    <3> QED BY <1>0, <3>1, AppendProperties
  <2> HIDE DEF events
  <2>3. /\ remote'.in = remote.in /\ remote'.reacted = remote.reacted
        /\ remote'.inbox = remote.inbox
    BY <2>1 DEF Shape, RemoteShape
  <2>4. RemoteShape'
    BY <2>1, <2>2, <2>3 DEF Shape, RemoteShape
  <2>5. Shape'
    BY <2>1, <2>4, Unmoved DEF Shape, CheckpointShape
  <2> QED BY <2>1, <2>3, <2>5, ElsewhereInv
<1> QED BY <1>1, <1>2

\* The model takes a command, and answers it.
LEMMA ReactInv ==
  ASSUME MediaInv, M!React, UNCHANGED limits
  PROVE  MediaInv'
<1> Shape
  BY DEF MediaInv
<1> DEFINE command == Head(remote.inbox)
           close == command.intent = "Close"
           interrupt == command.intent = "Interrupt"
           told == <<[kind |-> "Ack", id |-> command.id]>>
           last == IF close THEN <<[kind |-> "Closed"]>> ELSE <<>>
           events == remote.events \o told \o last
           epoch == IF interrupt THEN command.epoch ELSE remote.epoch
           next == IF interrupt THEN [s \in Streams |-> 1] ELSE remote.next
           reacted == M!With(remote.reacted, command.id, Len(remote.in))
           done == remote.done \cup {command.id}
           rest == Tail(remote.inbox)
<1>1. /\ remote.inbox # <<>>
      /\ remote' = [remote EXCEPT !.inbox = rest, !.done = done, !.reacted = reacted,
                                  !.events = events, !.epoch = epoch, !.next = next,
                                  !.closed = close, !.open = ~close]
      /\ UNCHANGED <<cp, store, eng, queue, sealer, hostOut, hostIn, sender, seen>>
  BY DEF M!React
<1>2. /\ remote.inbox \in Seq(Commands(cp.epoch, cp.prepared)) /\ remote.events \in Seq(Events)
      /\ remote.epoch \in 0..cp.epoch /\ remote.next \in [Streams -> Nat]
      /\ remote.in \in Seq(Chunks(0)) /\ remote.done \in SUBSET Nat
      /\ Partial(remote.reacted, 1..cp.prepared, Nat)
  BY DEF Shape, RemoteShape
<1>3. command \in Commands(cp.epoch, cp.prepared) /\ rest \in Seq(Commands(cp.epoch, cp.prepared))
  BY <1>1, <1>2, Popped
<1> HIDE DEF command, rest
<1>4. command.id \in 1..cp.prepared /\ command.id \in Nat /\ command.epoch \in 0..cp.epoch
  BY <1>3 DEF Commands
<1>5. events \in Seq(Events)
  <2>1. told \in Seq(Events) /\ last \in Seq(Events)
    <3>1. [kind |-> "Ack", id |-> command.id] \in Events /\ [kind |-> "Closed"] \in Events
      BY <1>4 DEF Events
    <3> QED BY <3>1
  <2> HIDE DEF told, last
  <2> QED BY <1>2, <2>1
<1>6. /\ Partial(reacted, 1..cp.prepared, Nat) /\ reacted[command.id] = Len(remote.in)
      /\ \A id \in DOMAIN reacted \ {command.id} :
             id \in DOMAIN remote.reacted /\ reacted[id] = remote.reacted[id]
  BY <1>2, <1>4 DEF M!With, Partial
<1>7. epoch \in 0..cp.epoch /\ next \in [Streams -> Nat] /\ done \in SUBSET Nat
  BY <1>2, <1>4
<1>8. close \in BOOLEAN
  OBVIOUS
<1> HIDE DEF events, epoch, next, reacted, done, close
<1>9. remote'.in = remote.in /\ remote'.reacted = reacted /\ remote'.inbox = rest
  BY <1>1 DEF Shape, RemoteShape
<1>10. RemoteShape'
  BY <1>1, <1>3, <1>5, <1>6, <1>7, <1>8, <1>9 DEF Shape, RemoteShape
<1>11. Shape'
  BY <1>1, <1>10, Unmoved DEF Shape, CheckpointShape
<1>12. KnowsEnded' /\ ArchivedForGood'
  BY <1>1, ArchiveKept DEF MediaInv
<1>13. InFlight'
  BY <1>1, <1>9 DEF MediaInv, InFlight, Waits, M!WithHeld
<1>14. Before(command)
  <2>1. 1 \in DOMAIN remote.inbox /\ command = remote.inbox[1]
    BY <1>1, <1>2 DEF command
  <2> QED BY <2>1 DEF MediaInv, MarkedFirst
<1>15. InputFirst'
  <2>1. ASSUME NEW id \in DOMAIN reacted \cap DOMAIN seen.marks
        PROVE  reacted[id] >= seen.marks[id]
    <3>1. CASE id = command.id
      <4>1. seen.marks[id] <= Len(remote.in)
        BY <1>14, <3>1, <2>1 DEF Before
      <4>2. seen.marks[id] \in Int /\ Len(remote.in) \in Int
        BY <1>2, <2>1 DEF Shape, SeenShape, Partial
      <4> QED BY <1>6, <3>1, <4>1, <4>2
    <3>2. CASE id # command.id
      BY <1>6, <2>1, <3>2 DEF MediaInv, InputFirst, M!InputFirst
    <3> QED BY <3>1, <3>2
  <2> QED BY <1>1, <1>9, <2>1 DEF MediaInv, InputFirst, M!InputFirst
<1>16. MarkedFirst'
  <2>1. \A i \in DOMAIN rest : \E j \in DOMAIN remote.inbox : rest[i] = remote.inbox[j]
    <3> SUFFICES ASSUME NEW i \in DOMAIN rest
                 PROVE  \E j \in DOMAIN remote.inbox : rest[i] = remote.inbox[j]
      OBVIOUS
    <3>1. /\ DOMAIN remote.inbox = 1..Len(remote.inbox) /\ Len(remote.inbox) \in Nat
          /\ i \in 1..(Len(remote.inbox) - 1) /\ rest[i] = remote.inbox[i + 1]
      BY <1>1, <1>2 DEF rest
    <3> QED BY <3>1
  <2> QED BY <1>1, <1>9, <2>1 DEF MediaInv, MarkedFirst, Before
<1> QED BY <1>11, <1>12, <1>13, <1>15, <1>16 DEF MediaInv

-----------------------------------------------------------------------------
\* Input

\* What is sent last is behind what is with the model, what is being
\* forwarded and what waits.
LEMMA Behind ==
  \A S : None \notin S =>
         \A in, segment, q, one \in Seq(S), held \in S \cup {None} :
            Then(Then(in, Then(segment, M!WithHeld(held, q))), one)
              = Then(in, Then(segment, M!WithHeld(held, Then(q, one))))
<1> TAKE S
<1> HAVE None \notin S
<1> TAKE in, segment, q, one \in Seq(S), held \in S \cup {None}
<1> DEFINE waits == M!WithHeld(held, q)
<1>1. waits \in Seq(S)
  BY HeldFirst
<1>2. M!WithHeld(held, Then(q, one)) = Then(waits, one)
  <2>1. CASE held = None
    BY <2>1 DEF M!WithHeld
  <2>2. CASE held # None
    <3>1. /\ M!WithHeld(held, Then(q, one)) = Then(One(held), Then(q, one))
          /\ waits = Then(One(held), q)
      BY <2>2 DEF M!WithHeld, Then, One
    <3>2. One(held) \in Seq(S)
      BY <2>2, ThenOne
    <3>3. Then(Then(One(held), q), one) = Then(One(held), Then(q, one))
      BY <3>2, ThenAgain
    <3> QED BY <3>1, <3>3
  <2> QED BY <2>1, <2>2
<1> HIDE DEF waits
<1>3. Then(segment, waits) \in Seq(S)
  BY <1>1, ThenType
<1>4. Then(Then(in, Then(segment, waits)), one) = Then(in, Then(Then(segment, waits), one))
  BY <1>3, ThenAgain
<1>5. Then(Then(segment, waits), one) = Then(segment, Then(waits, one))
  BY <1>1, ThenAgain
<1> QED BY <1>2, <1>4, <1>5 DEF waits

\* A chunk that the host's channel accepts is behind all others.
LEMMA HostSendInv ==
  ASSUME MediaInv, UNCHANGED limits,
         \E s \in {1, seen.attempts}, end \in BOOLEAN : M!HostSend(s, end)
  PROVE  MediaInv'
<1> Shape
  BY DEF MediaInv
<1>1. PICK s \in {1, seen.attempts}, end \in BOOLEAN : M!HostSend(s, end)
  OBVIOUS
<1> DEFINE C == Chunks(0)
           chunk == M!Chunk(s, 0, Len(seen.accepted) + 1, end)
           accepted == Append(seen.accepted, chunk)
           q == Append(hostIn.queue, chunk)
<1>2. /\ hostIn' = [hostIn EXCEPT !.queue = q]
      /\ seen' = [seen EXCEPT !.accepted = accepted]
      /\ UNCHANGED <<cp, store, eng, queue, sealer, hostOut, sender, remote>>
  BY <1>1 DEF M!HostSend
<1>3. /\ seen.accepted \in Seq(C) /\ hostIn.queue \in Seq(C) /\ seen.attempts \in Nat
      /\ Len(seen.accepted) \in Nat
  BY DEF Shape, SeenShape, InputShape
<1>4. chunk \in C
  <2>1. 0 \in 0..0
    OBVIOUS
  <2> QED BY <1>3, <2>1 DEF M!Chunk, Chunks
<1>5. /\ accepted \in Seq(C) /\ Len(accepted) = Len(seen.accepted) + 1
      /\ q \in Seq(C)
  BY <1>3, <1>4, AppendProperties
<1> HIDE DEF chunk
<1>6. SeenShape' /\ seen'.accepted = accepted /\ seen'.marks = seen.marks
  <2> HIDE DEF accepted
  <2>1. /\ seen'.accepted = accepted /\ seen'.marks = seen.marks
        /\ seen'.committed = seen.committed
    BY <1>2 DEF Shape, SeenShape
  <2>2. Partial(seen.marks, 1..cp.prepared, 0..Len(accepted))
    <3>1. 0..Len(seen.accepted) \subseteq 0..Len(accepted)
      BY <1>3, <1>5
    <3> QED BY <3>1 DEF Shape, SeenShape, Partial
  <2> QED BY <1>2, <1>5, <2>1, <2>2 DEF Shape, SeenShape, C
<1>7. InputShape' /\ hostIn'.queue = q
  BY <1>2, <1>5 DEF Shape, InputShape, C
<1>8. Shape'
  BY <1>2, <1>6, <1>7, Unmoved DEF Shape, CheckpointShape
<1>9. KnowsEnded' /\ ArchivedForGood'
  BY <1>2, ArchiveKept DEF MediaInv
<1>10. InFlight'
  <2> SUFFICES ASSUME eng.on, sender.at # "failed"
               PROVE  accepted = Then(remote.in, Then(sender.segment, M!WithHeld(eng.held, q)))
    BY <1>2, <1>6, <1>7 DEF InFlight, Waits
  <2>1. seen.accepted = Then(remote.in, Then(sender.segment, Waits))
    BY DEF MediaInv, InFlight
  <2>2. /\ remote.in \in Seq(C) /\ sender.segment \in Seq(C) /\ Waits \in Seq(C)
    BY <1>3, EngineFloor, ChunkIsSome, HeldFirst
    DEF Shape, RemoteShape, InputShape, Waits, Engines, C
  <2>3. eng.held \in C \cup {None} /\ None \notin C
    BY EngineFloor, ChunkIsSome DEF Engines, C
  <2>4. /\ One(chunk) \in Seq(C) /\ accepted = Then(seen.accepted, One(chunk))
        /\ q = Then(hostIn.queue, One(chunk))
    BY <1>3, <1>4, ThenOne
  <2> HIDE DEF accepted, q
  <2>5. Then(Then(remote.in, Then(sender.segment, M!WithHeld(eng.held, hostIn.queue))), One(chunk))
          = Then(remote.in,
                 Then(sender.segment,
                      M!WithHeld(eng.held, Then(hostIn.queue, One(chunk)))))
    <3> HIDE DEF C
    <3>1. \A in, segment, rest, one \in Seq(C), held \in C \cup {None} :
             Then(Then(in, Then(segment, M!WithHeld(held, rest))), one)
               = Then(in, Then(segment, M!WithHeld(held, Then(rest, one))))
      BY <2>3, Behind
    <3>2. hostIn.queue \in Seq(C)
      BY <1>3
    <3>3. remote.in \in Seq(C)
      BY <2>2
    <3>4. sender.segment \in Seq(C)
      BY <2>2
    <3>5. One(chunk) \in Seq(C)
      BY <2>4
    <3>6. eng.held \in C \cup {None}
      BY <2>3
    <3>7. \A rest, one \in Seq(C), held \in C \cup {None} :
             Then(Then(remote.in, Then(sender.segment, M!WithHeld(held, rest))), one)
               = Then(remote.in, Then(sender.segment, M!WithHeld(held, Then(rest, one))))
      BY <3>1, <3>3, <3>4
    <3> QED BY <3>2, <3>5, <3>6, <3>7
  <2> QED BY <2>1, <2>4, <2>5 DEF Waits
<1>11. InputFirst'
  <2>1. remote.in \in Seq(C) /\ M!IsPrefix(remote.in, seen.accepted)
    BY DEF Shape, RemoteShape, C, MediaInv, InputFirst, M!InputFirst
  <2>2. M!IsPrefix(remote.in, accepted)
    BY <1>3, <1>4, <2>1, Beginnings
  <2> HIDE DEF accepted
  <2> QED BY <1>2, <1>6, <2>2 DEF MediaInv, InputFirst, M!InputFirst
<1>12. MarkedFirst'
  BY <1>2, <1>6 DEF MediaInv, MarkedFirst, Before
<1> QED BY <1>8, <1>9, <1>10, <1>11, <1>12 DEF MediaInv

\* The engine takes a segment of it; what joins no segment stays in front.
LEMMA InputMediaInv ==
  ASSUME MediaInv, M!InputMedia, UNCHANGED limits
  PROVE  MediaInv'
<1> Shape
  BY DEF MediaInv
<1> DEFINE C == Chunks(0)
           q == Waits
           cut == M!Segment(q)
           key == M!Key("input", Head(q))
           links == [k \in DOMAIN cp.cursors |-> cp.cursors[k].sealed]
           ref == Len(store) + 1
           rest == M!WithHeld(cut.held, cut.rest)
<1>0. eng.on /\ eng \in Engines(cp.epoch, cp.prepared) /\ ~eng.inputSending /\ q # <<>>
  BY EngineFloor DEF M!InputMedia, Waits
<1>1. /\ limits \in M!Limits /\ None \notin C /\ store \in Seq(Segments)
      /\ hostIn.queue \in Seq(C) /\ eng.held \in C \cup {None}
      /\ sender.at = "idle" /\ sender.segment = <<>>
  BY <1>0, ChunkIsSome DEF Shape, InputShape, Engines
<1>2. q \in Seq(C)
  BY <1>1, HeldFirst DEF Waits
<1>3. /\ cut.segment \in Seq(C) /\ cut.segment # <<>> /\ Head(q) \in C
      /\ cut.held \in C \cup {None} /\ cut.rest \in Seq(C) /\ rest \in Seq(C)
      /\ q = cut.segment \o rest
  <2> HIDE DEF C, q
  <2> QED BY <1>0, <1>1, <1>2, SegmentParts
<1>4. key \in Keys
  BY <1>3, ChunkKeys DEF Directions
<1>5. /\ hostIn' = [hostIn EXCEPT !.queue = cut.rest]
      /\ eng' = [eng EXCEPT !.held = cut.held, !.inputSending = TRUE]
      /\ \/ /\ store' = M!Sealed(key, cut.segment, M!Link(links, key))
            /\ sender' = [at |-> "ready", segment |-> cut.segment, ref |-> ref]
         \/ sender' = [at |-> "failed", segment |-> Empty, ref |-> 0] /\ UNCHANGED store
      /\ UNCHANGED <<cp, queue, sealer, hostOut, remote, seen>>
  BY DEF M!InputMedia, M!Waiting, Waits, Empty
<1> HIDE DEF q, cut, key
<1>6. store' \in Seq(Segments) /\ ref \in Nat
  <2>1. M!Link(links, key) \in Nat
    BY DEF M!Link, Shape, CheckpointShape, Partial, Cursors
  <2> HIDE DEF links
  <2> QED BY <1>1, <1>3, <1>4, <1>5, <2>1, SealedType
<1>7. /\ EngineShape' /\ eng'.on = eng.on /\ eng'.held = cut.held /\ eng'.inputSending
      /\ eng'.sending = eng.sending /\ eng'.ended = eng.ended
  BY <1>0, <1>3, <1>5 DEF EngineShape, Engines
<1>8. InputShape' /\ hostIn'.queue = cut.rest
  <2> HIDE DEF ref
  <2>1. hostIn' \in [queue : Seq(C), closed : BOOLEAN] /\ hostIn'.queue = cut.rest
    BY <1>3, <1>5 DEF Shape, InputShape
  <2>2. CASE sender' = [at |-> "ready", segment |-> cut.segment, ref |-> ref]
    BY <1>0, <1>3, <1>6, <1>7, <2>1, <2>2 DEF InputShape
  <2>3. CASE sender' = [at |-> "failed", segment |-> Empty, ref |-> 0]
    BY <1>0, <1>7, <2>1, <2>3, EmptyIn DEF InputShape
  <2> QED BY <1>5, <2>1, <2>2, <2>3
<1>9. Shape'
  BY <1>5, <1>6, <1>7, <1>8, Unmoved DEF Shape, CheckpointShape
<1>10. KnowsEnded' /\ ArchivedForGood'
  BY <1>5, <1>7, ArchiveKept DEF MediaInv
<1>11. InFlight'
  <2> SUFFICES ASSUME sender'.at # "failed"
               PROVE  seen'.accepted = Then(remote'.in, Then(sender'.segment, Waits'))
    BY DEF InFlight
  <2>1. sender'.segment = cut.segment /\ Waits' = rest
    BY <1>5, <1>7, <1>8 DEF Waits
  <2>2. seen.accepted = Then(remote.in, Then(<<>>, q))
    BY <1>0, <1>1 DEF MediaInv, InFlight, q
  <2>3. Then(<<>>, q) = q
    BY <1>2, NothingThen
  <2>4. q = Then(cut.segment, rest)
    BY <1>3 DEF Then
  <2> QED BY <1>5, <2>1, <2>2, <2>3, <2>4
<1>12. InputFirst' /\ MarkedFirst'
  BY <1>0, <1>5, <1>7 DEF MediaInv, InputFirst, M!InputFirst, MarkedFirst, Before
<1> QED BY <1>9, <1>10, <1>11, <1>12 DEF MediaInv
\* What is sealed is committed and then forwarded, or the run fails.
LEMMA InputReadyInv ==
  ASSUME MediaInv, M!InputReady, UNCHANGED limits
  PROVE  MediaInv'
<1> Shape
  BY DEF MediaInv
<1> DEFINE segment == sender.segment
           key == M!Key("input", Head(segment))
<1>1. segment \in Seq(Chunks(0)) /\ segment # <<>> /\ sender.ref \in Nat /\ 0 \in Nat
  BY DEF Shape, InputShape, M!InputReady
<1>2. key \in Keys
  <2>1. Head(segment) \in Chunks(0)
    BY <1>1
  <2> HIDE DEF segment
  <2> QED BY <2>1, ChunkKeys DEF Directions
<1>3. CASE M!Extends(key, segment)
  <2>1. /\ eng.on /\ cp' = M!Cursor(key, segment, sender.ref)
        /\ eng' = M!AfterSeal(key, segment) /\ seen' = M!Committed(key, segment)
        /\ sender' = [sender EXCEPT !.at = "sending"] /\ sender.at = "ready"
        /\ UNCHANGED <<store, queue, sealer, hostOut, hostIn, remote>>
    BY <1>3 DEF M!InputReady
  <2> HIDE DEF key
  <2>2. /\ CheckpointShape' /\ ArchivedForGood'
        /\ cp'.epoch = cp.epoch /\ cp'.prepared = cp.prepared /\ cp'.commands = cp.commands
    BY <1>1, <1>2, <1>3, <2>1, CursorMoves
  <2>3. /\ EngineShape' /\ SeenShape' /\ KnowsEnded'
        /\ eng'.on = eng.on /\ eng'.held = eng.held /\ eng'.sending = eng.sending
        /\ eng'.inputSending = eng.inputSending
        /\ seen'.accepted = seen.accepted /\ seen'.marks = seen.marks
    BY <1>1, <1>2, <1>3, <2>1, SealMoves
  <2>4. InputShape' /\ sender'.segment = sender.segment /\ sender'.at = "sending"
    BY <1>1, <2>1, <2>3 DEF Shape, InputShape
  <2>5. Shape'
    BY <2>1, <2>2, <2>3, <2>4, Unmoved DEF Shape
  <2>6. InFlight' /\ InputFirst' /\ MarkedFirst'
    BY <2>1, <2>2, <2>3, <2>4, InputKept DEF MediaInv
  <2> QED BY <2>2, <2>3, <2>5, <2>6 DEF MediaInv
<1>4. CASE ~M!Extends(key, segment)
  <2>1. M!Settle("Failed")
    BY <1>4 DEF M!InputReady
  <2> QED BY <2>1, LeavesInv
<1> QED BY <1>3, <1>4

\* The first chunk of a segment goes over to the model, behind all others.
LEMMA GoesOver ==
  \A S : \A in, rest, waits \in Seq(S), first \in S :
      Then(in, Then(Then(One(first), rest), waits)) = Then(Then(in, One(first)), Then(rest, waits))
<1> TAKE S
<1> TAKE in, rest, waits \in Seq(S), first \in S
<1>1. One(first) \in Seq(S) /\ Then(rest, waits) \in Seq(S)
  BY ThenOne, ThenType
<1>2. Then(Then(One(first), rest), waits) = Then(One(first), Then(rest, waits))
  BY <1>1, ThenAgain
<1>3. Then(Then(in, One(first)), Then(rest, waits)) = Then(in, Then(One(first), Then(rest, waits)))
  BY <1>1, ThenAgain
<1> QED BY <1>2, <1>3

\* The model takes a chunk of input.
LEMMA InputForwardInv ==
  ASSUME MediaInv, M!InputForward, UNCHANGED limits
  PROVE  MediaInv'
<1> Shape
  BY DEF MediaInv
<1> DEFINE C == Chunks(0)
           first == Head(sender.segment)
           rest == Tail(sender.segment)
           in == Append(remote.in, first)
<1>0. /\ eng.on /\ sender.at = "sending"
      /\ UNCHANGED <<cp, store, eng, queue, sealer, hostOut, hostIn, seen>>
  BY DEF M!InputForward
<1>1. /\ sender.segment \in Seq(C) /\ sender.segment # <<>>
      /\ remote.in \in Seq(C) /\ sender.ref \in Nat
  BY <1>0 DEF Shape, InputShape, RemoteShape
<1>2. first \in C /\ rest \in Seq(C) /\ (rest = <<>> <=> Len(sender.segment) = 1)
  BY <1>1, Popped
<1>3. KnowsEnded' /\ ArchivedForGood'
  BY <1>0, ArchiveKept DEF MediaInv
<1>4. CASE remote.open
  <2>1. /\ remote' = [remote EXCEPT !.in = in]
        /\ sender' = IF Len(sender.segment) = 1
                     THEN [at |-> "sent", segment |-> Empty, ref |-> 0]
                     ELSE [sender EXCEPT !.segment = rest]
    BY <1>4 DEF M!InputForward, M!Waiting, Empty
  <2>2. in \in Seq(C) /\ Len(in) = Len(remote.in) + 1 /\ in = Then(remote.in, One(first))
    <3>1. in \in Seq(C) /\ Len(in) = Len(remote.in) + 1
      BY <1>1, <1>2, AppendProperties
    <3>2. in = Then(remote.in, One(first))
      BY <1>1, <1>2, ThenOne
    <3> QED BY <3>1, <3>2
  <2> HIDE DEF in, first, rest
  <2>3. sender'.segment = rest /\ InputShape'
    <3>1. CASE Len(sender.segment) = 1
      <4>1. sender' = [at |-> "sent", segment |-> Empty, ref |-> 0] /\ rest = Empty
        BY <1>2, <2>1, <3>1, EmptyIn
      <4> QED BY <1>0, <4>1, EmptyIn DEF Shape, InputShape
    <3>2. CASE Len(sender.segment) # 1
      <4>1. sender' = [sender EXCEPT !.segment = rest] /\ rest # <<>>
        BY <1>2, <2>1, <3>2
      <4> QED BY <1>0, <1>2, <4>1 DEF Shape, InputShape
    <3> QED BY <3>1, <3>2
  <2>4. /\ RemoteShape' /\ remote'.in = in /\ remote'.reacted = remote.reacted
        /\ remote'.inbox = remote.inbox
    <3>1. /\ remote'.in = in /\ remote'.reacted = remote.reacted
          /\ remote'.inbox = remote.inbox
      BY <2>1 DEF Shape, RemoteShape
    <3> QED BY <1>0, <2>1, <2>2, <3>1 DEF Shape, RemoteShape
  <2>5. Shape'
    BY <1>0, <2>3, <2>4, Unmoved DEF Shape, CheckpointShape
  <2>6. Waits' = Waits /\ Waits \in Seq(C)
    BY <1>0, EngineFloor, ChunkIsSome, HeldFirst DEF Shape, InputShape, Waits, Engines
  <2>7. seen.accepted = Then(in, Then(rest, Waits))
    <3>1. seen.accepted = Then(remote.in, Then(sender.segment, Waits))
      BY <1>0 DEF MediaInv, InFlight
    <3>2. sender.segment = Then(One(first), rest)
      BY <1>1, FirstThen DEF first, rest
    <3>3. \A r, w \in Seq(C), f \in C :
             Then(remote.in, Then(Then(One(f), r), w)) = Then(Then(remote.in, One(f)), Then(r, w))
      BY <1>1, GoesOver
    <3>4. Then(remote.in, Then(Then(One(first), rest), Waits))
            = Then(Then(remote.in, One(first)), Then(rest, Waits))
      BY <1>2, <2>6, <3>3
    <3> QED BY <2>2, <3>1, <3>2, <3>4
  <2>8. InFlight'
    BY <1>0, <2>3, <2>4, <2>6, <2>7 DEF InFlight
  <2>9. InputFirst'
    <3>1. M!IsPrefix(in, seen.accepted)
      <4>1. Then(rest, Waits) \in Seq(C)
        BY <1>2, <2>6, ThenType
      <4>2. M!IsPrefix(in, in \o Then(rest, Waits))
        BY <2>2, <4>1, Beginnings
      <4> QED BY <2>7, <4>2 DEF Then
    <3> QED BY <1>0, <2>4, <3>1 DEF MediaInv, InputFirst, M!InputFirst
  <2>10. MarkedFirst'
    <3>1. ASSUME NEW command, Before(command) PROVE Before(command)'
      <4>1. \A id \in DOMAIN seen.marks : seen.marks[id] \in Nat
        BY DEF Shape, SeenShape, Partial
      <4>2. Len(remote.in) \in Nat
        BY <1>1
      <4> QED BY <1>0, <2>2, <2>4, <3>1, <4>1, <4>2 DEF Before
    <3> QED BY <1>0, <2>4, <3>1 DEF MediaInv, MarkedFirst
  <2> QED BY <1>3, <2>5, <2>8, <2>9, <2>10 DEF MediaInv
<1>5. CASE ~remote.open
  <2>1. sender' = [at |-> "failed", segment |-> Empty, ref |-> 0] /\ UNCHANGED remote
    BY <1>5 DEF M!InputForward, M!Waiting, Empty
  <2>2. InputShape'
    BY <1>0, <2>1, EmptyIn DEF Shape, InputShape
  <2>3. Shape'
    BY <1>0, <2>1, <2>2, Unmoved DEF Shape, CheckpointShape
  <2>4. InFlight' /\ InputFirst' /\ MarkedFirst'
    BY <1>0, <2>1 DEF MediaInv, InFlight, InputFirst, M!InputFirst, MarkedFirst, Before
  <2> QED BY <1>3, <2>3, <2>4 DEF MediaInv
<1> QED BY <1>4, <1>5

\* The engine learns that the segment is with the model, or that it is not.
LEMMA InputSentInv ==
  ASSUME MediaInv, M!InputSent, UNCHANGED limits
  PROVE  MediaInv'
<1> Shape
  BY DEF MediaInv
<1>1. CASE sender.at = "failed"
  <2>1. M!Settle("Suspended")
    BY <1>1 DEF M!InputSent
  <2> QED BY <2>1, LeavesInv
<1>2. CASE sender.at # "failed"
  <2>1. /\ eng.on /\ sender.at = "sent" /\ eng' = [eng EXCEPT !.inputSending = FALSE]
        /\ sender' = [at |-> "idle", segment |-> Empty, ref |-> 0]
        /\ UNCHANGED <<cp, store, queue, sealer, hostOut, hostIn, remote, seen>>
    BY <1>2 DEF M!InputSent, M!Waiting, Empty
  <2>2. eng \in Engines(cp.epoch, cp.prepared)
    BY <2>1, EngineFloor
  <2>3. /\ EngineShape' /\ eng'.on = eng.on /\ eng'.held = eng.held /\ eng'.sending = eng.sending
        /\ ~eng'.inputSending /\ eng'.ended = eng.ended
    BY <2>1, <2>2 DEF EngineShape, Engines
  <2>4. sender.segment = <<>> /\ sender'.segment = <<>>
    BY <2>1, EmptyIn DEF Shape, InputShape
  <2>5. InputShape'
    BY <2>1, <2>3, EmptyIn DEF Shape, InputShape
  <2>6. Shape'
    BY <2>1, <2>3, <2>5, Unmoved DEF Shape, CheckpointShape
  <2>7. KnowsEnded' /\ ArchivedForGood'
    BY <2>1, <2>3, ArchiveKept DEF MediaInv
  <2>8. InFlight' /\ InputFirst' /\ MarkedFirst'
    BY <2>1, <2>3, <2>4, InputKept DEF MediaInv
  <2> QED BY <2>6, <2>7, <2>8 DEF MediaInv
<1> QED BY <1>1, <1>2

-----------------------------------------------------------------------------
\* Commands

\* A new command is the last, under a new number.
Prepared(intent, epoch) ==
    [id |-> cp.prepared + 1, intent |-> intent, epoch |-> epoch, sent |-> FALSE]
Queued(intent, epoch) == Append(cp.commands, Prepared(intent, epoch))

\* What adding a command does to the checkpoint.
LEMMA CommandType ==
  ASSUME Shape
  PROVE  \A intent \in {"Flush", "Seal", "Interrupt", "Close"}, epoch \in Nat, target \in Nat :
            cp.epoch <= epoch /\ target <= epoch =>
              /\ Queued(intent, target) \in Seq(Commands(epoch, cp.prepared + 1))
              /\ \A i \in DOMAIN Queued(intent, target) :
                     \/ i \in DOMAIN cp.commands /\ Queued(intent, target)[i] = cp.commands[i]
                     \/ /\ Queued(intent, target)[i].id = cp.prepared + 1
                        /\ Queued(intent, target)[i].intent = intent
<1> TAKE intent \in {"Flush", "Seal", "Interrupt", "Close"}, epoch \in Nat, target \in Nat
<1> HAVE cp.epoch <= epoch /\ target <= epoch
<1> DEFINE n == cp.prepared + 1
           command == Prepared(intent, target)
           commands == Append(cp.commands, command)
<1>1. /\ cp.commands \in Seq(Commands(cp.epoch, cp.prepared)) /\ cp.prepared \in Nat
      /\ cp.epoch \in Nat
  BY Outbox
<1>2. n \in Nat /\ cp.prepared <= n /\ n \in 1..n
  BY <1>1
<1>3. cp.commands \in Seq(Commands(epoch, n))
  <2> HIDE DEF n
  <2> QED BY <1>1, <1>2, Upwards
<1>4. command \in Commands(epoch, n) /\ command.id = n /\ command.intent = intent
  <2>1. target \in 0..epoch
    OBVIOUS
  <2> QED BY <1>2, <2>1 DEF Commands, Prepared
<1> HIDE DEF n, command
<1>5. /\ commands \in Seq(Commands(epoch, n))
      /\ \A i \in DOMAIN commands :
             \/ i \in DOMAIN cp.commands /\ commands[i] = cp.commands[i]
             \/ commands[i] = command
  BY <1>3, <1>4, AppendProperties
<1>6. commands = Queued(intent, target)
  BY DEF Queued, command
<1> HIDE DEF commands
<1> QED BY <1>2, <1>4, <1>5, <1>6 DEF n

\* What is typed stays typed when the epoch or the number of commands grows.
LEMMA Raised ==
  ASSUME Shape, cp'.epoch \in Nat, cp.epoch <= cp'.epoch, cp'.prepared \in Nat,
         cp.prepared <= cp'.prepared
  PROVE  /\ UNCHANGED <<queue, sealer, hostOut>> => OutputShape'
         /\ UNCHANGED remote => RemoteShape'
         /\ seen.received \in Seq(Chunks(cp'.epoch))
         /\ Partial(seen.marks, 1..cp'.prepared, 0..Len(seen.accepted))
         /\ \A e \in Engines(cp.epoch, cp.prepared) :
               e.sending \in Commands(cp'.epoch, cp'.prepared) \cup {None}
<1> DEFINE n == cp.epoch
           p == cp.prepared
<1>1. n \in Nat /\ p \in Nat
  BY Outbox
<1>2. /\ Chunks(n) \subseteq Chunks(cp'.epoch) /\ Seq(Chunks(n)) \subseteq Seq(Chunks(cp'.epoch))
      /\ Commands(n, p) \subseteq Commands(cp'.epoch, cp'.prepared)
      /\ Seq(Commands(n, p)) \subseteq Seq(Commands(cp'.epoch, cp'.prepared))
  BY <1>1, Upwards
<1>3. 0..n \subseteq 0..cp'.epoch /\ 1..p \subseteq 1..cp'.prepared
  BY <1>1
<1>4. UNCHANGED <<queue, sealer, hostOut>> => OutputShape'
  <2> SUFFICES ASSUME UNCHANGED <<queue, sealer, hostOut>> PROVE OutputShape'
    OBVIOUS
  <2>1. queue' \in Seq(Chunks(cp'.epoch)) /\ hostOut' \in Seq(Chunks(cp'.epoch))
    BY <1>2 DEF Shape, OutputShape
  <2>2. sealer' \in [at : {"idle", "ready", "delivering", "failed"},
                     held : Chunks(cp'.epoch) \cup {None}, segment : Seq(Chunks(cp'.epoch)),
                     ref : Nat, previous : {sealer'.previous}]
    BY <1>2 DEF Shape, OutputShape
  <2> QED BY <2>1, <2>2 DEF Shape, OutputShape, Partial
<1>5. UNCHANGED remote => RemoteShape'
  <2> SUFFICES ASSUME UNCHANGED remote PROVE RemoteShape'
    OBVIOUS
  <2>1. remote.inbox \in Seq(Commands(cp'.epoch, cp'.prepared)) /\ remote.epoch \in 0..cp'.epoch
    BY <1>2, <1>3 DEF Shape, RemoteShape
  <2>2. Partial(remote.reacted, 1..cp'.prepared, Nat)
    BY <1>3 DEF Shape, RemoteShape, Partial
  <2> QED BY <2>1, <2>2 DEF Shape, RemoteShape
<1>6. seen.received \in Seq(Chunks(cp'.epoch))
  BY <1>2 DEF Shape, SeenShape
<1>7. Partial(seen.marks, 1..cp'.prepared, 0..Len(seen.accepted))
  BY <1>3 DEF Shape, SeenShape, Partial
<1>8. ASSUME NEW e \in Engines(n, p)
      PROVE  e.sending \in Commands(cp'.epoch, cp'.prepared) \cup {None}
  BY <1>2 DEF Engines
<1> QED BY <1>4, <1>5, <1>6, <1>7, <1>8

\* A command that waits for the input accepted before it remembers how much that is.
LEMMA WaitsInv ==
  ASSUME MediaInv, eng.on, NEW intent \in {"Flush", "Seal", "Close"},
         UNCHANGED <<limits, store, eng, queue, sealer, hostOut, sender, remote>>,
         hostIn' \in [queue : {hostIn.queue}, closed : BOOLEAN], seen' = M!Marked,
         CheckpointShape', cp'.epoch = cp.epoch, cp'.prepared = cp.prepared + 1,
         cp'.cursors = cp.cursors, cp'.archive = cp.archive,
         \A i \in DOMAIN cp'.commands :
             \/ i \in DOMAIN cp.commands /\ cp'.commands[i] = cp.commands[i]
             \/ cp'.commands[i].id = cp.prepared + 1 /\ cp'.commands[i].intent = intent
  PROVE  MediaInv'
<1> Shape
  BY DEF MediaInv
<1> DEFINE n == cp.epoch
           p == cp.prepared
           marks == M!With(seen.marks, p + 1, Len(seen.accepted))
<1>1. /\ n \in Nat /\ p \in Nat /\ p + 1 \in Nat /\ p <= p + 1
      /\ p + 1 \notin 1..p /\ p + 1 \in 1..(p + 1)
  BY Outbox
<1>2. OutputShape' /\ RemoteShape'
  BY <1>1, Raised
<1>3. eng \in Engines(n, p) /\ eng.sending \in Commands(n, p + 1) \cup {None}
  BY <1>1, EngineFloor, Raised
<1>4. EngineShape'
  <2>1. eng \in Engines(n, p + 1)
    BY <1>3 DEF Engines
  <2> QED BY <2>1 DEF EngineShape
<1>5. seen' = [seen EXCEPT !.marks = marks]
  BY DEF M!Marked, Shape, SeenShape
<1>6. /\ seen'.marks = marks /\ seen'.accepted = seen.accepted
      /\ seen'.committed = seen.committed
  <2> HIDE DEF marks
  <2> QED BY <1>5 DEF Shape, SeenShape
<1>7. /\ Partial(marks, 1..(p + 1), 0..Len(seen.accepted)) /\ p + 1 \in DOMAIN marks
      /\ \A id \in DOMAIN marks :
            id # p + 1 => id \in DOMAIN seen.marks /\ marks[id] = seen.marks[id]
  <2>1. Len(seen.accepted) \in 0..Len(seen.accepted)
    BY DEF Shape, SeenShape
  <2>2. Partial(seen.marks, 1..(p + 1), 0..Len(seen.accepted))
    BY <1>1, Raised
  <2> QED BY <1>1, <2>1, <2>2 DEF M!With, Partial
<1> HIDE DEF marks
<1>8. SeenShape'
  <2>1. seen.received \in Seq(Chunks(cp'.epoch))
    BY <1>1, Raised
  <2> QED BY <1>5, <1>6, <1>7, <2>1 DEF Shape, SeenShape
<1>9. InputShape' /\ hostIn'.queue = hostIn.queue
  BY DEF Shape, InputShape
<1>10. Shape'
  BY <1>2, <1>4, <1>8, <1>9 DEF Shape
<1>11. KnowsEnded' /\ ArchivedForGood'
  BY ArchiveKept DEF MediaInv
<1>12. InFlight'
  BY <1>6, <1>9 DEF MediaInv, InFlight, Waits, M!WithHeld
<1>13. InputFirst'
  <2>1. p + 1 \notin DOMAIN remote.reacted
    BY <1>1 DEF Shape, RemoteShape, Partial
  <2> QED BY <1>6, <1>7, <2>1 DEF MediaInv, InputFirst, M!InputFirst
<1>14. MarkedFirst'
  <2>1. ASSUME NEW command \in Commands(n, p), Before(command) PROVE Before(command)'
    <3>1. command.id \in 1..p
      BY DEF Commands
    <3> QED BY <1>1, <1>6, <1>7, <2>1, <3>1 DEF Before
  <2>2. \A i \in DOMAIN remote.inbox : remote.inbox[i] \in Commands(n, p)
    BY DEF Shape, RemoteShape
  <2>3. eng.sending \in Commands(n, p) \cup {None}
    BY <1>3 DEF Engines
  <2>4. ASSUME NEW i \in DOMAIN cp'.commands, cp'.commands[i].intent = "Interrupt"
        PROVE  cp'.commands[i].id \notin DOMAIN marks
    <3>1. i \in DOMAIN cp.commands /\ cp'.commands[i] = cp.commands[i]
      BY <2>4
    <3>2. cp.commands[i].id \in 1..p
      BY <3>1, Outbox
    <3>3. cp.commands[i].id \notin DOMAIN seen.marks
      BY <2>4, <3>1 DEF MediaInv, MarkedFirst
    <3> QED BY <1>1, <1>7, <3>1, <3>2, <3>3
  <2> QED BY <1>6, <2>1, <2>2, <2>3, <2>4 DEF MediaInv, MarkedFirst
<1> QED BY <1>10, <1>11, <1>12, <1>13, <1>14 DEF MediaInv

\* A flush, a seal, and the close of a session.
Adds(intent) ==
    cp' = [M!Command(cp, intent, 0) EXCEPT !.flushes = cp'.flushes,
              !.inputClosed = cp'.inputClosed, !.closing = cp'.closing]

\* Such a command is marked with the input accepted before it.
LEMMA ControlInv ==
  ASSUME MediaInv, eng.on, NEW intent \in {"Flush", "Seal", "Close"}, Adds(intent),
         cp'.flushes \in Nat, cp'.inputClosed \in BOOLEAN, cp'.closing \in BOOLEAN,
         UNCHANGED <<limits, store, eng, queue, sealer, hostOut, sender, remote>>,
         hostIn' \in [queue : {hostIn.queue}, closed : BOOLEAN], seen' = M!Marked
  PROVE  MediaInv'
<1> Shape
  BY DEF MediaInv
<1> DEFINE commands == Queued(intent, 0)
<1>1. /\ cp.epoch \in Nat /\ cp.epoch <= cp.epoch /\ 0 <= cp.epoch /\ cp.prepared + 1 \in Nat
      /\ 0 \in Nat /\ intent \in {"Flush", "Seal", "Interrupt", "Close"}
  BY Outbox
<1>2. /\ M!Command(cp, intent, 0) = [cp EXCEPT !.prepared = cp.prepared + 1, !.commands = commands]
      /\ commands \in Seq(Commands(cp.epoch, cp.prepared + 1))
      /\ \A i \in DOMAIN commands :
             \/ i \in DOMAIN cp.commands /\ commands[i] = cp.commands[i]
             \/ commands[i].id = cp.prepared + 1 /\ commands[i].intent = intent
  <2>1. M!Command(cp, intent, 0) = [cp EXCEPT !.prepared = cp.prepared + 1, !.commands = commands]
    BY DEF M!Command, Queued, Prepared, Shape, CheckpointShape
  <2>2. /\ commands \in Seq(Commands(cp.epoch, cp.prepared + 1))
        /\ \A i \in DOMAIN commands :
               \/ i \in DOMAIN cp.commands /\ commands[i] = cp.commands[i]
               \/ commands[i].id = cp.prepared + 1 /\ commands[i].intent = intent
    BY <1>1, CommandType
  <2> QED BY <2>1, <2>2
<1> HIDE DEF commands
<1>3. cp' = [cp EXCEPT !.prepared = cp.prepared + 1, !.commands = commands, !.flushes = cp'.flushes,
                       !.inputClosed = cp'.inputClosed, !.closing = cp'.closing]
  BY <1>1, <1>2 DEF Adds, Shape, CheckpointShape
<1>4. /\ cp'.epoch = cp.epoch /\ cp'.prepared = cp.prepared + 1 /\ cp'.cursors = cp.cursors
      /\ cp'.archive = cp.archive /\ cp'.commands = commands /\ cp'.state = cp.state
      /\ cp'.opened = cp.opened /\ cp'.response = cp.response /\ cp'.closure = cp.closure
  BY <1>3 DEF Shape, CheckpointShape
<1>5. CheckpointShape'
  <2>1. cp' = [state |-> cp.state, epoch |-> cp.epoch, cursors |-> cp.cursors,
               archive |-> cp.archive, commands |-> commands, prepared |-> cp.prepared + 1,
               flushes |-> cp'.flushes, opened |-> cp.opened, response |-> cp.response,
               inputClosed |-> cp'.inputClosed, closing |-> cp'.closing, closure |-> cp.closure]
    BY <1>3, <1>4 DEF Shape, CheckpointShape
  <2> QED BY <1>1, <1>2, <1>4, <2>1 DEF Shape, CheckpointShape
<1>6. \A i \in DOMAIN cp'.commands :
          \/ i \in DOMAIN cp.commands /\ cp'.commands[i] = cp.commands[i]
          \/ cp'.commands[i].id = cp.prepared + 1 /\ cp'.commands[i].intent = intent
  BY <1>2, <1>4
<1> QED BY <1>4, <1>5, <1>6, WaitsInv

\* The controls that add one.
LEMMA ControlsInv ==
  ASSUME MediaInv, M!ControlFlush \/ M!ControlSeal \/ M!PrepareClose, UNCHANGED limits
  PROVE  MediaInv'
<1> Shape
  BY DEF MediaInv
<1>1. cp.flushes \in Nat /\ cp.inputClosed \in BOOLEAN /\ cp.closing \in BOOLEAN
  BY DEF Shape, CheckpointShape
<1>2. CASE M!ControlFlush
  <2>1. /\ eng.on /\ cp' = [M!Command(cp, "Flush", 0) EXCEPT !.flushes = @ + 1] /\ seen' = M!Marked
        /\ UNCHANGED <<store, eng, queue, sealer, hostOut, hostIn, sender, remote>>
    BY <1>2 DEF M!ControlFlush
  <2>2. /\ cp'.flushes = cp.flushes + 1 /\ cp'.inputClosed = cp.inputClosed
        /\ cp'.closing = cp.closing
        /\ Adds("Flush")
    BY <2>1 DEF Adds, M!Command, Shape, CheckpointShape
  <2>3. cp'.flushes \in Nat /\ cp'.inputClosed \in BOOLEAN /\ cp'.closing \in BOOLEAN
    BY <1>1, <2>2
  <2>4. hostIn' \in [queue : {hostIn.queue}, closed : BOOLEAN]
    BY <2>1 DEF Shape, InputShape
  <2> QED BY <2>1, <2>2, <2>3, <2>4, ControlInv
<1>3. CASE M!ControlSeal
  <2>1. /\ eng.on /\ cp' = [M!Command(cp, "Seal", 0) EXCEPT !.inputClosed = TRUE]
        /\ seen' = M!Marked
        /\ hostIn' = [hostIn EXCEPT !.closed = TRUE]
        /\ UNCHANGED <<store, eng, queue, sealer, hostOut, sender, remote>>
    BY <1>3 DEF M!ControlSeal
  <2>2. /\ cp'.flushes = cp.flushes /\ cp'.inputClosed = TRUE /\ cp'.closing = cp.closing
        /\ Adds("Seal")
    BY <2>1 DEF Adds, M!Command, Shape, CheckpointShape
  <2>3. cp'.flushes \in Nat /\ cp'.inputClosed \in BOOLEAN /\ cp'.closing \in BOOLEAN
    BY <1>1, <2>2
  <2>4. hostIn' \in [queue : {hostIn.queue}, closed : BOOLEAN]
    BY <2>1 DEF Shape, InputShape
  <2> QED BY <2>1, <2>2, <2>3, <2>4, ControlInv
<1>4. CASE M!PrepareClose
  <2>1. /\ eng.on /\ cp' = [M!Command(cp, "Close", 0) EXCEPT !.closing = TRUE] /\ seen' = M!Marked
        /\ UNCHANGED <<store, eng, queue, sealer, hostOut, hostIn, sender, remote>>
    BY <1>4 DEF M!PrepareClose, M!CanAdvance
  <2>2. /\ cp'.flushes = cp.flushes /\ cp'.inputClosed = cp.inputClosed /\ cp'.closing = TRUE
        /\ Adds("Close")
    BY <2>1 DEF Adds, M!Command, Shape, CheckpointShape
  <2>3. cp'.flushes \in Nat /\ cp'.inputClosed \in BOOLEAN /\ cp'.closing \in BOOLEAN
    BY <1>1, <2>2
  <2>4. hostIn' \in [queue : {hostIn.queue}, closed : BOOLEAN]
    BY <2>1 DEF Shape, InputShape
  <2> QED BY <2>1, <2>2, <2>3, <2>4, ControlInv
<1> QED BY <1>2, <1>3, <1>4

\* What an interruption does to the archive.
Retired(keys) ==
    [i \in DOMAIN keys |-> [key |-> keys[i], sealed |-> cp.cursors[keys[i]].sealed,
                            complete |-> FALSE]]

\* The archive gets a node for each.
LEMMA RetiredType ==
  ASSUME Shape, NEW keys \in Seq(M!Outputs)
  PROVE  /\ Retired(keys) \in Seq(Nodes) /\ Len(Retired(keys)) = Len(keys)
         /\ \A i \in 1..Len(keys) : Retired(keys)[i].key = keys[i]
<1>1. \A k \in M!Outputs : k \in DOMAIN cp.cursors /\ k \in Keys /\ cp.cursors[k].sealed \in Nat
  BY DEF M!Outputs, Shape, CheckpointShape, Partial, Cursors
<1>2. Len(keys) \in Nat /\ DOMAIN keys = 1..Len(keys)
  OBVIOUS
<1>3. \A i \in 1..Len(keys) : keys[i] \in M!Outputs
  BY ElementOfSeq
<1>4. \A i \in 1..Len(keys) :
         [key |-> keys[i], sealed |-> cp.cursors[keys[i]].sealed, complete |-> FALSE] \in Nodes
  BY <1>1, <1>3 DEF Nodes
<1> QED BY <1>2, <1>4 DEF Retired

\* What else an interruption does to the checkpoint.
LEMMA Interruption ==
  ASSUME MediaInv,
         NEW keys \in Seq(M!Outputs), M!Outputs = {keys[i] : i \in 1..Len(keys)},
         \A i, j \in 1..Len(keys) : keys[i] = keys[j] => i = j,
         cp'.archive = cp.archive \o Retired(keys),
         cp'.cursors = M!Without(cp.cursors, M!Outputs)
  PROVE  /\ cp'.archive \in Seq(Nodes) /\ Partial(cp'.cursors, Keys, Cursors)
         /\ IsFiniteSet(DOMAIN cp'.cursors)
         /\ M!Archived(cp)' = M!Archived(cp) \cup M!Outputs
         /\ ArchivedForGood'
<1> Shape
  BY DEF MediaInv
<1> DEFINE m == Len(cp.archive)
           n == Len(keys)
           retired == Retired(keys)
<1>1. /\ cp.archive \in Seq(Nodes) /\ Partial(cp.cursors, Keys, Cursors)
      /\ IsFiniteSet(DOMAIN cp.cursors)
  BY DEF Shape, CheckpointShape
<1>2. /\ retired \in Seq(Nodes) /\ Len(retired) = n
      /\ \A i \in 1..n : retired[i].key = keys[i]
  BY RetiredType
<1>3. m \in Nat /\ n \in Nat /\ DOMAIN cp.archive = 1..m
  BY <1>1
<1> HIDE DEF retired
<1>4. /\ cp'.archive \in Seq(Nodes) /\ DOMAIN cp'.archive = 1..(m + n)
      /\ \A i \in 1..m : cp'.archive[i] = cp.archive[i]
      /\ \A i \in 1..n : cp'.archive[m + i] = retired[i]
  <2>1. cp.archive \o retired \in Seq(Nodes) /\ Len(cp.archive \o retired) = m + n
    <3>1. Then(cp.archive, retired) \in Seq(Nodes)
      BY <1>1, <1>2, ThenType
    <3>2. Len(Then(cp.archive, retired)) = Len(cp.archive) + Len(retired)
      BY <1>1, <1>2, ThenLength
    <3> QED BY <1>2, <3>1, <3>2 DEF Then
  <2>2. \A i \in 1..m : (cp.archive \o retired)[i] = cp.archive[i]
    BY <1>1, <1>2, <1>3, ConcatProperties
  <2>3. \A i \in 1..n : (cp.archive \o retired)[m + i] = retired[i]
    BY <1>1, <1>2, <1>3
  <2>4. DOMAIN (cp.archive \o retired) = 1..(m + n)
    BY <2>1
  <2> QED BY <2>1, <2>2, <2>3, <2>4 DEF retired
<1> HIDE DEF m, n
<1>5. /\ Partial(cp'.cursors, Keys, Cursors) /\ DOMAIN cp'.cursors = DOMAIN cp.cursors \ M!Outputs
      /\ IsFiniteSet(DOMAIN cp'.cursors)
  <2>1. Partial(cp'.cursors, Keys, Cursors) /\ DOMAIN cp'.cursors = DOMAIN cp.cursors \ M!Outputs
    BY <1>1 DEF Partial, M!Without
  <2>2. DOMAIN cp.cursors \ M!Outputs \subseteq DOMAIN cp.cursors
    OBVIOUS
  <2> QED BY <1>1, <2>1, <2>2, FS_Subset
<1>6. /\ \A i \in 1..m : cp'.archive[i].key = cp.archive[i].key
      /\ \A i \in 1..n : cp'.archive[m + i].key = keys[i]
  BY <1>2, <1>4 DEF n
<1>7. \A i \in 1..(m + n) : i \in 1..m \/ \E j \in 1..n : i = m + j
  <2> SUFFICES ASSUME NEW i \in 1..(m + n), i \notin 1..m PROVE \E j \in 1..n : i = m + j
    OBVIOUS
  <2>1. i - m \in 1..n /\ i = m + (i - m)
    BY <1>3
  <2> QED BY <2>1
<1>8. \A j \in 1..n : m + j \in 1..(m + n)
  BY <1>3
<1>9. 1..m \subseteq 1..(m + n)
  BY <1>3
<1>10. M!Archived(cp)' = M!Archived(cp) \cup M!Outputs
  <2>1. M!Archived(cp)' = {cp'.archive[i].key : i \in 1..(m + n)}
    BY <1>4 DEF M!Archived
  <2>2. M!Archived(cp) = {cp.archive[i].key : i \in 1..m}
    BY <1>3 DEF M!Archived, m
  <2>3. M!Outputs = {keys[i] : i \in 1..n}
    BY DEF n
  <2>4. ASSUME NEW k \in M!Archived(cp)' PROVE k \in M!Archived(cp) \cup M!Outputs
    <3>1. PICK i \in 1..(m + n) : k = cp'.archive[i].key
      BY <2>1, <2>4
    <3>2. CASE i \in 1..m
      BY <1>6, <2>2, <3>1, <3>2
    <3>3. ASSUME NEW j \in 1..n, i = m + j PROVE k \in M!Outputs
      <4>1. k = keys[j]
        BY <1>6, <3>1, <3>3
      <4> QED BY <2>3, <4>1
    <3> QED BY <1>7, <3>2, <3>3
  <2>5. ASSUME NEW k \in M!Archived(cp) PROVE k \in M!Archived(cp)'
    <3>1. PICK i \in 1..m : k = cp.archive[i].key
      BY <2>2, <2>5
    <3> QED BY <1>6, <1>9, <2>1, <3>1
  <2>6. ASSUME NEW k \in M!Outputs PROVE k \in M!Archived(cp)'
    <3>1. PICK j \in 1..n : k = keys[j]
      BY <2>3, <2>6
    <3> QED BY <1>6, <1>8, <2>1, <3>1
  <2> QED BY <2>4, <2>5, <2>6
<1>11. M!Archived(cp) \cap DOMAIN cp.cursors = {} /\ M!Outputs \subseteq DOMAIN cp.cursors
  BY DEF MediaInv, ArchivedForGood, M!ArchivedForGood, M!Outputs
<1>12. ASSUME NEW i \in 1..(m + n), NEW j \in 1..(m + n), cp'.archive[i].key = cp'.archive[j].key
       PROVE  i = j
  <2>1. \A a, b \in 1..m : cp.archive[a].key = cp.archive[b].key => a = b
    BY <1>3 DEF MediaInv, ArchivedForGood, M!ArchivedForGood, m
  <2>2. \A a \in 1..m : cp.archive[a].key \in M!Archived(cp)
    BY <1>3 DEF M!Archived, m
  <2>3. \A b \in 1..n : keys[b] \in M!Outputs
    BY DEF n
  <2>4. \A a \in 1..m, b \in 1..n : cp.archive[a].key # keys[b]
    BY <1>11, <2>2, <2>3
  <2>5. CASE i \in 1..m /\ j \in 1..m
    BY <1>6, <1>12, <2>1, <2>5
  <2>6. ASSUME i \in 1..m, NEW b \in 1..n, j = m + b PROVE i = j
    <3>1. cp.archive[i].key = keys[b]
      BY <1>6, <1>12, <2>6
    <3> QED BY <2>4, <2>6, <3>1
  <2>7. ASSUME j \in 1..m, NEW a \in 1..n, i = m + a PROVE i = j
    BY <1>6, <1>12, <2>4, <2>7
  <2>8. ASSUME NEW a \in 1..n, i = m + a, NEW b \in 1..n, j = m + b PROVE i = j
    <3>1. keys[a] = keys[b]
      BY <1>6, <1>12, <2>8
    <3>2. a = b
      BY <3>1 DEF n
    <3> QED BY <2>8, <3>2
  <2> QED BY <1>7, <2>5, <2>6, <2>7, <2>8
<1>13. ArchivedForGood'
  <2>1. M!Archived(cp)' \cap DOMAIN cp'.cursors = {}
    BY <1>5, <1>10, <1>11
  <2> QED BY <1>4, <1>12, <2>1 DEF ArchivedForGood, M!ArchivedForGood
<1> QED BY <1>4, <1>5, <1>10, <1>13

\* An interruption archives the streams it cuts off, and raises the epoch.
LEMMA InterruptInv ==
  ASSUME MediaInv, M!ControlInterrupt, UNCHANGED limits
  PROVE  MediaInv'
<1> Shape
  BY DEF MediaInv
<1> DEFINE n == cp.epoch
           p == cp.prepared
           keys == M!SetToSeq(M!Outputs)
           commands == Queued("Interrupt", n + 1)
           archive == cp.archive \o Retired(keys)
           cursors == M!Without(cp.cursors, M!Outputs)
           ended == IF eng.ended = None THEN None ELSE eng.ended \cup M!Outputs
<1>0. eng.on /\ UNCHANGED <<limits, store, queue, sealer, hostOut, hostIn, sender, remote, seen>>
  BY DEF M!ControlInterrupt
<1>1. cp' = [cp EXCEPT !.prepared = p + 1, !.commands = commands, !.epoch = n + 1,
                       !.archive = archive, !.cursors = cursors]
  <2>1. cp' = M!Interrupted
    BY DEF M!ControlInterrupt
  <2> QED BY <2>1 DEF M!Interrupted, M!Command, Queued, Prepared, Retired, Shape, CheckpointShape
<1>2. eng' = [eng EXCEPT !.minEpoch = n + 1, !.ended = ended]
  BY DEF M!ControlInterrupt
<1>3. keys \in Seq(M!Outputs) /\ M!Outputs = {keys[i] : i \in 1..Len(keys)}
      /\ \A i, j \in 1..Len(keys) : keys[i] = keys[j] => i = j
  <2>1. IsFiniteSet(M!Outputs)
    <3>1. IsFiniteSet(DOMAIN cp.cursors)
      BY DEF Shape, CheckpointShape
    <3> QED BY <3>1, FS_Subset DEF M!Outputs
  <2> QED BY <2>1, Listed
<1>4. /\ n \in Nat /\ p \in Nat /\ n + 1 \in Nat /\ p + 1 \in Nat /\ n <= n + 1 /\ p <= p + 1
      /\ n + 1 <= n + 1
  BY Outbox
<1>5. /\ commands \in Seq(Commands(n + 1, p + 1))
      /\ \A i \in DOMAIN commands :
             \/ i \in DOMAIN cp.commands /\ commands[i] = cp.commands[i]
             \/ commands[i].id = p + 1
  <2>1. PICK e \in Nat : e = n + 1
    BY <1>4
  <2>2. cp.epoch <= e /\ e <= e /\ "Interrupt" \in {"Flush", "Seal", "Interrupt", "Close"}
    BY <1>4, <2>1
  <2>3. /\ Queued("Interrupt", e) \in Seq(Commands(e, p + 1))
        /\ \A i \in DOMAIN Queued("Interrupt", e) :
               \/ i \in DOMAIN cp.commands /\ Queued("Interrupt", e)[i] = cp.commands[i]
               \/ Queued("Interrupt", e)[i].id = p + 1
    BY <2>2, CommandType
  <2> QED BY <2>1, <2>3
<1> HIDE DEF keys, commands, archive, cursors, ended
<1>6. /\ cp'.epoch = n + 1 /\ cp'.prepared = p + 1 /\ cp'.cursors = cursors
      /\ cp'.archive = archive /\ cp'.commands = commands
  BY <1>1 DEF Shape, CheckpointShape
<1>7. /\ cp'.archive \in Seq(Nodes) /\ Partial(cp'.cursors, Keys, Cursors)
      /\ IsFiniteSet(DOMAIN cp'.cursors)
      /\ M!Archived(cp)' = M!Archived(cp) \cup M!Outputs
      /\ ArchivedForGood'
  BY <1>3, <1>6, Interruption DEF archive, cursors
<1>8. CheckpointShape'
  BY <1>1, <1>4, <1>5, <1>6, <1>7 DEF Shape, CheckpointShape
<1>9. eng \in Engines(n, p) /\ eng.sending \in Commands(n + 1, p + 1) \cup {None}
  BY <1>0, <1>4, <1>6, EngineFloor, Raised
<1>10. ended = None \/ (ended \in SUBSET Keys /\ eng.ended # None /\ ended = M!Archived(cp)')
  <2>1. M!Outputs \in SUBSET Keys
    BY DEF M!Outputs, Shape, CheckpointShape, Partial
  <2>2. eng.ended \in (SUBSET Keys) \cup {None}
    BY <1>9 DEF Engines
  <2>3. eng.ended # None => eng.ended = M!Archived(cp)
    BY <1>0 DEF MediaInv, KnowsEnded
  <2> QED BY <1>7, <2>1, <2>2, <2>3 DEF ended
<1>11. /\ eng'.on = eng.on /\ eng'.held = eng.held /\ eng'.inputSending = eng.inputSending
       /\ eng'.sending = eng.sending /\ eng'.ended = ended
  BY <1>2, <1>9 DEF Engines
<1>12. EngineShape'
  BY <1>2, <1>6, <1>9, <1>10 DEF EngineShape, Engines
<1>13. OutputShape' /\ RemoteShape' /\ SeenShape' /\ InputShape'
  <2>1. OutputShape' /\ RemoteShape'
    BY <1>0, <1>4, <1>6, Raised
  <2>2. SeenShape'
    <3>1. seen.received \in Seq(Chunks(cp'.epoch))
          /\ Partial(seen.marks, 1..cp'.prepared, 0..Len(seen.accepted))
      BY <1>4, <1>6, Raised
    <3> QED BY <1>0, <3>1 DEF Shape, SeenShape
  <2>3. InputShape'
    BY <1>0, <1>11 DEF Shape, InputShape
  <2> QED BY <2>1, <2>2, <2>3
<1>14. Shape'
  BY <1>0, <1>8, <1>12, <1>13 DEF Shape
<1>15. KnowsEnded'
  <2>1. KnowsEnded' <=> (eng'.on /\ eng'.ended # None => eng'.ended = M!Archived(cp)')
    BY DEF KnowsEnded, M!Archived
  <2> QED BY <1>10, <1>11, <2>1
<1>16. InFlight' /\ InputFirst'
  BY <1>0, <1>11 DEF MediaInv, InFlight, Waits, M!WithHeld, InputFirst, M!InputFirst
<1>17. MarkedFirst'
  <2>1. p + 1 \notin DOMAIN seen.marks
    <3>1. DOMAIN seen.marks \subseteq 1..p
      BY DEF Shape, SeenShape, Partial
    <3> QED BY <1>4, <3>1
  <2>2. \A i \in DOMAIN cp'.commands : cp'.commands[i].intent = "Interrupt"
                                         => cp'.commands[i].id \notin DOMAIN seen.marks
    BY <1>5, <1>6, <2>1 DEF MediaInv, MarkedFirst
  <2> QED BY <1>0, <1>11, <2>2 DEF MediaInv, MarkedFirst, Before
<1> QED BY <1>7, <1>14, <1>15, <1>16, <1>17 DEF MediaInv

\* What waits for accepted input is sent when none of it is left to forward.
LEMMA DispatchInv ==
  ASSUME MediaInv, M!Dispatch, UNCHANGED limits
  PROVE  MediaInv'
<1> Shape
  BY DEF MediaInv
<1>0. eng.on /\ UNCHANGED <<store, queue, sealer, hostOut, hostIn, sender, remote, seen>>
  BY DEF M!Dispatch
<1>1. PICK i \in DOMAIN cp.commands :
         /\ M!CanSend(cp.commands[i].intent)
         /\ cp' = [cp EXCEPT !.commands[i].sent = TRUE]
         /\ eng' = [eng EXCEPT !.sent = @ \cup {cp.commands[i].id}, !.sending = cp.commands[i]]
  BY Zenon DEF M!Dispatch
<1> DEFINE command == cp.commands[i]
           marked == [command EXCEPT !.sent = TRUE]
           commands == [cp.commands EXCEPT ![i] = marked]
           sent == eng.sent \cup {command.id}
<1>2. /\ cp.commands \in Seq(Commands(cp.epoch, cp.prepared))
      /\ command \in Commands(cp.epoch, cp.prepared) /\ command.id \in Nat
      /\ cp.commands \in [1..Len(cp.commands) -> Commands(cp.epoch, cp.prepared)]
      /\ Len(cp.commands) \in Nat
  BY Outbox
<1>3. /\ marked \in Commands(cp.epoch, cp.prepared) /\ marked.id = command.id
      /\ marked.intent = command.intent
  BY <1>2 DEF Commands
<1>4. cp' = [cp EXCEPT !.commands = commands]
  BY <1>1 DEF Shape, CheckpointShape
<1> HIDE DEF command, marked
<1>5. /\ commands \in Seq(Commands(cp.epoch, cp.prepared))
      /\ \A j \in DOMAIN commands :
            /\ j \in DOMAIN cp.commands
            /\ commands[j].id = cp.commands[j].id /\ commands[j].intent = cp.commands[j].intent
  BY <1>2, <1>3 DEF command
<1> HIDE DEF commands
<1>6. /\ cp'.epoch = cp.epoch /\ cp'.prepared = cp.prepared /\ cp'.cursors = cp.cursors
      /\ cp'.archive = cp.archive /\ cp'.commands = commands
  BY <1>4 DEF Shape, CheckpointShape
<1>7. CheckpointShape'
  BY <1>4, <1>5, <1>6 DEF Shape, CheckpointShape
<1>8. eng \in Engines(cp.epoch, cp.prepared) /\ sent \in SUBSET Nat
  BY <1>0, <1>2, EngineFloor DEF Engines
<1>9. eng' = [eng EXCEPT !.sent = sent, !.sending = command]
  BY <1>1 DEF command
<1> HIDE DEF sent
<1>10. /\ EngineShape' /\ eng'.on = eng.on /\ eng'.held = eng.held /\ eng'.sending = command
       /\ eng'.inputSending = eng.inputSending /\ eng'.ended = eng.ended
  BY <1>2, <1>6, <1>8, <1>9 DEF EngineShape, Engines
<1>11. Shape'
  BY <1>0, <1>6, <1>7, <1>10, Unmoved DEF Shape
<1>12. KnowsEnded' /\ ArchivedForGood'
  BY <1>6, <1>10, ArchiveKept DEF MediaInv
<1>13. InFlight' /\ InputFirst'
  BY <1>0, <1>10 DEF MediaInv, InFlight, Waits, M!WithHeld, InputFirst, M!InputFirst
<1>14. Before(command)
  <2> SUFFICES ASSUME command.id \in DOMAIN seen.marks
               PROVE  seen.marks[command.id] <= Len(remote.in)
    BY DEF Before
  <2>1. command.intent \in {"Flush", "Seal", "Close"}
    <3>1. command.intent # "Interrupt"
      BY DEF MediaInv, MarkedFirst, command
    <3> QED BY <1>2, <3>1 DEF Commands
  <2>2. ~eng.inputSending /\ eng.held = None /\ hostIn.queue = <<>>
    BY <1>1, <2>1 DEF M!CanSend, command
  <2>3. sender.at = "idle" /\ sender.segment = <<>>
    BY <2>2 DEF Shape, InputShape
  <2>4. seen.accepted = Then(remote.in, Then(<<>>, <<>>))
    BY <1>0, <2>2, <2>3 DEF MediaInv, InFlight, Waits, M!WithHeld
  <2>5. Then(<<>>, <<>>) = <<>> /\ Then(remote.in, <<>>) = remote.in
    <3>1. remote.in \in Seq(Chunks(0)) /\ Empty \in Seq(Chunks(0)) /\ Empty = <<>>
      BY EmptyIn DEF Shape, RemoteShape
    <3> QED BY <3>1, NothingThen, ThenNothing
  <2>6. seen.accepted = remote.in
    BY <2>4, <2>5
  <2>7. seen.marks[command.id] \in 0..Len(seen.accepted)
    BY DEF Shape, SeenShape, Partial
  <2> QED BY <2>6, <2>7
<1>15. MarkedFirst'
  <2>1. \A j \in DOMAIN cp'.commands : cp'.commands[j].intent = "Interrupt"
                                         => cp'.commands[j].id \notin DOMAIN seen.marks
    BY <1>5, <1>6 DEF MediaInv, MarkedFirst
  <2>2. \A c : Before(c)' <=> Before(c)
    BY <1>0 DEF Before
  <2> QED BY <1>0, <1>10, <1>14, <2>1, <2>2 DEF MediaInv, MarkedFirst
<1> QED BY <1>11, <1>12, <1>13, <1>15 DEF MediaInv

\* The model admits the command, or the run suspends.
LEMMA SubmitInv ==
  ASSUME MediaInv, M!Submit, UNCHANGED limits
  PROVE  MediaInv'
<1> Shape
  BY DEF MediaInv
<1> DEFINE inbox == Append(remote.inbox, eng.sending)
<1>1. CASE remote.open
  <2>0. /\ eng.on /\ eng.sending # None
        /\ remote' = [remote EXCEPT !.inbox = inbox] /\ eng' = [eng EXCEPT !.sending = None]
        /\ UNCHANGED <<cp, store, queue, sealer, hostOut, hostIn, sender, seen>>
    BY <1>1 DEF M!Submit
  <2>1. eng \in Engines(cp.epoch, cp.prepared) /\ eng.sending \in Commands(cp.epoch, cp.prepared)
    BY <2>0, EngineFloor DEF Engines
  <2>2. /\ EngineShape' /\ eng'.on = eng.on /\ eng'.held = eng.held /\ eng'.sending = None
        /\ eng'.inputSending = eng.inputSending /\ eng'.ended = eng.ended
    BY <2>0, <2>1 DEF EngineShape, Engines
  <2>3. /\ inbox \in Seq(Commands(cp.epoch, cp.prepared))
        /\ \A i \in DOMAIN inbox :
              \/ i \in DOMAIN remote.inbox /\ inbox[i] = remote.inbox[i]
              \/ inbox[i] = eng.sending
    <3>1. remote.inbox \in Seq(Commands(cp.epoch, cp.prepared))
      BY DEF Shape, RemoteShape
    <3> QED BY <2>1, <3>1, AppendProperties
  <2> HIDE DEF inbox
  <2>4. /\ RemoteShape' /\ remote'.in = remote.in /\ remote'.reacted = remote.reacted
        /\ remote'.inbox = inbox
    <3>1. /\ remote'.in = remote.in /\ remote'.reacted = remote.reacted
          /\ remote'.inbox = inbox
      BY <2>0 DEF Shape, RemoteShape
    <3> QED BY <2>0, <2>3, <3>1 DEF Shape, RemoteShape
  <2>5. Shape'
    BY <2>0, <2>2, <2>4, Unmoved DEF Shape, CheckpointShape
  <2>6. KnowsEnded' /\ ArchivedForGood'
    BY <2>0, <2>2, ArchiveKept DEF MediaInv
  <2>7. InFlight' /\ InputFirst'
    BY <2>0, <2>2, <2>4 DEF MediaInv, InFlight, Waits, M!WithHeld, InputFirst, M!InputFirst
  <2>8. MarkedFirst'
    <3>1. \A c : Before(c)' <=> Before(c)
      BY <2>0, <2>4 DEF Before
    <3>2. \A i \in DOMAIN inbox : Before(inbox[i])
      BY <2>0, <2>3 DEF MediaInv, MarkedFirst
    <3> QED BY <2>0, <2>2, <2>4, <3>1, <3>2 DEF MediaInv, MarkedFirst
  <2> QED BY <2>5, <2>6, <2>7, <2>8 DEF MediaInv
<1>2. CASE ~remote.open
  <2>1. M!Settle("Suspended")
    BY <1>2 DEF M!Submit
  <2> QED BY <2>1, LeavesInv
<1> QED BY <1>1, <1>2

-----------------------------------------------------------------------------
\* What the session tells the engine

\* A confirmed command leaves the outbox, the others keep their places.
LEMMA AcknowledgedType ==
  ASSUME NEW S, NEW outbox \in Seq(S), NEW id
  PROVE  /\ M!Acknowledged(outbox, id) \in Seq(S)
         /\ \A i \in DOMAIN M!Acknowledged(outbox, id) :
               \E j \in DOMAIN outbox : M!Acknowledged(outbox, id)[i] = outbox[j]
<1> DEFINE places == {i \in DOMAIN outbox : outbox[i].id = id}
           first == M!Min(places)
           n == Len(outbox)
<1>1. n \in Nat /\ DOMAIN outbox = 1..n /\ \A i \in 1..n : outbox[i] \in S
  OBVIOUS
<1>2. CASE places = {}
  <2>1. M!Acknowledged(outbox, id) = outbox
    BY <1>2 DEF M!Acknowledged
  <2> QED BY <2>1
<1>3. CASE places # {}
  <2>1. first \in 1..n
    <3>1. places \in SUBSET Nat /\ places \subseteq 1..n
      BY <1>1
    <3> HIDE DEF places
    <3>2. \E i \in places : \A j \in places : i <= j
      BY <1>3, <3>1, FirstPosition
    <3>3. first \in places
      BY <3>2 DEF M!Min
    <3> QED BY <3>1, <3>3
  <2>2. M!Acknowledged(outbox, id) = M!RemoveAt(outbox, first)
    BY <1>3 DEF M!Acknowledged
  <2> HIDE DEF first
  <2> DEFINE before == SubSeq(outbox, 1, first - 1)
             after == SubSeq(outbox, first + 1, n)
  <2>3. M!RemoveAt(outbox, first) = before \o after
    BY DEF M!RemoveAt
  <2>4. /\ before \in Seq(S) /\ Len(before) = first - 1
        /\ \A i \in 1..(first - 1) : before[i] = outbox[i]
    BY <1>1, <2>1, SubSeqProperties
  <2>5. /\ after \in Seq(S) /\ Len(after) = n - first
        /\ \A i \in 1..(n - first) : after[i] = outbox[first + i]
    <3>1. PICK m \in Int : m = first + 1
      BY <2>1
    <3>2. m \in 2..(n + 1) /\ \A i \in m..n : outbox[i] \in S
      BY <1>1, <2>1, <3>1
    <3>3. /\ SubSeq(outbox, m, n) \in Seq(S)
          /\ Len(SubSeq(outbox, m, n)) = IF m <= n THEN n - m + 1 ELSE 0
          /\ \A i \in 1..(n - m + 1) : SubSeq(outbox, m, n)[i] = outbox[m + i - 1]
      BY <1>1, <3>2, SubSeqProperties
    <3>4. n - m + 1 = n - first /\ \A i \in 1..(n - first) : m + i - 1 = first + i
      BY <1>1, <2>1, <3>1
    <3>5. Len(SubSeq(outbox, m, n)) = n - first
      <4>1. (IF m <= n THEN n - m + 1 ELSE 0) = n - first
        <5>1. n \in Int /\ first \in Int /\ first <= n
          BY <1>1, <2>1
        <5> HIDE DEF n
        <5> QED BY <3>1, <5>1
      <4> QED BY <3>3, <4>1
    <3> QED BY <3>1, <3>3, <3>4, <3>5
  <2> HIDE DEF before, after
  <2>6. Then(before, after) \in Seq(S) /\ Len(Then(before, after)) = n - 1
    <3>1. Then(before, after) \in Seq(S) /\ Len(Then(before, after)) = Len(before) + Len(after)
      BY <2>4, <2>5, ThenType, ThenLength
    <3>2. (first - 1) + (n - first) = n - 1
      BY <1>1, <2>1
    <3> QED BY <2>4, <2>5, <3>1, <3>2
  <2>7. ASSUME NEW i \in 1..(n - 1)
        PROVE  \E j \in DOMAIN outbox : (before \o after)[i] = outbox[j]
    <3>1. CASE i <= first - 1
      <4>1. (before \o after)[i] = before[i]
        BY <2>4, <2>5, <3>1
      <4>2. i \in 1..(first - 1) /\ i \in 1..n
        BY <1>1, <2>1, <3>1
      <4> QED BY <1>1, <2>4, <4>1, <4>2
    <3>2. CASE ~(i <= first - 1)
      <4>1. i - (first - 1) \in 1..(n - first) /\ i + 1 \in 1..n
        BY <1>1, <2>1, <3>2
      <4>2. (before \o after)[i] = after[i - (first - 1)]
        BY <1>1, <2>1, <2>4, <2>5, <3>2, <4>1
      <4>3. first + (i - (first - 1)) = i + 1
        BY <1>1, <2>1
      <4> QED BY <1>1, <2>5, <4>1, <4>2, <4>3
    <3> QED BY <3>1, <3>2
  <2>8. DOMAIN (before \o after) = 1..(n - 1)
    BY <2>6 DEF Then
  <2> QED BY <2>2, <2>3, <2>6, <2>7, <2>8 DEF Then
<1> QED BY <1>2, <1>3

\* What an event changes of the checkpoint.
Tells(next) ==
    /\ next = [cp EXCEPT !.commands = next.commands, !.response = next.response,
                         !.closure = next.closure, !.inputClosed = next.inputClosed]
    /\ next.commands \in Seq(Commands(cp.epoch, cp.prepared))
    /\ next.response \in {"active", "done"} /\ next.closure \in BOOLEAN
    /\ next.inputClosed \in BOOLEAN
    /\ \A i \in DOMAIN next.commands : \E j \in DOMAIN cp.commands :
           next.commands[i] = cp.commands[j]

\* An event does no more than that.
LEMMA ToldType ==
  ASSUME Shape, NEW event \in Events
  PROVE  Tells(M!Told(event))
<1> DEFINE next == M!Told(event)
<1>1. /\ cp.commands \in Seq(Commands(cp.epoch, cp.prepared)) /\ cp.response \in {"active", "done"}
      /\ cp.closure \in BOOLEAN /\ cp.inputClosed \in BOOLEAN
  BY DEF Shape, CheckpointShape
<1>2. CASE event \in [kind : {"Ack"}, id : Nat]
  <2> DEFINE commands == M!Acknowledged(cp.commands, event.id)
  <2>1. next = [cp EXCEPT !.commands = commands]
    BY <1>2 DEF M!Told, Shape, CheckpointShape
  <2>2. /\ commands \in Seq(Commands(cp.epoch, cp.prepared))
        /\ \A i \in DOMAIN commands : \E j \in DOMAIN cp.commands : commands[i] = cp.commands[j]
    BY <1>1, AcknowledgedType
  <2> HIDE DEF commands
  <2>3. /\ next.commands = commands /\ next.response = cp.response /\ next.closure = cp.closure
        /\ next.inputClosed = cp.inputClosed
    BY <2>1 DEF Shape, CheckpointShape
  <2>4. next = [cp EXCEPT !.commands = next.commands, !.response = next.response,
                          !.closure = next.closure, !.inputClosed = next.inputClosed]
    BY <2>1, <2>3 DEF Shape, CheckpointShape
  <2> QED BY <1>1, <2>2, <2>3, <2>4 DEF Tells
<1>3. CASE event \in [kind : {"Finished", "Closed"}]
  <2>1. \/ next = [cp EXCEPT !.response = "done"]
        \/ next = [cp EXCEPT !.closure = TRUE, !.inputClosed = TRUE]
    BY <1>3 DEF M!Told
  <2>2. /\ next.commands = cp.commands /\ next.response \in {"active", "done"}
        /\ next.closure \in BOOLEAN /\ next.inputClosed \in BOOLEAN
    BY <1>1, <2>1 DEF Shape, CheckpointShape
  <2>3. next = [cp EXCEPT !.commands = next.commands, !.response = next.response,
                          !.closure = next.closure, !.inputClosed = next.inputClosed]
    BY <2>1 DEF Shape, CheckpointShape
  <2> QED BY <1>1, <2>2, <2>3 DEF Tells
<1> QED BY <1>2, <1>3 DEF Events

\* An event is written down, and may end the executor.
LEMMA ReceiveInv ==
  ASSUME MediaInv, M!Receive, UNCHANGED limits
  PROVE  MediaInv'
<1> Shape
  BY DEF MediaInv
<1> DEFINE event == Head(remote.events)
           told == Tail(remote.events)
<1>1. /\ eng.on /\ remote.events # <<>> /\ UNCHANGED <<store, hostOut, seen>>
      /\ remote.events \in Seq(Events)
  BY DEF M!Receive, Shape, RemoteShape
<1>2. event \in Events /\ told \in Seq(Events)
  BY <1>1, Popped
<1>3. PICK next : next = M!Told(event)
  OBVIOUS
<1>4. \/ cp' = [next EXCEPT !.state = "Suspended"] /\ M!StopTasks
      \/ /\ cp' = next
         /\ hostIn' = [hostIn EXCEPT !.closed = @ \/ event.kind = "Closed"]
         /\ remote' = [remote EXCEPT !.events = told]
         /\ UNCHANGED <<eng, queue, sealer, sender>>
  BY <1>3 DEF M!Receive
<1> HIDE DEF event, told
<1>5. Tells(next)
  BY <1>2, <1>3, ToldType
<1>6. /\ CheckpointShape' /\ cp'.epoch = cp.epoch /\ cp'.prepared = cp.prepared
      /\ cp'.cursors = cp.cursors /\ cp'.archive = cp.archive /\ cp'.commands = next.commands
  <2>1. \E state \in {cp.state, "Suspended"} :
           cp' = [cp EXCEPT !.commands = next.commands, !.response = next.response,
                            !.closure = next.closure, !.inputClosed = next.inputClosed,
                            !.state = state]
    <3>1. CASE cp' = next
      <4>1. cp' = [cp EXCEPT !.commands = next.commands, !.response = next.response,
                             !.closure = next.closure, !.inputClosed = next.inputClosed,
                             !.state = cp.state]
        BY <1>5, <3>1 DEF Shape, CheckpointShape, Tells
      <4> QED BY <4>1
    <3>2. CASE cp' = [next EXCEPT !.state = "Suspended"]
      BY <1>5, <3>2 DEF Shape, CheckpointShape, Tells
    <3> QED BY <1>4, <3>1, <3>2
  <2>2. PICK state \in {cp.state, "Suspended"} :
           cp' = [cp EXCEPT !.commands = next.commands, !.response = next.response,
                            !.closure = next.closure, !.inputClosed = next.inputClosed,
                            !.state = state]
    BY <2>1
  <2>3. /\ cp'.epoch = cp.epoch /\ cp'.prepared = cp.prepared
        /\ cp'.cursors = cp.cursors /\ cp'.archive = cp.archive /\ cp'.commands = next.commands
    BY <2>2 DEF Shape, CheckpointShape
  <2>4. state \in {"Running", "Suspended", "Completed", "Failed", "Cancelled"}
    BY DEF Shape, CheckpointShape
  <2>5. CheckpointShape'
    BY <1>5, <2>2, <2>3, <2>4 DEF Shape, CheckpointShape, Tells
  <2> QED BY <2>3, <2>5
<1>7. \A i \in DOMAIN cp'.commands : \E j \in DOMAIN cp.commands :
             /\ cp'.commands[i].id = cp.commands[j].id
             /\ cp'.commands[i].intent = cp.commands[j].intent
  BY <1>5, <1>6 DEF Tells
<1>8. CASE M!StopTasks
  BY <1>1, <1>6, <1>7, <1>8, StopsInv
<1>9. CASE /\ hostIn' = [hostIn EXCEPT !.closed = @ \/ event.kind = "Closed"]
           /\ remote' = [remote EXCEPT !.events = told]
           /\ UNCHANGED <<eng, queue, sealer, sender>>
  <2>1. hostIn'.queue = hostIn.queue /\ InputShape'
    <3>1. PICK closed \in BOOLEAN : closed = (hostIn.closed \/ event.kind = "Closed")
      OBVIOUS
    <3>2. hostIn' = [hostIn EXCEPT !.closed = closed]
      BY <1>9, <3>1
    <3> QED BY <1>9, <3>2 DEF Shape, InputShape
  <2>2. /\ remote'.in = remote.in /\ remote'.reacted = remote.reacted
        /\ remote'.inbox = remote.inbox
    BY <1>9 DEF Shape, RemoteShape
  <2>3. RemoteShape'
    BY <1>2, <1>6, <1>9, <2>2 DEF Shape, RemoteShape
  <2>4. Shape'
    BY <1>1, <1>6, <1>9, <2>1, <2>3, Unmoved DEF Shape
  <2>5. KnowsEnded' /\ ArchivedForGood'
    BY <1>6, <1>9, ArchiveKept DEF MediaInv
  <2>6. InFlight' /\ InputFirst' /\ MarkedFirst'
    BY <1>1, <1>7, <1>9, <2>1, <2>2, InputKept DEF MediaInv
  <2> QED BY <2>4, <2>5, <2>6 DEF MediaInv
<1> QED BY <1>4, <1>8, <1>9


-----------------------------------------------------------------------------
\* The invariant, and what follows from it

\* It holds when a run begins.
LEMMA MediaInit == M!Init => MediaInv
<1> SUFFICES ASSUME M!Init PROVE MediaInv
  OBVIOUS
<1>1. /\ cp = [state |-> "Running", epoch |-> 0, cursors |-> Empty, archive |-> Empty,
               commands |-> Empty, prepared |-> 0, flushes |-> 0, opened |-> FALSE,
               response |-> "active", inputClosed |-> FALSE, closing |-> FALSE,
               closure |-> FALSE]
      /\ store = Empty /\ queue = Empty /\ hostOut = Empty
      /\ sealer = [at |-> "idle", held |-> None, segment |-> Empty, ref |-> 0,
                   previous |-> Empty]
      /\ hostIn = [queue |-> Empty, closed |-> FALSE]
      /\ sender = [at |-> "idle", segment |-> Empty, ref |-> 0]
      /\ remote = [open |-> FALSE, epoch |-> 0, next |-> [s \in Streams |-> 1],
                   inbox |-> Empty, events |-> Empty, in |-> Empty, reacted |-> Empty,
                   done |-> {}, finished |-> FALSE, closed |-> FALSE]
      /\ seen = [accepted |-> Empty, committed |-> Empty, received |-> Empty,
                 marks |-> Empty, attempts |-> 1]
  BY DEF M!Init, M!Initial, M!Idle, M!Waiting, Empty
<1>2. eng = [on |-> TRUE, ready |-> FALSE, sent |-> {}, sending |-> None,
             inputSending |-> FALSE, held |-> None, ended |-> None, mediaPending |-> FALSE,
             minEpoch |-> 0]
  BY DEF M!Init, M!Engine
<1>3. limits \in M!Limits
  BY InstancesAreLimits DEF M!Init
<1>4. /\ cp.epoch = 0 /\ cp.prepared = 0 /\ cp.cursors = Empty /\ cp.archive = Empty
      /\ cp.commands = Empty
  BY <1>1
<1>5. CheckpointShape
  <2>1. DOMAIN Empty = {} /\ IsFiniteSet({})
    BY FS_EmptySet DEF Empty
  <2> QED BY <1>1, <1>4, <2>1, EmptyIn DEF CheckpointShape
<1>6. EngineShape
  BY <1>2, <1>4 DEF EngineShape, Engines
<1>7. OutputShape
  <2>1. sealer.previous = Empty
    BY <1>1
  <2> QED BY <1>1, <1>4, <2>1, EmptyIn DEF OutputShape
<1>8. InputShape
  BY <1>1, <1>2, EmptyIn DEF InputShape
<1>9. RemoteShape
  <2>1. remote.reacted = Empty
    BY <1>1
  <2> QED BY <1>1, <1>4, <2>1, EmptyIn DEF RemoteShape
<1>10. SeenShape
  <2>1. seen.committed = Empty /\ seen.marks = Empty
    BY <1>1
  <2> QED BY <1>1, <1>4, <2>1, EmptyIn DEF SeenShape
<1>11. Shape
  BY <1>1, <1>3, <1>5, <1>6, <1>7, <1>8, <1>9, <1>10, EmptyIn DEF Shape
<1>12. KnowsEnded /\ ArchivedForGood
  BY <1>2, <1>4, EmptyIn DEF KnowsEnded, ArchivedForGood, M!ArchivedForGood, M!Archived
<1>13. InFlight
  <2>1. /\ seen.accepted = <<>> /\ remote.in = <<>> /\ sender.segment = <<>>
        /\ Waits = <<>>
    BY <1>1, <1>2, EmptyIn DEF Waits, M!WithHeld
  <2> QED BY <2>1 DEF InFlight, Then
<1>14. InputFirst
  <2>1. Empty \in Seq(Nat) /\ Empty = <<>>
    BY EmptyIn
  <2>2. M!IsPrefix(<<>>, <<>>)
    BY <2>1, Beginnings
  <2>3. /\ remote.in = <<>> /\ seen.accepted = <<>> /\ seen.marks = <<>>
    BY <1>1, <2>1
  <2> QED BY <2>2, <2>3 DEF InputFirst, M!InputFirst
<1>15. MarkedFirst
  <2>1. /\ cp.commands = <<>> /\ remote.inbox = <<>> /\ eng.sending = None
    BY <1>1, <1>2, EmptyIn
  <2> QED BY <2>1 DEF MarkedFirst
<1> QED BY <1>11, <1>12, <1>13, <1>14, <1>15 DEF MediaInv

\* A step that leaves all of the media as it is.
LEMMA MediaStays ==
  ASSUME MediaInv,
         UNCHANGED <<limits, cp, store, eng, queue, sealer, hostOut, hostIn, sender, remote, seen>>
  PROVE  MediaInv'
<1>1. CheckpointShape' /\ Shape'
  BY Unmoved DEF MediaInv, Shape, CheckpointShape, Partial
<1> QED BY <1>1, ElsewhereInv

\* Every step keeps it.
LEMMA MediaNext ==
  ASSUME MediaInv, M!Next
  PROVE  MediaInv'
<1> UNCHANGED limits
  BY DEF M!Next
<1>1. CASE M!Output
  BY <1>1, SealerTakeInv, MediaReadyInv, SealerDeliverInv, OutputEndsInv, LeavesInv
  DEF M!Output, M!MediaError
<1>2. CASE M!Input
  BY <1>2, InputMediaInv, InputReadyInv, InputForwardInv, InputSentInv DEF M!Input
<1>3. CASE M!Controls
  BY <1>3, ControlsInv, InterruptInv, LeavesInv DEF M!Controls, M!Cancel
<1>4. CASE M!Loop
  BY <1>4, OpenedInv, DispatchInv, SubmitInv, ReceiveInv, ControlsInv, LeavesInv
  DEF M!Loop, M!Complete
<1>5. CASE M!Model
  BY <1>5, SpeaksInv, ReactInv DEF M!Model
<1>6. CASE M!Host
  BY <1>6, OutputEndsInv, HostSendInv DEF M!Host
<1>7. CASE M!Attach
  BY <1>7, AttachInv
<1>8. CASE M!Crash
  BY <1>8, LeavesInv
<1>9. CASE M!Stopped
  <2>1. UNCHANGED <<cp, store, eng, queue, sealer, hostOut, hostIn, sender, remote, seen>>
    BY <1>9 DEF M!Stopped, M!vars
  <2> QED BY <2>1, MediaStays
<1> QED BY <1>1, <1>2, <1>3, <1>4, <1>5, <1>6, <1>7, <1>8, <1>9 DEF M!Next

\* Only the host's receiver adds to what the host received.
LEMMA OnlyHostReceives ==
  ASSUME Shape, M!Next, ~M!HostReceive
  PROVE  seen'.received = seen.received
<1>0. \A key, segment : M!Committed(key, segment).received = seen.received
  BY DEF M!Committed, Shape, SeenShape
<1>1. M!Marked.received = seen.received
  BY DEF M!Marked, Shape, SeenShape
<1>2. \A state : M!Settle(state) => UNCHANGED seen
  BY DEF M!Settle
<1>3. CASE M!Output
  BY <1>0, <1>2, <1>3
  DEF M!Output, M!SealerTake, M!MediaReady, M!SealerDeliver, M!MediaError, M!MediaDone
<1>4. CASE M!Input
  BY <1>0, <1>2, <1>4 DEF M!Input, M!InputMedia, M!InputReady, M!InputForward, M!InputSent
<1>5. CASE M!Controls
  BY <1>1, <1>2, <1>5
  DEF M!Controls, M!ControlFlush, M!ControlSeal, M!ControlInterrupt, M!Cancel
<1>6. CASE M!Loop
  <2>1. M!Opened \/ M!Submit \/ M!Receive \/ M!Complete => seen'.received = seen.received
    BY <1>2 DEF M!Opened, M!Submit, M!Receive, M!Complete
  <2>2. M!Dispatch => seen'.received = seen.received
    BY Zenon DEF M!Dispatch
  <2>3. M!PrepareClose => seen'.received = seen.received
    BY <1>1 DEF M!PrepareClose
  <2> QED BY <1>6, <2>1, <2>2, <2>3 DEF M!Loop
<1>7. CASE M!Model
  BY <1>7 DEF M!Model, M!Emit, M!Finish, M!React
<1>8. CASE \E s \in {1, seen.attempts}, end \in BOOLEAN : M!HostSend(s, end)
  BY <1>8 DEF M!HostSend, Shape, SeenShape
<1>9. CASE M!Attach
  BY <1>9 DEF M!Attach, Shape, SeenShape
<1>10. CASE M!Crash \/ M!Stopped
  BY <1>10 DEF M!Crash, M!Stopped, M!vars
<1> QED BY <1>3, <1>4, <1>5, <1>6, <1>7, <1>8, <1>9, <1>10 DEF M!Next, M!Host

\* What it adds is of the committed epoch: newer output does not exist, and
\* what is older falls below the floor, which is the committed epoch.
LEMMA ReceivesCurrent ==
  ASSUME Shape, M!HostReceive, seen'.received # seen.received
  PROVE  M!Last(seen'.received).epoch = cp.epoch
<1>1. /\ hostOut \in Seq(Chunks(cp.epoch)) /\ hostOut # <<>>
      /\ seen.received \in Seq(Chunks(cp.epoch)) /\ cp.epoch \in Nat
  BY DEF M!HostReceive, Shape, OutputShape, SeenShape, CheckpointShape
<1>2. M!Passes(Head(hostOut)) /\ seen'.received = Append(seen.received, Head(hostOut))
  BY DEF M!HostReceive, Shape, SeenShape
<1>3. Head(hostOut) \in Chunks(cp.epoch) /\ eng.minEpoch = cp.epoch
  BY <1>1, Popped, EngineFloor
<1>4. Head(hostOut).epoch = cp.epoch
  BY <1>1, <1>2, <1>3 DEF M!Passes, Chunks
<1>5. M!Last(Append(seen.received, Head(hostOut))) = Head(hostOut)
  BY <1>1, <1>3 DEF M!Last
<1> QED BY <1>2, <1>4, <1>5

-----------------------------------------------------------------------------
\* Theorems

\* The invariant holds throughout, whichever half the execution is.
THEOREM MediaIsSound == MCSpec => []MediaInv
<1>1. MCInit => MediaInv
  BY MediaInit DEF MCInit
<1>2. MediaInv /\ [MCNext]_<<part, limits, media, vars>> => MediaInv'
  <2> SUFFICES ASSUME MediaInv, [MCNext]_<<part, limits, media, vars>> PROVE MediaInv'
    OBVIOUS
  <2>1. CASE UNCHANGED <<limits, media>>
    BY <2>1, MediaStays DEF media
  <2>2. CASE M!Next
    BY <2>2, MediaNext
  <2> QED BY <2>1, <2>2 DEF MCNext, InMedia, InEvents
<1> QED BY <1>1, <1>2, PTL DEF MCSpec

\* A stream is archived once and never becomes active again, whatever is
\* interrupted, ended, refused or restarted in between.
THEOREM ArchivedOnceForGood == MCSpec => []ArchivedForGood
<1>1. MediaInv => ArchivedForGood
  BY DEF MediaInv
<1> QED BY <1>1, MediaIsSound, PTL

\* Input reaches the model in the order it was accepted, and no flush, seal or
\* close overtakes what was accepted before it.
THEOREM InputComesFirst == MCSpec => []InputFirst
<1>1. MediaInv => InputFirst
  BY DEF MediaInv
<1> QED BY <1>1, MediaIsSound, PTL

\* Once an interruption is committed the host receives no older output.
THEOREM StaleOutputIsDropped == MCSpec => NoStaleOutput
<1>1. MediaInv /\ [MCNext]_<<part, limits, media, vars>> =>
        [seen'.received # seen.received => M!Last(seen'.received).epoch = cp.epoch]_M!vars
  <2> SUFFICES ASSUME MediaInv, [MCNext]_<<part, limits, media, vars>>,
                      seen'.received # seen.received
               PROVE  M!Last(seen'.received).epoch = cp.epoch
    OBVIOUS
  <2> Shape
    BY DEF MediaInv
  <2>1. M!Next
    BY DEF MCNext, InMedia, InEvents, media
  <2>2. M!HostReceive
    BY <2>1, OnlyHostReceives
  <2> QED BY <2>2, ReceivesCurrent
<1> QED BY <1>1, MediaIsSound, PTL DEF MCSpec, NoStaleOutput, M!NoStaleOutput

-----------------------------------------------------------------------------
\* What the checkpoint leads to

\* Links go back; what a segment ends is what the one before it ends, and itself.
Ordered(nodes) == \A r \in DOMAIN nodes : nodes[r].previous \in 0..(r - 1)
Body(f, nodes, r) == IF r = 0 THEN Empty ELSE Then(f[nodes[r].previous], nodes[r].chunks)
Walks(f, nodes, n) == f = [r \in 0..n |-> Body(f, nodes, r)]

\* Where links go back, every segment can be followed to the first.
LEMMA WalkExists ==
  ASSUME NEW nodes \in Seq(Segments), Ordered(nodes)
  PROVE  \A n \in 0..Len(nodes) : \E f : Walks(f, nodes, n)
<1> DEFINE P == {n \in 0..Len(nodes) : ~\E f : Walks(f, nodes, n)}
<1>1. Len(nodes) \in Nat /\ DOMAIN nodes = 1..Len(nodes)
  OBVIOUS
<1>2. ASSUME P # {} PROVE FALSE
  <2>1. P \in SUBSET Nat
    BY <1>1
  <2> HIDE DEF P
  <2>2. PICK n \in P : \A j \in P : n <= j
    BY <1>2, <2>1, FirstPosition
  <2>3. n \in 0..Len(nodes) /\ ~\E f : Walks(f, nodes, n)
    BY DEF P
  <2>4. CASE n = 0
    <3> DEFINE f == [r \in 0..0 |-> Empty]
    <3>1. Walks(f, nodes, 0)
      BY DEF Walks, Body
    <3> QED BY <2>3, <2>4, <3>1
  <2>5. CASE n # 0
    <3>1. n - 1 \in 0..Len(nodes) /\ ~(n <= n - 1)
      BY <1>1, <2>3, <2>5
    <3>2. n - 1 \notin P
      BY <2>2, <3>1
    <3>3. PICK f : Walks(f, nodes, n - 1)
      BY <3>1, <3>2 DEF P
    <3> DEFINE last == Then(f[nodes[n].previous], nodes[n].chunks)
               g == [r \in 0..n |-> IF r = n THEN last ELSE f[r]]
    <3>4. \A r \in 1..n : nodes[r].previous \in 0..(r - 1)
      BY <1>1, <2>3 DEF Ordered
    <3>5. \A r \in 0..(n - 1) : f[r] = Body(f, nodes, r)
      BY <3>3 DEF Walks
    <3> HIDE DEF last
    <3>6. \A r \in 0..(n - 1) : g[r] = f[r]
      BY <1>1, <2>3
    <3>7. g[n] = last
      BY <1>1, <2>3
    <3> HIDE DEF g
    <3>8. ASSUME NEW r \in 0..n PROVE g[r] = Body(g, nodes, r)
      <4>1. CASE r = n
        <5>1. g[nodes[n].previous] = f[nodes[n].previous]
          BY <1>1, <2>3, <2>5, <3>4, <3>6
        <5> QED BY <2>5, <3>7, <4>1, <5>1 DEF Body, last
      <4>2. CASE r = 0
        BY <1>1, <2>3, <2>5, <3>5, <3>6, <4>2 DEF Body
      <4>3. CASE r # n /\ r # 0
        <5>1. nodes[r].previous \in 0..(n - 1) /\ r \in 0..(n - 1)
          BY <1>1, <2>3, <3>4, <4>3
        <5> QED BY <3>5, <3>6, <4>3, <5>1 DEF Body
      <4> QED BY <4>1, <4>2, <4>3
    <3>9. g = [r \in 0..n |-> g[r]]
      BY DEF g
    <3>10. Walks(g, nodes, n)
      BY <3>8, <3>9 DEF Walks
    <3> QED BY <2>3, <3>10
  <2> QED BY <2>4, <2>5
<1> QED BY <1>2

\* Chain is that walk.
LEMMA ChainWalks ==
  ASSUME NEW nodes \in Seq(Segments), Ordered(nodes)
  PROVE  /\ M!Chain(nodes)[0] = Empty
         /\ \A r \in 1..Len(nodes) :
               M!Chain(nodes)[r] = Then(M!Chain(nodes)[nodes[r].previous], nodes[r].chunks)
<1> DEFINE n == Len(nodes)
           Is(f) == Walks(f, nodes, n)
<1>1. n \in Nat /\ n \in 0..n
  OBVIOUS
<1>2. M!Chain(nodes) = CHOOSE f : Is(f)
  BY DEF M!Chain, Walks, Body, Then, Empty
<1>3. \E f : Is(f)
  BY <1>1, WalkExists
<1> HIDE DEF Is
<1>4. Is(M!Chain(nodes))
  BY <1>2, <1>3
<1> HIDE DEF n
<1>5. \A r \in 0..n : M!Chain(nodes)[r] = Body(M!Chain(nodes), nodes, r)
  BY <1>4 DEF Is, Walks
<1> QED BY <1>1, <1>5 DEF Body, n

\* A segment more changes nothing of those before it.
LEMMA ChainGrows ==
  ASSUME NEW nodes \in Seq(Segments), Ordered(nodes), NEW node \in Segments,
         node.previous \in 0..Len(nodes)
  PROVE  /\ Ordered(Append(nodes, node))
         /\ \A r \in 0..Len(nodes) : M!Chain(Append(nodes, node))[r] = M!Chain(nodes)[r]
<1> DEFINE more == Append(nodes, node)
           P == {r \in 0..Len(nodes) : M!Chain(more)[r] # M!Chain(nodes)[r]}
<1>1. /\ Len(nodes) \in Nat /\ DOMAIN nodes = 1..Len(nodes)
      /\ more \in Seq(Segments) /\ Len(more) = Len(nodes) + 1
      /\ DOMAIN more = 1..(Len(nodes) + 1)
      /\ \A r \in 1..Len(nodes) : more[r] = nodes[r]
      /\ more[Len(nodes) + 1] = node
  OBVIOUS
<1> HIDE DEF more
<1>2. Ordered(more)
  BY <1>1 DEF Ordered
<1>3. ASSUME P # {} PROVE FALSE
  <2>1. P \in SUBSET Nat
    BY <1>1
  <2> HIDE DEF P
  <2>2. PICK r \in P : \A j \in P : r <= j
    BY <1>3, <2>1, FirstPosition
  <2>3. r \in 0..Len(nodes) /\ M!Chain(more)[r] # M!Chain(nodes)[r]
    BY DEF P
  <2>4. r # 0
    BY <1>1, <1>2, <2>3, ChainWalks
  <2>5. nodes[r].previous \in 0..(r - 1) /\ r \in 1..Len(nodes) /\ r \in 1..Len(more)
    BY <1>1, <2>3, <2>4 DEF Ordered
  <2>6. nodes[r].previous \notin P /\ nodes[r].previous \in 0..Len(nodes)
    BY <1>1, <2>2, <2>5
  <2>7. M!Chain(more)[nodes[r].previous] = M!Chain(nodes)[nodes[r].previous]
    BY <2>6 DEF P
  <2>8. M!Chain(more)[r] = Then(M!Chain(more)[nodes[r].previous], nodes[r].chunks)
    BY <1>1, <1>2, <2>5, ChainWalks
  <2>9. M!Chain(nodes)[r] = Then(M!Chain(nodes)[nodes[r].previous], nodes[r].chunks)
    BY <2>5, ChainWalks
  <2> QED BY <2>3, <2>7, <2>8, <2>9
<1> QED BY <1>2, <1>3 DEF more

\* What the checkpoint leads to is what was committed.
Tip(key) == IF key \in DOMAIN cp.cursors THEN cp.cursors[key].sealed ELSE 0
Kept(key, ref) ==
    /\ key \in DOMAIN seen.committed /\ ref \in 0..Len(store)
    /\ seen.committed[key] = M!Chain(store)[ref]
Record ==
    /\ Ordered(store)
    /\ \A key \in DOMAIN cp.cursors : Kept(key, cp.cursors[key].sealed) /\ key[3] <= cp.epoch
    /\ \A i \in DOMAIN cp.archive : Kept(cp.archive[i].key, cp.archive[i].sealed)
    /\ DOMAIN seen.committed \subseteq DOMAIN cp.cursors \cup M!Archived(cp)

\* A segment that is sealed and may still be committed follows the last one
\* committed to its stream.
Follows(key, segment, ref) ==
    /\ ref \in DOMAIN store
    /\ store[ref].previous = Tip(key) /\ store[ref].chunks = segment
InputFollows ==
    eng.on /\ sender.at = "ready" =>
        Follows(M!Key("input", Head(sender.segment)), sender.segment, sender.ref)
OutputFollows ==
    eng.on /\ sealer.at = "ready" /\ M!Current(sealer.segment) =>
        Follows(M!Key("output", Head(sealer.segment)), sealer.segment, sealer.ref)

\* The sealer's links are those of the checkpoint where it still counts, and
\* nothing is read or sealed before the session is open.
Live == eng.on /\ eng.ready
Linked ==
    /\ \A key \in DOMAIN sealer.previous :
           key[3] <= cp.epoch /\ sealer.previous[key] \in 0..Len(store)
    /\ Live => \A key \in Keys : key[1] = "output" /\ key[3] = cp.epoch =>
                   M!Link(sealer.previous, key) = Tip(key)
    /\ ~Live => queue = <<>> /\ sealer.at = "idle" /\ sealer.held = None /\ ~remote.open

LinkInv == Record /\ InputFollows /\ OutputFollows /\ Linked

\* Committed, archived and stored segments stay as they are.
LEMMA RecordStays ==
  ASSUME Record, cp'.cursors = cp.cursors, cp'.archive = cp.archive, cp'.epoch = cp.epoch,
         store' = store, seen'.committed = seen.committed
  PROVE  Record'
<1>1. \A key, ref : Kept(key, ref)' <=> Kept(key, ref)
  BY DEF Kept
<1>2. M!Archived(cp)' = M!Archived(cp)
  BY DEF M!Archived
<1> QED BY <1>1, <1>2 DEF Record

\* Nothing that was sealed changes, and nothing more is.
LEMMA StaysLinked ==
  ASSUME LinkInv, cp'.cursors = cp.cursors, cp'.archive = cp.archive, cp'.epoch = cp.epoch,
         store' = store, seen'.committed = seen.committed,
         eng'.on = eng.on, eng.on => eng'.ready = eng.ready, sealer'.previous = sealer.previous,
         sealer'.at = "ready" => sealer' = sealer,
         sender'.at = "ready" => sender' = sender,
         Live \/ (queue' = queue /\ sealer' = sealer /\ (remote'.open => remote.open))
  PROVE  LinkInv'
<1>1. Record'
  BY RecordStays DEF LinkInv
<1>2. \A key, segment, ref : Follows(key, segment, ref)' <=> Follows(key, segment, ref)
  BY DEF Follows, Tip
<1>3. InputFollows'
  BY <1>2 DEF LinkInv, InputFollows
<1>4. OutputFollows'
  BY <1>2 DEF LinkInv, OutputFollows, M!Current
<1>5. Linked'
  BY DEF LinkInv, Linked, Live, Tip
<1> QED BY <1>1, <1>3, <1>4, <1>5 DEF LinkInv

\* The executor ends, and with it all that was not committed.
LEMMA StopsLinked ==
  ASSUME LinkInv, M!StopTasks, store' = store, seen' = seen, Shape,
         cp'.cursors = cp.cursors, cp'.archive = cp.archive, cp'.epoch = cp.epoch
  PROVE  LinkInv'
<1>1. /\ ~eng'.on /\ queue' = <<>> /\ sealer'.at = "idle" /\ sealer'.held = None
      /\ sealer'.previous = <<>> /\ ~remote'.open
  BY DEF M!StopTasks, M!Down, M!Idle, Shape, RemoteShape
<1>2. Record'
  BY RecordStays DEF LinkInv
<1> QED BY <1>1, <1>2 DEF LinkInv, InputFollows, OutputFollows, Linked, Live

\* So it is when it is killed, or settles.
LEMMA EndsLinked ==
  ASSUME LinkInv, Shape,
         M!Crash \/ \E state \in {"Suspended", "Completed", "Failed", "Cancelled"} : M!Settle(state)
  PROVE  LinkInv'
<1>1. M!StopTasks /\ store' = store /\ seen' = seen
  BY DEF M!Crash, M!Settle
<1>2. cp'.cursors = cp.cursors /\ cp'.archive = cp.archive /\ cp'.epoch = cp.epoch
  BY DEF M!Crash, M!Settle, Shape, CheckpointShape
<1> QED BY <1>1, <1>2, StopsLinked

\* A new executor has opened nothing yet.
LEMMA AttachLinked ==
  ASSUME LinkInv, Shape, M!Attach
  PROVE  LinkInv'
<1>1. /\ ~eng.on /\ eng'.on /\ ~eng'.ready
      /\ cp' = [cp EXCEPT !.state = "Running"]
      /\ remote' = [remote EXCEPT !.in = <<>>, !.reacted = <<>>]
      /\ seen' = [seen EXCEPT !.attempts = @ + 1, !.accepted = <<>>, !.marks = <<>>]
      /\ UNCHANGED <<store, queue, sealer, sender>>
  BY DEF M!Attach, M!Engine
<1>2. /\ cp'.cursors = cp.cursors /\ cp'.archive = cp.archive /\ cp'.epoch = cp.epoch
      /\ seen'.committed = seen.committed /\ remote'.open = remote.open
  BY <1>1 DEF Shape, CheckpointShape, SeenShape, RemoteShape
<1>3. Record'
  BY <1>1, <1>2, RecordStays DEF LinkInv
<1>4. sender.at = "idle"
  BY <1>1 DEF Shape, InputShape
<1> QED BY <1>1, <1>2, <1>3, <1>4 DEF LinkInv, InputFollows, OutputFollows, Linked, Live

\* A session that opens takes its links from the checkpoint.
LEMMA OpenedLinked ==
  ASSUME LinkInv, Shape, M!Opened
  PROVE  LinkInv'
<1> DEFINE links == [k \in DOMAIN cp.cursors |-> cp.cursors[k].sealed]
<1>1. /\ eng.on /\ cp' = [cp EXCEPT !.opened = TRUE]
      /\ eng' = [eng EXCEPT !.ready = TRUE, !.mediaPending = TRUE]
      /\ sealer' = [at |-> "idle", held |-> None, segment |-> <<>>, ref |-> 0,
                    previous |-> links]
      /\ UNCHANGED <<store, queue, hostOut, hostIn, sender, seen>>
  BY DEF M!Opened, M!Idle
<1>2. /\ cp'.cursors = cp.cursors /\ cp'.archive = cp.archive /\ cp'.epoch = cp.epoch
  BY <1>1 DEF Shape, CheckpointShape
<1>3. eng'.on /\ eng'.ready
  BY <1>1, EngineFloor DEF Engines
<1>4. Record'
  BY <1>1, <1>2, RecordStays DEF LinkInv
<1>5. sealer'.at = "idle" /\ sealer'.previous = links
  BY <1>1
<1>6. InputFollows'
  BY <1>1, <1>2 DEF LinkInv, InputFollows, Follows, Tip
<1>7. Linked'
  <2>1. \A key \in DOMAIN links :
           key[3] <= cp.epoch /\ links[key] \in 0..Len(store) /\ links[key] = Tip(key)
    BY DEF LinkInv, Record, Kept, Tip
  <2>2. \A key : M!Link(links, key) = Tip(key)
    BY DEF M!Link, Tip
  <2> HIDE DEF links
  <2> QED BY <1>1, <1>2, <1>3, <1>5, <2>1, <2>2 DEF Linked, Live, Tip
<1> QED BY <1>4, <1>5, <1>6, <1>7 DEF LinkInv, OutputFollows

\* Delivery neither seals nor commits,
LEMMA OutputGoesOn ==
  ASSUME LinkInv, Shape, M!SealerDeliver \/ M!MediaDone \/ M!HostReceive
  PROVE  LinkInv'
<1>1. CASE M!SealerDeliver
  <2>1. /\ eng.on /\ sealer.at = "delivering"
        /\ UNCHANGED <<cp, store, eng, queue, hostIn, sender, remote, seen>>
        /\ \/ sealer' = [at |-> "idle", held |-> sealer.held, segment |-> <<>>, ref |-> 0,
                         previous |-> sealer.previous]
           \/ sealer' = [sealer EXCEPT !.segment = Tail(sealer.segment)]
    BY <1>1 DEF M!SealerDeliver, M!Idle
  <2> DEFINE rest == Tail(sealer.segment)
             idle == [at |-> "idle", held |-> sealer.held, segment |-> <<>>, ref |-> 0,
                      previous |-> sealer.previous]
  <2>2. sealer'.previous = sealer.previous /\ sealer'.at # "ready"
    <3>1. CASE sealer' = idle
      BY <3>1
    <3> HIDE DEF rest
    <3>2. CASE sealer' = [sealer EXCEPT !.segment = rest]
      BY <2>1, <3>2 DEF Shape, OutputShape
    <3> QED BY <2>1, <3>1, <3>2 DEF rest
  <2>3. Live
    BY <2>1 DEF LinkInv, Linked
  <2> QED BY <2>1, <2>2, <2>3, StaysLinked
<1>2. CASE M!MediaDone
  <2>1. eng'.on = eng.on /\ eng'.ready = eng.ready
    BY <1>2, EngineFloor DEF M!MediaDone, Engines
  <2> QED BY <1>2, <2>1, StaysLinked DEF M!MediaDone
<1>3. CASE M!HostReceive
  <2>1. seen'.committed = seen.committed
    BY <1>3 DEF M!HostReceive, Shape, SeenShape
  <2> QED BY <1>3, <2>1, StaysLinked DEF M!HostReceive
<1> QED BY <1>1, <1>2, <1>3

\* nor does the model, which speaks only in an open session,
LEMMA ModelGoesOn ==
  ASSUME LinkInv, Shape, M!Model
  PROVE  LinkInv'
<1>1. /\ UNCHANGED <<cp, store, eng, sealer, hostOut, hostIn, sender, seen>>
      /\ remote.open
  BY DEF M!Model, M!Emit, M!Finish, M!React
<1>2. Live
  BY <1>1 DEF LinkInv, Linked
<1> QED BY <1>1, <1>2, StaysLinked

\* nor does input on its way to the engine or to the model,
LEMMA InputGoesOn ==
  ASSUME LinkInv, Shape,
         \/ M!InputForward \/ (M!InputSent /\ sender.at # "failed")
         \/ \E s \in {1, seen.attempts}, end \in BOOLEAN : M!HostSend(s, end)
  PROVE  LinkInv'
<1>1. CASE M!InputForward
  <2>1. /\ sender'.at # "ready" /\ remote'.open = remote.open
        /\ UNCHANGED <<cp, store, eng, queue, sealer, hostOut, hostIn, seen>>
    BY <1>1 DEF M!InputForward, M!Waiting, Shape, InputShape, RemoteShape
  <2> QED BY <2>1, StaysLinked
<1>2. CASE M!InputSent /\ sender.at # "failed"
  <2>1. /\ eng.on /\ eng' = [eng EXCEPT !.inputSending = FALSE] /\ sender' = M!Waiting
        /\ UNCHANGED <<cp, store, queue, sealer, hostOut, hostIn, remote, seen>>
    BY <1>2 DEF M!InputSent
  <2>2. eng'.on = eng.on /\ eng'.ready = eng.ready
    BY <2>1, EngineFloor DEF Engines
  <2> QED BY <2>1, <2>2, StaysLinked DEF M!Waiting
<1>3. ASSUME NEW s \in {1, seen.attempts}, NEW end \in BOOLEAN, M!HostSend(s, end)
      PROVE  LinkInv'
  <2>1. seen'.committed = seen.committed
    BY <1>3 DEF M!HostSend, Shape, SeenShape
  <2> QED BY <1>3, <2>1, StaysLinked DEF M!HostSend
<1> QED BY <1>1, <1>2, <1>3

\* nor a control that only leaves a command,
LEMMA ControlsGoOn ==
  ASSUME LinkInv, Shape, M!ControlFlush \/ M!ControlSeal \/ M!PrepareClose
  PROVE  LinkInv'
<1>1. /\ cp'.cursors = cp.cursors /\ cp'.archive = cp.archive /\ cp'.epoch = cp.epoch
  BY DEF M!ControlFlush, M!ControlSeal, M!PrepareClose, M!Command, Shape, CheckpointShape
<1>2. seen' = M!Marked /\ UNCHANGED <<store, eng, queue, sealer, hostOut, sender, remote>>
  BY DEF M!ControlFlush, M!ControlSeal, M!PrepareClose
<1>3. seen'.committed = seen.committed
  BY <1>2 DEF M!Marked, Shape, SeenShape
<1> QED BY <1>1, <1>2, <1>3, StaysLinked

\* nor what the session is sent and tells.
LEMMA CommandsGoOn ==
  ASSUME LinkInv, Shape, M!Dispatch \/ M!Submit \/ M!Receive
  PROVE  LinkInv'
<1>1. CASE M!Dispatch
  <2>1. eng.on /\ UNCHANGED <<store, queue, sealer, hostOut, hostIn, sender, remote, seen>>
    BY <1>1, Zenon DEF M!Dispatch
  <2>2. PICK i \in DOMAIN cp.commands :
           /\ cp' = [cp EXCEPT !.commands[i].sent = TRUE]
           /\ eng' = [eng EXCEPT !.sent = @ \cup {cp.commands[i].id}, !.sending = cp.commands[i]]
    BY <1>1, Zenon DEF M!Dispatch
  <2> DEFINE commands == [cp.commands EXCEPT ![i] = [cp.commands[i] EXCEPT !.sent = TRUE]]
             sent == eng.sent \cup {cp.commands[i].id}
             command == cp.commands[i]
  <2>3. cp' = [cp EXCEPT !.commands = commands]
    BY <2>2 DEF Shape, CheckpointShape
  <2>4. eng' = [eng EXCEPT !.sent = sent, !.sending = command]
    BY <2>2
  <2> HIDE DEF commands, sent, command
  <2>5. cp'.cursors = cp.cursors /\ cp'.archive = cp.archive /\ cp'.epoch = cp.epoch
    BY <2>3 DEF Shape, CheckpointShape
  <2>6. eng'.on = eng.on /\ eng'.ready = eng.ready
    BY <2>1, <2>4, EngineFloor DEF Engines
  <2> QED BY <2>1, <2>5, <2>6, StaysLinked
<1>2. CASE M!Submit
  <2>1. CASE remote.open
    <3>1. /\ eng.on /\ eng' = [eng EXCEPT !.sending = None]
          /\ UNCHANGED <<cp, store, queue, sealer, hostOut, hostIn, sender, seen>>
      BY <1>2, <2>1 DEF M!Submit
    <3>2. eng'.on = eng.on /\ eng'.ready = eng.ready
      BY <3>1, EngineFloor DEF Engines
    <3> QED BY <2>1, <3>1, <3>2, StaysLinked
  <2>2. CASE ~remote.open
    BY <1>2, <2>2, EndsLinked DEF M!Submit
  <2> QED BY <2>1, <2>2
<1>3. CASE M!Receive
  <2> DEFINE event == Head(remote.events)
             told == Tail(remote.events)
  <2>1. event \in Events
    BY <1>3, Popped DEF M!Receive, Shape, RemoteShape
  <2>2. PICK next : next = M!Told(event)
    OBVIOUS
  <2>3. /\ eng.on /\ UNCHANGED <<store, hostOut, seen>>
        /\ \/ cp' = [next EXCEPT !.state = "Suspended"] /\ M!StopTasks
           \/ /\ cp' = next /\ remote' = [remote EXCEPT !.events = told]
              /\ UNCHANGED <<eng, queue, sealer, sender>>
    BY <1>3, <2>2 DEF M!Receive
  <2> HIDE DEF event, told
  <2>4. Tells(next)
    BY <2>1, <2>2, ToldType
  <2>5. cp'.cursors = cp.cursors /\ cp'.archive = cp.archive /\ cp'.epoch = cp.epoch
    <3>1. next.cursors = cp.cursors /\ next.archive = cp.archive /\ next.epoch = cp.epoch
      BY <2>4 DEF Tells, Shape, CheckpointShape
    <3>2. CASE cp' = next
      BY <3>1, <3>2
    <3>3. CASE cp' = [next EXCEPT !.state = "Suspended"]
      BY <2>4, <3>1, <3>3 DEF Tells, Shape, CheckpointShape
    <3> QED BY <2>3, <3>2, <3>3
  <2>6. CASE M!StopTasks
    BY <2>3, <2>5, <2>6, StopsLinked
  <2>7. CASE remote' = [remote EXCEPT !.events = told] /\ UNCHANGED <<eng, queue, sealer, sender>>
    <3>1. remote'.open = remote.open
      BY <2>7 DEF Shape, RemoteShape
    <3> QED BY <2>3, <2>5, <2>7, <3>1, StaysLinked
  <2> QED BY <2>3, <2>6, <2>7
<1> QED BY <1>1, <1>2, <1>3

\* A segment is sealed: it follows the tip of its stream as it is then.
LEMMA SealLinks ==
  ASSUME LinkInv, Shape, NEW key \in Keys, NEW n \in Nat, NEW segment \in Seq(Chunks(n)),
         NEW previous \in 0..Len(store), store' = M!Sealed(key, segment, previous),
         UNCHANGED <<cp, seen>>
  PROVE  /\ Record' /\ Len(store) + 1 \in DOMAIN store' /\ Len(store) \in Nat
         /\ Len(store') = Len(store) + 1
         /\ store'[Len(store) + 1].previous = previous
         /\ store'[Len(store) + 1].chunks = segment
         /\ \A k, s, r : Follows(k, s, r) => Follows(k, s, r)'
<1> DEFINE node == [key |-> key, chunks |-> segment, previous |-> previous]
<1>1. store \in Seq(Segments) /\ Ordered(store) /\ Len(store) \in Nat
  BY DEF Shape, LinkInv, Record
<1>2. node \in Segments
  <2>1. Chunks(n) \subseteq MediaChunks
    <3>1. 0..n \subseteq Nat
      OBVIOUS
    <3> QED BY <3>1 DEF Chunks, MediaChunks
  <2>2. segment \in Seq(MediaChunks)
    BY <2>1, SeqMonotonic
  <2>3. previous \in Nat
    BY <1>1
  <2> QED BY <2>2, <2>3 DEF Segments
<1>3. node.previous = previous /\ node.chunks = segment
  OBVIOUS
<1>4. store' = Append(store, node)
  BY DEF M!Sealed
<1> HIDE DEF node
<1>5. /\ Len(store') = Len(store) + 1 /\ DOMAIN store = 1..Len(store)
      /\ DOMAIN store' = 1..(Len(store) + 1)
      /\ store'[Len(store) + 1] = node
      /\ \A r \in 1..Len(store) : store'[r] = store[r]
  BY <1>1, <1>2, <1>4
<1>6. Ordered(store') /\ \A r \in 0..Len(store) : M!Chain(store')[r] = M!Chain(store)[r]
  BY <1>1, <1>2, <1>3, <1>4, ChainGrows
<1>7. \A k, r : Kept(k, r) => Kept(k, r)'
  BY <1>1, <1>5, <1>6 DEF Kept
<1>8. M!Archived(cp)' = M!Archived(cp)
  BY DEF M!Archived
<1>9. Record'
  <2>1. Ordered(store)'
    BY <1>6 DEF Ordered
  <2> QED BY <1>7, <1>8, <2>1 DEF LinkInv, Record
<1>10. \A k, s, r : Follows(k, s, r) => Follows(k, s, r)'
  BY <1>1, <1>5 DEF Follows, Tip
<1> QED BY <1>1, <1>3, <1>5, <1>9, <1>10

\* The sealer's links are those of the checkpoint for output of its epoch.
LEMMA TakeLinks ==
  ASSUME LinkInv, Shape, M!SealerTake
  PROVE  LinkInv'
<1> DEFINE n == cp.epoch
           q == M!WithHeld(sealer.held, queue)
           cut == M!Segment(q)
           key == M!Key("output", Head(q))
           previous == M!Link(sealer.previous, key)
           ref == Len(store) + 1
<1>1. /\ limits \in M!Limits /\ n \in Nat /\ None \notin Chunks(n)
      /\ queue \in Seq(Chunks(n)) /\ sealer.held \in Chunks(n) \cup {None}
  BY Outbox, ChunkIsSome DEF Shape, OutputShape
<1>2. q \in Seq(Chunks(n)) /\ q # <<>>
  BY <1>1, HeldFirst DEF M!SealerTake
<1>3. /\ cut.segment \in Seq(Chunks(n)) /\ Head(q) \in Chunks(n)
      /\ Head(cut.segment) = Head(q)
  BY <1>1, <1>2, SegmentParts
<1>4. key \in Keys /\ key[1] = "output" /\ key[3] = Head(q).epoch
  BY <1>3, ChunkKeys DEF Directions, M!Key
<1>5. Live
  BY <1>2 DEF LinkInv, Linked, M!WithHeld
<1>6. /\ eng.on
      /\ \/ /\ store' = M!Sealed(key, cut.segment, previous)
            /\ sealer' = [sealer EXCEPT !.at = "ready", !.held = cut.held,
                                        !.segment = cut.segment, !.ref = ref]
         \/ sealer' = [sealer EXCEPT !.at = "failed"] /\ UNCHANGED store
      /\ UNCHANGED <<cp, eng, hostOut, hostIn, sender, remote, seen>>
  BY DEF M!SealerTake
<1>7. previous \in 0..Len(store)
  <2>1. Len(store) \in Nat
    BY DEF Shape
  <2> QED BY <2>1 DEF LinkInv, Linked, M!Link
<1>8. Head(q).epoch = cp.epoch => previous = Tip(key)
  BY <1>4, <1>5 DEF LinkInv, Linked
<1>9. M!Key("output", Head(cut.segment)) = key
  BY <1>3
<1> HIDE DEF q, cut, key, previous, n
<1>10. CASE sealer' = [sealer EXCEPT !.at = "failed"] /\ UNCHANGED store
  <2>1. sealer'.previous = sealer.previous /\ sealer'.at = "failed"
    BY <1>10 DEF Shape, OutputShape
  <2> QED BY <1>5, <1>6, <1>10, <2>1, StaysLinked
<1>11. CASE /\ store' = M!Sealed(key, cut.segment, previous)
            /\ sealer' = [sealer EXCEPT !.at = "ready", !.held = cut.held,
                                        !.segment = cut.segment, !.ref = ref]
  <2>1. /\ Record' /\ ref \in DOMAIN store' /\ Len(store) \in Nat /\ Len(store') = Len(store) + 1
        /\ store'[ref].previous = previous /\ store'[ref].chunks = cut.segment
        /\ \A k, s, r : Follows(k, s, r) => Follows(k, s, r)'
    BY <1>1, <1>3, <1>4, <1>6, <1>7, <1>11, SealLinks
  <2>2. sealer'.previous = sealer.previous /\ sealer'.segment = cut.segment /\ sealer'.ref = ref
    BY <1>11 DEF Shape, OutputShape
  <2>3. InputFollows'
    BY <1>6, <2>1 DEF LinkInv, InputFollows
  <2>4. OutputFollows'
    BY <1>3, <1>6, <1>8, <1>9, <2>1, <2>2 DEF OutputFollows, Follows, Tip, M!Current
  <2>5. Linked'
    BY <1>5, <1>6, <2>1, <2>2 DEF LinkInv, Linked, Live, Tip
  <2> QED BY <2>1, <2>3, <2>4, <2>5 DEF LinkInv
<1> QED BY <1>6, <1>10, <1>11

\* Input is sealed behind its cursor.
LEMMA InputLinks ==
  ASSUME LinkInv, Shape, M!InputMedia
  PROVE  LinkInv'
<1> DEFINE C == Chunks(0)
           q == M!WithHeld(eng.held, hostIn.queue)
           cut == M!Segment(q)
           key == M!Key("input", Head(q))
           links == [k \in DOMAIN cp.cursors |-> cp.cursors[k].sealed]
           previous == M!Link(links, key)
           ref == Len(store) + 1
<1>1. /\ limits \in M!Limits /\ None \notin C /\ eng \in Engines(cp.epoch, cp.prepared)
      /\ hostIn.queue \in Seq(C) /\ eng.held \in C \cup {None} /\ eng.on /\ 0 \in Nat
  BY EngineFloor, ChunkIsSome DEF Shape, InputShape, Engines, M!InputMedia
<1>2. q \in Seq(C) /\ q # <<>>
  BY <1>1, HeldFirst DEF M!InputMedia
<1>3. cut.segment \in Seq(C) /\ Head(q) \in C /\ Head(cut.segment) = Head(q)
  BY <1>1, <1>2, SegmentParts
<1>4. key \in Keys
  BY <1>3, ChunkKeys DEF Directions
<1>5. Live
  BY DEF M!InputMedia, Live
<1>6. /\ eng' = [eng EXCEPT !.held = cut.held, !.inputSending = TRUE]
      /\ \/ /\ store' = M!Sealed(key, cut.segment, previous)
            /\ sender' = [at |-> "ready", segment |-> cut.segment, ref |-> ref]
         \/ sender' = [M!Waiting EXCEPT !.at = "failed"] /\ UNCHANGED store
      /\ UNCHANGED <<cp, queue, sealer, hostOut, remote, seen>>
  BY DEF M!InputMedia
<1>7. previous \in 0..Len(store) /\ previous = Tip(key)
  <2>1. Len(store) \in Nat
    BY DEF Shape
  <2> QED BY <2>1 DEF LinkInv, Record, Kept, M!Link, Tip
<1>8. M!Key("input", Head(cut.segment)) = key
  BY <1>3
<1> HIDE DEF q, cut, key, previous
<1>9. eng'.on = eng.on /\ eng'.ready = eng.ready
  BY <1>1, <1>6 DEF Engines
<1>10. CASE sender' = [M!Waiting EXCEPT !.at = "failed"] /\ UNCHANGED store
  <2>1. sender'.at # "ready"
    BY <1>10 DEF M!Waiting
  <2> QED BY <1>6, <1>9, <1>10, <2>1, StaysLinked
<1>11. CASE /\ store' = M!Sealed(key, cut.segment, previous)
            /\ sender' = [at |-> "ready", segment |-> cut.segment, ref |-> ref]
  <2>1. /\ Record' /\ ref \in DOMAIN store' /\ Len(store) \in Nat /\ Len(store') = Len(store) + 1
        /\ store'[ref].previous = previous /\ store'[ref].chunks = cut.segment
        /\ \A k, s, r : Follows(k, s, r) => Follows(k, s, r)'
    BY <1>1, <1>3, <1>4, <1>6, <1>7, <1>11, SealLinks
  <2>2. InputFollows'
    BY <1>6, <1>7, <1>8, <1>11, <2>1 DEF InputFollows, Follows, Tip
  <2>3. OutputFollows'
    BY <1>1, <1>6, <1>9, <2>1 DEF LinkInv, OutputFollows, M!Current
  <2>4. Linked'
    BY <1>5, <1>6, <1>9, <2>1 DEF LinkInv, Linked, Live, Tip
  <2> QED BY <2>1, <2>2, <2>3, <2>4 DEF LinkInv
<1> QED BY <1>6, <1>10, <1>11

\* A segment that follows its stream is committed: it is where the stream now
\* leads to, from its cursor or from its archive node.
LEMMA CommitLinks ==
  ASSUME MediaInv, LinkInv, eng.on, NEW key \in Keys, key[3] <= cp.epoch,
         NEW n \in Nat, NEW segment \in Seq(Chunks(n)), segment # <<>>, NEW ref \in Nat,
         Follows(key, segment, ref), M!Extends(key, segment),
         cp' = M!Cursor(key, segment, ref), seen' = M!Committed(key, segment), store' = store
  PROVE  /\ Record' /\ cp'.epoch = cp.epoch /\ ref \in 0..Len(store)
         /\ \A k : k # key => Tip(k)' = Tip(k)
         /\ Tip(key)' = IF M!Last(segment).end THEN 0 ELSE ref
<1> Shape
  BY DEF MediaInv
<1> DEFINE tip == Tip(key)
           before == IF key \in DOMAIN seen.committed THEN seen.committed[key] ELSE <<>>
           chain == M!Chain(store)
           node == [key |-> key, sealed |-> ref, complete |-> TRUE]
           cursor == [sequence |-> M!Last(segment).sequence, sealed |-> ref]
           Held(k, r) == /\ k \in DOMAIN seen'.committed /\ r \in 0..Len(store')
                         /\ seen'.committed[k] = M!Chain(store')[r]
<1>1. /\ store \in Seq(Segments) /\ Ordered(store) /\ Len(store) \in Nat
      /\ ref \in 1..Len(store) /\ ref \in 0..Len(store)
      /\ store[ref].previous = tip /\ store[ref].chunks = segment
  BY DEF Shape, LinkInv, Record, Follows
<1>2. key \notin M!Archived(cp)
  BY EndedIsArchived DEF MediaInv, M!Extends, ArchivedForGood, M!ArchivedForGood
<1>3. before = chain[tip]
  <2>1. CASE key \in DOMAIN cp.cursors
    BY <2>1 DEF LinkInv, Record, Kept, Tip
  <2>2. CASE key \notin DOMAIN cp.cursors
    <3>1. key \notin DOMAIN seen.committed /\ tip = 0
      BY <1>2, <2>2 DEF LinkInv, Record, Tip
    <3>2. chain[0] = Empty
      BY <1>1, ChainWalks
    <3> QED BY <3>1, <3>2, EmptyIn
  <2> QED BY <2>1, <2>2
<1>4. chain[ref] = Then(before, segment)
  BY <1>1, <1>3, ChainWalks
<1>5. seen'.committed = M!With(seen.committed, key, chain[ref])
  <2> DEFINE all == M!With(seen.committed, key, before \o segment)
  <2>1. seen' = [seen EXCEPT !.committed = all]
    BY DEF M!Committed
  <2> HIDE DEF all
  <2>2. seen'.committed = all
    BY <2>1 DEF Shape, SeenShape
  <2> HIDE DEF before, chain
  <2> QED BY <1>4, <2>2 DEF all, Then
<1> HIDE DEF before, tip
<1>6. /\ DOMAIN seen'.committed = DOMAIN seen.committed \cup {key}
      /\ seen'.committed[key] = chain[ref]
      /\ \A k \in DOMAIN seen.committed : k # key => seen'.committed[k] = seen.committed[k]
  BY <1>5 DEF M!With
<1>7. /\ Held(key, ref)
      /\ \A k, r : Kept(k, r) /\ k # key => Held(k, r)
  BY <1>1, <1>6 DEF Kept
<1>8. cp'.epoch = cp.epoch
      /\ M!Archived(cp)' = IF M!Last(segment).end THEN M!Archived(cp) \cup {key}
                                                  ELSE M!Archived(cp)
  BY CursorMoves
<1>9. \A i \in DOMAIN cp.archive : cp.archive[i].key # key
  BY <1>2 DEF M!Archived
<1>10. ASSUME /\ \A k \in DOMAIN cp'.cursors : Held(k, cp'.cursors[k].sealed) /\ k[3] <= cp'.epoch
              /\ \A i \in DOMAIN cp'.archive : Held(cp'.archive[i].key, cp'.archive[i].sealed)
              /\ DOMAIN seen'.committed \subseteq DOMAIN cp'.cursors \cup M!Archived(cp)'
       PROVE  Record'
  <2>1. Ordered(store)'
    BY <1>1 DEF Ordered
  <2> QED BY <1>10, <2>1 DEF Record, Kept
<1> HIDE DEF Held
<1>11. CASE M!Last(segment).end
  <2> DEFINE cursors == M!Without(cp.cursors, {key})
             archive == Append(cp.archive, node)
  <2>1. cp' = [[cp EXCEPT !.archive = archive] EXCEPT !.cursors = cursors]
    BY <1>11 DEF M!Cursor, M!Archive, Shape, CheckpointShape
  <2> HIDE DEF cursors, archive
  <2>2. cp'.archive = archive /\ cp'.cursors = cursors
    BY <2>1 DEF Shape, CheckpointShape
  <2>3. /\ DOMAIN cursors = DOMAIN cp.cursors \ {key}
        /\ \A k \in DOMAIN cursors : cursors[k] = cp.cursors[k]
    BY DEF cursors, M!Without
  <2>4. /\ DOMAIN archive = 1..(Len(cp.archive) + 1) /\ DOMAIN cp.archive = 1..Len(cp.archive)
        /\ Len(cp.archive) \in Nat
        /\ \A i \in DOMAIN cp.archive : archive[i] = cp.archive[i]
        /\ archive[Len(cp.archive) + 1].key = key /\ archive[Len(cp.archive) + 1].sealed = ref
    <3>1. node.key = key /\ node.sealed = ref
      OBVIOUS
    <3>2. cp.archive \in Seq(Nodes) /\ node \in Nodes
      BY DEF Shape, CheckpointShape, Nodes
    <3> HIDE DEF node
    <3> QED BY <3>1, <3>2 DEF archive
  <2>5. \A i \in DOMAIN cp'.archive : Held(cp'.archive[i].key, cp'.archive[i].sealed)
    <3> SUFFICES ASSUME NEW i \in DOMAIN archive
                 PROVE  Held(archive[i].key, archive[i].sealed)
      BY <2>2
    <3>1. CASE i = Len(cp.archive) + 1
      BY <1>7, <2>2, <2>4, <3>1
    <3>2. CASE i \in DOMAIN cp.archive
      <4>1. Kept(cp.archive[i].key, cp.archive[i].sealed) /\ cp.archive[i].key # key
        BY <1>9, <3>2 DEF LinkInv, Record
      <4> QED BY <1>7, <2>2, <2>4, <3>2, <4>1
    <3> QED BY <2>4, <3>1, <3>2
  <2>6. Record'
    <3>1. \A k \in DOMAIN cp'.cursors : Held(k, cp'.cursors[k].sealed) /\ k[3] <= cp'.epoch
      BY <1>7, <1>8, <2>2, <2>3 DEF LinkInv, Record
    <3>2. DOMAIN seen'.committed \subseteq DOMAIN cp'.cursors \cup M!Archived(cp)'
      BY <1>6, <1>8, <1>11, <2>2, <2>3 DEF LinkInv, Record
    <3> QED BY <1>10, <2>5, <3>1, <3>2
  <2>7. (\A k : k # key => Tip(k)' = Tip(k)) /\ Tip(key)' = 0
    BY <2>2, <2>3 DEF Tip
  <2> QED BY <1>1, <1>8, <1>11, <2>6, <2>7
<1>12. CASE ~M!Last(segment).end
  <2> DEFINE cursors == M!With(cp.cursors, key, cursor)
  <2>1. cp' = [cp EXCEPT !.cursors = cursors]
    BY <1>12 DEF M!Cursor
  <2> HIDE DEF cursors
  <2>2. cp'.archive = cp.archive /\ cp'.cursors = cursors
    BY <2>1 DEF Shape, CheckpointShape
  <2>3. /\ DOMAIN cursors = DOMAIN cp.cursors \cup {key}
        /\ \A k \in DOMAIN cp.cursors : k # key => cursors[k] = cp.cursors[k]
        /\ cursors[key].sealed = ref
    BY DEF cursors, M!With
  <2>4. \A i \in DOMAIN cp'.archive : Held(cp'.archive[i].key, cp'.archive[i].sealed)
    BY <1>7, <1>9, <2>2 DEF LinkInv, Record
  <2>5. Record'
    <3>1. \A k \in DOMAIN cp'.cursors : Held(k, cp'.cursors[k].sealed) /\ k[3] <= cp'.epoch
      BY <1>7, <1>8, <2>2, <2>3 DEF LinkInv, Record
    <3>2. DOMAIN seen'.committed \subseteq DOMAIN cp'.cursors \cup M!Archived(cp)'
      BY <1>6, <1>8, <1>12, <2>2, <2>3 DEF LinkInv, Record
    <3> QED BY <1>10, <2>4, <3>1, <3>2
  <2>6. (\A k : k # key => Tip(k)' = Tip(k)) /\ Tip(key)' = ref
    BY <2>2, <2>3 DEF Tip
  <2> QED BY <1>1, <1>8, <1>12, <2>5, <2>6
<1> QED BY <1>11, <1>12

\* The engine commits what the sealer has ready, drops it with its epoch, or
\* ends the run.
LEMMA MediaReadyLinks ==
  ASSUME MediaInv, LinkInv, M!MediaReady
  PROVE  LinkInv'
<1> Shape
  BY DEF MediaInv
<1> DEFINE n == cp.epoch
<1>0. PICK segment, key, ref, end :
         /\ segment = sealer.segment /\ key = M!Key("output", Head(segment)) /\ ref = sealer.ref
         /\ end = M!Last(segment).end
  OBVIOUS
<1>1. /\ n \in Nat /\ segment \in Seq(Chunks(n)) /\ segment # <<>> /\ ref \in Nat
      /\ Head(segment) \in Chunks(n) /\ Partial(sealer.previous, Keys, Nat)
      /\ eng.on /\ sealer.at = "ready"
  BY <1>0, Outbox DEF Shape, OutputShape, M!MediaReady
<1>2. key \in Keys /\ key[1] = "output" /\ key[3] = Head(segment).epoch
  BY <1>0, <1>1, ChunkKeys DEF Directions, M!Key
<1>3. Live
  BY <1>1 DEF LinkInv, Linked
<1>4. CASE ~M!Current(segment)
  <2>1. /\ sealer' = [at |-> "idle", held |-> sealer.held, segment |-> <<>>, ref |-> 0,
                      previous |-> sealer.previous]
        /\ UNCHANGED <<cp, store, eng, queue, hostOut, hostIn, sender, remote, seen>>
    BY <1>0, <1>4 DEF M!MediaReady, M!Idle
  <2>2. sealer'.at = "idle" /\ sealer'.previous = sealer.previous
    BY <2>1
  <2> QED BY <1>3, <2>1, <2>2, StaysLinked
<1>5. CASE M!Current(segment) /\ M!Extends(key, segment)
  <2> DEFINE links == M!Links(key, segment, ref)
  <2>1. /\ cp' = M!Cursor(key, segment, ref)
        /\ eng' = M!AfterSeal(key, segment) /\ seen' = M!Committed(key, segment)
        /\ sealer' = [sealer EXCEPT !.at = "delivering", !.previous = links]
        /\ UNCHANGED <<store, queue, hostOut, hostIn, sender, remote>>
    BY <1>0, <1>5 DEF M!MediaReady
  <2>2. Follows(key, segment, ref) /\ key[3] = cp.epoch /\ key[3] <= cp.epoch
    BY <1>0, <1>1, <1>2, <1>5 DEF LinkInv, OutputFollows, M!Current
  <2>3. /\ end => links = M!Without(sealer.previous, {key})
        /\ ~end => links = M!With(M!Without(sealer.previous,
                                            {k \in DOMAIN sealer.previous : k[3] # key[3]}),
                                  key, ref)
    BY <1>0 DEF M!Links
  <2> HIDE DEF links
  <2>4. /\ Record' /\ cp'.epoch = cp.epoch /\ ref \in 0..Len(store)
        /\ \A k : k # key => Tip(k)' = Tip(k)
        /\ Tip(key)' = IF end THEN 0 ELSE ref
    BY <1>0, <1>1, <1>2, <1>5, <2>1, <2>2, CommitLinks
  <2>5. eng'.on /\ eng'.ready
    <3>1. eng \in Engines(cp.epoch, cp.prepared)
      BY <1>1, EngineFloor
    <3> QED BY <1>1, <1>3, <2>1, <3>1 DEF M!AfterSeal, Engines, Live
  <2>6. sealer'.at = "delivering" /\ sealer'.previous = links
    BY <2>1 DEF Shape, OutputShape
  <2>7. InputFollows'
    <3> SUFFICES ASSUME sender.at = "ready"
                 PROVE  Follows(M!Key("input", Head(sender.segment)), sender.segment, sender.ref)'
      BY <2>1 DEF InputFollows
    <3>1. Follows(M!Key("input", Head(sender.segment)), sender.segment, sender.ref)
      BY <1>1 DEF LinkInv, InputFollows
    <3>2. M!Key("input", Head(sender.segment)) # key
      BY <1>2 DEF M!Key
    <3> QED BY <2>1, <2>4, <3>1, <3>2 DEF Follows, Tip
  <2>8. \A k \in DOMAIN links : k[3] <= cp.epoch /\ links[k] \in 0..Len(store)
    <3>1. \A k \in DOMAIN sealer.previous :
             k[3] <= cp.epoch /\ sealer.previous[k] \in 0..Len(store)
      BY DEF LinkInv, Linked
    <3>2. CASE end
      BY <2>3, <3>1, <3>2 DEF M!Without
    <3>3. CASE ~end
      <4> DEFINE older == {k \in DOMAIN sealer.previous : k[3] # key[3]}
                 kept == M!Without(sealer.previous, older)
      <4>1. \A k \in DOMAIN kept : k[3] <= cp.epoch /\ kept[k] \in 0..Len(store)
        BY <3>1 DEF M!Without
      <4>2. links = M!With(kept, key, ref)
        BY <2>3, <3>3
      <4> HIDE DEF kept
      <4> QED BY <2>2, <2>4, <4>1, <4>2 DEF M!With
    <3> QED BY <3>2, <3>3
  <2>9. ASSUME NEW k \in Keys, k[1] = "output", k[3] = cp.epoch
        PROVE  M!Link(links, k) = IF k = key THEN (IF end THEN 0 ELSE ref) ELSE Tip(k)
    <3>1. M!Link(sealer.previous, k) = Tip(k)
      BY <1>3, <2>9 DEF LinkInv, Linked
    <3>2. CASE end
      BY <2>3, <3>1, <3>2 DEF M!Link, M!Without
    <3>3. CASE ~end
      BY <2>2, <2>3, <2>9, <3>1, <3>3 DEF M!Link, M!Without, M!With
    <3> QED BY <3>2, <3>3
  <2>10. Linked'
    BY <2>1, <2>4, <2>5, <2>6, <2>8, <2>9 DEF Linked, Live, Tip
  <2> QED BY <2>4, <2>6, <2>7, <2>10 DEF LinkInv, OutputFollows
<1>6. CASE M!Current(segment) /\ ~M!Extends(key, segment)
  BY <1>0, <1>6, EndsLinked DEF M!MediaReady
<1> QED BY <1>4, <1>5, <1>6

\* And what the task that seals input has ready.
LEMMA InputReadyLinks ==
  ASSUME MediaInv, LinkInv, M!InputReady
  PROVE  LinkInv'
<1> Shape
  BY DEF MediaInv
<1>0. PICK segment, key, ref :
         segment = sender.segment /\ key = M!Key("input", Head(segment)) /\ ref = sender.ref
  OBVIOUS
<1>1. /\ segment \in Seq(Chunks(0)) /\ segment # <<>> /\ ref \in Nat /\ 0 \in Nat
      /\ Head(segment) \in Chunks(0) /\ eng.on /\ sender.at = "ready"
      /\ cp.epoch \in Nat
  BY <1>0, Outbox DEF Shape, InputShape, M!InputReady
<1>2. key \in Keys /\ key[1] = "input" /\ key[3] <= cp.epoch
  <2>1. Head(segment).epoch = 0
    BY <1>1 DEF Chunks
  <2>2. key \in Keys
    BY <1>0, <1>1, ChunkKeys DEF Directions
  <2>3. key[1] = "input" /\ key[3] = Head(segment).epoch
    BY <1>0 DEF M!Key
  <2> QED BY <1>1, <2>1, <2>2, <2>3
<1>3. CASE M!Extends(key, segment)
  <2>1. /\ cp' = M!Cursor(key, segment, ref)
        /\ eng' = M!AfterSeal(key, segment) /\ seen' = M!Committed(key, segment)
        /\ sender' = [sender EXCEPT !.at = "sending"]
        /\ UNCHANGED <<store, queue, sealer, hostOut, hostIn, remote>>
    BY <1>0, <1>3 DEF M!InputReady
  <2>2. Follows(key, segment, ref)
    BY <1>0, <1>1 DEF LinkInv, InputFollows
  <2>3. Record' /\ cp'.epoch = cp.epoch /\ \A k : k # key => Tip(k)' = Tip(k)
    BY <1>1, <1>2, <1>3, <2>1, <2>2, CommitLinks
  <2>4. eng'.on = eng.on /\ eng'.ready = eng.ready
    <3>1. eng \in Engines(cp.epoch, cp.prepared)
      BY <1>1, EngineFloor
    <3> QED BY <2>1, <3>1 DEF M!AfterSeal, Engines
  <2>5. sender'.at = "sending"
    BY <2>1 DEF Shape, InputShape
  <2>6. OutputFollows'
    <3> SUFFICES ASSUME sealer.at = "ready", M!Current(sealer.segment)
                 PROVE  Follows(M!Key("output", Head(sealer.segment)), sealer.segment, sealer.ref)'
      BY <2>1, <2>3 DEF OutputFollows, M!Current
    <3>1. Follows(M!Key("output", Head(sealer.segment)), sealer.segment, sealer.ref)
      BY <1>1 DEF LinkInv, OutputFollows
    <3>2. M!Key("output", Head(sealer.segment)) # key
      BY <1>2 DEF M!Key
    <3> QED BY <2>1, <2>3, <3>1, <3>2 DEF Follows, Tip
  <2>7. \A k : k[1] = "output" => Tip(k)' = Tip(k)
    BY <1>2, <2>3
  <2>8. Linked'
    BY <2>1, <2>3, <2>4, <2>7 DEF LinkInv, Linked, Live, Tip
  <2> QED BY <2>3, <2>5, <2>6, <2>8 DEF LinkInv, InputFollows
<1>4. CASE ~M!Extends(key, segment)
  BY <1>0, <1>4, EndsLinked DEF M!InputReady
<1> QED BY <1>3, <1>4

\* What an interruption cuts off is led to from the archive; nothing of the
\* new epoch was sealed yet.
LEMMA InterruptLinks ==
  ASSUME MediaInv, LinkInv, M!ControlInterrupt
  PROVE  LinkInv'
<1> Shape
  BY DEF MediaInv
<1> DEFINE n == cp.epoch
           m == Len(cp.archive)
           ended == IF eng.ended = None THEN None ELSE eng.ended \cup M!Outputs
           archive == cp.archive \o Retired(M!SetToSeq(M!Outputs))
           cursors == M!Without(cp.cursors, M!Outputs)
           commands == Queued("Interrupt", n + 1)
           Held(k, r) == /\ k \in DOMAIN seen'.committed /\ r \in 0..Len(store')
                         /\ seen'.committed[k] = M!Chain(store')[r]
<1>1. eng.on /\ UNCHANGED <<store, queue, sealer, hostOut, hostIn, sender, remote, seen>>
  BY DEF M!ControlInterrupt
<1>2. PICK keys : keys = M!SetToSeq(M!Outputs)
  OBVIOUS
<1>3. /\ keys \in Seq(M!Outputs) /\ M!Outputs = {keys[i] : i \in 1..Len(keys)}
      /\ \A i, j \in 1..Len(keys) : keys[i] = keys[j] => i = j
  <2>1. IsFiniteSet(M!Outputs)
    <3>1. IsFiniteSet(DOMAIN cp.cursors)
      BY DEF Shape, CheckpointShape
    <3> QED BY <3>1, FS_Subset DEF M!Outputs
  <2> QED BY <1>2, <2>1, Listed
<1>4. cp' = [cp EXCEPT !.prepared = cp.prepared + 1, !.commands = commands, !.epoch = n + 1,
                       !.archive = archive, !.cursors = cursors]
  <2>1. cp' = M!Interrupted
    BY DEF M!ControlInterrupt
  <2> QED BY <2>1 DEF M!Interrupted, M!Command, Queued, Prepared, Retired, Shape, CheckpointShape
<1> HIDE DEF archive, cursors, commands
<1>5. cp'.epoch = n + 1 /\ cp'.archive = archive /\ cp'.cursors = cursors /\ n \in Nat
  BY <1>4 DEF Shape, CheckpointShape
<1>6. archive = cp.archive \o Retired(keys) /\ cursors = M!Without(cp.cursors, M!Outputs)
  BY <1>2 DEF archive, cursors
<1>7. M!Archived(cp)' = M!Archived(cp) \cup M!Outputs
  BY <1>3, <1>5, <1>6, Interruption
<1>8. \A k, r : Kept(k, r) => Held(k, r)
  BY <1>1 DEF Kept
<1> HIDE DEF Held
<1>9. /\ DOMAIN cursors = DOMAIN cp.cursors \ M!Outputs
      /\ \A k \in DOMAIN cursors : cursors[k] = cp.cursors[k]
  BY <1>6 DEF M!Without
<1>10. \A k \in DOMAIN cp'.cursors : Held(k, cp'.cursors[k].sealed) /\ k[3] <= cp'.epoch
  <2>1. \A k \in DOMAIN cp.cursors : Kept(k, cp.cursors[k].sealed) /\ k[3] <= n /\ k[3] \in Nat
    BY DEF LinkInv, Record, Shape, CheckpointShape, Partial, Keys
  <2> QED BY <1>5, <1>8, <1>9, <2>1
<1>11. \A i \in DOMAIN cp'.archive : Held(cp'.archive[i].key, cp'.archive[i].sealed)
  <2>1. /\ cp.archive \in Seq(Nodes) /\ Retired(keys) \in Seq(Nodes)
        /\ Len(Retired(keys)) = Len(keys) /\ m \in Nat /\ Len(keys) \in Nat
        /\ DOMAIN cp.archive = 1..m
    BY <1>3, RetiredType DEF Shape, CheckpointShape
  <2>2. \A i \in 1..Len(keys) : /\ Retired(keys)[i].key = keys[i]
                                /\ Retired(keys)[i].sealed = cp.cursors[keys[i]].sealed
    BY <1>3 DEF Retired
  <2>3. /\ DOMAIN archive = 1..(m + Len(keys))
        /\ \A i \in 1..m : archive[i] = cp.archive[i]
        /\ \A i \in 1..(m + Len(keys)) : i \notin 1..m =>
              i - m \in 1..Len(keys) /\ archive[i] = Retired(keys)[i - m]
    <3>1. PICK retired \in Seq(Nodes) : retired = Retired(keys) /\ Len(retired) = Len(keys)
      BY <2>1
    <3>2. /\ Len(cp.archive \o retired) = m + Len(retired)
          /\ cp.archive \o retired \in Seq(Nodes)
          /\ \A i \in 1..Len(cp.archive \o retired) :
                (cp.archive \o retired)[i] = IF i <= m THEN cp.archive[i] ELSE retired[i - m]
      BY <2>1, ConcatProperties
    <3>3. archive = cp.archive \o retired
      BY <1>6, <3>1
    <3>4. archive \in Seq(Nodes) /\ Len(archive) = m + Len(keys)
      BY <3>1, <3>2, <3>3
    <3>5. DOMAIN archive = 1..(m + Len(keys))
      BY <3>4
    <3>6. \A i \in 1..(m + Len(keys)) :
             archive[i] = IF i <= m THEN cp.archive[i] ELSE retired[i - m]
      BY <3>2, <3>3, <3>4
    <3> HIDE DEF m
    <3>7. \A i \in 1..(m + Len(keys)) : /\ i \in 1..m <=> i <= m
                                        /\ i \notin 1..m => i - m \in 1..Len(keys)
      BY <2>1
    <3>8. \A i \in 1..m : i \in 1..(m + Len(keys))
      BY <2>1
    <3> QED BY <3>1, <3>5, <3>6, <3>7, <3>8
  <2>4. ASSUME NEW i \in 1..(m + Len(keys)) PROVE Held(archive[i].key, archive[i].sealed)
    <3>1. CASE i \in 1..m
      BY <1>8, <2>1, <2>3, <3>1 DEF LinkInv, Record
    <3>2. CASE i \notin 1..m
      <4>1. i - m \in 1..Len(keys) /\ archive[i] = Retired(keys)[i - m]
        BY <2>3, <3>2
      <4>2. keys[i - m] \in DOMAIN cp.cursors
        BY <1>3, <4>1 DEF M!Outputs
      <4>3. Kept(keys[i - m], cp.cursors[keys[i - m]].sealed)
        BY <4>2 DEF LinkInv, Record
      <4> QED BY <1>8, <2>2, <4>1, <4>3
    <3> QED BY <3>1, <3>2
  <2> QED BY <1>5, <2>3, <2>4
<1>12. Record'
  <2>1. Ordered(store)'
    BY <1>1 DEF LinkInv, Record, Ordered
  <2>2. DOMAIN seen'.committed \subseteq DOMAIN cp'.cursors \cup M!Archived(cp)'
    BY <1>1, <1>5, <1>7, <1>9 DEF LinkInv, Record
  <2> QED BY <1>10, <1>11, <2>1, <2>2 DEF Record, Kept, Held
<1>13. eng'.on = eng.on /\ eng'.ready = eng.ready
  <2>1. eng' = [eng EXCEPT !.minEpoch = n + 1, !.ended = ended]
    BY DEF M!ControlInterrupt
  <2>2. eng \in Engines(cp.epoch, cp.prepared)
    BY <1>1, EngineFloor
  <2> HIDE DEF ended
  <2> QED BY <2>1, <2>2 DEF Engines
<1>14. InputFollows'
  <2> SUFFICES ASSUME sender.at = "ready"
               PROVE  Follows(M!Key("input", Head(sender.segment)), sender.segment, sender.ref)'
    BY <1>1 DEF InputFollows
  <2>1. Follows(M!Key("input", Head(sender.segment)), sender.segment, sender.ref)
    BY <1>1 DEF LinkInv, InputFollows
  <2>2. M!Key("input", Head(sender.segment)) \notin M!Outputs
    BY DEF M!Key, M!Outputs
  <2> QED BY <1>1, <1>5, <1>9, <2>1, <2>2 DEF Follows, Tip
<1>15. OutputFollows'
  <2>1. sealer.at = "ready" => Head(sealer.segment) \in Chunks(n)
    BY Popped DEF Shape, OutputShape
  <2>2. sealer.at = "ready" => Head(sealer.segment).epoch # n + 1
    BY <1>5, <2>1 DEF Chunks
  <2> QED BY <1>1, <1>5, <2>2 DEF OutputFollows, M!Current
<1>16. Linked'
  <2>1. \A k \in DOMAIN sealer.previous :
           /\ k[3] <= n /\ k[3] \in Nat /\ sealer.previous[k] \in 0..Len(store)
    BY DEF LinkInv, Linked, Shape, OutputShape, Partial, Keys
  <2>2. \A k \in DOMAIN cp.cursors : k[3] <= n /\ k[3] \in Nat
    BY DEF LinkInv, Record, Shape, CheckpointShape, Partial, Keys
  <2>3. \A k \in Keys : k[3] = n + 1 => M!Link(sealer.previous, k) = 0 /\ k \notin DOMAIN cursors
    BY <1>5, <1>9, <2>1, <2>2 DEF M!Link
  <2> QED BY <1>1, <1>5, <1>13, <2>1, <2>3 DEF LinkInv, Linked, Live, Tip
<1> QED BY <1>12, <1>14, <1>15, <1>16 DEF LinkInv

\* At first nothing was sealed.
LEMMA LinkInit == M!Init => LinkInv
<1> SUFFICES ASSUME M!Init PROVE LinkInv
  OBVIOUS
<1>1. /\ cp.cursors = Empty /\ cp.archive = Empty /\ store = Empty /\ queue = Empty
      /\ sealer.at = "idle" /\ sealer.held = None /\ sealer.previous = Empty
      /\ sender.at = "idle" /\ ~remote.open /\ seen.committed = Empty
  BY DEF M!Init, M!Initial, M!Idle, M!Waiting, Empty
<1>2. ~eng.ready
  BY DEF M!Init, M!Engine
<1>3. Empty = <<>> /\ DOMAIN Empty = {}
  BY EmptyIn
<1>4. Record
  BY <1>1, <1>3 DEF Record, Ordered
<1> QED BY <1>1, <1>2, <1>3, <1>4 DEF LinkInv, InputFollows, OutputFollows, Linked, Live

\* Every step keeps it.
LEMMA LinkNext ==
  ASSUME MediaInv, LinkInv, M!Next
  PROVE  LinkInv'
<1> Shape
  BY DEF MediaInv
<1>1. CASE M!Output
  BY <1>1, TakeLinks, MediaReadyLinks, OutputGoesOn, EndsLinked DEF M!Output, M!MediaError
<1>2. CASE M!Input
  <2>1. M!InputSent /\ sender.at = "failed" => M!Settle("Suspended")
    BY DEF M!InputSent
  <2> QED BY <1>2, <2>1, InputLinks, InputReadyLinks, InputGoesOn, EndsLinked DEF M!Input
<1>3. CASE M!Controls
  BY <1>3, ControlsGoOn, InterruptLinks, EndsLinked DEF M!Controls, M!Cancel
<1>4. CASE M!Loop
  BY <1>4, OpenedLinked, CommandsGoOn, ControlsGoOn, EndsLinked DEF M!Loop, M!Complete
<1>5. CASE M!Model
  BY <1>5, ModelGoesOn
<1>6. CASE M!Host
  BY <1>6, OutputGoesOn, InputGoesOn DEF M!Host
<1>7. CASE M!Attach
  BY <1>7, AttachLinked
<1>8. CASE M!Crash
  BY <1>8, EndsLinked
<1>9. CASE M!Stopped
  BY <1>9, StaysLinked DEF M!Stopped, M!vars
<1> QED BY <1>1, <1>2, <1>3, <1>4, <1>5, <1>6, <1>7, <1>8, <1>9 DEF M!Next

\* A stream is archived once, so that its one node leads to what was committed.
LEMMA LeadsToCommitted ==
  ASSUME MediaInv, LinkInv
  PROVE  RecordIsCommitted
<1> SUFFICES ASSUME NEW key \in DOMAIN seen.committed
             PROVE  M!Recorded(key) = seen.committed[key]
  BY DEF RecordIsCommitted, M!RecordIsCommitted
<1> DEFINE nodes == {i \in DOMAIN cp.archive : cp.archive[i].key = key}
<1>1. CASE key \in DOMAIN cp.cursors
  BY <1>1 DEF LinkInv, Record, Kept, M!Recorded
<1>2. CASE key \notin DOMAIN cp.cursors
  <2>1. key \in M!Archived(cp)
    BY <1>2 DEF LinkInv, Record
  <2>2. PICK i \in DOMAIN cp.archive : cp.archive[i].key = key
    BY <2>1 DEF M!Archived
  <2>3. nodes = {i}
    BY <2>2 DEF MediaInv, ArchivedForGood, M!ArchivedForGood
  <2>4. i \in Nat
    BY <2>2 DEF MediaInv, Shape, CheckpointShape
  <2>5. M!Max(nodes) = i
    <3> HIDE DEF nodes
    <3> QED BY <2>3, <2>4 DEF M!Max
  <2>6. M!Recorded(key) = M!Chain(store)[cp.archive[i].sealed]
    BY <1>2, <2>3, <2>5 DEF M!Recorded
  <2>7. Kept(key, cp.archive[i].sealed)
    BY <2>2 DEF LinkInv, Record
  <2> QED BY <2>6, <2>7 DEF Kept
<1> QED BY <1>1, <1>2

\* Whatever is interrupted, ended, refused or restarted in between, the durable
\* checkpoint leads to exactly the chunks committed to a stream, once each and
\* in order.
THEOREM CheckpointLeadsToAll == MCSpec => []RecordIsCommitted
<1>1. MCInit => LinkInv
  BY LinkInit DEF MCInit
<1>2. MediaInv /\ LinkInv /\ [MCNext]_<<part, limits, media, vars>> => LinkInv'
  <2> SUFFICES ASSUME MediaInv, LinkInv, [MCNext]_<<part, limits, media, vars>> PROVE LinkInv'
    OBVIOUS
  <2>1. CASE UNCHANGED <<limits, media>>
    BY <2>1, StaysLinked DEF media
  <2>2. CASE M!Next
    BY <2>2, LinkNext
  <2> QED BY <2>1, <2>2 DEF MCNext, InMedia, InEvents
<1>3. MediaInv /\ LinkInv => RecordIsCommitted
  BY LeadsToCommitted
<1> QED BY <1>1, <1>2, <1>3, MediaIsSound, PTL DEF MCSpec

-----------------------------------------------------------------------------
\* Observer

\* Every number handed out is delivered, reported lost, about to be reported
\* lost, or the one emit is working on.
InHand == IF emitter.at = "idle" THEN 0 ELSE 1
Accounted ==
    emitter.sequence = channel.reported + emitter.lost + Len(Sent) + InHand

\* The last event delivered carries the losses reported so far.
LastReports ==
    Len(Sent) > 0 => /\ Sent[Len(Sent)].total = channel.reported
                     /\ Sent[Len(Sent)].sequence + InHand <= emitter.sequence
NothingReported == Len(Sent) = 0 => channel.reported = 0

GapsInv == TypeOK /\ Accounted /\ LastReports /\ NothingReported /\ GapsAddUp

-----------------------------------------------------------------------------

\* What the type invariant says of each number the argument counts with.
LEMMA ObserverTypes ==
    ASSUME TypeOK
    PROVE  /\ emitter.sequence \in Nat /\ emitter.lost \in Nat
           /\ channel.reported \in Nat /\ channel.taken \in Nat
           /\ Sent \in Seq(Event) /\ Len(Sent) \in Nat
           /\ \A i \in 1..Len(Sent) : Sent[i] \in Event
           /\ InHand \in {0, 1}
BY DEF TypeOK, Sent, InHand

\* Numbers and losses of an event are natural.
LEMMA EventTypes ==
    ASSUME NEW e \in Event PROVE e.sequence \in Nat /\ e.count \in Nat /\ e.total \in Nat
BY DEF Event

\* What appending to a sequence of events does.
LEMMA Appended ==
    ASSUME NEW s \in Seq(Event), NEW e \in Event
    PROVE  /\ Append(s, e) \in Seq(Event)
           /\ Len(Append(s, e)) = Len(s) + 1
           /\ Append(s, e)[Len(s) + 1] = e
           /\ \A i \in 1..Len(s) : Append(s, e)[i] = s[i]
           /\ DOMAIN Append(s, e) = 1..Len(s) + 1
OBVIOUS

\* emit starts from nothing.
LEMMA GapsInit == Init => GapsInv
BY DEF Init, GapsInv, TypeOK, Accounted, LastReports, NothingReported, GapsAddUp, Sent, InHand

\* A step that leaves the emitter's counters and what was sent alone.
Unsent ==
    /\ emitter'.sequence = emitter.sequence /\ emitter'.lost = emitter.lost
    /\ emitter'.at = emitter.at
    /\ channel'.sent = channel.sent /\ channel'.reported = channel.reported

\* A step that sends nothing keeps the invariant.
LEMMA UnsentInv == GapsInv /\ TypeOK' /\ Unsent => GapsInv'
BY DEF GapsInv, Unsent, Accounted, LastReports, NothingReported, GapsAddUp, Sent, InHand

\* Accepting an event with the losses it reports, while emit holds a number.
Sending(count) ==
    [sequence |-> emitter.sequence, count |-> count, total |-> channel.reported + count]

\* An accepted event keeps the invariant.
LEMMA AcceptInv ==
    ASSUME GapsInv, emitter.at # "idle", NEW count \in Nat, Accept(count),
           count > 0 => count = emitter.lost
    PROVE  /\ channel' = [sent |-> Append(Sent, Sending(count)), taken |-> channel.taken,
                          reported |-> channel.reported + count, dropped |-> channel.dropped]
           /\ Sending(count) \in Event
           /\ GapsAddUp'
<1> DEFINE e == Sending(count)
<1>1. /\ emitter.sequence \in Nat /\ emitter.lost \in Nat /\ channel.reported \in Nat
      /\ Sent \in Seq(Event) /\ Len(Sent) \in Nat
      /\ \A i \in 1..Len(Sent) : Sent[i] \in Event
  BY ObserverTypes DEF GapsInv
<1>2. e \in Event
  BY <1>1 DEF Event, Sending
<1>3. channel' = [sent |-> Append(Sent, e), taken |-> channel.taken,
                  reported |-> channel.reported + count, dropped |-> channel.dropped]
  BY DEF Accept, GapsInv, TypeOK, Sent, Sending
<1>4. Sent' = Append(Sent, e)
  BY <1>3 DEF Sent
<1>5. /\ Sent'[Len(Sent) + 1] = e
      /\ \A i \in 1..Len(Sent) : Sent'[i] = Sent[i]
      /\ DOMAIN Sent' = 1..Len(Sent) + 1
  BY <1>1, <1>2, <1>4, Appended
<1>6. e.sequence = emitter.sequence /\ e.count = count /\ e.total = channel.reported + count
  BY DEF Sending
<1>7. ASSUME NEW i \in 1..Len(Sent) + 1
      PROVE  /\ Sent'[i].count > 0 => Sent'[i].total = Sent'[i].sequence - i
             /\ i > 1 => Sent'[i].sequence > Sent'[i - 1].sequence
             /\ Sent'[i].total = (IF i = 1 THEN 0 ELSE Sent'[i - 1].total) + Sent'[i].count
  <2>1. CASE i \in 1..Len(Sent)
    <3>1. Sent'[i] = Sent[i] /\ (i > 1 => Sent'[i - 1] = Sent[i - 1])
      BY <2>1, <1>1, <1>5
    <3>2. i \in DOMAIN Sent
      BY <2>1, <1>1
    <3> QED
      BY <3>1, <3>2, <1>1 DEF GapsInv, GapsAddUp
  <2>2. CASE i = Len(Sent) + 1
    <3>1. Sent'[i] = e
      BY <2>2, <1>5
    <3>2. emitter.sequence = channel.reported + emitter.lost + Len(Sent) + 1
      BY DEF GapsInv, Accounted, InHand
    <3>3. e.count > 0 => e.total = e.sequence - i
      <4>1. count = emitter.lost => channel.reported + count = emitter.sequence - i
        BY <2>2, <1>1, <3>2
      <4> QED
        BY <4>1, <1>6
    <3>4. CASE Len(Sent) = 0
      BY <2>2, <3>1, <3>3, <3>4, <1>6, <1>1 DEF GapsInv, NothingReported
    <3>5. CASE Len(Sent) > 0
      <4>1. Sent'[i - 1] = Sent[Len(Sent)] /\ i > 1 /\ i # 1
        BY <2>2, <3>5, <1>1, <1>5
      <4>2. /\ Sent[Len(Sent)].total = channel.reported
            /\ Sent[Len(Sent)].sequence + 1 <= emitter.sequence
        BY <3>5 DEF GapsInv, LastReports, InHand
      <4>3. Sent[Len(Sent)] \in Event
        BY <3>5, <1>1
      <4>4. Sent[Len(Sent)].sequence \in Nat
        BY <4>3, EventTypes
      <4> QED
        BY <3>1, <3>3, <4>1, <4>2, <4>4, <1>1, <1>6
    <3> QED
      BY <3>4, <3>5, <1>1
  <2> QED
    BY <2>1, <2>2, <1>1
<1> QED
  BY <1>2, <1>3, <1>5, <1>7 DEF GapsAddUp

\* The counters after emit has delivered an event in hand.
LEMMA AcceptCounts ==
    ASSUME GapsInv, emitter.at # "idle", NEW count \in Nat, Accept(count),
           count > 0 => count = emitter.lost, TypeOK',
           emitter'.sequence + 1 = emitter.sequence + InHand' + 1,
           emitter'.lost + count = emitter.lost
    PROVE  GapsInv'
<1>1. /\ emitter.sequence \in Nat /\ emitter.lost \in Nat /\ channel.reported \in Nat
      /\ Sent \in Seq(Event) /\ Len(Sent) \in Nat
  BY ObserverTypes DEF GapsInv
<1>2. /\ channel' = [sent |-> Append(Sent, Sending(count)), taken |-> channel.taken,
                     reported |-> channel.reported + count, dropped |-> channel.dropped]
      /\ Sending(count) \in Event /\ GapsAddUp'
  BY AcceptInv
<1>3. Sent' = Append(Sent, Sending(count)) /\ channel'.reported = channel.reported + count
  BY <1>2 DEF Sent
<1>4. Len(Sent') = Len(Sent) + 1 /\ Sent'[Len(Sent')] = Sending(count)
  BY <1>1, <1>2, <1>3, Appended
<1>5. emitter'.sequence \in Nat /\ emitter'.lost \in Nat /\ InHand' \in {0, 1}
  BY DEF TypeOK, InHand
<1>6. emitter.sequence = channel.reported + emitter.lost + Len(Sent) + 1
  BY DEF GapsInv, Accounted, InHand
<1>7. Accounted'
  <2>1. emitter'.sequence = emitter.sequence + InHand'
    BY <1>1, <1>5
  <2>2. emitter'.lost + count = emitter.lost
    OBVIOUS
  <2>3. PICK r \in Nat, l \in Nat, n \in Nat, k \in Nat, h \in Nat :
            /\ r = channel.reported /\ l = emitter'.lost /\ n = Len(Sent)
            /\ k = emitter.lost /\ h = InHand'
    BY <1>1, <1>5
  <2>4. k = l + count
    BY <1>1, <1>5, <2>2, <2>3
  <2>5. r + k + n + 1 + h = (r + count) + l + (n + 1) + h
    BY <2>4
  <2>6. emitter'.sequence = r + k + n + 1 + h
    BY <1>6, <2>1, <2>3
  <2> QED
    BY <2>3, <2>5, <2>6, <1>3, <1>4 DEF Accounted
<1>8. LastReports' /\ NothingReported'
  BY <1>1, <1>3, <1>4, <1>5 DEF LastReports, NothingReported, Sending
<1> QED
  BY <1>2, <1>7, <1>8 DEF GapsInv

\* Every step keeps the invariant.
LEMMA GapsNext == GapsInv /\ [Next]_vars => GapsInv'
<1> SUFFICES ASSUME GapsInv, [Next]_vars PROVE GapsInv'
  OBVIOUS
<1>0. /\ emitter.sequence \in Nat /\ emitter.lost \in Nat /\ channel.reported \in Nat
      /\ Len(Sent) \in Nat /\ \A i \in 1..Len(Sent) : Sent[i] \in Event
  BY ObserverTypes DEF GapsInv
<1>a. Len(Sent) > 0 => Sent[Len(Sent)].sequence \in Nat
  BY <1>0, EventTypes
<1>1. CASE EmitBegin
  <2>1. TypeOK'
    <3>1. emitter' = [sequence |-> emitter.sequence + 1, lost |-> emitter.lost,
                      open |-> emitter.open, emits |-> emitter.emits + 1,
                      at |-> IF emitter.lost > 0 THEN "gap" ELSE "event"]
      BY <1>1 DEF GapsInv, TypeOK, EmitBegin
    <3>2. emitter.open \in BOOLEAN /\ emitter.emits \in Nat /\ channel' = channel
      BY <1>1 DEF GapsInv, TypeOK, EmitBegin
    <3> QED
      BY <3>1, <3>2, <1>0 DEF GapsInv, TypeOK
  <2>2. /\ InHand = 0 /\ InHand' = 1
        /\ emitter'.sequence = emitter.sequence + 1 /\ emitter'.lost = emitter.lost
        /\ channel' = channel
    BY <1>1 DEF GapsInv, TypeOK, EmitBegin, InHand
  <2>3. GapsAddUp' /\ Sent' = Sent
    BY <2>2 DEF GapsInv, GapsAddUp, Sent
  <2>4. Accounted' /\ LastReports' /\ NothingReported'
    BY <2>2, <2>3, <1>0, <1>a DEF GapsInv, Accounted, LastReports, NothingReported
  <2> QED
    BY <2>1, <2>3, <2>4 DEF GapsInv
<1>2. CASE EmitGap
  <2>1. CASE HasRoom
    <3>1. /\ emitter.at = "gap" /\ Accept(emitter.lost)
          /\ emitter' = [emitter EXCEPT !.lost = 0, !.sequence = @ + 1, !.at = "event"]
      BY <1>2, <2>1 DEF EmitGap
    <3>2. /\ emitter'.sequence = emitter.sequence + 1 /\ emitter'.lost = 0 /\ InHand' = 1
          /\ emitter' \in [sequence : Nat, lost : Nat, open : BOOLEAN,
                           at : {"idle", "gap", "event"}, emits : Nat]
      <4>1. emitter' = [sequence |-> emitter.sequence + 1, lost |-> 0, open |-> emitter.open,
                        at |-> "event", emits |-> emitter.emits]
        BY <3>1 DEF GapsInv, TypeOK
      <4>2. emitter.open \in BOOLEAN /\ emitter.emits \in Nat
        BY DEF GapsInv, TypeOK
      <4> QED
        BY <4>1, <4>2, <1>0 DEF InHand
    <3>3. TypeOK'
      <4>1. /\ channel' = [sent |-> Append(Sent, Sending(emitter.lost)),
                           taken |-> channel.taken,
                           reported |-> channel.reported + emitter.lost,
                           dropped |-> channel.dropped]
            /\ Sending(emitter.lost) \in Event
        BY <3>1, <1>0, AcceptInv
      <4>2. Append(Sent, Sending(emitter.lost)) \in Seq(Event)
        BY <4>1, ObserverTypes, Appended DEF GapsInv
      <4> QED
        BY <3>2, <4>1, <4>2, <1>0 DEF GapsInv, TypeOK
    <3> QED
      BY <3>1, <3>2, <3>3, <1>0, AcceptCounts
  <2>2. CASE ~HasRoom
    <3>1. /\ emitter.at = "gap"
          /\ emitter' = [emitter EXCEPT !.at = "event"] /\ channel' = channel
      BY <1>2, <2>2 DEF EmitGap
    <3> QED
      BY <3>1 DEF GapsInv, TypeOK, Accounted, LastReports, NothingReported, GapsAddUp, Sent, InHand
  <2> QED
    BY <2>1, <2>2
<1>3. CASE EmitEvent
  <2>1. CASE HasRoom
    <3>1. /\ emitter.at = "event" /\ Accept(0)
          /\ emitter' = [emitter EXCEPT !.at = "idle"]
      BY <1>3, <2>1 DEF EmitEvent
    <3>2. /\ emitter'.sequence = emitter.sequence /\ emitter'.lost = emitter.lost
          /\ InHand' = 0
          /\ emitter' \in [sequence : Nat, lost : Nat, open : BOOLEAN,
                           at : {"idle", "gap", "event"}, emits : Nat]
      BY <3>1 DEF GapsInv, TypeOK, InHand
    <3>3. TypeOK'
      <4>1. /\ channel' = [sent |-> Append(Sent, Sending(0)), taken |-> channel.taken,
                           reported |-> channel.reported + 0, dropped |-> channel.dropped]
            /\ Sending(0) \in Event
        BY <3>1, AcceptInv
      <4>2. Append(Sent, Sending(0)) \in Seq(Event)
        BY <4>1, ObserverTypes, Appended DEF GapsInv
      <4> QED
        BY <3>2, <4>1, <4>2, <1>0 DEF GapsInv, TypeOK
    <3> QED
      BY <3>1, <3>2, <3>3, <1>0, AcceptCounts
  <2>2. CASE ~HasRoom
    <3>1. /\ emitter.at = "event"
          /\ emitter' = [emitter EXCEPT !.lost = @ + 1, !.at = "idle"] /\ channel' = channel
      BY <1>3, <2>2 DEF EmitEvent
    <3>2. TypeOK'
      <4>1. emitter' = [sequence |-> emitter.sequence, lost |-> emitter.lost + 1,
                        open |-> emitter.open, at |-> "idle", emits |-> emitter.emits]
        BY <3>1 DEF GapsInv, TypeOK
      <4>2. emitter.open \in BOOLEAN /\ emitter.emits \in Nat
        BY DEF GapsInv, TypeOK
      <4> QED
        BY <3>1, <4>1, <4>2, <1>0 DEF GapsInv, TypeOK
    <3>3. /\ InHand = 1 /\ InHand' = 0 /\ Sent' = Sent
          /\ emitter'.sequence = emitter.sequence /\ emitter'.lost = emitter.lost + 1
      BY <3>1 DEF GapsInv, TypeOK, InHand, Sent
    <3>4. Accounted' /\ LastReports' /\ NothingReported'
      <4>1. emitter.sequence = channel.reported + emitter.lost + Len(Sent) + 1
        BY <3>3 DEF GapsInv, Accounted
      <4>2. emitter'.sequence = channel'.reported + emitter'.lost + Len(Sent') + 0
        BY <3>1, <3>3, <4>1, <1>0
      <4> QED
        BY <3>1, <3>3, <4>2, <1>0, <1>a DEF GapsInv, Accounted, LastReports, NothingReported
    <3>5. GapsAddUp'
      BY <3>3 DEF GapsInv, GapsAddUp
    <3> QED
      BY <3>2, <3>4, <3>5 DEF GapsInv
  <2> QED
    BY <2>1, <2>2
<1>4. CASE Worker
  BY <1>4, UnsentInv DEF Worker, Settle, Close, Abort, GapsInv, TypeOK, Unsent
<1>5. CASE Drive \/ DropDrive
  <2>1. Unsent
    BY <1>5 DEF Drive, ReceiveEvent, StreamEnd, Handled, HandlerFails, Result, DropDrive,
                GapsInv, TypeOK, Unsent
  <2>2. TypeOK'
    <3>1. CASE ReceiveEvent
      <4>1. /\ channel' = [channel EXCEPT !.taken = @ + 1] /\ emitter' = emitter
        BY <3>1 DEF ReceiveEvent
      <4>2. channel' = [sent |-> channel.sent, taken |-> channel.taken + 1,
                        reported |-> channel.reported, dropped |-> channel.dropped]
        BY <4>1 DEF GapsInv, TypeOK
      <4>3. /\ channel.sent \in Seq(Event) /\ channel.taken \in Nat
            /\ channel.reported \in Nat /\ channel.dropped \in BOOLEAN
        BY DEF GapsInv, TypeOK
      <4> QED
        BY <4>1, <4>2, <4>3 DEF GapsInv, TypeOK
    <3> QED
      BY <1>5, <3>1 DEF Drive, ReceiveEvent, StreamEnd, Handled, HandlerFails, Result, DropDrive,
                        GapsInv, TypeOK
  <2> QED
    BY <2>1, <2>2, UnsentInv
<1>6. CASE UNCHANGED vars
  BY <1>6, UnsentInv DEF vars, GapsInv, TypeOK, Unsent
<1> QED
  BY <1>1, <1>2, <1>3, <1>4, <1>5, <1>6 DEF Next, Emit, Over

\* At every gap an observer receives, the losses it was told of are exactly
\* the event numbers it has not received (Emitter::emit).
THEOREM GapAccounting == Spec => []GapsAddUp
<1>1. GapsInv => GapsAddUp
  BY DEF GapsInv
<1> QED
  BY <1>1, GapsInit, GapsNext, PTL DEF Spec
=============================================================================
