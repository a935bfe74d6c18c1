-------------------------- MODULE Components_proofs --------------------------
(***************************************************************************)
(* Proofs about the six components of MCComponents, which share no state:  *)
(* the circuit breaker of tools (Circuit), the resource stores (Resources),*)
(* the opening of model sessions (Establishment), requests with their      *)
(* credential (Requests), a child agent (Agent) and the resources that a   *)
(* checkpoint can reach (Reachable).  The bounds and sets of that module   *)
(* are any here.                                                           *)
(***************************************************************************)
EXTENDS MCComponents, FiniteSetTheorems, WellFoundedInduction, TLAPS

\* An execution is of one component; a step is a step of it, or none.
LEMMA StepOfPart ==
  ASSUME [Next]_vars
  PROVE  /\ part' = part
         /\ part = "circuit" => [B!Next]_<<circuit, calls>>
         /\ part = "resources" =>
              [S!Next]_<<filesystem, entries, writer, reader, issued, deletes, root>>
         /\ part = "establishment" => [E!Next]_<<local, saved, opener, sessions, touched>>
         /\ part = "requests" => [Q!Next]_<<caller, permits, credential, remote>>
         /\ part = "agent" => [A!Next]_<<parent, child, workers, limit>>
         /\ part = "reachable" => [W!Next]_<<chain, checkpoint, found>>
BY DEF Next, vars, breaker, resources, establishment, requests, agent, reach

\* A set with one element at most.
LEMMA AtMostOne ==
  ASSUME NEW T, \A x, y \in T : x = y
  PROVE  IsFiniteSet(T) /\ Cardinality(T) <= 1
<1>1. CASE T = {}
  BY <1>1, FS_EmptySet
<1>2. ASSUME NEW x \in T PROVE IsFiniteSet(T) /\ Cardinality(T) <= 1
  <2>1. T = {x}
    OBVIOUS
  <2>2. IsFiniteSet({x}) /\ Cardinality({x}) = 1
    BY FS_Singleton
  <2> QED BY <2>1, <2>2
<1> QED BY <1>1, <1>2

-----------------------------------------------------------------------------
\* The circuit breaker

Places == {"new", "starting", "recovering", "active", "waiting", "done"}
Circuits == [failures : Int, opened : {"closed", "open", "cooled"}, probe : BOOLEAN,
             opens : Int]
CircuitShape ==
    /\ circuit \in Circuits
    /\ calls \in [Calls -> [at : Places, armed : BOOLEAN, settled : BOOLEAN, attempt : Int]]

\* Only a call in flight probes, until it counts.
ArmedInFlight ==
    \A c \in Calls : calls[c].armed => /\ calls[c].at \in {"starting", "recovering", "active"}
                                       /\ ~calls[c].settled
OneArmed == \A c, d \in Calls : calls[c].armed /\ calls[d].armed => c = d
ProbeIsArmed == circuit.probe <=> \E c \in Calls : calls[c].armed

CircuitInv == CircuitShape /\ ArmedInFlight /\ OneArmed /\ ProbeIsArmed
CircuitPart == part = "circuit" => CircuitInv

\* A call keeps its guard or never had one.
LEMMA GuardKept ==
  ASSUME CircuitInv, NEW c \in Calls, CircuitShape', circuit'.probe = circuit.probe,
         \A d \in Calls \ {c} : calls'[d] = calls[d],
         calls'[c].armed <=> calls[c].armed,
         calls[c].armed => /\ calls'[c].at \in {"starting", "recovering", "active"}
                           /\ ~calls'[c].settled
  PROVE  CircuitInv'
BY DEF CircuitInv, CircuitShape, ArmedInFlight, OneArmed, ProbeIsArmed

\* A call gives its guard back, and the probe if it had it.
LEMMA GuardReturned ==
  ASSUME CircuitInv, NEW c \in Calls, CircuitShape',
         circuit'.probe <=> (circuit.probe /\ ~calls[c].armed),
         \A d \in Calls \ {c} : calls'[d] = calls[d], ~calls'[c].armed
  PROVE  CircuitInv'
BY DEF CircuitInv, CircuitShape, ArmedInFlight, OneArmed, ProbeIsArmed

\* Probe::settle, once or again.
LEMMA SettleInv ==
  ASSUME CircuitInv, NEW c \in Calls, NEW failure \in B!Results, NEW place \in Places,
         B!Settle(c, failure, place)
  PROVE  CircuitInv'
<1> USE DEF CircuitInv
<1>1. circuit' = B!Settled(c, failure)
  BY DEF B!Settle
<1>2. /\ circuit' \in Circuits
      /\ circuit'.probe <=> (circuit.probe /\ ~calls[c].armed)
  <2>1. CASE calls[c].settled
    BY <1>1, <2>1 DEF B!Settled, ArmedInFlight, CircuitShape
  <2>2. CASE ~calls[c].settled
    <3>1. circuit.failures \in Int /\ circuit.opens \in Int
          /\ circuit.opened \in {"closed", "open", "cooled"}
      BY DEF CircuitShape, Circuits
    <3> DEFINE failures == IF failure = "failure" /\ circuit.failures < Threshold
                           THEN circuit.failures + 1 ELSE circuit.failures
               opens == failure = "failure" /\ failures >= Threshold
               a == IF failure = "success" THEN 0 ELSE failures
               d == IF failure = "success" THEN "closed"
                    ELSE IF opens THEN "open" ELSE circuit.opened
               n == IF opens THEN circuit.opens + 1 ELSE circuit.opens
               probe == circuit.probe /\ ~calls[c].armed
    <3>2. circuit' = [circuit EXCEPT !.failures = a, !.opened = d, !.opens = n, !.probe = probe]
      BY <1>1, <2>2, Zenon DEF B!Settled, B!GivesBack
    <3>3. failures \in Int
      BY <3>1
    <3> HIDE DEF failures, opens
    <3>4. /\ a \in Int /\ d \in {"closed", "open", "cooled"} /\ n \in Int
          /\ probe \in BOOLEAN
      BY <3>1, <3>3
    <3> HIDE DEF a, d, n, probe
    <3>5. circuit' \in Circuits /\ circuit'.probe = probe
      BY <3>2, <3>4 DEF CircuitShape, Circuits
    <3> QED BY <3>5 DEF probe
  <2> QED BY <2>1, <2>2
<1>3. calls' = [calls EXCEPT ![c].at = place, ![c].settled = TRUE, ![c].armed = FALSE]
  BY DEF B!Settle
<1>4. CircuitShape' /\ ~calls'[c].armed /\ \A d \in Calls \ {c} : calls'[d] = calls[d]
  BY <1>2, <1>3 DEF CircuitShape
<1> QED BY <1>2, <1>4, GuardReturned

\* CircuitBreaker: the probe is taken exactly while one call in flight probes,
\* and given back however the call ends.
THEOREM OneProbe == Spec => []ProbeHeld
<1>1. B!Init => CircuitInv
  BY DEF B!Init, B!NewCall, CircuitInv, CircuitShape, Circuits, Places, ArmedInFlight, OneArmed,
     ProbeIsArmed
<1>2. CircuitInv /\ [B!Next]_<<circuit, calls>> => CircuitInv'
  <2> SUFFICES ASSUME CircuitInv, [B!Next]_<<circuit, calls>> PROVE CircuitInv'
    OBVIOUS
  <2> USE DEF CircuitInv
  <2>1. CASE UNCHANGED <<circuit, calls>>
    BY <2>1 DEF CircuitShape, ArmedInFlight, OneArmed, ProbeIsArmed
  <2>2. CASE B!Cooldown
    BY <2>2 DEF B!Cooldown, CircuitShape, Circuits, ArmedInFlight, OneArmed, ProbeIsArmed
  <2>3. ASSUME NEW c \in Calls, B!Refuse(c) \/ B!Active(c) \/ B!Again(c) \/ B!Recover(c)
        PROVE  CircuitInv'
    <3>1. CircuitShape'
      BY <2>3 DEF B!Refuse, B!Active, B!Again, B!Recover, B!At, CircuitShape, Places
    <3>2. \A d \in Calls \ {c} : calls'[d] = calls[d]
      BY <2>3 DEF B!Refuse, B!Active, B!Again, B!Recover, CircuitShape
    <3>3. /\ UNCHANGED circuit /\ (calls'[c].armed <=> calls[c].armed)
          /\ calls[c].armed => calls'[c].at = "active" /\ ~calls'[c].settled
      BY <2>3 DEF B!Refuse, B!Active, B!Again, B!Recover, B!At, CircuitShape, ArmedInFlight
    <3> QED BY <3>1, <3>2, <3>3, GuardKept
  <2>4. ASSUME NEW c \in Calls, B!Try(c) PROVE CircuitInv'
    <3>1. CircuitShape'
      <4>1. circuit' \in Circuits
        BY <2>4 DEF B!Try, CircuitShape, Circuits
      <4>2. CASE circuit.opened = "closed"
        <5> calls' = [calls EXCEPT ![c].at = "starting", ![c].armed = FALSE, ![c].settled = FALSE]
          BY <2>4, <4>2 DEF B!Try
        <5> QED BY ZenonT(30), <4>1 DEF CircuitShape, Places
      <4>3. CASE circuit.opened # "closed"
        <5> calls' = [calls EXCEPT ![c].at = "starting", ![c].armed = TRUE, ![c].settled = FALSE]
          BY <2>4, <4>3 DEF B!Try
        <5> QED BY ZenonT(30), <4>1 DEF CircuitShape, Places
      <4> QED BY <4>2, <4>3
    <3>2. ~calls[c].armed /\ \A d \in Calls \ {c} : calls'[d] = calls[d]
      BY <2>4 DEF B!Try, B!At, CircuitShape, ArmedInFlight
    <3>3. CASE circuit.opened = "closed"
      <4> circuit'.probe = circuit.probe /\ ~calls'[c].armed
        BY <2>4, <3>3 DEF B!Try, CircuitShape, Circuits
      <4> QED BY <3>1, <3>2, GuardKept
    <3>4. CASE circuit.opened # "closed"
      <4>1. ~circuit.probe /\ circuit'.probe
        BY <2>4, <3>4 DEF B!Try, B!Refused, CircuitShape, Circuits
      <4>2. calls'[c].armed /\ ~calls'[c].settled /\ calls'[c].at = "starting"
        BY <2>4, <3>4 DEF B!Try, CircuitShape, Circuits
      <4>3. \A d \in Calls \ {c} : ~calls'[d].armed
        BY <3>2, <4>1 DEF ProbeIsArmed
      <4> QED BY <3>1, <4>1, <4>2, <4>3 DEF ArmedInFlight, OneArmed, ProbeIsArmed
    <3> QED BY <3>3, <3>4
  <2>5. ASSUME NEW c \in Calls, B!Finished(c) \/ B!Retried(c) \/ B!Event(c) PROVE CircuitInv'
    BY <2>5, SettleInv DEF B!Finished, B!Retried, B!Event, B!Results, Places
  <2>6. ASSUME NEW c \in Calls, B!Drop(c) PROVE CircuitInv'
    <3>1. CircuitShape' /\ (circuit'.probe <=> circuit.probe /\ ~calls[c].armed)
      BY ZenonT(30), <2>6 DEF B!Drop, B!GivesBack, CircuitShape, Circuits, Places
    <3>2. ~calls'[c].armed /\ \A d \in Calls \ {c} : calls'[d] = calls[d]
      BY <2>6 DEF B!Drop, CircuitShape
    <3> QED BY <3>1, <3>2, GuardReturned
  <2>7. ASSUME NEW c \in Calls, B!At(c, "done"), calls' = [calls EXCEPT ![c] = B!NewCall],
               UNCHANGED circuit
        PROVE  CircuitInv'
    <3>1. CircuitShape' /\ ~calls[c].armed /\ ~calls'[c].armed
      BY <2>7 DEF B!At, B!NewCall, CircuitShape, Places, ArmedInFlight
    <3>2. \A d \in Calls \ {c} : calls'[d] = calls[d]
      BY <2>7 DEF CircuitShape
    <3> QED BY <2>7, <3>1, <3>2, GuardKept
  <2> QED BY <2>1, <2>2, <2>3, <2>4, <2>5, <2>6, <2>7 DEF B!Next
<1>3. CircuitInv => B!ProbeHeld
  <2> SUFFICES ASSUME CircuitInv PROVE B!ProbeHeld
    OBVIOUS
  <2> DEFINE armed == {c \in Calls : calls[c].armed}
  <2>1. Cardinality(armed) <= 1
    BY AtMostOne DEF CircuitInv, OneArmed
  <2>2. circuit.probe <=> armed # {}
    BY DEF CircuitInv, ProbeIsArmed
  <2>3. B!Cardinality(armed) = Cardinality(armed)
    BY DEF B!Cardinality, Cardinality
  <2> QED BY <2>1, <2>2, <2>3 DEF B!ProbeHeld
<1>4. Init => CircuitPart
  BY <1>1 DEF Init, CircuitPart
<1>5. CircuitPart /\ [Next]_vars => CircuitPart'
  BY <1>2, StepOfPart DEF CircuitPart
<1>6. CircuitPart => ProbeHeld
  BY <1>3 DEF CircuitPart, ProbeHeld
<1> QED BY <1>4, <1>5, <1>6, PTL DEF Spec

-----------------------------------------------------------------------------
\* Resources

\* No entry and no format is the absence of one.
Absence == None \notin [content : Contents, life : Nat] /\ None \notin {"current", "other"}

Entries == [content : Contents, life : Nat]
WriterPlaces == {"collecting", "comparing", "returned", "conflict", "failed"}
ResourcesShape ==
    /\ entries \in [Keys -> Entries \cup {None}]
    /\ writer \in [Writers -> [key : Keys, content : Contents, at : WriterPlaces,
                               sequence : Int, previous : Entries \cup {None}]]
    /\ issued \subseteq [key : Keys, life : Nat, content : Contents]
    /\ deletes \in Nat
    /\ root.host \in [Hosts -> [format : {"current", "other", None},
                                at : {"opening", "placing", "open", "rejected"}]]
    /\ root = [marker |-> root.marker, host |-> root.host]

\* What anyone knows to have been stored: it is stored now, a writer has it
\* open to compare with, or a reference was given out for it.
Known(k, e) == \/ e = entries[k] /\ e # None
               \/ \E w \in Writers : writer[w].key = k /\ e = writer[w].previous /\ e # None
               \/ \E reference \in issued :
                    reference = [key |-> k, life |-> e.life, content |-> e.content]

\* A life of a key has one content, and the last life is not over.
OneContent == \A k \in Keys : \A e, f \in Entries :
                Known(k, e) /\ Known(k, f) /\ e.life = f.life => e.content = f.content
LastLife == \A k \in Keys : \A e \in Entries :
              Known(k, e) => e.life <= deletes /\ (e.life = deletes => entries[k] # None)

\* A host that is about to mark the directory has a format to mark it with.
FormatsAgree ==
    \A h \in Hosts :
        /\ root.host[h].at = "open" => root.marker = root.host[h].format
        /\ filesystem \/ root.host[h].at \in {"placing", "open"} => root.host[h].format # None
        /\ root.host[h].at \in {"placing", "open"} => filesystem

ResourcesInv == ResourcesShape /\ OneContent /\ LastLife /\ FormatsAgree
ResourcesPart == part = "resources" => ResourcesInv

\* Most steps learn nothing new.
LEMMA NothingLearnt ==
  ASSUME ResourcesInv, ResourcesShape', FormatsAgree', UNCHANGED deletes,
         \A k \in Keys : \A e \in Entries : Known(k, e)' => Known(k, e),
         \A k \in Keys : entries[k] # None => entries'[k] # None
  PROVE  ResourcesInv'
BY DEF ResourcesInv, OneContent, LastLife

\* A reference is given out for an entry that is known.
LEMMA ReturnLearns ==
  ASSUME Absence, ResourcesInv, NEW w \in Writers, NEW entry \in Entries,
         entry.content = writer[w].content,
         S!Return(w, entry), NEW k \in Keys, NEW e \in Entries, Known(k, e)',
         UNCHANGED entries \/ entries' = [entries EXCEPT ![writer[w].key] = entry]
  PROVE  Known(k, e) \/ (k = writer[w].key /\ e = entry)
<1> DEFINE given == [key |-> writer[w].key, life |-> entry.life, content |-> entry.content]
<1>1. issued' = issued \cup {given}
  BY DEF S!Return
<1>2. \A x \in Writers : writer'[x].key = writer[x].key
                        /\ writer'[x].previous = writer[x].previous
  BY DEF S!Return, S!Move, ResourcesInv, ResourcesShape
<1>3. CASE e = entries'[k] /\ e # None
  <2>1. e = entries[k] \/ (k = writer[w].key /\ e = entry)
    BY <1>3 DEF ResourcesInv, ResourcesShape
  <2> QED BY <1>3, <2>1 DEF Known
<1>4. CASE \E x \in Writers : writer'[x].key = k /\ e = writer'[x].previous /\ e # None
  BY <1>2, <1>4 DEF Known
<1>5. CASE \E r \in issued : r = [key |-> k, life |-> e.life, content |-> e.content]
  BY <1>5 DEF Known
<1>6. CASE given = [key |-> k, life |-> e.life, content |-> e.content]
  <2>1. k = writer[w].key /\ e.life = entry.life /\ e.content = entry.content
    BY <1>6
  <2>2. e = entry
    BY <2>1 DEF Entries
  <2> QED BY <2>1, <2>2
<1> QED BY <1>1, <1>3, <1>4, <1>5, <1>6 DEF Known

\* The shape and the formats are kept by what writers do.
LEMMA WriterShape ==
  ASSUME Absence, ResourcesInv, NEW w \in Writers,
         S!Append(w) \/ S!Finish(w) \/ S!OpenPrevious(w) \/ S!ComparePrevious(w) \/ S!Drop(w)
  PROVE  ResourcesShape'
<1> ResourcesShape
  BY DEF ResourcesInv
<1>1. UNCHANGED <<root, deletes>>
  BY DEF S!Append, S!Finish, S!OpenPrevious, S!ComparePrevious, S!Drop
<1>2. \A place \in WriterPlaces : S!Move(w, place) => writer' \in
        [Writers -> [key : Keys, content : Contents, at : WriterPlaces,
                     sequence : Int, previous : Entries \cup {None}]]
  BY DEF S!Move, ResourcesShape
<1>3. ASSUME NEW entry \in Entries, S!Return(w, entry)
      PROVE  /\ issued' \subseteq [key : Keys, life : Nat, content : Contents]
             /\ writer' \in [Writers -> [key : Keys, content : Contents, at : WriterPlaces,
                                         sequence : Int, previous : Entries \cup {None}]]
  BY <1>2, <1>3 DEF S!Return, ResourcesShape, Entries, WriterPlaces
<1>4. ASSUME NEW entry \in Entries, S!Compare(w, entry), UNCHANGED entries
      PROVE  ResourcesShape'
  BY <1>1, <1>2, <1>3, <1>4 DEF S!Compare, WriterPlaces, ResourcesShape
<1>5. CASE S!Append(w)
  BY SMTT(30), <1>1, <1>5 DEF S!Append, ResourcesShape
<1>6. CASE S!Finish(w)
  <2>1. CASE S!Publish(w)
    <3> DEFINE entry == [content |-> writer[w].content, life |-> deletes]
    <3>1. entry \in Entries
      BY DEF Entries, ResourcesShape
    <3>2. entries' = [entries EXCEPT ![writer[w].key] = entry] /\ S!Return(w, entry)
      BY <2>1 DEF S!Publish
    <3> HIDE DEF entry
    <3> QED BY <1>1, <1>3, <3>1, <3>2 DEF ResourcesShape
  <2>2. CASE UNCHANGED <<entries, issued>> /\ S!Move(w, "comparing")
    BY <1>1, <1>2, <2>2 DEF WriterPlaces, ResourcesShape
  <2>3. CASE /\ S!Taken(writer[w].key) /\ UNCHANGED entries
             /\ S!Compare(w, entries[writer[w].key])
    BY <1>4, <2>3 DEF S!Taken, S!Exists, ResourcesShape
  <2> QED BY <1>6, <2>1, <2>2, <2>3 DEF S!Finish
<1>7. CASE S!OpenPrevious(w)
  <2>1. CASE S!Move(w, "failed")
    BY <1>1, <1>2, <1>7, <2>1 DEF S!OpenPrevious, WriterPlaces, ResourcesShape
  <2>2. CASE writer' = [writer EXCEPT ![w].previous = entries[writer[w].key]]
    BY <1>1, <1>7, <2>2 DEF S!OpenPrevious, ResourcesShape
  <2> QED BY <1>7, <2>1, <2>2 DEF S!OpenPrevious
<1>8. CASE S!ComparePrevious(w)
  BY <1>4, <1>8 DEF S!ComparePrevious, ResourcesShape
<1>9. CASE S!Drop(w)
  BY <1>1, <1>2, <1>9 DEF S!Drop, WriterPlaces, ResourcesShape
<1> QED BY <1>5, <1>6, <1>7, <1>8, <1>9

\* Whatever is learnt, if anything, is what is stored and known.
LEMMA ReferenceKnown ==
  ASSUME Absence, ResourcesInv, NEW w \in Writers, NEW entry \in Entries,
         Known(writer[w].key, entry), S!Compare(w, entry), UNCHANGED <<entries, deletes>>,
         ResourcesShape', FormatsAgree'
  PROVE  ResourcesInv'
<1>1. ASSUME S!Return(w, entry), entry.content = writer[w].content PROVE ResourcesInv'
  <2> \A k \in Keys : \A e \in Entries : Known(k, e)' => Known(k, e)
    BY <1>1, ReturnLearns
  <2> QED BY NothingLearnt
<1>2. CASE S!Move(w, "conflict") /\ UNCHANGED issued
  <2> \A k \in Keys : \A e \in Entries : Known(k, e)' => Known(k, e)
    BY <1>2 DEF S!Move, Known, ResourcesInv, ResourcesShape
  <2> QED BY NothingLearnt
<1> QED BY <1>1, <1>2 DEF S!Compare

\* What a writer does.
LEMMA WriterInv ==
  ASSUME Absence, ResourcesInv, UNCHANGED filesystem, NEW w \in Writers,
         S!Append(w) \/ S!Finish(w) \/ S!OpenPrevious(w) \/ S!ComparePrevious(w) \/ S!Drop(w)
  PROVE  ResourcesInv'
<1> ResourcesShape /\ ResourcesShape'
  BY WriterShape DEF ResourcesInv
<1>1. UNCHANGED <<root, deletes>>
  BY DEF S!Append, S!Finish, S!OpenPrevious, S!ComparePrevious, S!Drop
<1>2. FormatsAgree'
  BY <1>1 DEF ResourcesInv, FormatsAgree
<1>3. writer[w].key \in Keys /\ writer[w].content \in Contents
  BY DEF ResourcesShape
<1>4. ASSUME UNCHANGED <<entries, issued>>,
             \A x \in Writers :
                /\ writer'[x].key = writer[x].key
                /\ writer'[x].previous \in {writer[x].previous, entries[writer[x].key]}
      PROVE  ResourcesInv'
  <2> \A k \in Keys : \A e \in Entries : Known(k, e)' => Known(k, e)
    BY <1>4 DEF Known
  <2> QED BY <1>1, <1>2, <1>4, NothingLearnt
<1>5. CASE S!Append(w) \/ S!OpenPrevious(w) \/ S!Drop(w)
  BY <1>4, <1>5 DEF S!Append, S!OpenPrevious, S!Drop, S!Move, ResourcesShape
<1>6. CASE S!ComparePrevious(w)
  <2> DEFINE entry == writer[w].previous
  <2>1. entry \in Entries /\ Known(writer[w].key, entry) /\ S!Compare(w, entry)
    BY <1>6 DEF S!ComparePrevious, Known, ResourcesShape
  <2> HIDE DEF entry
  <2> QED BY <1>1, <1>2, <1>6, <2>1, ReferenceKnown DEF S!ComparePrevious
<1>7. CASE S!Finish(w)
  <2>1. CASE ~S!Taken(writer[w].key) /\ S!Publish(w)
    <3> DEFINE entry == [content |-> writer[w].content, life |-> deletes]
               k == writer[w].key
    <3>1. /\ entry \in Entries /\ entry.content = writer[w].content /\ entry.life = deletes
          /\ k \in Keys /\ entries[k] = None
      BY <1>3, <2>1 DEF Entries, ResourcesShape, S!Taken, S!Exists
    <3>2. entries' = [entries EXCEPT ![k] = entry] /\ S!Return(w, entry)
      BY <2>1 DEF S!Publish
    <3>3. entry # None
      BY <3>1 DEF Absence, Entries
    <3> HIDE DEF entry
    <3>4. \A j \in Keys : \A e \in Entries :
            Known(j, e)' => Known(j, e) \/ (j = k /\ e = entry)
      BY <3>1, <3>2, ReturnLearns
    <3>5. \A e \in Entries : Known(k, e) => e.life # entry.life
      BY <3>1 DEF ResourcesInv, LastLife
    <3>6. OneContent'
      <4> SUFFICES ASSUME NEW j \in Keys, NEW e \in Entries, NEW f \in Entries,
                          Known(j, e)', Known(j, f)', e.life = f.life
                   PROVE  e.content = f.content
        BY DEF OneContent
      <4>1. Known(j, e) \/ (j = k /\ e = entry)
        BY <3>4
      <4>2. Known(j, f) \/ (j = k /\ f = entry)
        BY <3>4
      <4> HIDE DEF k
      <4> QED BY <3>5, <4>1, <4>2 DEF ResourcesInv, OneContent
    <3>7. entries'[k] # None /\ \A j \in Keys : entries[j] # None => entries'[j] # None
      BY <3>1, <3>2, <3>3 DEF ResourcesShape
    <3>8. LastLife'
      <4> SUFFICES ASSUME NEW j \in Keys, NEW e \in Entries, Known(j, e)'
                   PROVE  e.life <= deletes /\ (e.life = deletes => entries'[j] # None)
        BY <1>1 DEF LastLife
      <4>1. CASE Known(j, e)
        BY <3>7, <4>1 DEF ResourcesInv, LastLife
      <4>2. CASE j = k /\ e = entry
        BY <3>1, <3>7, <4>2 DEF ResourcesShape
      <4> QED BY <3>4, <4>1, <4>2
    <3> QED BY <1>2, <3>6, <3>8 DEF ResourcesInv
  <2>2. CASE UNCHANGED <<entries, issued>> /\ S!Move(w, "comparing")
    BY <1>4, <2>2 DEF S!Move, ResourcesShape
  <2>3. CASE /\ S!Taken(writer[w].key) /\ UNCHANGED entries
             /\ S!Compare(w, entries[writer[w].key])
    <3> DEFINE entry == entries[writer[w].key]
    <3>1. entry \in Entries /\ Known(writer[w].key, entry)
      BY <1>3, <2>3 DEF S!Taken, S!Exists, Known, ResourcesShape
    <3>2. S!Compare(w, entry)
      BY <2>3
    <3> HIDE DEF entry
    <3> QED BY <1>1, <1>2, <2>3, <3>1, <3>2, ReferenceKnown
  <2> QED BY <1>7, <2>1, <2>2, <2>3 DEF S!Finish
<1> QED BY <1>5, <1>6, <1>7

\* A delete ends the last life of its key, and begins a new one for all.
LEMMA DeleteInv ==
  ASSUME ResourcesInv, S!Delete, UNCHANGED filesystem
  PROVE  ResourcesInv'
<1> ResourcesShape
  BY DEF ResourcesInv
<1>1. PICK r \in issued : entries' = [entries EXCEPT ![r.key] = None]
  BY DEF S!Delete
<1>2. deletes' = deletes + 1 /\ UNCHANGED <<writer, issued, root>>
  BY DEF S!Delete
<1>3. ResourcesShape'
  BY <1>1, <1>2 DEF ResourcesShape
<1>4. \A k \in Keys : \A e \in Entries : Known(k, e)' => Known(k, e)
  BY <1>1, <1>2 DEF Known, ResourcesShape
<1>5. OneContent'
  BY <1>4 DEF ResourcesInv, OneContent
<1>6. LastLife'
  <2> SUFFICES ASSUME NEW k \in Keys, NEW e \in Entries, Known(k, e)'
               PROVE  e.life <= deletes' /\ e.life # deletes'
    BY DEF LastLife
  <2>1. e.life <= deletes
    BY <1>4 DEF ResourcesInv, LastLife
  <2>2. e.life \in Nat /\ deletes \in Nat
    BY DEF Entries, ResourcesShape
  <2> QED BY <1>2, <2>1, <2>2
<1>7. FormatsAgree'
  BY <1>2 DEF ResourcesInv, FormatsAgree
<1> QED BY <1>3, <1>5, <1>6, <1>7 DEF ResourcesInv

\* Hosts mark a fresh directory, the first one for all, and agree or leave.
LEMMA HostInv ==
  ASSUME Absence, ResourcesInv, UNCHANGED filesystem, NEW h \in Hosts,
         S!OpenRoot(h) \/ S!PlaceMarker(h)
  PROVE  ResourcesInv'
<1> ResourcesShape /\ FormatsAgree
  BY DEF ResourcesInv
<1>1. UNCHANGED <<entries, writer, issued, deletes>>
  BY DEF S!OpenRoot, S!PlaceMarker
<1>2. ASSUME NEW at \in {"placing", "open", "rejected"}, NEW marker,
             root' = [marker |-> marker, host |-> [root.host EXCEPT ![h].at = at]],
             marker = root.marker \/ root.marker = None,
             at = "open" => marker = root.host[h].format,
             filesystem
      PROVE  ResourcesInv'
  <2>1. /\ root'.marker = marker /\ root'.host[h].at = at
        /\ root'.host[h].format = root.host[h].format
        /\ \A g \in Hosts \ {h} : root'.host[g] = root.host[g]
    BY <1>2 DEF ResourcesShape
  <2>2. ResourcesShape'
    BY <1>1, <1>2 DEF ResourcesShape
  <2>3. FormatsAgree'
    <3>1. \A g \in Hosts : root.host[g].format # None
      BY <1>2 DEF FormatsAgree
    <3> QED BY <1>2, <2>1, <3>1 DEF FormatsAgree
  <2>4. \A k \in Keys : \A e \in Entries : Known(k, e)' => Known(k, e)
    BY <1>1 DEF Known
  <2> QED BY <1>1, <2>2, <2>3, <2>4, NothingLearnt
<1>3. filesystem
  BY DEF S!OpenRoot, S!PlaceMarker, FormatsAgree
<1>4. ASSUME S!CheckMarker(h) PROVE ResourcesInv'
  <2> DEFINE at == IF root.marker = root.host[h].format THEN "open" ELSE "rejected"
  <2>1. root' = [marker |-> root.marker, host |-> [root.host EXCEPT ![h].at = at]]
    BY <1>4 DEF S!CheckMarker, ResourcesShape
  <2>2. at \in {"placing", "open", "rejected"} /\ (at = "open" => root.marker = root.host[h].format)
    OBVIOUS
  <2> HIDE DEF at
  <2> QED BY <1>2, <1>3, <2>1, <2>2
<1>5. ASSUME root' = [root EXCEPT !.host[h].at = "placing"] PROVE ResourcesInv'
  <2> root' = [marker |-> root.marker, host |-> [root.host EXCEPT ![h].at = "placing"]]
    BY <1>5 DEF ResourcesShape
  <2> QED BY <1>2, <1>3
<1>6. ASSUME root' = [marker |-> root.host[h].format, host |-> [root.host EXCEPT ![h].at = "open"]],
             ~S!Marked
      PROVE  ResourcesInv'
  BY <1>2, <1>3, <1>6 DEF S!Marked
<1> QED BY <1>4, <1>5, <1>6 DEF S!OpenRoot, S!PlaceMarker

\* ResourceStore: what is published under a key stays as it is until it is
\* deleted, whoever writes, compares, reads and deletes, and all hosts of a
\* directory agree on its format.
THEOREM PublishedForGood == Absence => (Spec => []PublishedOnce)
<1> SUFFICES ASSUME Absence PROVE Spec => []PublishedOnce
  OBVIOUS
<1>1. S!Init => ResourcesInv
  <2> SUFFICES ASSUME S!Init PROVE ResourcesInv
    OBVIOUS
  <2>1. ResourcesShape
    BY DEF S!Init, S!NewWriter, ResourcesShape, WriterPlaces
  <2>2. \A k \in Keys : \A e \in Entries : ~Known(k, e)
    BY DEF S!Init, S!NewWriter, Known
  <2>3. FormatsAgree
    BY DEF S!Init, Absence, FormatsAgree
  <2> QED BY <2>1, <2>2, <2>3 DEF ResourcesInv, OneContent, LastLife
<1>2. ASSUME ResourcesInv,
             [S!Next]_<<filesystem, entries, writer, reader, issued, deletes, root>>
      PROVE  ResourcesInv'
  <2>1. ASSUME UNCHANGED <<filesystem, entries, writer, issued, deletes, root>>
        PROVE  ResourcesInv'
    BY <1>2, <2>1 DEF ResourcesInv, ResourcesShape, OneContent, LastLife, Known, FormatsAgree
  <2>2. ASSUME NEW r \in Readers, S!Open(r) \/ S!Read(r), UNCHANGED filesystem
        PROVE  ResourcesInv'
    BY <2>1, <2>2 DEF S!Open, S!Read
  <2> QED BY <1>2, <2>1, <2>2, WriterInv, DeleteInv, HostInv DEF S!Next
<1>3. ResourcesInv => S!PublishedOnce
  <2> SUFFICES ASSUME ResourcesInv PROVE S!PublishedOnce
    OBVIOUS
  <2> DEFINE entry(r) == [content |-> r.content, life |-> r.life]
  <2>1. \A r \in issued : /\ r.key \in Keys /\ entry(r) \in Entries /\ Known(r.key, entry(r))
                          /\ entry(r).life = r.life /\ entry(r).content = r.content
    <3> SUFFICES ASSUME NEW r \in issued
                 PROVE  r.key \in Keys /\ entry(r) \in Entries /\ Known(r.key, entry(r))
      OBVIOUS
    <3>1. r \in [key : Keys, life : Nat, content : Contents]
      BY DEF ResourcesInv, ResourcesShape
    <3>2. r = [key |-> r.key, life |-> r.life, content |-> r.content]
      BY <3>1
    <3> QED BY <3>1, <3>2 DEF Known, Entries
  <2>2. \A k \in Keys : entries[k] # None => entries[k] \in Entries /\ Known(k, entries[k])
    BY DEF ResourcesInv, ResourcesShape, Known
  <2> HIDE DEF entry
  <2>3. \A r \in issued : entries[r.key] # None /\ entries[r.key].life = r.life
                            => entries[r.key].content = r.content
    BY <2>1, <2>2 DEF ResourcesInv, OneContent
  <2>4. \A r, t \in issued : r.key = t.key /\ r.life = t.life => r.content = t.content
    BY <2>1 DEF ResourcesInv, OneContent
  <2>5. \A r \in issued : r.life = deletes => entries[r.key] # None
    BY <2>1 DEF ResourcesInv, LastLife
  <2> QED BY <2>3, <2>4, <2>5 DEF S!PublishedOnce, S!Exists, ResourcesInv, FormatsAgree
<1>4. Init => ResourcesPart
  BY <1>1 DEF Init, ResourcesPart
<1>5. ResourcesPart /\ [Next]_vars => ResourcesPart'
  BY <1>2, StepOfPart DEF ResourcesPart
<1>6. ResourcesPart => PublishedOnce
  BY <1>3 DEF ResourcesPart, PublishedOnce
<1> QED BY <1>4, <1>5, <1>6, PTL DEF Spec

-----------------------------------------------------------------------------
\* Opening model sessions

\* Hosts list candidates, and None is not one.
Configured ==
    /\ None \notin Candidates /\ Orders \subseteq Seq(Candidates)
    /\ SessionLimit \in Nat /\ IsFiniteSet(Runs)

Checkpoints == [state : {"new", "active", "waiting", "completed", "failed", "ended"},
                opening : BOOLEAN, binding : Candidates \cup {None},
                recovery : Candidates \cup {None}, sent : BOOLEAN, attached : Int]
Openers == [at : {"off", "prepare", "select", "admission", "opening", "bind", "live"},
            order : Seq(Candidates), next : Int, attempt : Int]
Sessions == [candidate : Candidates \cup {None}, ports : SUBSET E!Ports]

EstablishmentShape ==
    /\ local \in BOOLEAN
    /\ saved \in [Runs -> Checkpoints]
    /\ opener \in [Runs -> Openers]
    /\ sessions \in [Runs -> Sessions]
    /\ touched \in [Runs -> SUBSET Candidates]

\* A run with its checkpoint c, executor x, session s and candidates touched t.
\* A candidate is about to open: the one the run is bound to, if it is bound.
Chosen(c, x) ==
    x.at \in {"admission", "opening"} =>
        /\ x.next \in 1..Len(x.order)
        /\ c.binding # None => x.order[x.next] = c.binding

\* A session is held exactly from its opening until the executor ends.
HeldSession(x, s) ==
    IF x.at \in {"bind", "live"} THEN s.candidate \in Candidates /\ "engine" \in s.ports
                                 ELSE s.candidate = None /\ s.ports = {}

\* A session is bound before it is used, or referred to.
BoundFirst(c, x, s) ==
    /\ c.recovery # None => c.binding = c.recovery
    /\ x.at = "bind" => c.binding \in {None, s.candidate}
    /\ x.at = "live" => c.binding = s.candidate

\* The boundary before an effect outside is durable.
Marked(c, x) ==
    /\ x.at # "off" => c.state # "new"
    /\ ~local /\ x.at \in {"select", "admission", "opening", "bind"} => c.opening

\* An effect is the bound candidate's; before there is a binding, whoever is to
\* try again finds that there may have been one.
Traced(c, x, s, t) ==
    /\ c.binding # None => t \subseteq {c.binding}
    /\ c.binding = None =>
          \/ t = {}
          \/ /\ ~local /\ c.opening /\ c.state # "new"
             /\ \/ x.at = "bind" /\ t = {s.candidate}
                \/ x.at = "off" /\ \E k \in Candidates : t = {k}

Sane(c, x, s, t) == /\ Chosen(c, x) /\ HeldSession(x, s) /\ BoundFirst(c, x, s)
                    /\ Marked(c, x) /\ Traced(c, x, s, t)

\* Who holds a permit of a candidate.
Holds(x, s, k) == \/ x.at = "opening" /\ x.order[x.next] = k
                  \/ s.candidate = k /\ s.ports # {}
Limited == \A k \in Candidates : Cardinality(E!Admitted(k)) <= SessionLimit

EstablishmentInv ==
    /\ EstablishmentShape /\ Limited
    /\ \A r \in Runs : Sane(saved[r], opener[r], sessions[r], touched[r])
EstablishmentPart == part = "establishment" => EstablishmentInv

\* A step of one run.
OneRun(r, c, x, s, t) ==
    /\ UNCHANGED local
    /\ saved' = [saved EXCEPT ![r] = c] /\ opener' = [opener EXCEPT ![r] = x]
    /\ sessions' = [sessions EXCEPT ![r] = s] /\ touched' = [touched EXCEPT ![r] = t]

\* Cardinality is the same wherever it is used.
LEMMA SameCardinality == \A T : E!Cardinality(T) = Cardinality(T)
BY DEF E!Cardinality, Cardinality

\* A run that stays sane and takes no permit keeps the invariant.
LEMMA OneRunInv ==
  ASSUME Configured, EstablishmentInv, NEW r \in Runs,
         NEW c \in Checkpoints, NEW x \in Openers, NEW s \in Sessions,
         NEW t \in SUBSET Candidates, OneRun(r, c, x, s, t), Sane(c, x, s, t),
         \A k \in Candidates : Holds(x, s, k) =>
            \/ Holds(opener[r], sessions[r], k)
            \/ Cardinality(E!Admitted(k)) < SessionLimit
  PROVE  EstablishmentInv'
<1> EstablishmentShape
  BY DEF EstablishmentInv
<1>1. EstablishmentShape'
  BY DEF OneRun, EstablishmentShape
<1>2. saved'[r] = c /\ opener'[r] = x /\ sessions'[r] = s /\ touched'[r] = t /\ local' = local
  BY DEF OneRun, EstablishmentShape
<1>3. \A q \in Runs \ {r} : /\ saved'[q] = saved[q] /\ opener'[q] = opener[q]
                            /\ sessions'[q] = sessions[q] /\ touched'[q] = touched[q]
  BY DEF OneRun, EstablishmentShape
<1>4. \A q \in Runs : Sane(saved[q], opener[q], sessions[q], touched[q])'
  BY <1>2, <1>3 DEF EstablishmentInv, Sane, Chosen, HeldSession, BoundFirst, Marked, Traced
<1>5. Limited'
  <2> SUFFICES ASSUME NEW k \in Candidates
               PROVE  Cardinality(E!Admitted(k)') <= SessionLimit
    BY DEF Limited
  <2>1. /\ E!Admitted(k) = {q \in Runs : Holds(opener[q], sessions[q], k)}
        /\ E!Admitted(k)' = {q \in Runs : Holds(opener'[q], sessions'[q], k)}
    BY DEF E!Admitted, E!At, E!PermitHeld, Holds
  <2>2. IsFiniteSet(E!Admitted(k)) /\ Cardinality(E!Admitted(k)) \in Nat
    BY <2>1, FS_Subset, FS_CardinalityType DEF Configured
  <2>3. CASE Holds(x, s, k) => Holds(opener[r], sessions[r], k)
    <3>1. E!Admitted(k)' \subseteq E!Admitted(k)
      BY <1>2, <1>3, <2>1, <2>3
    <3> QED BY <2>2, <3>1, FS_Subset, FS_CardinalityType DEF EstablishmentInv, Limited, Configured
  <2>4. CASE Cardinality(E!Admitted(k)) < SessionLimit
    <3> DEFINE more == E!Admitted(k) \cup {r}
    <3>1. E!Admitted(k)' \subseteq more
      BY <1>3, <2>1
    <3>2. /\ IsFiniteSet(more) /\ Cardinality(more) \in Nat
          /\ Cardinality(more) <= Cardinality(E!Admitted(k)) + 1
      <4> DEFINE T == E!Admitted(k)
      <4>1. IsFiniteSet(T) /\ Cardinality(T) \in Nat
        BY <2>2
      <4> HIDE DEF T
      <4>2. /\ IsFiniteSet(T \cup {r})
            /\ \/ Cardinality(T \cup {r}) = Cardinality(T)
               \/ Cardinality(T \cup {r}) = Cardinality(T) + 1
        BY <4>1, FS_AddElement
      <4> QED BY <4>1, <4>2 DEF T
    <3> HIDE DEF more
    <3>3. Cardinality(E!Admitted(k)') \in Nat /\ Cardinality(E!Admitted(k)') <= Cardinality(more)
      BY <3>1, <3>2, FS_Subset, FS_CardinalityType
    <3> QED BY <2>2, <2>4, <3>2, <3>3 DEF Configured
  <2> QED BY <2>3, <2>4
<1> QED BY <1>1, <1>4, <1>5 DEF EstablishmentInv

\* An executor that ends lets go of its session.
LEMMA EndedIsSane ==
  ASSUME EstablishmentInv, NEW r \in Runs, NEW c \in Checkpoints, NEW t \in SUBSET Candidates,
         opener[r].at # "off", c.binding = saved[r].binding, c.recovery = saved[r].recovery,
         c.opening = saved[r].opening, c.state # "new",
         \/ t = touched[r]
         \/ /\ opener[r].at = "opening" /\ ~local
            /\ t = touched[r] \cup {opener[r].order[opener[r].next]}
  PROVE  /\ Sane(c, E!Off, E!NoSession, t)
         /\ \A k \in Candidates : ~Holds(E!Off, E!NoSession, k)
<1> DEFINE b == saved[r]
           x == opener[r]
           s == sessions[r]
<1>1. Sane(b, x, s, touched[r]) /\ x \in Openers /\ s \in Sessions
  BY DEF EstablishmentInv, EstablishmentShape
<1>2. x.at = "opening" => x.order[x.next] \in Candidates
  BY <1>1 DEF Sane, Chosen, Openers
<1>3. Traced(c, E!Off, E!NoSession, t)
  <2>1. CASE b.binding # None
    BY <1>1, <2>1 DEF Sane, Traced, Chosen
  <2>2. CASE b.binding = None
    <3>1. CASE t = {}
      BY <2>2, <3>1 DEF Traced
    <3>2. CASE t # {}
      <4>1. ~local /\ c.opening /\ E!Off.at = "off"
        BY <1>1, <2>2, <3>2 DEF Sane, Traced, Marked, E!Off
      <4>2. \E k \in Candidates : t = {k}
        <5>1. CASE t = touched[r]
          BY <1>1, <2>2, <3>2, <5>1 DEF Sane, Traced, HeldSession
        <5>2. CASE t = touched[r] \cup {x.order[x.next]} /\ x.at = "opening"
          BY <1>1, <1>2, <2>2, <5>2 DEF Sane, Traced
        <5> QED BY <5>1, <5>2
      <4> QED BY <2>2, <4>1, <4>2 DEF Traced
    <3> QED BY <3>1, <3>2
  <2> QED BY <2>1, <2>2
<1>4. /\ Chosen(c, E!Off) /\ HeldSession(E!Off, E!NoSession)
      /\ BoundFirst(c, E!Off, E!NoSession) /\ Marked(c, E!Off)
  BY <1>1 DEF Sane, BoundFirst, Chosen, HeldSession, Marked, E!Off, E!NoSession
<1> QED BY <1>3, <1>4 DEF Sane, Holds, E!Off, E!NoSession

\* An executor ends with the run in some state.
LEMMA LeaveInv ==
  ASSUME Configured, EstablishmentInv, NEW r \in Runs, UNCHANGED local, opener[r].at # "off",
         NEW state \in {"waiting", "completed", "failed", "ended"}, E!Leave(r, state),
         NEW t \in SUBSET Candidates, touched' = [touched EXCEPT ![r] = t],
         \/ t = touched[r]
         \/ /\ opener[r].at = "opening" /\ ~local
            /\ t = touched[r] \cup {opener[r].order[opener[r].next]}
  PROVE  EstablishmentInv'
<1> DEFINE c == [saved[r] EXCEPT !.state = state]
<1>1. saved[r] \in Checkpoints
  BY DEF EstablishmentInv, EstablishmentShape
<1>2. /\ c \in Checkpoints /\ c.state # "new" /\ c.binding = saved[r].binding
      /\ c.recovery = saved[r].recovery /\ c.opening = saved[r].opening
  BY <1>1 DEF Checkpoints
<1>3. OneRun(r, c, E!Off, E!NoSession, t)
  BY DEF E!Leave, OneRun
<1>4. E!Off \in Openers /\ E!NoSession \in Sessions
  BY DEF E!Off, E!NoSession, Openers, Sessions
<1> HIDE DEF c
<1>5. Sane(c, E!Off, E!NoSession, t) /\ \A k \in Candidates : ~Holds(E!Off, E!NoSession, k)
  BY <1>2, EndedIsSane
<1> QED BY <1>2, <1>3, <1>4, <1>5, OneRunInv

\* What holds of one run.
LEMMA RunTypes ==
  ASSUME EstablishmentInv, NEW r \in Runs
  PROVE  /\ saved[r] \in Checkpoints /\ opener[r] \in Openers /\ sessions[r] \in Sessions
         /\ touched[r] \in SUBSET Candidates
         /\ saved = [saved EXCEPT ![r] = saved[r]] /\ opener = [opener EXCEPT ![r] = opener[r]]
         /\ sessions = [sessions EXCEPT ![r] = sessions[r]]
         /\ touched = [touched EXCEPT ![r] = touched[r]]
         /\ Sane(saved[r], opener[r], sessions[r], touched[r])
BY DEF EstablishmentInv, EstablishmentShape

\* A recovery reference comes with its binding.
LEMMA BindingIs ==
  ASSUME EstablishmentInv, NEW r \in Runs
  PROVE  E!Binding(r) = saved[r].binding
BY RunTypes DEF Sane, BoundFirst, E!Binding

\* An error ends the executor.
LEMMA FailsInv ==
  ASSUME Configured, EstablishmentInv, NEW r \in Runs, UNCHANGED local, opener[r].at # "off",
         NEW error, E!Fails(r, error), NEW t \in SUBSET Candidates,
         touched' = [touched EXCEPT ![r] = t],
         \/ t = touched[r]
         \/ /\ opener[r].at = "opening" /\ ~local
            /\ t = touched[r] \cup {opener[r].order[opener[r].next]}
  PROVE  EstablishmentInv'
BY LeaveInv DEF E!Fails

\* A host attaches: to begin, or to wait for the session that may exist.
LEMMA AttachInv ==
  ASSUME Configured, EstablishmentInv, NEW r \in Runs, UNCHANGED local, E!Attach(r)
  PROVE  EstablishmentInv'
<1> DEFINE b == saved[r]
           s == sessions[r]
           t == touched[r]
<1>1. /\ b \in Checkpoints /\ opener[r] \in Openers /\ s \in Sessions /\ t \in SUBSET Candidates
      /\ Sane(b, opener[r], s, t) /\ opener[r].at = "off"
  BY RunTypes DEF E!Attach, E!At
<1>2. /\ UNCHANGED <<sessions, touched>>
      /\ sessions = [sessions EXCEPT ![r] = s] /\ touched = [touched EXCEPT ![r] = t]
  BY RunTypes DEF E!Attach
<1>3. PICK order \in Orders :
        LET lost == b.sent \/ (b.opening /\ ~local)
            waits == b.state # "new" /\ b.recovery = None /\ lost
        IN  /\ saved' = [saved EXCEPT ![r] = [b EXCEPT !.attached = @ + 1,
                                                  !.state = IF waits THEN "waiting" ELSE "active"]]
            /\ opener' =
                 IF waits THEN opener
                 ELSE [opener EXCEPT ![r] = [E!Off EXCEPT !.at = "prepare", !.order = order]]
  BY DEF E!Attach, E!Commit
<1> HIDE DEF b, s, t
<1> DEFINE n == b.attached + 1
<1>4. n \in Int
  BY <1>1 DEF Checkpoints
<1>5. CASE b.state # "new" /\ b.recovery = None /\ (b.sent \/ (b.opening /\ ~local))
  <2> DEFINE c == [b EXCEPT !.attached = n, !.state = "waiting"]
  <2>1. saved' = [saved EXCEPT ![r] = c] /\ opener' = [opener EXCEPT ![r] = opener[r]]
    BY <1>3, <1>5, RunTypes
  <2>2. /\ c \in Checkpoints /\ c.binding = b.binding /\ c.recovery = b.recovery
        /\ c.opening = b.opening /\ c.state # "new"
    <3> HIDE DEF n
    <3> QED BY <1>1, <1>4 DEF Checkpoints
  <2> HIDE DEF c
  <2>3. Sane(c, opener[r], s, t)
    BY <1>1, <2>2 DEF Sane, Chosen, HeldSession, BoundFirst, Marked, Traced
  <2> QED BY <1>1, <1>2, <2>1, <2>2, <2>3, OneRunInv DEF OneRun, s
<1>6. CASE ~(b.state # "new" /\ b.recovery = None /\ (b.sent \/ (b.opening /\ ~local)))
  <2> DEFINE c == [b EXCEPT !.attached = n, !.state = "active"]
             x == [E!Off EXCEPT !.at = "prepare", !.order = order]
  <2>1. saved' = [saved EXCEPT ![r] = c] /\ opener' = [opener EXCEPT ![r] = x]
    BY <1>3, <1>6
  <2>2. /\ c \in Checkpoints /\ c.binding = b.binding /\ c.recovery = b.recovery
        /\ c.opening = b.opening /\ c.state # "new"
    <3> HIDE DEF n
    <3> QED BY <1>1, <1>4 DEF Checkpoints
  <2>3. x \in Openers /\ x.at = "prepare"
    <3> order \in Seq(Candidates)
      BY DEF Configured
    <3>1. E!Off \in Openers
      BY DEF E!Off, Openers
    <3> QED BY <3>1 DEF Openers
  <2> HIDE DEF c, x
  <2>4. Traced(c, x, s, t)
    BY <1>1, <1>6, <2>2 DEF Sane, BoundFirst, Traced
  <2>5. Sane(c, x, s, t) /\ \A k \in Candidates : ~Holds(x, s, k)
    BY <1>1, <2>2, <2>3, <2>4 DEF Sane, Chosen, HeldSession, BoundFirst, Marked, Holds
  <2> QED BY ZenonT(30), <1>1, <1>2, <2>1, <2>2, <2>3, <2>5, OneRunInv DEF OneRun, s
<1> QED BY <1>5, <1>6

\* A step of the executor that leaves checkpoint, session and effects alone, and
\* takes no permit.
LEMMA OpenerInv ==
  ASSUME Configured, EstablishmentInv, NEW r \in Runs,
         UNCHANGED <<local, saved, sessions, touched>>,
         opener[r].at # "off", NEW x \in Openers, opener' = [opener EXCEPT ![r] = x],
         opener[r].at \in {"select", "admission", "opening"},
         x.at \in {"select", "admission", "opening"}, Chosen(saved[r], x),
         x.at = "opening" =>
            Cardinality(E!Admitted(x.order[x.next])) < SessionLimit
  PROVE  EstablishmentInv'
<1> DEFINE b == saved[r]
           s == sessions[r]
           t == touched[r]
<1>1. /\ b \in Checkpoints /\ s \in Sessions /\ t \in SUBSET Candidates
      /\ Sane(b, opener[r], s, t) /\ OneRun(r, b, x, s, t)
  BY RunTypes DEF OneRun
<1>2. Sane(b, x, s, t)
  BY <1>1 DEF Sane, HeldSession, BoundFirst, Marked, Traced
<1>3. \A k \in Candidates : Holds(x, s, k) => Cardinality(E!Admitted(k)) < SessionLimit
  BY <1>2 DEF Sane, HeldSession, Holds
<1> QED BY <1>1, <1>2, <1>3, OneRunInv

\* prepare, and the selection of a candidate.
LEMMA PrepareInv ==
  ASSUME Configured, EstablishmentInv, NEW r \in Runs, UNCHANGED local, E!Prepare(r)
  PROVE  EstablishmentInv'
<1> DEFINE b == saved[r]
           c == [b EXCEPT !.opening = b.opening \/ ~local]
           x == [opener[r] EXCEPT !.at = "select"]
<1>1. /\ b \in Checkpoints /\ opener[r] \in Openers /\ opener[r].at = "prepare"
      /\ sessions[r] \in Sessions /\ touched[r] \in SUBSET Candidates
      /\ Sane(b, opener[r], sessions[r], touched[r])
  BY RunTypes DEF E!Prepare, E!At
<1>2. OneRun(r, c, x, sessions[r], touched[r])
  BY RunTypes DEF E!Prepare, E!CommitOpening, E!Commit, E!Move, OneRun
<1>3. /\ c \in Checkpoints /\ c.binding = b.binding /\ c.recovery = b.recovery
      /\ c.state = b.state /\ (c.opening <=> b.opening \/ ~local)
  BY <1>1 DEF Checkpoints
<1>4. x \in Openers /\ x.at = "select"
  BY <1>1 DEF Openers
<1> HIDE DEF c, x
<1>5. Sane(c, x, sessions[r], touched[r])
  BY <1>1, <1>3, <1>4 DEF Sane, Chosen, HeldSession, BoundFirst, Marked, Traced
<1>6. \A k \in Candidates : ~Holds(x, sessions[r], k)
  BY <1>4, <1>5 DEF Sane, HeldSession, Holds
<1> QED BY <1>1, <1>2, <1>3, <1>4, <1>5, <1>6, OneRunInv

\* The first of some positions.
LEMMA FirstPosition ==
  ASSUME NEW P \in SUBSET Nat, P # {}
  PROVE  \E i \in P : \A j \in P : i <= j
<1>1. PICK i \in P : \A j \in P : ~(<<j, i>> \in OpToRel(<, Nat))
  BY NatLessThanWellFounded, WFMin, Zenon
<1>2. \A j \in P : i <= j
  <2> SUFFICES ASSUME NEW j \in P, j < i PROVE FALSE
    OBVIOUS
  <2>1. <<j, i>> \in Nat \X Nat /\ <<j, i>>[1] < <<j, i>>[2]
    OBVIOUS
  <2>2. <<j, i>> \in OpToRel(<, Nat)
    BY <2>1, Zenon DEF OpToRel
  <2> QED BY <1>1, <2>2
<1> QED BY <1>2

\* The decorators choose a candidate, wait for a permit, or go on to the next.
LEMMA ChoiceInv ==
  ASSUME Configured, EstablishmentInv, NEW r \in Runs, UNCHANGED local,
         E!Select(r) \/ E!Admit(r) \/ E!Rejected(r)
  PROVE  EstablishmentInv'
<1> DEFINE y == opener[r]
<1>1. /\ y \in Openers /\ Sane(saved[r], y, sessions[r], touched[r])
      /\ touched[r] \in SUBSET Candidates /\ touched = [touched EXCEPT ![r] = touched[r]]
      /\ E!Binding(r) = saved[r].binding
  BY RunTypes, BindingIs
<1>2. ASSUME UNCHANGED touched, y.at # "off", NEW error, E!Fails(r, error)
      PROVE  EstablishmentInv'
  BY <1>1, <1>2, FailsInv
<1>3. CASE E!Select(r)
  <2> DEFINE first == {i \in DOMAIN y.order : E!Binding(r) = None \/ y.order[i] = E!Binding(r)}
             i == CHOOSE i \in first : \A j \in first : i <= j
             x == [y EXCEPT !.at = "admission", !.next = i]
  <2>1. CASE first = {}
    BY <1>2, <1>3, <2>1 DEF E!Select, E!At
  <2>2. CASE first # {}
    <3>1. y.at = "select" /\ UNCHANGED <<saved, sessions, touched>>
          /\ opener' = [opener EXCEPT ![r].at = "admission", ![r].next = i]
      BY <1>3, <2>2 DEF E!Select, E!At
    <3>2. DOMAIN y.order = 1..Len(y.order) /\ Len(y.order) \in Nat
      BY <1>1 DEF Openers
    <3>3. i \in first
      <4> first \in SUBSET Nat
        BY <3>2
      <4> HIDE DEF first
      <4> \E j \in first : \A n \in first : j <= n
        BY <2>2, FirstPosition
      <4> QED OBVIOUS
    <3>4. i \in 1..Len(y.order) /\ (saved[r].binding # None => y.order[i] = saved[r].binding)
      BY <1>1, <3>2, <3>3
    <3> HIDE DEF first, i
    <3>5. opener' = [opener EXCEPT ![r] = x]
      BY <3>1
    <3>6. /\ x \in Openers /\ x.at = "admission" /\ x.next = i /\ x.order = y.order
      <4>1. i \in Int /\ y \in Openers
        BY <1>1, <3>2, <3>4
      <4> HIDE DEF y
      <4> QED BY <4>1 DEF Openers
    <3> HIDE DEF x
    <3>7. Chosen(saved[r], x)
      BY <3>4, <3>6 DEF Chosen
    <3> QED BY <3>1, <3>5, <3>6, <3>7, OpenerInv
  <2> QED BY <2>1, <2>2
<1>4. CASE E!Admit(r)
  <2> DEFINE x == [y EXCEPT !.at = "opening"]
  <2>1. /\ y.at = "admission" /\ UNCHANGED <<saved, sessions, touched>>
        /\ opener' = [opener EXCEPT ![r] = x]
        /\ Cardinality(E!Admitted(y.order[y.next])) < SessionLimit
    BY <1>4, SameCardinality DEF E!Admit, E!At, E!Move
  <2>2. x \in Openers /\ x.at = "opening" /\ x.next = y.next /\ x.order = y.order
    BY <1>1 DEF Openers
  <2> HIDE DEF x
  <2>3. Chosen(saved[r], x)
    BY <1>1, <2>1, <2>2 DEF Sane, Chosen
  <2> QED BY <2>1, <2>2, <2>3, OpenerInv
<1>5. CASE E!Rejected(r)
  <2>1. y.at = "opening" /\ UNCHANGED touched
    BY <1>5 DEF E!Rejected, E!At
  <2>2. CASE E!Fails(r, "rejected")
    BY <1>2, <2>1, <2>2
  <2>3. ASSUME NEW x \in Openers, opener' = [opener EXCEPT ![r] = x],
               x.at \in {"select", "admission"}, Chosen(saved[r], x), UNCHANGED <<saved, sessions>>
        PROVE  EstablishmentInv'
    BY <2>1, <2>3, OpenerInv
  <2>4. CASE /\ E!Binding(r) = None /\ y.next < Len(y.order)
             /\ opener' = [opener EXCEPT ![r].at = "admission", ![r].next = @ + 1]
             /\ UNCHANGED <<saved, sessions>>
    <3> DEFINE i == y.next + 1
               x == [y EXCEPT !.at = "admission", !.next = i]
    <3>1. i \in 1..Len(y.order) /\ i \in Int
      BY <1>1, <2>1, <2>4 DEF Openers, Sane, Chosen
    <3>2. opener' = [opener EXCEPT ![r] = x]
      BY <2>4
    <3> HIDE DEF i
    <3>3. x \in Openers /\ x.at = "admission" /\ x.next = i /\ x.order = y.order
      BY <1>1, <3>1 DEF Openers
    <3> HIDE DEF x
    <3>4. Chosen(saved[r], x)
      BY <1>1, <2>4, <3>1, <3>3 DEF Chosen
    <3> QED BY <2>3, <2>4, <3>2, <3>3, <3>4
  <2>5. CASE /\ opener' = [opener EXCEPT ![r].at = "select", ![r].attempt = @ + 1]
             /\ UNCHANGED <<saved, sessions>>
    <3> DEFINE n == y.attempt + 1
               x == [y EXCEPT !.at = "select", !.attempt = n]
    <3>1. n \in Int
      BY <1>1 DEF Openers
    <3>2. opener' = [opener EXCEPT ![r] = x]
      BY <2>5
    <3> HIDE DEF n
    <3>3. x \in Openers /\ x.at = "select"
      BY <1>1, <3>1 DEF Openers
    <3> HIDE DEF x
    <3> QED BY <2>3, <2>5, <3>2, <3>3 DEF Chosen
  <2> QED BY <1>5, <2>2, <2>4, <2>5 DEF E!Rejected
<1> QED BY <1>3, <1>4, <1>5

\* The candidate opens a session, under the permit it waited for.
LEMMA OpenedInv ==
  ASSUME Configured, EstablishmentInv, NEW r \in Runs, UNCHANGED local, E!Opened(r)
  PROVE  EstablishmentInv'
<1> DEFINE b == saved[r]
           y == opener[r]
           k == y.order[y.next]
           x == [y EXCEPT !.at = "bind"]
           s == [candidate |-> k, ports |-> E!Ports]
           t == IF local THEN touched[r] ELSE touched[r] \cup {k}
<1>1. /\ b \in Checkpoints /\ y \in Openers /\ touched[r] \in SUBSET Candidates
      /\ Sane(b, y, sessions[r], touched[r]) /\ y.at = "opening"
  BY RunTypes DEF E!Opened, E!At
<1>2. k \in Candidates /\ (b.binding # None => k = b.binding)
  BY <1>1 DEF Sane, Chosen, Openers
<1>3. OneRun(r, b, x, s, t)
  BY RunTypes DEF E!Opened, E!Touch, E!Move, OneRun
<1>4. x \in Openers /\ x.at = "bind"
  BY <1>1 DEF Openers
<1>5. s \in Sessions /\ s.candidate = k /\ "engine" \in s.ports /\ t \in SUBSET Candidates
  BY <1>1, <1>2 DEF Sessions, E!Ports
<1>6. /\ local => t = touched[r]
      /\ ~local => t = touched[r] \cup {k}
  OBVIOUS
<1>7. Holds(y, sessions[r], k)
  BY <1>1 DEF Holds
<1> HIDE DEF b, y, k, x, s, t
<1>8. Traced(b, x, s, t)
  <2>1. b.binding = None => touched[r] = {}
    BY <1>1 DEF Sane, Traced
  <2>2. y.at \in {"opening"} /\ b.state # "new" /\ (~local => b.opening)
    BY <1>1 DEF Sane, Marked
  <2>3. b.binding # None => touched[r] \subseteq {b.binding}
    BY <1>1 DEF Sane, Traced
  <2> QED BY <1>2, <1>4, <1>5, <1>6, <2>1, <2>2, <2>3 DEF Traced
<1>9. Sane(b, x, s, t)
  BY <1>1, <1>2, <1>4, <1>5, <1>8 DEF Sane, Chosen, HeldSession, BoundFirst, Marked
<1>10. \A c \in Candidates : Holds(x, s, c) => Holds(opener[r], sessions[r], c)
  BY <1>4, <1>5, <1>7 DEF Holds, y
<1> QED BY <1>1, <1>3, <1>4, <1>5, <1>9, <1>10, OneRunInv DEF b

\* An error that is not to be tried again, with or without a session outside.
LEMMA RefusedInv ==
  ASSUME Configured, EstablishmentInv, NEW r \in Runs, UNCHANGED local,
         E!Uncertain(r) \/ E!Refused(r)
  PROVE  EstablishmentInv'
<1> DEFINE k == opener[r].order[opener[r].next]
<1>1. /\ opener[r].at = "opening" /\ touched = [touched EXCEPT ![r] = touched[r]]
      /\ touched[r] \in SUBSET Candidates
  BY RunTypes DEF E!Uncertain, E!Refused, E!At
<1>2. k \in Candidates
  BY <1>1, RunTypes DEF Sane, Chosen, Openers
<1>3. CASE E!Refused(r)
  BY <1>1, <1>3, FailsInv DEF E!Refused
<1>4. CASE E!Uncertain(r)
  <2>1. CASE UNCHANGED touched
    BY <1>1, <1>4, <2>1, FailsInv DEF E!Uncertain
  <2>2. CASE E!Touch(r, k)
    <3> DEFINE t == touched[r] \cup {k}
    <3>1. t \in SUBSET Candidates /\ touched' = [touched EXCEPT ![r] = t]
      BY <1>1, <1>2, <2>2 DEF E!Touch
    <3>2. ~local /\ E!Fails(r, "uncertain")
      BY <1>4 DEF E!Uncertain
    <3> QED BY <1>1, <3>1, <3>2, FailsInv
  <2> QED BY <1>4, <2>1, <2>2 DEF E!Uncertain
<1> QED BY <1>3, <1>4

\* The engine commits the binding of the session it got.
LEMMA BindInv ==
  ASSUME Configured, EstablishmentInv, NEW r \in Runs, UNCHANGED local, E!Bind(r)
  PROVE  EstablishmentInv'
<1> DEFINE b == saved[r]
           s == sessions[r]
           t == touched[r]
           c == [b EXCEPT !.opening = TRUE, !.binding = s.candidate]
           x == [E!Off EXCEPT !.at = "live"]
<1>1. /\ b \in Checkpoints /\ s \in Sessions /\ t \in SUBSET Candidates
      /\ touched = [touched EXCEPT ![r] = t] /\ sessions = [sessions EXCEPT ![r] = s]
      /\ Sane(b, opener[r], s, t) /\ opener[r].at = "bind" /\ UNCHANGED touched
  BY RunTypes DEF E!Bind, E!At
<1>2. CASE E!Leave(r, "failed")
  BY <1>1, <1>2, LeaveInv
<1>3. CASE b.binding \in {None, s.candidate} /\ ~E!Leave(r, "failed")
  <2>1. OneRun(r, c, x, s, t)
    BY <1>1, <1>3 DEF E!Bind, E!Commit, OneRun
  <2>2. /\ s.candidate \in Candidates /\ "engine" \in s.ports /\ s.candidate # None
        /\ (b.recovery # None => b.recovery = s.candidate)
    BY <1>1, <1>3 DEF Sane, HeldSession, BoundFirst, Configured
  <2>3. /\ c \in Checkpoints /\ c.binding = s.candidate /\ c.recovery = b.recovery
        /\ c.opening /\ c.state = b.state
    BY <1>1, <2>2 DEF Checkpoints
  <2>4. x \in Openers /\ x.at = "live"
    <3> E!Off \in Openers
      BY DEF E!Off, Openers
    <3> QED BY DEF Openers
  <2> HIDE DEF c, x
  <2>5. t \subseteq {s.candidate}
    BY <1>1, <1>3 DEF Sane, Traced
  <2>6. Sane(c, x, s, t)
    BY <1>1, <2>2, <2>3, <2>4, <2>5 DEF Sane, Chosen, HeldSession, BoundFirst, Marked, Traced
  <2>7. \A k \in Candidates : Holds(x, s, k) => Holds(opener[r], sessions[r], k)
    BY <2>4 DEF Holds
  <2> QED BY <1>1, <2>1, <2>3, <2>4, <2>6, <2>7, OneRunInv
<1> QED BY <1>2, <1>3 DEF E!Bind

\* The engine with an open session that is bound.
LEMMA LiveInv ==
  ASSUME Configured, EstablishmentInv, NEW r \in Runs, UNCHANGED local,
         E!Send(r) \/ E!Reference(r) \/ E!Answered(r) \/ E!DropPort(r)
  PROVE  EstablishmentInv'
<1> DEFINE b == saved[r]
           y == opener[r]
           s == sessions[r]
           t == touched[r]
<1>1. /\ b \in Checkpoints /\ y \in Openers /\ s \in Sessions /\ t \in SUBSET Candidates
      /\ Sane(b, y, s, t) /\ y.at = "live" /\ saved = [saved EXCEPT ![r] = b]
      /\ opener = [opener EXCEPT ![r] = y] /\ sessions = [sessions EXCEPT ![r] = s]
      /\ touched = [touched EXCEPT ![r] = t]
  BY RunTypes DEF E!Send, E!Reference, E!Answered, E!DropPort, E!At
<1>2. /\ s.candidate \in Candidates /\ s.candidate # None /\ "engine" \in s.ports
      /\ b.binding = s.candidate /\ t \subseteq {s.candidate}
  BY <1>1 DEF Sane, HeldSession, BoundFirst, Traced, Configured
<1>3. ASSUME NEW c \in Checkpoints, saved' = [saved EXCEPT ![r] = c], c.binding = b.binding,
             c.recovery \in {b.recovery, b.binding}, c.opening = b.opening, c.state = b.state,
             NEW u \in SUBSET (t \cup {s.candidate}), touched' = [touched EXCEPT ![r] = u],
             UNCHANGED <<opener, sessions>>
      PROVE  EstablishmentInv'
  <2>1. OneRun(r, c, y, s, u) /\ u \in SUBSET Candidates /\ u \subseteq {s.candidate}
    BY <1>1, <1>2, <1>3 DEF OneRun
  <2>2. Sane(c, y, s, u)
    BY <1>1, <1>2, <1>3, <2>1 DEF Sane, Chosen, HeldSession, BoundFirst, Marked, Traced
  <2> QED BY <1>1, <1>3, <2>1, <2>2, OneRunInv
<1>4. CASE E!Send(r)
  <2> DEFINE c == [b EXCEPT !.sent = TRUE]
             u == t \cup {s.candidate}
  <2>1. /\ c \in Checkpoints /\ c.binding = b.binding /\ c.recovery = b.recovery
        /\ c.opening = b.opening /\ c.state = b.state
    BY <1>1 DEF Checkpoints
  <2>2. /\ saved' = [saved EXCEPT ![r] = c] /\ touched' = [touched EXCEPT ![r] = u]
        /\ UNCHANGED <<opener, sessions>>
    BY <1>4 DEF E!Send, E!Commit, E!Touch
  <2>3. u \in SUBSET (t \cup {s.candidate})
    OBVIOUS
  <2> HIDE DEF c, u
  <2> QED BY <1>3, <2>1, <2>2, <2>3
<1>5. CASE E!Reference(r)
  <2> DEFINE c == [b EXCEPT !.recovery = s.candidate]
  <2>1. /\ c \in Checkpoints /\ c.binding = b.binding /\ c.recovery = b.binding
        /\ c.opening = b.opening /\ c.state = b.state
    BY <1>1, <1>2 DEF Checkpoints
  <2>2. saved' = [saved EXCEPT ![r] = c] /\ UNCHANGED <<opener, sessions, touched>>
    BY <1>5 DEF E!Reference, E!Commit
  <2> HIDE DEF c
  <2> QED BY <1>1, <1>3, <2>1, <2>2
<1>6. CASE E!Answered(r)
  <2> DEFINE c == [b EXCEPT !.sent = FALSE]
  <2>1. /\ c \in Checkpoints /\ c.binding = b.binding /\ c.recovery = b.recovery
        /\ c.opening = b.opening /\ c.state = b.state
    BY <1>1 DEF Checkpoints
  <2>2. saved' = [saved EXCEPT ![r] = c] /\ UNCHANGED <<opener, sessions, touched>>
    BY <1>6 DEF E!Answered, E!Commit
  <2> HIDE DEF c
  <2> QED BY <1>1, <1>3, <2>1, <2>2
<1>7. CASE E!DropPort(r)
  <2>1. PICK port \in s.ports \ {"engine"} :
          sessions' = [sessions EXCEPT ![r].ports = @ \ {port}]
    BY <1>7 DEF E!DropPort
  <2> DEFINE z == [s EXCEPT !.ports = s.ports \ {port}]
  <2>2. /\ z \in Sessions /\ z.candidate = s.candidate /\ z.ports = s.ports \ {port}
    BY <1>1 DEF Sessions
  <2>3. OneRun(r, b, y, z, t)
    BY <1>1, <1>7, <2>1 DEF E!DropPort, OneRun
  <2> HIDE DEF z
  <2>4. Sane(b, y, z, t)
    BY <1>1, <1>2, <2>2 DEF Sane, Chosen, HeldSession, BoundFirst, Marked, Traced
  <2>5. \A k \in Candidates : Holds(y, z, k) => Holds(opener[r], sessions[r], k)
    BY <1>1, <1>2, <2>2 DEF Holds
  <2> QED BY <1>1, <2>2, <2>3, <2>4, <2>5, OneRunInv
<1> QED BY <1>4, <1>5, <1>6, <1>7

\* The executor ends by itself, is told to, or is abandoned.
LEMMA EndsInv ==
  ASSUME Configured, EstablishmentInv, NEW r \in Runs, UNCHANGED local,
         E!Finish(r) \/ E!Interrupt(r) \/ E!Abandon(r)
  PROVE  EstablishmentInv'
<1> DEFINE k == opener[r].order[opener[r].next]
<1>1. /\ opener[r].at # "off" /\ saved[r] \in Checkpoints
      /\ saved = [saved EXCEPT ![r] = saved[r]]
      /\ touched = [touched EXCEPT ![r] = touched[r]] /\ touched[r] \in SUBSET Candidates
  BY RunTypes DEF E!Finish, E!Interrupt, E!Abandon, E!At
<1>2. CASE E!Finish(r)
  BY <1>1, <1>2, LeaveInv DEF E!Finish
<1>3. CASE E!Interrupt(r)
  BY <1>1, <1>3, LeaveInv DEF E!Interrupt
<1>4. CASE E!Abandon(r)
  <2>1. PICK t \in SUBSET Candidates :
          /\ touched' = [touched EXCEPT ![r] = t]
          /\ \/ t = touched[r]
             \/ opener[r].at = "opening" /\ ~local /\ t = touched[r] \cup {k}
    <3>1. CASE UNCHANGED touched
      BY <1>1, <3>1
    <3>2. CASE opener[r].at = "opening" /\ ~local /\ E!Touch(r, k)
      <4>1. k \in Candidates
        BY <3>2, RunTypes DEF Sane, Chosen, Openers
      <4> HIDE DEF k
      <4>2. touched[r] \cup {k} \in SUBSET Candidates
        BY <1>1, <4>1
      <4>3. touched' = [touched EXCEPT ![r] = touched[r] \cup {k}]
        BY <3>2 DEF E!Touch
      <4> QED BY <3>2, <4>2, <4>3
    <3> QED BY <1>4, <3>1, <3>2 DEF E!Abandon, E!At
  <2>2. OneRun(r, saved[r], E!Off, E!NoSession, t)
    BY <1>1, <1>4, <2>1 DEF E!Abandon, OneRun
  <2>3. E!Off \in Openers /\ E!NoSession \in Sessions
    BY DEF E!Off, E!NoSession, Openers, Sessions
  <2>4. saved[r].state # "new"
    BY <1>1, RunTypes DEF Sane, Marked
  <2>5. /\ Sane(saved[r], E!Off, E!NoSession, t)
        /\ \A c \in Candidates : ~Holds(E!Off, E!NoSession, c)
    BY <1>1, <2>1, <2>4, EndedIsSane
  <2> QED BY <1>1, <2>2, <2>3, <2>5, OneRunInv
<1> QED BY <1>2, <1>3, <1>4

\* What a run is and has done stays sane, whoever attaches, and no candidate
\* admits more than its limit.
LEMMA EstablishmentIsInvariant == Configured => (Spec => []EstablishmentPart)
<1> SUFFICES ASSUME Configured PROVE Spec => []EstablishmentPart
  OBVIOUS
<1>1. E!Init => EstablishmentInv
  <2> SUFFICES ASSUME E!Init PROVE EstablishmentInv
    OBVIOUS
  <2>1. E!Off \in Openers /\ E!NoSession \in Sessions
    BY DEF E!Off, E!NoSession, Openers, Sessions
  <2>2. EstablishmentShape
    BY <2>1 DEF E!Init, EstablishmentShape, Checkpoints
  <2>3. \A r \in Runs : Sane(saved[r], opener[r], sessions[r], touched[r])
    BY DEF E!Init, E!Off, E!NoSession, Sane, Chosen, HeldSession, BoundFirst, Marked, Traced
  <2>4. Limited
    <3> SUFFICES ASSUME NEW k \in Candidates PROVE Cardinality(E!Admitted(k)) <= SessionLimit
      BY DEF Limited
    <3>1. E!Admitted(k) = {}
      BY DEF E!Init, E!Off, E!NoSession, E!Admitted, E!At, E!PermitHeld
    <3> QED BY <3>1, FS_EmptySet DEF Configured
  <2> QED BY <2>2, <2>3, <2>4 DEF EstablishmentInv
<1>2. ASSUME EstablishmentInv, [E!Next]_<<local, saved, opener, sessions, touched>>
      PROVE  EstablishmentInv'
  <2>1. CASE UNCHANGED <<local, saved, opener, sessions, touched>>
    <3>1. EstablishmentShape'
      BY <1>2, <2>1 DEF EstablishmentInv, EstablishmentShape
    <3>2. \A k : E!Admitted(k)' = E!Admitted(k)
      BY <2>1 DEF E!Admitted, E!At, E!PermitHeld
    <3>3. Limited'
      BY <1>2, <3>2 DEF EstablishmentInv, Limited
    <3>4. \A r \in Runs : Sane(saved[r], opener[r], sessions[r], touched[r])'
      BY <1>2, <2>1 DEF EstablishmentInv, Sane, Chosen, HeldSession, BoundFirst, Marked, Traced
    <3> QED BY <3>1, <3>3, <3>4 DEF EstablishmentInv
  <2>2. CASE E!Next
    BY <1>2, <2>2, AttachInv, PrepareInv, ChoiceInv, OpenedInv, RefusedInv, BindInv, LiveInv,
       EndsInv DEF E!Next, E!Advance, E!Answer
  <2> QED BY <1>2, <2>1, <2>2
<1>3. Init => EstablishmentPart
  BY <1>1 DEF Init, EstablishmentPart
<1>4. EstablishmentPart /\ [Next]_vars => EstablishmentPart'
  BY <1>2, StepOfPart DEF EstablishmentPart
<1> QED BY <1>3, <1>4, PTL DEF Spec

\* Engine, retries and fallback: a run has effects on one candidate only,
\* whatever was tried, lost, abandoned, reordered and attached again.
THEOREM OneCandidate == Configured => (Spec => []BoundCandidate)
<1> SUFFICES ASSUME Configured PROVE Spec => []BoundCandidate
  OBVIOUS
<1>1. EstablishmentInv => E!BoundCandidate
  <2> SUFFICES ASSUME EstablishmentInv, NEW r \in Runs PROVE Cardinality(touched[r]) <= 1
    BY SameCardinality DEF E!BoundCandidate
  <2>1. \A x, y \in touched[r] : x = y
    BY RunTypes DEF Sane, Traced
  <2> QED BY <2>1, AtMostOne
<1>2. EstablishmentPart => BoundCandidate
  BY <1>1 DEF EstablishmentPart, BoundCandidate
<1> QED BY <1>2, EstablishmentIsInvariant, PTL

\* ConcurrencyLimit: a candidate has no more open sessions than it admits; the
\* permit is taken before and given back with the last port.
LEMMA SessionsWithinLimit ==
  ASSUME Configured, EstablishmentInv
  PROVE  E!WithinLimits
<1> SUFFICES ASSUME NEW c \in Candidates
             PROVE  Cardinality({r \in Runs : sessions[r].candidate = c}) <= SessionLimit
  BY SameCardinality DEF E!WithinLimits
<1> DEFINE T == {r \in Runs : sessions[r].candidate = c}
<1>1. T \subseteq E!Admitted(c)
  BY RunTypes DEF Sane, HeldSession, Configured, E!Admitted, E!PermitHeld
<1>2. IsFiniteSet(E!Admitted(c))
  BY FS_Subset DEF E!Admitted, Configured
<1> HIDE DEF T
<1>3. /\ Cardinality(T) \in Nat /\ Cardinality(E!Admitted(c)) \in Nat
      /\ Cardinality(T) <= Cardinality(E!Admitted(c))
  BY <1>1, <1>2, FS_Subset, FS_CardinalityType
<1>4. Cardinality(E!Admitted(c)) <= SessionLimit
  BY DEF EstablishmentInv, Limited
<1>5. Cardinality(T) <= SessionLimit
  BY <1>3, <1>4 DEF Configured
<1> QED BY <1>5 DEF T

-----------------------------------------------------------------------------
\* Requests and their credential

\* None is neither a caller nor a credential; the limit is a number.
Asking ==
    /\ None \notin Callers /\ None \notin Nat
    /\ IsFiniteSet(Callers) /\ Limit \in Nat
    /\ Mixes \subseteq [Callers -> {"exchange", "socket", "signal"}]

InFlight == {"resolving", "refreshing", "sending", "invalidating", "reading", "waiting"}
Futures == [kind : {"exchange", "socket", "signal"}, at : InFlight \cup {"new", "done"},
            now : SUBSET Nat, generation : Nat \cup {None}, attempt : {0, 1}, failed : Nat,
            result : {None, "failed", "rejected", "ok", "uncertain", "interrupted"}]
Locks == [holder : Callers \cup {None}, current : Nat \cup {None}]
Remotes == [newest : Nat, revoked : SUBSET Nat, expired : SUBSET Nat, rejected : SUBSET Nat,
            acted : [Callers -> Nat]]
RequestsShape ==
    /\ caller \in [Callers -> Futures]
    /\ permits \subseteq Callers
    /\ credential \in Locks
    /\ remote \in Remotes

\* A caller that refreshes has the lock, and found nothing usable behind it.
\* One that invalidates was rejected; what it saw expired has expired.
Caused(c, f, held, told) ==
    /\ f.now \subseteq told.expired
    /\ f.at = "refreshing" => /\ held.holder = c
                              /\ held.current = None \/ held.current \in told.expired
    /\ f.at = "invalidating" => f.generation \in told.rejected

\* The current credential is the newest, unless that left with a reason.
Superseded(held, told) ==
    /\ held.current # None => held.current = told.newest
    /\ held.current = None /\ told.newest > 0 => told.newest \in told.rejected \cup told.expired
    /\ \A g \in 1 .. told.newest - 1 : g \in told.rejected \cup told.expired

\* The service has acted for a request once at most, and not before its answer.
ActedOnce(f, n) == n <= 1 /\ (n = 1 => f.at \in {"reading", "done"})

Permitted ==
    /\ Cardinality(permits) <= Limit
    /\ \A c \in Callers : caller[c].kind = "exchange" /\ caller[c].at \in InFlight
                             => c \in permits

RequestsInv ==
    /\ RequestsShape
    /\ \A c \in Callers : /\ Caused(c, caller[c], credential, remote)
                          /\ ActedOnce(caller[c], remote.acted[c])
    /\ Superseded(credential, remote)
    /\ Permitted
RequestsPart == part = "requests" => RequestsInv

\* The instance counts as the library does.
LEMMA SameCount == \A T : Q!Cardinality(T) = Cardinality(T)
BY DEF Q!Cardinality, Cardinality, Q!IsFiniteSet, IsFiniteSet

\* What the parts of the state are.
LEMMA RequestTypes ==
  ASSUME RequestsShape, NEW c \in Callers
  PROVE  /\ caller[c] \in Futures
         /\ credential.holder \in Callers \cup {None} /\ credential.current \in Nat \cup {None}
         /\ remote.newest \in Nat /\ remote.acted[c] \in Nat
         /\ remote.expired \in SUBSET Nat /\ remote.rejected \in SUBSET Nat
         /\ remote.revoked \in SUBSET Nat
BY DEF RequestsShape, Locks, Remotes

\* More reasons than before are reasons.
LEMMA SupersededStays ==
  ASSUME Superseded(credential, remote), credential'.current = credential.current,
         remote'.newest = remote.newest, remote.expired \subseteq remote'.expired,
         remote.rejected \subseteq remote'.rejected
  PROVE  Superseded(credential', remote')
BY DEF Superseded

\* One request moves, the others and what they rely on stay.
LEMMA RequestMoves ==
  ASSUME RequestsInv, NEW c \in Callers, RequestsShape',
         \A d \in Callers \ {c} : /\ caller'[d] = caller[d]
                                  /\ remote'.acted[d] = remote.acted[d]
                                  /\ d \in permits => d \in permits',
         remote.expired \subseteq remote'.expired, remote.rejected \subseteq remote'.rejected,
         credential' = credential \/ \A d \in Callers \ {c} : credential.holder # d,
         Caused(c, caller'[c], credential', remote'),
         ActedOnce(caller'[c], remote'.acted[c]),
         Superseded(credential', remote'),
         Cardinality(permits') <= Limit,
         caller'[c].kind = "exchange" /\ caller'[c].at \in InFlight => c \in permits'
  PROVE  RequestsInv'
<1>1. ASSUME NEW d \in Callers \ {c} PROVE Caused(d, caller'[d], credential', remote')
  BY <1>1 DEF RequestsInv, Caused
<1>2. ASSUME NEW d \in Callers
      PROVE  Caused(d, caller'[d], credential', remote') /\ ActedOnce(caller'[d], remote'.acted[d])
  <2>1. CASE d = c
    BY <2>1
  <2>2. CASE d # c
    BY <1>1, <2>2 DEF RequestsInv, ActedOnce
  <2> QED BY <2>1, <2>2
<1>3. Permitted'
  <2>1. ASSUME NEW d \in Callers, caller'[d].kind = "exchange", caller'[d].at \in InFlight
        PROVE  d \in permits'
    BY <2>1 DEF RequestsInv, Permitted
  <2> QED BY <2>1 DEF Permitted, InFlight
<1> QED BY <1>2, <1>3 DEF RequestsInv

\* The permits given out, less one or not.
LEMMA PermitsReturned ==
  ASSUME Asking, RequestsInv, NEW c \in Callers
  PROVE  Cardinality(permits \ {c}) <= Limit /\ Cardinality(permits) <= Limit
<1>1. IsFiniteSet(permits) /\ Cardinality(permits) <= Limit
  BY FS_Subset DEF Asking, RequestsInv, RequestsShape, Locks, Remotes, Permitted
<1>2. /\ Cardinality(permits) \in Nat /\ Cardinality(permits \ {c}) \in Nat
      /\ Cardinality(permits \ {c}) <= Cardinality(permits)
  BY <1>1, FS_Subset, FS_CardinalityType
<1> QED BY <1>1, <1>2 DEF Asking

\* A request ends: its guards give back the lock and the permit.
LEMMA EndInv ==
  ASSUME Asking, RequestsInv, NEW c \in Callers, NEW result \in
           {"failed", "rejected", "ok", "uncertain", "interrupted"},
         Q!End(c, result), RequestsShape',
         credential' = credential
           \/ (credential.holder = c /\ credential' = [credential EXCEPT !.holder = None]),
         remote'.newest = remote.newest, remote'.expired = remote.expired,
         remote.rejected \subseteq remote'.rejected,
         remote'.acted[c] <= 1, \A d \in Callers \ {c} : remote'.acted[d] = remote.acted[d]
  PROVE  RequestsInv'
<1> DEFINE f == [caller[c] EXCEPT !.at = "done", !.result = result, !.now = {}]
<1>1. /\ caller' = [caller EXCEPT ![c] = f] /\ permits' = permits \ {c}
      /\ caller \in [Callers -> Futures]
  BY DEF Q!End, RequestsInv, RequestsShape, Locks, Remotes
<1>2. caller'[c] = f /\ \A d \in Callers \ {c} : caller'[d] = caller[d]
  BY <1>1
<1>3. f.at = "done" /\ f.now = {}
  BY <1>1, RequestTypes DEF RequestsInv, Futures
<1> HIDE DEF f
<1>4. Caused(c, f, credential', remote') /\ ActedOnce(f, remote'.acted[c])
  BY <1>3 DEF Caused, ActedOnce
<1>5. credential'.current = credential.current
  BY DEF RequestsInv, RequestsShape, Locks, Remotes
<1>6. Superseded(credential', remote')
  BY <1>5, SupersededStays DEF RequestsInv
<1>7. f.at \notin InFlight
  BY <1>3 DEF InFlight
<1>8. Cardinality(permits') <= Limit
  BY <1>1, PermitsReturned
<1> QED BY <1>1, <1>2, <1>4, <1>6, <1>7, <1>8, RequestMoves

\* A future that ended is one.
LEMMA EndShape ==
  ASSUME RequestsShape, NEW c \in Callers, NEW result \in
           {"failed", "rejected", "ok", "uncertain", "interrupted"},
         Q!End(c, result), credential' \in Locks,
         remote' \in Remotes
  PROVE  RequestsShape'
<1> DEFINE f == [caller[c] EXCEPT !.at = "done", !.result = result, !.now = {}]
<1>1. caller' = [caller EXCEPT ![c] = f] /\ permits' = permits \ {c}
  BY DEF Q!End, RequestsShape, Locks, Remotes
<1>2. caller[c] \in Futures
  BY RequestTypes
<1>3. f \in Futures
  BY <1>2 DEF Futures, InFlight
<1> HIDE DEF f
<1> QED BY <1>1, <1>3 DEF RequestsShape, Locks, Remotes

\* Not the lock, not a result: one request goes on.
LEMMA GoesOn ==
  ASSUME Asking, RequestsInv, NEW c \in Callers, NEW f,
         caller' \in [Callers -> Futures], caller'[c] = f, permits' = permits,
         \A d \in Callers \ {c} : caller'[d] = caller[d],
         f.kind = caller[c].kind, caller[c].at \in InFlight,
         f.now \subseteq remote.expired,
         f.at = "refreshing" =>
           /\ credential'.holder = c
           /\ credential.current = None \/ credential.current \in remote.expired,
         f.at = "invalidating" => f.generation \in remote'.rejected,
         credential' \in Locks, credential'.current = credential.current,
         credential' = credential \/ credential.holder = None,
         remote' \in Remotes, remote'.newest = remote.newest, remote'.expired = remote.expired,
         remote.rejected \subseteq remote'.rejected,
         \A d \in Callers \ {c} : remote'.acted[d] = remote.acted[d],
         remote'.acted[c] <= 1, remote'.acted[c] = 1 => f.at = "reading"
  PROVE  RequestsInv'
<1>1. RequestsShape'
  BY DEF RequestsInv, RequestsShape
<1>2. Caused(c, f, credential', remote') /\ ActedOnce(f, remote'.acted[c])
  BY DEF Caused, ActedOnce
<1>3. Superseded(credential', remote')
  BY SupersededStays DEF RequestsInv
<1>4. credential' = credential \/ \A d \in Callers \ {c} : credential.holder # d
  BY DEF Asking
<1>5. f.kind = "exchange" => c \in permits'
  BY DEF RequestsInv, Permitted
<1> QED BY <1>1, <1>2, <1>3, <1>4, <1>5, PermitsReturned, RequestMoves

\* The same, before anything is served and with nothing learnt.
LEMMA GoesOnUnserved ==
  ASSUME Asking, RequestsInv, NEW c \in Callers, NEW f \in Futures,
         caller' = [caller EXCEPT ![c] = f], permits' = permits,
         f.kind = caller[c].kind, caller[c].at \in InFlight \ {"reading"},
         f.now \subseteq remote.expired, f.at # "invalidating",
         f.at = "refreshing" =>
           /\ credential'.holder = c
           /\ credential.current = None \/ credential.current \in remote.expired,
         credential' = credential
           \/ (credential.holder = None /\ credential' = [credential EXCEPT !.holder = c]),
         remote' = remote
  PROVE  RequestsInv'
<1>1. RequestsShape /\ ActedOnce(caller[c], remote.acted[c]) /\ remote.acted[c] \in Nat
  BY RequestTypes DEF RequestsInv
<1>2. remote.acted[c] = 0
  BY <1>1 DEF ActedOnce, InFlight
<1>3. /\ caller' \in [Callers -> Futures] /\ caller'[c] = f
      /\ \A d \in Callers \ {c} : caller'[d] = caller[d]
  BY <1>1 DEF RequestsShape
<1>4. /\ credential' \in Locks /\ credential'.current = credential.current
      /\ credential' = credential \/ credential.holder = None
  BY <1>1 DEF RequestsShape, Locks
<1>5. /\ remote' \in Remotes /\ remote'.newest = remote.newest /\ remote'.expired = remote.expired
      /\ remote'.acted = remote.acted /\ remote'.rejected = remote.rejected
  BY <1>1 DEF RequestsShape
<1> QED BY <1>2, <1>3, <1>4, <1>5, GoesOn

\* A request begins or asks the provider, and uses what is current or refreshes.
LEMMA ResolveInv ==
  ASSUME Asking, RequestsInv, NEW c \in Callers,
         Q!Begin(c) \/ Q!UseCurrent(c) \/ Q!StartRefresh(c) \/ Q!Wake(c)
  PROVE  RequestsInv'
<1>1. /\ RequestsShape /\ caller \in [Callers -> Futures] /\ caller[c] \in Futures
      /\ remote.expired \in SUBSET Nat /\ Caused(c, caller[c], credential, remote)
  BY RequestTypes DEF RequestsInv, RequestsShape, Locks, Remotes
<1>2. CASE Q!Begin(c)
  <2> DEFINE f == [caller[c] EXCEPT !.at = "resolving", !.now = remote.expired, !.attempt = 0]
  <2>1. caller[c].at = "new" /\ caller' = [caller EXCEPT ![c] = f]
        /\ UNCHANGED <<credential, remote>>
    BY <1>1, <1>2 DEF Q!Begin, Q!At, Q!Resolving
  <2>2. f \in Futures /\ f.kind = caller[c].kind /\ f.now = remote.expired /\ f.at = "resolving"
    BY <1>1 DEF Futures, InFlight
  <2> HIDE DEF f
  <2>3. \/ permits' = permits \cup {c} /\ Cardinality(permits) < Limit
        \/ caller[c].kind # "exchange" /\ permits' = permits
    BY <1>2, SameCount, Zenon DEF Q!Begin
  <2>4. caller'[c] = f /\ \A d \in Callers \ {c} : caller'[d] = caller[d]
    BY <1>1, <2>1
  <2>5. RequestsShape'
    BY <1>1, <2>1, <2>2, <2>3 DEF RequestsShape, Locks, Remotes
  <2>6. Cardinality(permits') <= Limit
    <3>1. IsFiniteSet(permits) /\ Cardinality(permits) \in Nat
      BY <1>1, FS_Subset, FS_CardinalityType DEF Asking, RequestsShape, Locks, Remotes
    <3>2. Cardinality(permits \cup {c}) \in {Cardinality(permits), Cardinality(permits) + 1}
      BY <3>1, FS_AddElement
    <3>3. Limit \in Nat /\ Cardinality(permits) <= Limit
      BY PermitsReturned DEF Asking
    <3>4. CASE permits' = permits
      BY <3>3, <3>4
    <3>5. CASE permits' = permits \cup {c} /\ Cardinality(permits) < Limit
      <4>1. Cardinality(permits \cup {c}) <= Limit
        BY <3>1, <3>2, <3>3, <3>5
      <4> QED BY <3>5, <4>1
    <3> QED BY <2>3, <3>4, <3>5
  <2>7. Caused(c, f, credential', remote') /\ ActedOnce(f, remote'.acted[c])
    BY <1>1, <2>1, <2>2, RequestTypes DEF Caused, ActedOnce, RequestsInv
  <2>8. Superseded(credential', remote')
    BY <2>1 DEF RequestsInv
  <2> QED BY <2>1, <2>2, <2>3, <2>4, <2>5, <2>6, <2>7, <2>8, RequestMoves
<1>3. CASE Q!UseCurrent(c)
  <2> DEFINE f == [caller[c] EXCEPT !.at = "sending", !.generation = credential.current,
                                    !.now = {}]
  <2>1. /\ caller[c].at = "resolving" /\ caller' = [caller EXCEPT ![c] = f]
        /\ permits' = permits /\ credential' = credential /\ remote' = remote
    BY <1>1, <1>3 DEF Q!UseCurrent, Q!At
  <2>2. f \in Futures /\ f.kind = caller[c].kind /\ f.now = {} /\ f.at = "sending"
    BY <1>1, RequestTypes DEF Futures, InFlight
  <2> HIDE DEF f
  <2> QED BY <2>1, <2>2, GoesOnUnserved DEF InFlight
<1>4. CASE Q!StartRefresh(c)
  <2> DEFINE f == [caller[c] EXCEPT !.at = "refreshing"]
  <2>1. /\ caller[c].at = "resolving" /\ caller' = [caller EXCEPT ![c] = f]
        /\ permits' = permits /\ credential' = [credential EXCEPT !.holder = c]
        /\ remote' = remote /\ credential.holder = None
        /\ credential.current = None \/ credential.current \in caller[c].now
    BY <1>1, <1>4 DEF Q!StartRefresh, Q!At, Q!Move, Q!MayEnter, Q!Usable
  <2>2. /\ f \in Futures /\ f.kind = caller[c].kind /\ f.now = caller[c].now
        /\ f.at = "refreshing"
    BY <1>1 DEF Futures, InFlight
  <2>3. credential'.holder = c /\ caller[c].now \subseteq remote.expired
    BY <1>1, <2>1 DEF RequestsShape, Locks, Remotes, Caused
  <2> HIDE DEF f
  <2> QED BY <2>1, <2>2, <2>3, GoesOnUnserved DEF InFlight
<1>5. CASE Q!Wake(c)
  <2> DEFINE f == [caller[c] EXCEPT !.at = "resolving", !.now = remote.expired, !.attempt = 0]
  <2>1. /\ caller[c].at = "waiting" /\ caller' = [caller EXCEPT ![c] = f]
        /\ permits' = permits /\ credential' = credential /\ remote' = remote
    BY <1>1, <1>5 DEF Q!Wake, Q!At, Q!Resolving
  <2>2. f \in Futures /\ f.kind = caller[c].kind /\ f.now = remote.expired /\ f.at = "resolving"
    BY <1>1 DEF Futures, InFlight
  <2> HIDE DEF f
  <2> QED BY <2>1, <2>2, GoesOnUnserved DEF InFlight
<1> QED BY <1>2, <1>3, <1>4, <1>5

\* A new credential replaces one that was rejected or has expired.
LEMMA RefreshedInv ==
  ASSUME Asking, RequestsInv, NEW c \in Callers, Q!Refreshed(c)
  PROVE  RequestsInv'
<1> DEFINE n == remote.newest + 1
           f == [caller[c] EXCEPT !.at = "sending", !.generation = n, !.now = {}]
<1>1. /\ RequestsShape /\ caller \in [Callers -> Futures] /\ caller[c] \in Futures
      /\ remote.newest \in Nat /\ Caused(c, caller[c], credential, remote)
      /\ Superseded(credential, remote)
  BY RequestTypes DEF RequestsInv, RequestsShape, Locks, Remotes
<1>2. /\ caller[c].at = "refreshing" /\ remote' = [remote EXCEPT !.newest = n]
      /\ credential' = [holder |-> None, current |-> n]
      /\ caller' = [caller EXCEPT ![c] = f] /\ permits' = permits
  BY <1>1 DEF Q!Refreshed, Q!At
<1>3. n \in Nat /\ n = remote.newest + 1
  BY <1>1
<1>4. f \in Futures /\ f.kind = caller[c].kind /\ f.now = {} /\ f.at = "sending"
  BY <1>1, <1>3 DEF Futures, InFlight
<1> HIDE DEF f, n
<1>5. caller'[c] = f /\ \A d \in Callers \ {c} : caller'[d] = caller[d]
  BY <1>1, <1>2
<1>6. /\ remote'.newest = n /\ remote'.acted = remote.acted /\ remote'.expired = remote.expired
      /\ remote'.rejected = remote.rejected
  BY <1>1, <1>2 DEF RequestsShape, Locks, Remotes
<1>7. RequestsShape'
  <2>1. credential' \in Locks
    BY <1>2, <1>3 DEF Locks
  <2>2. caller' \in [Callers -> Futures]
    BY <1>1, <1>2, <1>4
  <2> QED BY <1>1, <1>2, <1>3, <2>1, <2>2 DEF RequestsShape, Locks, Remotes
<1>8. credential.holder = c /\ (credential.current = None \/ credential.current \in remote.expired)
  BY <1>1, <1>2 DEF Caused
<1>9. remote.newest > 0 => remote.newest \in remote.rejected \cup remote.expired
  BY <1>1, <1>8 DEF Superseded
<1>10. Superseded(credential', remote')
  <2>1. ASSUME NEW g \in 1 .. n - 1 PROVE g \in remote.rejected \cup remote.expired
    BY <1>1, <1>3, <1>9 DEF Superseded
  <2> QED BY <1>2, <1>3, <1>6, <2>1 DEF Superseded, Asking
<1>11. ActedOnce(caller[c], remote.acted[c]) /\ remote.acted[c] \in Nat
  BY <1>1, RequestTypes DEF RequestsInv
<1>12. Caused(c, f, credential', remote') /\ ActedOnce(f, remote'.acted[c])
  BY <1>2, <1>4, <1>6, <1>11 DEF Caused, ActedOnce
<1>13. f.kind = "exchange" => c \in permits'
  BY <1>2, <1>4 DEF RequestsInv, Permitted, InFlight
<1> QED BY <1>2, <1>5, <1>6, <1>7, <1>8, <1>10, <1>12, <1>13, PermitsReturned, RequestMoves

\* The rejected credential leaves, a newer one stays.
LEMMA InvalidateInv ==
  ASSUME Asking, RequestsInv, NEW c \in Callers, Q!Invalidate(c)
  PROVE  RequestsInv'
<1> DEFINE g == caller[c].generation
           current == IF credential.current = g THEN None ELSE credential.current
           f == [caller[c] EXCEPT !.at = "resolving", !.now = remote.expired, !.attempt = 1]
<1>1. /\ RequestsShape /\ caller \in [Callers -> Futures] /\ caller[c] \in Futures
      /\ remote.newest \in Nat /\ Caused(c, caller[c], credential, remote)
      /\ Superseded(credential, remote) /\ remote.expired \in SUBSET Nat
      /\ credential.current \in Nat \cup {None}
  BY RequestTypes DEF RequestsInv, RequestsShape, Locks, Remotes
<1>2. /\ caller[c].at = "invalidating" /\ credential.holder = None
      /\ credential' = [credential EXCEPT !.current = current]
      /\ caller' = [caller EXCEPT ![c] = f] /\ permits' = permits /\ remote' = remote
  BY <1>1 DEF Q!Invalidate, Q!At, Q!MayEnter, Q!Resolving, Q!WithoutGeneration
<1>3. f \in Futures /\ f.kind = caller[c].kind /\ f.now = remote.expired /\ f.at = "resolving"
  BY <1>1 DEF Futures, InFlight
<1>4. /\ current \in Nat \cup {None} /\ g \in remote.rejected
      /\ current # credential.current => current = None /\ credential.current \in remote.rejected
  BY <1>1, <1>2 DEF Caused
<1> HIDE DEF f, current, g
<1>5. caller'[c] = f /\ \A d \in Callers \ {c} : caller'[d] = caller[d]
  BY <1>1, <1>2
<1>6. credential'.current = current
  BY <1>1, <1>2 DEF RequestsShape, Locks, Remotes
<1>7. RequestsShape'
  <2>1. credential' \in Locks
    BY <1>1, <1>2, <1>4 DEF RequestsShape, Locks, Remotes
  <2>2. caller' \in [Callers -> Futures]
    BY <1>1, <1>2, <1>3
  <2> QED BY <1>1, <1>2, <2>1, <2>2 DEF RequestsShape, Locks, Remotes
<1>8. Superseded(credential', remote')
  <2>1. CASE current = credential.current
    BY <1>1, <1>2, <1>6, <2>1 DEF Superseded
  <2>2. CASE current # credential.current
    <3>1. remote.rejected \in SUBSET Nat
      BY <1>1, RequestTypes
    <3>2. credential.current = remote.newest /\ current = None
      BY <1>1, <1>4, <2>2, <3>1 DEF Superseded, Asking
    <3> QED BY <1>1, <1>2, <1>4, <1>6, <2>2, <3>2 DEF Superseded
  <2> QED BY <2>1, <2>2
<1>9. ActedOnce(caller[c], remote.acted[c]) /\ remote.acted[c] \in Nat
  BY <1>1, RequestTypes DEF RequestsInv
<1>10. Caused(c, f, credential', remote') /\ ActedOnce(f, remote'.acted[c])
  BY <1>2, <1>3, <1>9 DEF Caused, ActedOnce
<1>11. f.kind = "exchange" => c \in permits'
  BY <1>2, <1>3 DEF RequestsInv, Permitted, InFlight
<1>12. \A d \in Callers \ {c} : credential.holder # d
  BY <1>2 DEF Asking
<1> QED BY <1>2, <1>5, <1>7, <1>8, <1>10, <1>11, <1>12, PermitsReturned, RequestMoves

\* The service answers, or the connection is lost.
LEMMA AnswerInv ==
  ASSUME Asking, RequestsInv, NEW c \in Callers, Q!Answer(c)
  PROVE  RequestsInv'
<1>1. /\ RequestsShape /\ caller \in [Callers -> Futures] /\ caller[c] \in Futures
      /\ Caused(c, caller[c], credential, remote) /\ caller[c].at = "sending"
      /\ remote.acted \in [Callers -> Nat] /\ remote.acted[c] = 0
  <2>1. caller[c].at = "sending"
    BY DEF Q!Answer, Q!Served, Q!Unauthorized, Q!Refused, Q!Busy, Q!Lost, Q!At
  <2>2. ActedOnce(caller[c], remote.acted[c]) /\ remote.acted[c] \in Nat
    BY RequestTypes DEF RequestsInv
  <2> QED BY <2>1, <2>2, RequestTypes DEF RequestsInv, RequestsShape, Locks, Remotes, ActedOnce
<1>2. CASE remote' = remote /\ credential' = credential
           /\ \E result \in {"rejected", "failed", "uncertain"} : Q!End(c, result)
  <2>1. PICK result \in {"rejected", "failed", "uncertain"} : Q!End(c, result)
    BY <1>2
  <2>2. RequestsShape'
    BY <1>1, <1>2, <2>1, EndShape DEF RequestsShape, Locks, Remotes
  <2> QED BY <1>1, <1>2, <2>1, <2>2, EndInv
<1>3. CASE Q!Served(c) \/ (Q!Lost(c) /\ remote' # remote)
  <2> DEFINE acted == [remote.acted EXCEPT ![c] = @ + 1]
  <2>1. remote' = [remote EXCEPT !.acted = acted] /\ credential' = credential
    BY <1>3 DEF Q!Served, Q!Lost
  <2>2. acted \in [Callers -> Nat] /\ acted[c] = 1
        /\ \A d \in Callers \ {c} : acted[d] = remote.acted[d]
    BY <1>1
  <2> HIDE DEF acted
  <2>3. /\ remote' \in Remotes
        /\ remote'.newest = remote.newest /\ remote'.expired = remote.expired
        /\ remote'.rejected = remote.rejected /\ remote'.acted = acted
    BY <1>1, <2>1, <2>2 DEF RequestsShape, Locks, Remotes
  <2>4. CASE Q!Served(c) /\ caller[c].kind # "socket"
    <3> DEFINE f == [caller[c] EXCEPT !.at = "reading"]
    <3>1. caller' = [caller EXCEPT ![c] = f] /\ permits' = permits
      BY <1>1, <2>4 DEF Q!Served, Q!Move
    <3>2. /\ f \in Futures /\ f.kind = caller[c].kind /\ f.now = caller[c].now
          /\ f.at = "reading"
      BY <1>1 DEF Futures, InFlight
    <3> HIDE DEF f
    <3>3. /\ caller' \in [Callers -> Futures] /\ caller'[c] = f
          /\ \A d \in Callers \ {c} : caller'[d] = caller[d]
      BY <1>1, <3>1, <3>2
    <3>4. credential' \in Locks /\ caller[c].at \in InFlight /\ f.now \subseteq remote.expired
      BY <1>1, <2>1, <3>2 DEF RequestsShape, InFlight, Caused
    <3> QED BY <2>1, <2>2, <2>3, <3>1, <3>2, <3>3, <3>4, GoesOn
  <2>5. ASSUME NEW result \in {"ok", "failed", "uncertain"}, Q!End(c, result)
        PROVE  RequestsInv'
    <3>1. RequestsShape'
      BY <1>1, <2>1, <2>3, <2>5, EndShape DEF RequestsShape, Locks, Remotes
    <3> QED BY <2>1, <2>2, <2>3, <2>5, <3>1, EndInv
  <2>6. Q!Served(c) /\ caller[c].kind = "socket" => Q!End(c, "ok")
    BY DEF Q!Served
  <2>7. Q!Lost(c) => Q!End(c, "failed") \/ Q!End(c, "uncertain")
    BY DEF Q!Lost, Q!OnLost
  <2> QED BY <1>3, <2>4, <2>5, <2>6, <2>7
<1>4. CASE Q!Unauthorized(c)
  <2> DEFINE g == caller[c].generation
             f == [caller[c] EXCEPT !.at = "invalidating"]
  <2>1. /\ g \in remote.revoked \cup remote.expired /\ credential' = credential
        /\ remote' = [remote EXCEPT !.rejected = @ \cup {g}]
    BY <1>4 DEF Q!Unauthorized
  <2>2. g \in Nat
    BY <1>1, <2>1 DEF RequestsShape, Locks, Remotes
  <2>3. CASE caller[c].attempt = 0
    <3>1. caller' = [caller EXCEPT ![c] = f] /\ permits' = permits
      BY <1>1, <1>4, <2>3 DEF Q!Unauthorized, Q!Move
    <3>2. /\ f \in Futures /\ f.kind = caller[c].kind /\ f.now = caller[c].now
          /\ f.at = "invalidating" /\ f.generation = g
      BY <1>1 DEF Futures, InFlight
    <3>3. g \in remote'.rejected
      BY <1>1, <2>1 DEF RequestsShape, Locks, Remotes
    <3>4. caller[c].now \subseteq remote.expired
      BY <1>1 DEF Caused
    <3> HIDE DEF f, g
    <3>5. /\ remote' \in Remotes /\ remote'.newest = remote.newest
          /\ remote'.expired = remote.expired /\ remote.rejected \subseteq remote'.rejected
          /\ remote'.acted = remote.acted
      BY <1>1, <2>1, <2>2 DEF RequestsShape, Remotes
    <3>6. /\ caller' \in [Callers -> Futures] /\ caller'[c] = f
          /\ \A d \in Callers \ {c} : caller'[d] = caller[d]
      BY <1>1, <3>1, <3>2
    <3>7. credential' \in Locks /\ caller[c].at \in InFlight
      BY <1>1, <2>1 DEF RequestsShape, InFlight
    <3> QED BY <1>1, <2>1, <3>1, <3>2, <3>3, <3>4, <3>5, <3>6, <3>7, GoesOn
  <2>4. CASE caller[c].attempt # 0
    <3>1. Q!End(c, "rejected")
      BY <1>4, <2>4 DEF Q!Unauthorized
    <3> HIDE DEF g
    <3>2. /\ remote' \in Remotes
          /\ remote'.newest = remote.newest /\ remote'.expired = remote.expired
          /\ remote.rejected \subseteq remote'.rejected /\ remote'.acted = remote.acted
      BY <1>1, <2>1, <2>2 DEF RequestsShape, Locks, Remotes
    <3>3. RequestsShape'
      BY <1>1, <2>1, <3>1, <3>2, EndShape DEF RequestsShape, Locks, Remotes
    <3> QED BY <1>1, <2>1, <3>1, <3>2, <3>3, EndInv
  <2> QED BY <2>3, <2>4
<1>5. CASE Q!Busy(c) /\ Q!Backoff(c)
  <2> DEFINE f == [caller[c] EXCEPT !.at = "waiting", !.failed = @ + 1]
  <2>1. /\ caller' = [caller EXCEPT ![c] = f] /\ permits' = permits
        /\ credential' = credential /\ remote' = remote
    BY <1>1, <1>5 DEF Q!Busy, Q!Backoff
  <2>2. f \in Futures /\ f.kind = caller[c].kind /\ f.now = caller[c].now /\ f.at = "waiting"
    <3>1. caller[c].failed + 1 \in Nat
      BY <1>1 DEF Futures
    <3> QED BY <1>1, <3>1 DEF Futures, InFlight
  <2> HIDE DEF f
  <2> QED BY <1>1, <2>1, <2>2, GoesOnUnserved DEF InFlight, Caused
<1>6. \/ remote' = remote /\ credential' = credential
           /\ \E result \in {"rejected", "failed", "uncertain"} : Q!End(c, result)
      \/ Q!Served(c) \/ (Q!Lost(c) /\ remote' # remote) \/ Q!Unauthorized(c)
      \/ Q!Busy(c) /\ Q!Backoff(c)
  BY Zenon DEF Q!Answer, Q!Refused, Q!Busy, Q!Lost, Q!OnLost
<1> QED BY <1>2, <1>3, <1>4, <1>5, <1>6

\* The callback fails, a body ends, or a future is dropped.
LEMMA DroppedInv ==
  ASSUME Asking, RequestsInv, NEW c \in Callers,
         Q!RefreshFails(c) \/ Q!Read(c) \/ Q!Interrupt(c)
  PROVE  RequestsInv'
<1>1. /\ RequestsShape /\ caller[c] \in Futures /\ Caused(c, caller[c], credential, remote)
      /\ credential.holder \in Callers \cup {None}
      /\ remote.acted \in [Callers -> Nat] /\ remote.acted[c] \in Nat
      /\ remote.acted[c] <= 1 /\ (remote.acted[c] = 1 => caller[c].at \in {"reading", "done"})
  BY RequestTypes DEF RequestsInv, RequestsShape, Locks, Remotes, ActedOnce
<1>2. \E result \in {"failed", "ok", "uncertain", "interrupted"} : Q!End(c, result)
  BY Zenon DEF Q!RefreshFails, Q!Read, Q!Interrupt
<1>3. PICK result \in {"failed", "ok", "uncertain", "interrupted"} : Q!End(c, result)
  BY <1>2
<1>4. \/ credential' = credential
      \/ credential.holder = c /\ credential' = [credential EXCEPT !.holder = None]
  <2>1. CASE Q!RefreshFails(c)
    BY <1>1, <2>1 DEF Q!RefreshFails, Q!At, Caused
  <2>2. CASE Q!Read(c)
    BY <2>2 DEF Q!Read
  <2>3. CASE Q!Interrupt(c)
    BY <1>1, <2>3 DEF Q!Interrupt, Q!Released, RequestsShape, Locks, Remotes
  <2> QED BY <2>1, <2>2, <2>3
<1>5. remote' = remote
      \/ (caller[c].at = "sending" /\ remote' = [remote EXCEPT !.acted[c] = @ + 1])
  BY DEF Q!RefreshFails, Q!Read, Q!Interrupt, Q!At
<1>6. /\ remote' \in Remotes
      /\ remote'.newest = remote.newest /\ remote'.expired = remote.expired
      /\ remote'.rejected = remote.rejected /\ remote'.acted[c] <= 1
      /\ \A d \in Callers \ {c} : remote'.acted[d] = remote.acted[d]
  <2>1. CASE remote' = remote
    BY <1>1, <2>1 DEF RequestsShape, Locks, Remotes
  <2>2. CASE caller[c].at = "sending" /\ remote' = [remote EXCEPT !.acted[c] = @ + 1]
    <3> DEFINE acted == [remote.acted EXCEPT ![c] = @ + 1]
    <3>1. remote.acted[c] = 0
      BY <1>1, <2>2
    <3>2. acted \in [Callers -> Nat] /\ acted[c] = 1
          /\ \A d \in Callers \ {c} : acted[d] = remote.acted[d]
      BY <1>1, <3>1
    <3>3. remote' = [remote EXCEPT !.acted = acted]
      BY <2>2
    <3> HIDE DEF acted
    <3> QED BY <1>1, <3>2, <3>3 DEF RequestsShape, Locks, Remotes
  <2> QED BY <1>5, <2>1, <2>2
<1>7. credential' \in Locks
  BY <1>1, <1>4 DEF RequestsShape, Locks, Remotes
<1>8. RequestsShape'
  BY <1>1, <1>3, <1>6, <1>7, EndShape
<1> QED BY <1>3, <1>4, <1>6, <1>8, EndInv

\* The service revokes credentials, or their time is over.
LEMMA ServiceInv ==
  ASSUME Asking, RequestsInv, Q!Revoke \/ Q!Expire
  PROVE  RequestsInv'
<1>1. /\ RequestsShape /\ caller' = caller /\ permits' = permits /\ credential' = credential
      /\ remote.newest \in Nat
  BY DEF Q!Revoke, Q!Expire, RequestsInv, RequestsShape, Locks, Remotes
<1>2. PICK g \in 1 .. remote.newest :
         \/ remote' = [remote EXCEPT !.revoked = @ \cup {g}]
         \/ remote' = [remote EXCEPT !.expired = @ \cup {g}]
  BY DEF Q!Revoke, Q!Expire
<1>3. g \in Nat
  BY <1>1, <1>2
<1>4. /\ RequestsShape' /\ remote'.newest = remote.newest /\ remote'.acted = remote.acted
      /\ remote.expired \subseteq remote'.expired /\ remote.rejected \subseteq remote'.rejected
  BY <1>1, <1>2, <1>3 DEF RequestsShape, Locks, Remotes
<1>5. \A c \in Callers : /\ Caused(c, caller[c], credential, remote')
                         /\ ActedOnce(caller[c], remote'.acted[c])
  BY <1>4 DEF RequestsInv, Caused
<1>6. Superseded(credential', remote')
  BY <1>1, <1>4, SupersededStays DEF RequestsInv
<1> QED BY <1>1, <1>4, <1>5, <1>6 DEF RequestsInv, Permitted

\* The invariant of the requests, their credential and their permits.
LEMMA RequestsIsInvariant == Asking => (Spec => []RequestsPart)
<1> SUFFICES ASSUME Asking PROVE Spec => []RequestsPart
  OBVIOUS
<1>1. ASSUME Q!Init PROVE RequestsInv
  <2>1. PICK kinds \in Mixes : caller = [c \in Callers |-> Q!New(kinds[c])]
    BY <1>1 DEF Q!Init
  <2>2. /\ permits = {} /\ credential = [holder |-> None, current |-> None]
        /\ remote = [newest |-> 0, revoked |-> {}, expired |-> {}, rejected |-> {},
                     acted |-> [c \in Callers |-> 0]]
    BY <1>1 DEF Q!Init
  <2>3. \A c \in Callers : caller[c] \in Futures /\ caller[c].at = "new" /\ caller[c].now = {}
    BY <2>1 DEF Q!New, Asking, Futures, InFlight
  <2>4. RequestsShape
    <3>1. caller \in [Callers -> Futures]
      BY <2>1, <2>3
    <3> QED BY <2>2, <3>1 DEF RequestsShape, Locks, Remotes
  <2>5. \A c \in Callers : /\ Caused(c, caller[c], credential, remote)
                           /\ ActedOnce(caller[c], remote.acted[c])
    BY <2>2, <2>3 DEF Caused, ActedOnce
  <2>6. Superseded(credential, remote)
    BY <2>2 DEF Superseded
  <2>7. Permitted
    BY <2>2, <2>3, FS_EmptySet DEF Permitted, Asking, InFlight
  <2> QED BY <2>4, <2>5, <2>6, <2>7 DEF RequestsInv
<1>2. ASSUME RequestsInv, [Q!Next]_<<caller, permits, credential, remote>> PROVE RequestsInv'
  <2>1. CASE UNCHANGED <<caller, permits, credential, remote>>
    BY <1>2, <2>1 DEF RequestsInv, RequestsShape, Locks, Remotes, Permitted
  <2>2. CASE Q!Next
    BY <1>2, <2>2, ResolveInv, RefreshedInv, InvalidateInv, AnswerInv, DroppedInv, ServiceInv
       DEF Q!Next, Q!Step, Q!Refresh
  <2> QED BY <1>2, <2>1, <2>2
<1>3. Init => RequestsPart
  BY <1>1 DEF Init, RequestsPart
<1>4. RequestsPart /\ [Next]_vars => RequestsPart'
  BY <1>2, StepOfPart DEF RequestsPart
<1> QED BY <1>3, <1>4, PTL DEF Spec

\* RefreshingCredential: a credential is replaced only when the service
\* rejected it or it has expired, however many callers find that out together
\* or report it late.
THEOREM RefreshedForCause == Asking => (Spec => []RefreshedWithCause)
<1> SUFFICES ASSUME Asking PROVE Spec => []RefreshedWithCause
  OBVIOUS
<1>1. RequestsInv => Q!RefreshedWithCause
  BY DEF RequestsInv, Superseded, Q!RefreshedWithCause
<1>2. RequestsPart => RefreshedWithCause
  BY <1>1 DEF RequestsPart, RefreshedWithCause
<1> QED BY <1>2, RequestsIsInvariant, PTL

\* HTTP exchanges: the service acts at most once for a request, whatever is
\* retried, repeated after a 401, lost or interrupted.
THEOREM ActedOnceForEach == Asking => (Spec => []NeverReplayed)
<1> SUFFICES ASSUME Asking PROVE Spec => []NeverReplayed
  OBVIOUS
<1>1. RequestsInv => Q!NeverReplayed
  BY DEF RequestsInv, ActedOnce, Q!NeverReplayed
<1>2. RequestsPart => NeverReplayed
  BY <1>1 DEF RequestsPart, NeverReplayed
<1> QED BY <1>2, RequestsIsInvariant, PTL

\* ConcurrencyLimit: exchanges hold their permit through retries and until
\* their body is read, so no more than the limit are under way.
LEMMA RequestsWithinLimit ==
  ASSUME Asking, RequestsInv
  PROVE  Q!WithinLimits
<1> DEFINE T == {c \in Callers : /\ caller[c].kind = "exchange"
                                 /\ caller[c].at \notin {"new", "done"}}
<1> SUFFICES Cardinality(T) <= Limit
  BY SameCount DEF Q!WithinLimits
<1>1. T \subseteq permits
  BY RequestTypes DEF RequestsInv, Permitted, Futures
<1>2. IsFiniteSet(permits) /\ Cardinality(permits) <= Limit
  BY FS_Subset DEF Asking, RequestsInv, RequestsShape, Locks, Remotes, Permitted
<1> HIDE DEF T
<1>3. /\ Cardinality(T) \in Nat /\ Cardinality(permits) \in Nat
      /\ Cardinality(T) <= Cardinality(permits)
  BY <1>1, <1>2, FS_Subset, FS_CardinalityType
<1> QED BY <1>2, <1>3 DEF Asking

\* ConcurrencyLimit: no more sessions are open at a candidate than it admits,
\* and no more exchanges are under way than the request limit allows.
THEOREM LimitsAreKept == Configured /\ Asking => (Spec => []WithinLimits)
<1> SUFFICES ASSUME Configured, Asking PROVE Spec => []WithinLimits
  OBVIOUS
<1>1. EstablishmentPart /\ RequestsPart => WithinLimits
  BY SessionsWithinLimit, RequestsWithinLimit DEF EstablishmentPart, RequestsPart, WithinLimits
<1> QED BY <1>1, EstablishmentIsInvariant, RequestsIsInvariant, PTL

-----------------------------------------------------------------------------
\* A child agent and its parent

Outcomes == {"completed", "failed", "cancelled"}
\* None is no outcome.
Absent == None \notin Outcomes

Committed == {"none", "active", "suspended"} \cup Outcomes
Reported == {"Running", "Waiting", "Unknown"} \cup Outcomes
Ongoing == {"running", "pausing"}
Waits == {"waiting", "resuming"}
Parents ==
    [state : {"Queued", "Running", "Waiting", "Cancelling", "Unknown", "Finished"},
     outcome : Outcomes \cup {None, "rejected"}, worker : A!Workers \cup {None},
     seen : [state : Committed \cup {"start"}, revision : Nat] \cup {None},
     attached : BOOLEAN, replying : BOOLEAN, replies : Nat]
Children == [state : Committed, revision : Nat, ends : Nat]
Helpers ==
    [at : {"unused", "ended"} \cup Ongoing \cup Waits, open : BOOLEAN, events : Seq(Reported),
     commands : Seq({"reply", "cancel"}), run : {"none", "attaching", "live", "ended"},
     revision : Nat, cancelled : BOOLEAN,
     result : Outcomes \cup {None, "suspended", "error"}]
AgentShape ==
    /\ parent \in Parents /\ child \in Children
    /\ workers \in [A!Workers -> Helpers]
    /\ child.state \in Outcomes => child.revision > 0

\* What a parent that starts its child relies on: there is none yet.
Unstarted == child.state = "none" /\ \A w \in A!Workers : workers[w] = A!NoWorker

\* The parent has a worker, or something to begin with, or neither; a
\* finished operation and one without an executor have neither.
Holding ==
    /\ parent.seen # None => parent.worker = None
    /\ ~parent.attached \/ parent.state \in {"Queued", "Finished"}
          => parent.seen = None /\ parent.worker = None
    /\ parent.state = "Queued" => Unstarted
    /\ parent.state = "Finished" => parent.outcome \in Outcomes \cup {"rejected"}
    /\ parent.state = "Finished" /\ parent.outcome = "rejected" => Unstarted

\* What the parent has read of the child's head is old, or is the head.
SeenIsCommitted ==
    parent.seen # None =>
      /\ parent.seen.state = "start" => Unstarted
      /\ parent.seen.state # "start" =>
            /\ parent.seen.revision <= child.revision
            /\ parent.seen.revision = child.revision => parent.seen.state = child.state
            /\ parent.seen.state \in Outcomes => child.state = parent.seen.state

\* A worker reports what its child has committed, and commits from where the
\* child was when it was attached: behind an end, nobody can.
Truthful(w, d) ==
    /\ w.revision <= d.revision
    /\ \A i \in DOMAIN w.events : w.events[i] \in Outcomes => w.events[i] = d.state
    /\ w.result \in Outcomes => w.result = d.state
    /\ w.result # None => w.run = "ended"
    /\ w.at \notin Ongoing => w.run \in {"none", "ended"}
    /\ w.at \in Waits => w.result = None
    /\ w.at = "resuming" => w.commands # <<>>
    /\ d.state \in Outcomes /\ w.revision = d.revision /\ w.at \notin {"unused", "ended"}
          => w.at \in Ongoing /\ w.run = "ended" /\ w.result = d.state

AgentInv ==
    /\ AgentShape /\ Holding /\ SeenIsCommitted
    /\ \A w \in A!Workers : Truthful(workers[w], child)
    /\ A!ChildAgrees
AgentPart == part = "agent" => AgentInv

\* What the parts of the state are.
LEMMA AgentTypes ==
  ASSUME AgentInv
  PROVE  /\ parent \in Parents /\ child \in Children
         /\ workers \in [A!Workers -> Helpers]
         /\ child.state \in Committed /\ child.revision \in Nat /\ child.ends \in Nat
         /\ child.state \in Outcomes => child.revision > 0
         /\ \A w \in A!Workers : workers[w] \in Helpers /\ Truthful(workers[w], child)
BY DEF AgentInv, AgentShape, Children

\* A worker that was never used reports nothing.
LEMMA UnusedTypes ==
  /\ A!NoWorker \in Helpers /\ A!NoWorker.at = "unused" /\ A!NoWorker.revision = 0
  /\ A!NoWorker.result = None /\ A!NoWorker.run = "none" /\ A!NoWorker.events = <<>>
  /\ A!NoWorker.commands = <<>> /\ ~A!NoWorker.open
BY DEF A!NoWorker, Helpers

\* The events of a worker, one later, and one less.
LEMMA ReportedEvents ==
  ASSUME NEW q \in Seq(Reported), NEW e \in Reported
  PROVE  /\ Append(q, e) \in Seq(Reported)
         /\ \A i \in DOMAIN Append(q, e) : Append(q, e)[i] = e
              \/ (i \in DOMAIN q /\ Append(q, e)[i] = q[i])
         /\ q # <<>> => /\ Head(q) = q[1] /\ 1 \in DOMAIN q /\ Head(q) \in Reported
                        /\ Tail(q) \in Seq(Reported)
                        /\ \A i \in DOMAIN Tail(q) : i + 1 \in DOMAIN q /\ Tail(q)[i] = q[i + 1]
OBVIOUS

\* One worker moves and its child stays as it was committed.
LEMMA WorkerMoves ==
  ASSUME AgentInv, NEW w \in A!Workers, NEW h \in Helpers, workers[w].at # "unused",
         workers' = [workers EXCEPT ![w] = h], parent' = parent,
         child' \in Children, child'.state = child.state, child'.revision = child.revision,
         Truthful(h, child)
  PROVE  AgentInv'
<1>1. /\ AgentShape /\ Holding /\ SeenIsCommitted /\ A!ChildAgrees
      /\ workers \in [A!Workers -> Helpers]
  BY DEF AgentInv, AgentShape
<1>2. workers' \in [A!Workers -> Helpers] /\ workers'[w] = h
      /\ \A v \in A!Workers \ {w} : workers'[v] = workers[v]
  BY <1>1
<1>3. AgentShape'
  BY <1>1, <1>2 DEF AgentShape
<1>4. ~Unstarted
  BY UnusedTypes DEF Unstarted
<1>5. Holding' /\ SeenIsCommitted'
  BY <1>1, <1>4 DEF Holding, SeenIsCommitted
<1>6. A!ChildAgrees'
  BY <1>1 DEF A!ChildAgrees
<1>7. \A v \in A!Workers : Truthful(workers'[v], child')
  BY <1>2, AgentTypes DEF Truthful
<1> QED BY <1>3, <1>5, <1>6, <1>7 DEF AgentInv

\* A worker's invocation commits its child, or finds that another did.
LEMMA CommitsInv ==
  ASSUME Absent, AgentInv, NEW w \in A!Workers,
         NEW state \in {"active", "suspended"} \cup Outcomes,
         workers[w].run \in {"attaching", "live"}, A!Commits(w, state), parent' = parent
  PROVE  AgentInv'
<1> DEFINE g == workers[w]
<1>1. /\ AgentShape /\ Holding /\ SeenIsCommitted /\ A!ChildAgrees
      /\ workers \in [A!Workers -> Helpers] /\ g \in Helpers /\ Truthful(g, child)
  BY DEF AgentInv, AgentShape
<1>2. g.at \in Ongoing /\ g.at # "unused" /\ g.result = None
  BY <1>1 DEF Truthful, Helpers, Ongoing, Waits
<1>3. CASE g.revision # child.revision
  <2> DEFINE h == [g EXCEPT !.run = "ended", !.result = "error"]
  <2>1. workers' = [workers EXCEPT ![w] = h] /\ child' = child
    BY <1>1, <1>3 DEF A!Commits
  <2>2. /\ h \in Helpers /\ h.at = g.at /\ h.revision = g.revision /\ h.events = g.events
        /\ h.result = "error" /\ h.run = "ended"
    BY <1>1 DEF Helpers
  <2> HIDE DEF g, h
  <2>3. Truthful(h, child)
    BY <1>1, <1>2, <1>3, <2>2 DEF Truthful, Outcomes, Ongoing, Waits
  <2>4. child' \in Children
    BY <1>1, <2>1 DEF AgentShape
  <2> QED BY <1>2, <2>1, <2>2, <2>3, <2>4, WorkerMoves DEF g
<1>4. CASE g.revision = child.revision
  <2> DEFINE n == child.revision + 1
             run == IF state = "active" THEN "live" ELSE "ended"
             result == IF state = "active" THEN None ELSE state
             h == [g EXCEPT !.revision = @ + 1, !.run = run, !.result = result]
  <2>1. workers' = [workers EXCEPT ![w] = h]
        /\ child' = [child EXCEPT !.state = state, !.revision = @ + 1]
    BY <1>1, <1>4 DEF A!Commits
  <2>2. /\ n \in Nat /\ n > child.revision /\ child.revision \in Nat
        /\ run \in {"live", "ended"} /\ result \in Outcomes \cup {None, "suspended"}
        /\ result # None => run = "ended" /\ result = state
        /\ state \in Outcomes => run = "ended" /\ result = state
    BY AgentTypes DEF Outcomes
  <2>3. h \in Helpers /\ h.at = g.at /\ h.revision = n /\ h.events = g.events /\ h.run = run
        /\ h.result = result
    BY <1>1, <1>4, <2>2 DEF Helpers
  <2>4. child' \in Children /\ child'.state = state /\ child'.revision = n
    BY <1>1, <2>1, <2>2 DEF AgentShape, Children, Committed
  <2> HIDE DEF h, n, run, result
  <2>5. child.state \notin Outcomes
    BY <1>1, <1>2, <1>4 DEF Truthful, Ongoing
  <2>6. workers' \in [A!Workers -> Helpers] /\ workers'[w] = h
        /\ \A v \in A!Workers \ {w} : workers'[v] = workers[v]
    BY <1>1, <2>1, <2>3
  <2>7. Truthful(h, child')
    BY <1>1, <1>2, <2>2, <2>3, <2>4, <2>5, Absent DEF Truthful, Absent, Ongoing, Waits
  <2>8. ASSUME NEW v \in A!Workers PROVE Truthful(workers'[v], child')
    <3>1. CASE v = w
      BY <2>6, <2>7, <3>1
    <3>2. CASE v # w
      <4>1. workers'[v] = workers[v] /\ Truthful(workers[v], child) /\ workers[v].revision \in Nat
        BY <2>6, <3>2, AgentTypes DEF Helpers
      <4>2. workers[v].revision < n
        BY <2>2, <4>1 DEF Truthful
      <4> QED BY <2>2, <2>4, <2>5, <4>1, <4>2 DEF Truthful
    <3> QED BY <3>1, <3>2
  <2>9. ~Unstarted
    BY <1>2, UnusedTypes DEF Unstarted
  <2>10. parent.state # "Finished"
    BY <1>1, <2>5, <2>9 DEF Holding, A!ChildAgrees
  <2>11. Holding' /\ A!ChildAgrees'
    BY <1>1, <2>9, <2>10 DEF Holding, A!ChildAgrees
  <2>12. SeenIsCommitted'
    <3>1. ASSUME parent.seen # None
          PROVE  /\ parent.seen.state # "start" /\ parent.seen.revision < n
                 /\ parent.seen.revision \in Nat /\ parent.seen.state \notin Outcomes
      <4>1. parent.seen \in [state : Committed \cup {"start"}, revision : Nat]
        BY <1>1, <3>1 DEF AgentShape, Parents
      <4>2. parent.seen.revision \in Nat /\ parent.seen.state # "start"
            /\ parent.seen.revision <= child.revision
        BY <1>1, <2>9, <3>1, <4>1 DEF SeenIsCommitted
      <4> QED BY <1>1, <2>2, <2>5, <3>1, <4>2 DEF SeenIsCommitted
    <3> QED BY <2>2, <2>4, <3>1 DEF SeenIsCommitted
  <2>13. AgentShape'
    BY <1>1, <2>2, <2>4, <2>6 DEF AgentShape
  <2> QED BY <2>8, <2>11, <2>12, <2>13 DEF AgentInv
<1> QED BY <1>3, <1>4

\* The worker's own steps.
LEMMA WorkerInv ==
  ASSUME Absent, AgentInv, NEW w \in A!Workers, A!Worker(w)
  PROVE  AgentInv'
<1> DEFINE g == workers[w]
<1>1. /\ workers \in [A!Workers -> Helpers] /\ g \in Helpers /\ Truthful(g, child)
      /\ child \in Children /\ child.state \in Committed
      /\ g.events \in Seq(Reported) /\ g.commands \in Seq({"reply", "cancel"})
  BY AgentTypes DEF Helpers
<1>2. CASE A!Attach(w) \/ A!End(w)
  <2>1. parent' = parent /\ g.run \in {"attaching", "live"}
        /\ \E state \in {"active", "suspended"} \cup Outcomes : A!Commits(w, state)
    BY <1>2, Zenon DEF A!Attach, A!End, Outcomes
  <2> QED BY <2>1, CommitsInv
<1>3. ASSUME NEW event \in Reported
      PROVE  /\ A!Emit(w, event) \in Seq(Reported)
             /\ \A i \in DOMAIN A!Emit(w, event) :
                   A!Emit(w, event)[i] \in Outcomes =>
                      A!Emit(w, event)[i] = event \/ A!Emit(w, event)[i] = child.state
  <2>1. CASE g.open
    <3>1. A!Emit(w, event) = Append(g.events, event)
      BY <2>1 DEF A!Emit
    <3> QED BY <1>1, <3>1, ReportedEvents DEF Truthful
  <2>2. CASE ~g.open
    BY <2>2 DEF A!Emit
  <2> QED BY <2>1, <2>2
<1>4. CASE A!Completed(w)
  <2>1. g.at = "running" /\ g.result # None /\ g.run = "ended" /\ parent' = parent
    BY <1>1, <1>4 DEF A!Completed, Truthful
  <2>2. CASE g.result = "suspended"
    <3> DEFINE q == A!Emit(w, "Waiting")
               h == [g EXCEPT !.at = "waiting", !.result = None, !.events = q]
    <3>1. /\ workers' = [workers EXCEPT ![w] = h]
          /\ child' = [child EXCEPT !.ends = @ + 1]
      BY <1>1, <1>4, <2>2 DEF A!Completed
    <3>2. /\ q \in Seq(Reported)
          /\ \A i \in DOMAIN q : q[i] \in Outcomes => q[i] = child.state
      BY <1>3 DEF Reported, Outcomes
    <3> HIDE DEF q
    <3>3. /\ h \in Helpers /\ h.at = "waiting" /\ h.result = None /\ h.events = q
          /\ h.run = "ended" /\ h.revision = g.revision
      BY <1>1, <2>1, <3>2 DEF Helpers, Waits
    <3> HIDE DEF h
    <3>4. Truthful(h, child)
      <4>1. ~(child.state \in Outcomes /\ g.revision = child.revision)
        BY <1>1, <2>1, <2>2 DEF Truthful, Outcomes
      <4> QED BY <1>1, <3>2, <3>3, <4>1 DEF Truthful, Ongoing, Absent
    <3>5. /\ child' \in Children /\ child'.state = child.state
          /\ child'.revision = child.revision
      BY <1>1, <3>1 DEF Children
    <3> QED BY <2>1, <3>1, <3>3, <3>4, <3>5, WorkerMoves
  <2>3. CASE g.result # "suspended"
    <3> DEFINE e == A!Update(g.result)
               q == A!Emit(w, e)
               h == [g EXCEPT !.at = "ended", !.result = None, !.events = q]
    <3>1. workers' = [workers EXCEPT ![w] = h] /\ child' = child
      BY <1>1, <1>4, <2>3 DEF A!Completed
    <3>2. e \in Reported /\ (e \in Outcomes => e = child.state)
      BY <1>1, <2>1, <2>3 DEF A!Update, Reported, Outcomes, Helpers, Truthful
    <3> HIDE DEF e
    <3>3. /\ q \in Seq(Reported)
          /\ \A i \in DOMAIN q : q[i] \in Outcomes => q[i] = child.state
      BY <1>3, <3>2
    <3> HIDE DEF q
    <3>4. /\ h \in Helpers /\ h.at = "ended" /\ h.result = None /\ h.events = q
          /\ h.run = "ended" /\ h.revision = g.revision
      BY <1>1, <2>1, <3>3 DEF Helpers
    <3> HIDE DEF h
    <3>5. Truthful(h, child)
      BY <1>1, <3>3, <3>4 DEF Truthful, Ongoing, Absent, Waits
    <3> QED BY <1>1, <2>1, <3>1, <3>4, <3>5, WorkerMoves
  <2> QED BY <2>2, <2>3
<1>5. CASE A!Pause(w)
  <2> DEFINE h == [g EXCEPT !.at = "pausing"]
  <2>1. /\ g.at = "running" /\ workers' = [workers EXCEPT ![w] = h]
        /\ parent' = parent /\ child' = child
    BY <1>1, <1>5 DEF A!Pause
  <2>2. /\ h \in Helpers /\ h.at = "pausing" /\ h.result = g.result /\ h.events = g.events
        /\ h.run = g.run /\ h.revision = g.revision
    BY <1>1 DEF Helpers, Ongoing
  <2> HIDE DEF h
  <2>3. Truthful(h, child)
    BY <1>1, <2>1, <2>2 DEF Truthful, Ongoing, Waits
  <2> QED BY <1>1, <2>1, <2>2, <2>3, WorkerMoves
<1>6. CASE A!Leave(w)
  <2> DEFINE h == [g EXCEPT !.at = "ended", !.result = None]
  <2>1. /\ g.at = "waiting" \/ (g.at = "pausing" /\ g.result # None)
        /\ workers' = [workers EXCEPT ![w] = h]
        /\ parent' = parent /\ child' = child
    BY <1>1, <1>6 DEF A!Leave
  <2>2. /\ h \in Helpers /\ h.at = "ended" /\ h.result = None /\ h.events = g.events
        /\ h.run = g.run /\ h.revision = g.revision
    BY <1>1 DEF Helpers
  <2> HIDE DEF h
  <2>3. Truthful(h, child)
    BY <1>1, <2>1, <2>2 DEF Truthful, Ongoing, Waits, Absent
  <2> QED BY <1>1, <2>1, <2>2, <2>3, WorkerMoves
<1>7. CASE A!TakeCommand(w)
  <2> DEFINE h == [g EXCEPT !.at = "resuming"]
  <2>1. /\ g.at = "waiting" /\ g.commands # <<>> /\ workers' = [workers EXCEPT ![w] = h]
        /\ parent' = parent /\ child' = child
    BY <1>1, <1>7 DEF A!TakeCommand
  <2>2. /\ h \in Helpers /\ h.at = "resuming" /\ h.result = g.result /\ h.events = g.events
        /\ h.run = g.run /\ h.revision = g.revision /\ h.commands = g.commands
    BY <1>1 DEF Helpers, Waits
  <2> HIDE DEF h
  <2>3. Truthful(h, child)
    BY <1>1, <2>1, <2>2 DEF Truthful, Ongoing, Waits
  <2> QED BY <1>1, <2>1, <2>2, <2>3, WorkerMoves
<1>8. CASE A!Resume(w)
  <2> DEFINE command == Head(g.commands)
             q == IF command = "reply" THEN A!Emit(w, "Running") ELSE g.events
             rest == Tail(g.commands)
             h == [g EXCEPT !.at = "running", !.run = "attaching", !.commands = rest,
                            !.cancelled = (command = "cancel"), !.events = q]
  <2>1. /\ g.at = "resuming" /\ workers' = [workers EXCEPT ![w] = h]
        /\ parent' = parent /\ child' = child
    BY <1>1, <1>8 DEF A!Resume
  <2>2. /\ q \in Seq(Reported)
        /\ \A i \in DOMAIN q : q[i] \in Outcomes => q[i] = child.state
    BY <1>1, <1>3 DEF Reported, Outcomes, Truthful
  <2>3. rest \in Seq({"reply", "cancel"})
    BY <1>1, <2>1 DEF Truthful
  <2> HIDE DEF q, rest
  <2>4. /\ h \in Helpers /\ h.at = "running" /\ h.result = g.result /\ h.events = q
        /\ h.run = "attaching" /\ h.revision = g.revision
    BY <1>1, <2>2, <2>3 DEF Helpers, Ongoing
  <2> HIDE DEF h
  <2>5. Truthful(h, child)
    BY <1>1, <2>1, <2>2, <2>4 DEF Truthful, Ongoing, Waits, Absent
  <2> QED BY <1>1, <2>1, <2>4, <2>5, WorkerMoves
<1> QED BY <1>2, <1>4, <1>5, <1>6, <1>7, <1>8 DEF A!Worker

\* A worker is spawned where no end was committed.
LEMMA SpawnedInv ==
  ASSUME Absent, AgentInv, NEW w \in A!Workers, NEW r \in Nat, A!Spawn(w, r),
         r <= child.revision, r = child.revision => child.state \notin Outcomes,
         parent' = [parent EXCEPT !.worker = w, !.seen = None], child' = child,
         parent.attached, parent.state \notin {"Queued", "Finished"}
  PROVE  AgentInv'
<1> DEFINE h == [A!NoWorker EXCEPT !.at = "running", !.open = TRUE, !.run = "attaching",
                                   !.revision = r]
<1>1. /\ AgentShape /\ parent \in Parents /\ child \in Children
      /\ workers \in [A!Workers -> Helpers]
  BY DEF AgentInv, AgentShape
<1>2. workers' = [workers EXCEPT ![w] = h]
  BY DEF A!Spawn
<1>3. /\ h \in Helpers /\ h.at = "running" /\ h.run = "attaching" /\ h.revision = r
      /\ h.events = <<>> /\ h.result = None
  BY UnusedTypes DEF A!NoWorker, Helpers, Ongoing
<1> HIDE DEF h
<1>4. Truthful(h, child)
  BY <1>3 DEF Truthful, Ongoing, Waits, Absent
<1>5. workers' \in [A!Workers -> Helpers] /\ \A v \in A!Workers : Truthful(workers'[v], child)
  BY <1>1, <1>2, <1>3, <1>4, AgentTypes
<1>6. /\ parent' \in Parents /\ parent'.state = parent.state /\ parent'.seen = None
      /\ parent'.worker = w /\ parent'.attached
  BY <1>1 DEF Parents
<1>7. Holding' /\ SeenIsCommitted' /\ A!ChildAgrees'
  BY <1>6 DEF Holding, SeenIsCommitted, A!ChildAgrees
<1>8. AgentShape'
  BY <1>1, <1>5, <1>6 DEF AgentShape
<1> QED BY <1>5, <1>7, <1>8 DEF AgentInv

\* The parent moves alone, and finishes nothing.
LEMMA ParentMoves ==
  ASSUME AgentInv, parent' \in Parents, child' = child, workers' = workers,
         Holding', SeenIsCommitted', A!ChildAgrees'
  PROVE  AgentInv'
BY DEF AgentInv, AgentShape

\* The parent starts its child, or learns that it may not.
LEMMA StartInv ==
  ASSUME Absent, AgentInv, A!Admit \/ A!Start
  PROVE  AgentInv'
<1>1. /\ AgentShape /\ Holding /\ SeenIsCommitted /\ A!ChildAgrees /\ parent \in Parents
      /\ child \in Children
  BY DEF AgentInv, AgentShape
<1>2. CASE A!Admit
  <2> DEFINE head == [state |-> "start", revision |-> 0]
             p == [parent EXCEPT !.state = "Running", !.seen = head]
  <2>1. /\ parent.state = "Queued" /\ parent.attached /\ parent' = p
        /\ child' = child /\ workers' = workers
    BY <1>2 DEF A!Admit
  <2>2. /\ p \in Parents /\ p.state = "Running" /\ p.seen = head /\ p.worker = parent.worker
        /\ p.attached = parent.attached
    BY <1>1 DEF Parents
  <2>3. head.state = "start"
    OBVIOUS
  <2>4. Unstarted /\ parent.worker = None
    BY <1>1, <2>1 DEF Holding
  <2> HIDE DEF p, head
  <2>5. Unstarted'
    BY <2>1, <2>4 DEF Unstarted
  <2>6. Holding' /\ SeenIsCommitted' /\ A!ChildAgrees'
    BY <2>1, <2>2, <2>3, <2>4, <2>5 DEF Holding, SeenIsCommitted, A!ChildAgrees
  <2> QED BY <2>1, <2>2, <2>6, ParentMoves
<1>3. CASE A!Start
  <2>1. /\ parent.seen # None /\ parent.seen.state = "start" /\ child' = child /\ Unstarted
        /\ parent.attached /\ parent.state \notin {"Queued", "Finished"} /\ parent.worker = None
    BY <1>1, <1>3 DEF A!Start, SeenIsCommitted, Holding
  <2>2. CASE A!Free
    <3>1. PICK w \in A!Workers : A!Spawn(w, 0)
                                 /\ parent' = [parent EXCEPT !.worker = w, !.seen = None]
      BY <1>3, <2>2 DEF A!Start, A!Unused
    <3>2. 0 \in Nat /\ 0 <= child.revision /\ child.state \notin Outcomes
      BY <2>1, AgentTypes DEF Unstarted, Outcomes
    <3> QED BY <2>1, <3>1, <3>2, SpawnedInv
  <2>3. CASE ~A!Free
    <3> DEFINE p == [parent EXCEPT !.state = "Finished", !.outcome = "rejected", !.seen = None]
    <3>1. parent' = p /\ workers' = workers
      BY <1>3, <2>3 DEF A!Start
    <3>2. /\ p \in Parents /\ p.state = "Finished" /\ p.outcome = "rejected" /\ p.seen = None
          /\ p.worker = None
      BY <1>1, <2>1 DEF Parents
    <3> HIDE DEF p
    <3>3. Unstarted' /\ child.state = "none"
      BY <2>1, <3>1 DEF Unstarted
    <3>4. Holding' /\ SeenIsCommitted' /\ A!ChildAgrees'
      BY <2>1, <3>1, <3>2, <3>3 DEF Holding, SeenIsCommitted, A!ChildAgrees
    <3> QED BY <2>1, <3>1, <3>2, <3>4, ParentMoves
  <2> QED BY <2>2, <2>3
<1> QED BY <1>2, <1>3

\* A new executor reads the child's head.
LEMMA LoadInv ==
  ASSUME Absent, AgentInv, A!LoadHead
  PROVE  AgentInv'
<1>1. /\ AgentShape /\ Holding /\ SeenIsCommitted /\ A!ChildAgrees /\ parent \in Parents
      /\ child \in Children /\ child.state \in Committed /\ child.revision \in Nat
  BY AgentTypes DEF AgentInv, AgentShape
<1> DEFINE head == [state |-> child.state, revision |-> child.revision]
           seen == IF parent.state \in {"Running", "Waiting", "Cancelling"} THEN head ELSE None
           p == [parent EXCEPT !.attached = TRUE, !.seen = seen]
<1>2. /\ ~parent.attached /\ parent' = p /\ child' = child /\ workers' = workers
  BY DEF A!LoadHead
<1>3. /\ head \in [state : Committed \cup {"start"}, revision : Nat]
      /\ head.state = child.state /\ head.revision = child.revision /\ head.state # "start"
  BY <1>1 DEF Committed, Outcomes
<1> HIDE DEF head
<1>4. /\ seen = head \/ seen = None
      /\ parent.state \in {"Queued", "Finished"} => seen = None
  BY Zenon
<1> HIDE DEF seen
<1>5. /\ p \in Parents /\ p.state = parent.state /\ p.seen = seen /\ p.worker = parent.worker
      /\ p.attached /\ p.outcome = parent.outcome
  BY <1>1, <1>3, <1>4 DEF Parents
<1> HIDE DEF p
<1>6. parent.seen = None /\ parent.worker = None
  BY <1>1, <1>2 DEF Holding
<1>7. Unstarted' <=> Unstarted
  BY <1>2 DEF Unstarted
<1>8. Holding' /\ A!ChildAgrees'
  BY <1>1, <1>2, <1>4, <1>5, <1>6, <1>7 DEF Holding, A!ChildAgrees
<1>9. SeenIsCommitted'
  BY <1>1, <1>2, <1>3, <1>4, <1>5 DEF SeenIsCommitted
<1> QED BY <1>2, <1>5, <1>8, <1>9, ParentMoves

\* The parent recovers its operation by what it read.
LEMMA RecoverInv ==
  ASSUME Absent, AgentInv, A!Recover
  PROVE  AgentInv'
<1>1. /\ AgentShape /\ Holding /\ SeenIsCommitted /\ A!ChildAgrees /\ parent \in Parents
      /\ child \in Children /\ child' = child /\ parent.seen # None
      /\ parent.seen.state # "start"
  BY DEF AgentInv, AgentShape, A!Recover
<1>2. /\ parent.attached /\ parent.state \notin {"Queued", "Finished"} /\ parent.worker = None
      /\ parent.seen \in [state : Committed \cup {"start"}, revision : Nat]
  BY <1>1 DEF Holding, AgentShape, Parents
<1>3. CASE parent.seen.state \in A!Terminal
  <2> DEFINE outcome == parent.seen.state
             p == [parent EXCEPT !.state = "Finished", !.outcome = outcome, !.seen = None]
  <2>1. parent' = p /\ workers' = workers
    BY <1>3 DEF A!Recover
  <2>2. outcome \in Outcomes /\ child.state = outcome
    BY <1>1, <1>3 DEF A!Terminal, Outcomes, SeenIsCommitted
  <2> HIDE DEF outcome
  <2>3. /\ p \in Parents /\ p.state = "Finished" /\ p.outcome = outcome /\ p.seen = None
        /\ p.worker = None
    BY <1>1, <1>2, <2>2 DEF Parents
  <2> HIDE DEF p
  <2>4. Holding' /\ SeenIsCommitted' /\ A!ChildAgrees'
    BY <1>1, <2>1, <2>2, <2>3 DEF Holding, SeenIsCommitted, A!ChildAgrees, Outcomes
  <2> QED BY <1>1, <2>1, <2>3, <2>4, ParentMoves
<1>4. CASE parent.seen.state \notin A!Terminal /\ (parent.seen.state = "none" \/ ~A!Free)
  <2> DEFINE p == [parent EXCEPT !.state = "Unknown", !.seen = None]
  <2>1. parent' = p /\ workers' = workers
    BY <1>4 DEF A!Recover
  <2>2. p \in Parents /\ p.state = "Unknown" /\ p.seen = None /\ p.worker = None
    BY <1>1, <1>2 DEF Parents
  <2> HIDE DEF p
  <2>3. Holding' /\ SeenIsCommitted' /\ A!ChildAgrees'
    BY <2>1, <2>2 DEF Holding, SeenIsCommitted, A!ChildAgrees
  <2> QED BY <1>1, <2>1, <2>2, <2>3, ParentMoves
<1>5. CASE parent.seen.state \notin A!Terminal /\ ~(parent.seen.state = "none" \/ ~A!Free)
  <2>1. PICK w \in A!Workers : A!Spawn(w, parent.seen.revision)
                               /\ parent' = [parent EXCEPT !.worker = w, !.seen = None]
    BY <1>5 DEF A!Recover, A!Unused
  <2>2. /\ parent.seen.revision \in Nat /\ parent.seen.revision <= child.revision
        /\ parent.seen.revision = child.revision => child.state \notin Outcomes
    BY <1>1, <1>2, <1>5 DEF SeenIsCommitted, A!Terminal, Outcomes
  <2> QED BY <1>1, <1>2, <2>1, <2>2, SpawnedInv
<1> QED BY <1>3, <1>4, <1>5

\* The parent has its worker: it goes on with it, finishes, or loses it.
LEMMA HeldMoves ==
  ASSUME AgentInv, parent.worker # None \/ parent.attached,
         parent.state \notin {"Queued", "Finished"},
         parent' \in Parents, child' = child, workers' \in [A!Workers -> Helpers],
         \A w \in A!Workers : Truthful(workers'[w], child),
         parent'.seen = None, parent'.attached \/ parent'.worker = None,
         parent'.state # "Queued",
         parent'.state = "Finished" => /\ parent'.worker = None /\ parent'.outcome \in Outcomes
                                       /\ parent'.outcome = child.state
  PROVE  AgentInv'
<1>1. Holding' /\ SeenIsCommitted' /\ A!ChildAgrees'
  BY DEF Holding, SeenIsCommitted, A!ChildAgrees, Outcomes
<1>2. AgentShape'
  BY DEF AgentInv, AgentShape
<1> QED BY <1>1, <1>2 DEF AgentInv

\* The parent's executor stops, or the process ends.
LEMMA StopsInv ==
  ASSUME Absent, AgentInv, A!Detach \/ A!Crash
  PROVE  AgentInv'
<1> DEFINE p == [parent EXCEPT !.attached = FALSE, !.worker = None, !.seen = None,
                               !.replying = FALSE]
<1>1. /\ parent \in Parents /\ parent' = p /\ child' = child
      /\ parent.state \notin {"Queued", "Finished"} /\ workers \in [A!Workers -> Helpers]
      /\ parent.worker \in A!Workers \cup {None}
  BY DEF A!Detach, A!Crash, AgentInv, AgentShape, Parents
<1>2. p \in Parents /\ p.state = parent.state /\ p.seen = None /\ p.worker = None /\ ~p.attached
  BY <1>1 DEF Parents
<1>3. /\ workers' \in [A!Workers -> Helpers]
      /\ \A w \in A!Workers : Truthful(workers'[w], child)
  <2>1. CASE A!Detach
    <3> DEFINE w == parent.worker
               h == [workers[w] EXCEPT !.open = FALSE]
    <3>1. CASE parent.worker = None
      BY <1>1, <2>1, <3>1, AgentTypes DEF A!Detach
    <3>2. CASE parent.worker # None
      <4>1. w \in A!Workers /\ workers' = [workers EXCEPT ![w] = h]
        BY <1>1, <2>1, <3>2 DEF A!Detach
      <4>2. workers[w] \in Helpers /\ Truthful(workers[w], child)
        BY <4>1, AgentTypes
      <4>3. h \in Helpers /\ Truthful(h, child)
        BY <4>2 DEF Helpers, Truthful
      <4> HIDE DEF h, w
      <4> QED BY <1>1, <4>1, <4>3, AgentTypes
    <3> QED BY <3>1, <3>2
  <2>2. CASE A!Crash
    <3> DEFINE ended == [A!NoWorker EXCEPT !.at = "ended"]
    <3>1. workers' = [w \in A!Workers |-> IF workers[w].at = "unused" THEN A!NoWorker ELSE ended]
      BY <2>2 DEF A!Crash
    <3>2. /\ ended \in Helpers /\ ended.at = "ended" /\ ended.run = "none" /\ ended.revision = 0
          /\ ended.events = <<>> /\ ended.result = None
      BY UnusedTypes DEF A!NoWorker, Helpers
    <3> HIDE DEF ended
    <3>3. Truthful(ended, child) /\ Truthful(A!NoWorker, child)
      BY <3>2, UnusedTypes, AgentTypes DEF Truthful, Ongoing, Waits, Absent
    <3> QED BY <3>1, <3>2, <3>3, UnusedTypes
  <2> QED BY <2>1, <2>2 DEF A!Detach, A!Crash
<1> HIDE DEF p
<1>4. Holding' /\ SeenIsCommitted' /\ A!ChildAgrees'
  BY <1>1, <1>2 DEF Holding, SeenIsCommitted, A!ChildAgrees
<1>5. AgentShape'
  BY <1>1, <1>2, <1>3 DEF AgentInv, AgentShape
<1> QED BY <1>1, <1>3, <1>4, <1>5 DEF AgentInv

\* What the handle tells the parent, and what the parent tells its child.
LEMMA HandleInv ==
  ASSUME Absent, AgentInv,
         A!ReceiveEvent \/ A!EventsEnd \/ A!Reply \/ A!ReplyDone \/ A!Cancel
  PROVE  AgentInv'
<1>1. /\ AgentShape /\ Holding /\ SeenIsCommitted /\ A!ChildAgrees /\ parent \in Parents
      /\ workers \in [A!Workers -> Helpers] /\ child' = child
      /\ \A w \in A!Workers : Truthful(workers[w], child)
  BY AgentTypes
  DEF AgentInv, AgentShape, A!ReceiveEvent, A!EventsEnd, A!Reply, A!ReplyDone, A!Cancel
<1> DEFINE w == parent.worker
           g == workers[w]
<1>2. ASSUME w # None
      PROVE  /\ w \in A!Workers /\ g \in Helpers /\ Truthful(g, child)
             /\ parent.attached /\ parent.seen = None
             /\ parent.state \notin {"Queued", "Finished"}
             /\ g.events \in Seq(Reported) /\ g.commands \in Seq({"reply", "cancel"})
  <2>1. w \in A!Workers
    BY <1>1, <1>2 DEF Parents
  <2>2. g \in Helpers /\ Truthful(g, child)
    BY <2>1, AgentTypes
  <2> QED BY <1>1, <1>2, <2>1, <2>2 DEF Holding, Helpers
<1>3. CASE A!ReceiveEvent
  <2> DEFINE event == Head(g.events)
             rest == Tail(g.events)
             h == [g EXCEPT !.events = rest]
  <2>1. /\ w # None /\ g.events # <<>> /\ workers' = [workers EXCEPT ![w] = h]
        /\ \/ event \in {"Running", "Waiting"} /\ parent' = [parent EXCEPT !.state = event]
           \/ event \in A!Terminal /\ A!Record("Finished", event)
           \/ event = "Unknown" /\ A!Record("Unknown", None)
    BY <1>3 DEF A!ReceiveEvent
  <2>2. /\ event \in Reported /\ rest \in Seq(Reported)
        /\ event \in Outcomes => event = child.state
        /\ \A i \in DOMAIN rest : rest[i] \in Outcomes => rest[i] = child.state
    BY <1>2, <2>1, ReportedEvents DEF Truthful
  <2> HIDE DEF event, rest
  <2>3. h \in Helpers /\ h.events = rest
    BY <1>2, <2>1, <2>2 DEF Helpers
  <2>4. Truthful(h, child)
    BY <1>2, <2>1, <2>2 DEF Helpers, Truthful
  <2> HIDE DEF h, g
  <2>5. /\ workers' \in [A!Workers -> Helpers]
        /\ \A v \in A!Workers : Truthful(workers'[v], child)
    BY <1>1, <1>2, <2>1, <2>3, <2>4
  <2>6. CASE event \in {"Running", "Waiting"} /\ parent' = [parent EXCEPT !.state = event]
    <3>1. /\ parent' \in Parents /\ parent'.state = event /\ parent'.seen = None
          /\ parent'.attached
      BY <1>1, <1>2, <2>1, <2>6 DEF Parents
    <3> QED BY <1>1, <1>2, <2>1, <2>5, <2>6, <3>1, HeldMoves
  <2>7. CASE event \in A!Terminal /\ A!Record("Finished", event)
    <3>1. /\ parent' \in Parents /\ parent'.state = "Finished" /\ parent'.seen = None
          /\ parent'.attached /\ parent'.worker = None /\ parent'.outcome = event
      BY <1>1, <1>2, <2>1, <2>7 DEF Parents, A!Record, A!Terminal, Outcomes
    <3>2. event \in Outcomes
      BY <2>7 DEF A!Terminal, Outcomes
    <3> QED BY <1>1, <1>2, <2>1, <2>2, <2>5, <3>1, <3>2, HeldMoves
  <2>8. CASE event = "Unknown" /\ A!Record("Unknown", None)
    <3>1. /\ parent' \in Parents /\ parent'.state = "Unknown" /\ parent'.seen = None
          /\ parent'.attached
      BY <1>1, <1>2, <2>1, <2>8 DEF Parents, A!Record
    <3> QED BY <1>1, <1>2, <2>1, <2>5, <3>1, HeldMoves
  <2> QED BY <2>1, <2>6, <2>7, <2>8
<1>4. CASE A!EventsEnd
  <2>1. w # None /\ workers' = workers /\ A!Record("Unknown", None)
    BY <1>4 DEF A!EventsEnd
  <2>2. /\ parent' \in Parents /\ parent'.state = "Unknown" /\ parent'.seen = None
        /\ parent'.attached
    BY <1>1, <1>2, <2>1 DEF Parents, A!Record
  <2> QED BY <1>1, <1>2, <2>1, <2>2, HeldMoves
<1>5. CASE A!Reply
  <2> DEFINE longer == Append(g.commands, "reply")
             h == [g EXCEPT !.commands = longer]
  <2>1. /\ w # None /\ workers' = [workers EXCEPT ![w] = h]
        /\ parent' = [parent EXCEPT !.state = "Unknown", !.replying = TRUE, !.replies = @ + 1]
    BY <1>5 DEF A!Reply
  <2>queue. longer \in Seq({"reply", "cancel"}) /\ longer # <<>>
    BY <1>2, <2>1
  <2> HIDE DEF longer
  <2>2. h \in Helpers /\ Truthful(h, child)
    <3>1. g \in Helpers /\ Truthful(g, child)
      BY <1>2, <2>1
    <3> HIDE DEF g
    <3>2. h \in Helpers
      BY <2>queue, <3>1 DEF Helpers
    <3>3. Truthful(h, child)
      BY <2>queue, <3>1 DEF Helpers, Truthful
    <3> QED BY <3>2, <3>3
  <2> HIDE DEF h
  <2>3. /\ workers' \in [A!Workers -> Helpers]
        /\ \A v \in A!Workers : Truthful(workers'[v], child)
    BY <1>1, <1>2, <2>1, <2>2
  <2>4. parent.replies \in Nat
    BY <1>1 DEF Parents
  <2>5. /\ parent' \in Parents /\ parent'.state = "Unknown" /\ parent'.seen = None
        /\ parent'.attached
    <3> DEFINE more == parent.replies + 1
               p == [parent EXCEPT !.state = "Unknown", !.replying = TRUE, !.replies = more]
    <3>1. more \in Nat /\ parent' = p
      BY <2>1, <2>4
    <3> HIDE DEF more
    <3>2. /\ p \in Parents /\ p.state = "Unknown" /\ p.seen = parent.seen
          /\ p.attached = parent.attached
      BY <1>1, <3>1 DEF Parents
    <3> HIDE DEF p
    <3> QED BY <1>2, <2>1, <3>1, <3>2
  <2> QED BY <1>1, <1>2, <2>1, <2>3, <2>5, HeldMoves
<1>6. CASE A!Cancel
  <2> DEFINE longer == Append(g.commands, "cancel")
             h == [g EXCEPT !.cancelled = TRUE, !.commands = longer]
  <2>1. /\ w # None /\ workers' = [workers EXCEPT ![w] = h]
        /\ parent' = [parent EXCEPT !.state = "Cancelling"]
    BY <1>1, <1>2, <1>6 DEF A!Cancel
  <2>queue. longer \in Seq({"reply", "cancel"}) /\ longer # <<>>
    BY <1>2, <2>1
  <2> HIDE DEF longer
  <2>2. h \in Helpers /\ Truthful(h, child)
    <3>1. g \in Helpers /\ Truthful(g, child)
      BY <1>2, <2>1
    <3> HIDE DEF g
    <3>2. h \in Helpers
      BY <2>queue, <3>1 DEF Helpers
    <3>3. Truthful(h, child)
      BY <2>queue, <3>1 DEF Helpers, Truthful
    <3> QED BY <3>2, <3>3
  <2> HIDE DEF h
  <2>3. /\ workers' \in [A!Workers -> Helpers]
        /\ \A v \in A!Workers : Truthful(workers'[v], child)
    BY <1>1, <1>2, <2>1, <2>2
  <2>4. /\ parent' \in Parents /\ parent'.state = "Cancelling" /\ parent'.seen = None
        /\ parent'.attached
    BY <1>1, <1>2, <2>1 DEF Parents
  <2> QED BY <1>1, <1>2, <2>1, <2>3, <2>4, HeldMoves
<1>7. CASE A!ReplyDone
  <2> DEFINE s == IF parent.state = "Unknown" THEN "Running" ELSE parent.state
             p == [parent EXCEPT !.replying = FALSE, !.state = s]
  <2>1. parent' = p /\ workers' = workers
    BY <1>7 DEF A!ReplyDone
  <2>2. /\ s \in {"Queued", "Running", "Waiting", "Cancelling", "Unknown", "Finished"}
        /\ s \in {"Queued", "Finished"} <=> parent.state \in {"Queued", "Finished"}
        /\ s \in {"Queued", "Finished"} => s = parent.state
    BY <1>1 DEF Parents
  <2> HIDE DEF s
  <2>3. /\ p \in Parents /\ p.state = s /\ p.seen = parent.seen /\ p.worker = parent.worker
        /\ p.attached = parent.attached /\ p.outcome = parent.outcome
    BY <1>1, <2>2 DEF Parents
  <2> HIDE DEF p
  <2>4. Unstarted' <=> Unstarted
    BY <1>1, <2>1 DEF Unstarted
  <2>5. Holding' /\ SeenIsCommitted' /\ A!ChildAgrees'
    BY <1>1, <2>1, <2>2, <2>3, <2>4 DEF Holding, SeenIsCommitted, A!ChildAgrees
  <2> QED BY <1>1, <2>1, <2>3, <2>5, ParentMoves
<1> QED BY <1>3, <1>4, <1>5, <1>6, <1>7

\* The outcome a parent records for a child agent is the end that the child
\* committed, and stays it, whatever crashed, detached, was recovered from an
\* older head or lost its commit in between.
THEOREM ParentAndChildAgree == Absent => (Spec => []ChildAgrees)
<1> SUFFICES ASSUME Absent PROVE Spec => []ChildAgrees
  OBVIOUS
<1>1. ASSUME A!Init PROVE AgentInv
  <2>1. /\ parent = [state |-> "Queued", outcome |-> None, worker |-> None, seen |-> None,
                     attached |-> TRUE, replying |-> FALSE, replies |-> 0]
        /\ child = [state |-> "none", revision |-> 0, ends |-> 0]
        /\ workers = [w \in A!Workers |-> A!NoWorker]
    BY <1>1 DEF A!Init
  <2>2. AgentShape /\ Unstarted
    BY <2>1, UnusedTypes DEF AgentShape, Unstarted, Parents, Children, Committed, Outcomes
  <2>3. Holding /\ SeenIsCommitted /\ A!ChildAgrees
    BY <2>1, <2>2 DEF Holding, SeenIsCommitted, A!ChildAgrees
  <2>4. Truthful(A!NoWorker, child)
    BY <2>1, UnusedTypes DEF Truthful, Ongoing, Waits, Absent, Outcomes
  <2> QED BY <2>1, <2>2, <2>3, <2>4 DEF AgentInv
<1>2. ASSUME AgentInv, [A!Next]_<<parent, child, workers, limit>> PROVE AgentInv'
  <2>1. CASE UNCHANGED <<parent, child, workers, limit>>
    BY <1>2, <2>1 DEF AgentInv, AgentShape, Holding, SeenIsCommitted, Unstarted, A!ChildAgrees
  <2>2. CASE A!Next
    BY <1>2, <2>2, StartInv, LoadInv, RecoverInv, StopsInv, HandleInv, WorkerInv DEF A!Next
  <2> QED BY <1>2, <2>1, <2>2
<1>3. AgentInv => A!ChildAgrees
  BY DEF AgentInv
<1>4. Init => AgentPart
  BY <1>1 DEF Init, AgentPart
<1>5. AgentPart /\ [Next]_vars => AgentPart'
  BY <1>2, StepOfPart DEF AgentPart
<1>6. AgentPart => ChildAgrees
  BY <1>3 DEF AgentPart, ChildAgrees
<1> QED BY <1>4, <1>5, <1>6, PTL DEF Spec

-----------------------------------------------------------------------------
\* What a checkpoint can reach

\* Nodes are finitely many, of one kind each, and no key of data is a node.
Walkable ==
    /\ IsFiniteSet(W!Nodes) /\ Sealed \cap Archived = {} /\ None \notin W!Nodes
    /\ \A n \in Sealed : W!Data(n) \notin W!Nodes \cup {None}

\* Closure adds what it leads to, round after round.
Round(f, keys, i) ==
    IF i = 0 THEN keys ELSE f[i - 1] \cup UNION {W!Links(n) : n \in f[i - 1] \cap W!Nodes}
Rounds(f, keys, n) == f = [i \in 0..n |-> Round(f, keys, i)]
Closed(K) == \A n \in K \cap W!Nodes : W!Links(n) \subseteq K

\* There are as many rounds as one asks for.
LEMMA RoundsExist ==
  ASSUME NEW keys
  PROVE  \A n \in Nat : \E f : Rounds(f, keys, n)
<1> DEFINE P == {n \in Nat : ~\E f : Rounds(f, keys, n)}
<1>1. ASSUME P # {} PROVE FALSE
  <2>1. P \in SUBSET Nat
    OBVIOUS
  <2> HIDE DEF P
  <2>2. PICK n \in P : \A j \in P : n <= j
    BY <1>1, <2>1, FirstPosition
  <2>3. n \in Nat /\ ~\E f : Rounds(f, keys, n)
    BY DEF P
  <2>4. CASE n = 0
    <3> DEFINE f == [i \in 0..0 |-> keys]
    <3>1. Rounds(f, keys, 0)
      BY DEF Rounds, Round
    <3> QED BY <2>3, <2>4, <3>1
  <2>5. CASE n # 0
    <3>1. n - 1 \in Nat /\ ~(n <= n - 1)
      BY <2>3, <2>5
    <3>2. n - 1 \notin P
      BY <2>2, <3>1
    <3>3. PICK f : Rounds(f, keys, n - 1)
      BY <3>1, <3>2 DEF P
    <3> DEFINE last == f[n - 1] \cup UNION {W!Links(m) : m \in f[n - 1] \cap W!Nodes}
               g == [i \in 0..n |-> IF i = n THEN last ELSE f[i]]
    <3>4. \A i \in 0..(n - 1) : f[i] = Round(f, keys, i)
      BY <3>3 DEF Rounds
    <3> HIDE DEF last
    <3>5. (\A i \in 0..(n - 1) : g[i] = f[i]) /\ g[n] = last
      BY <2>3
    <3>6. g = [i \in 0..n |-> g[i]]
      OBVIOUS
    <3> HIDE DEF g
    <3>7. ASSUME NEW i \in 0..n PROVE g[i] = Round(g, keys, i)
      <4>1. CASE i = n
        <5>1. g[n - 1] = f[n - 1]
          BY <2>3, <2>5, <3>5
        <5> QED BY <2>5, <3>5, <4>1, <5>1 DEF Round, last
      <4>2. CASE i = 0
        <5>1. 0 \in 0..(n - 1)
          BY <2>3, <2>5
        <5>2. g[0] = Round(f, keys, 0)
          BY <3>4, <3>5, <5>1
        <5> QED BY <4>2, <5>2 DEF Round
      <4>3. CASE i # n /\ i # 0
        <5>1. i \in 0..(n - 1) /\ i - 1 \in 0..(n - 1)
          BY <2>3, <4>3
        <5> QED BY <3>4, <3>5, <4>3, <5>1 DEF Round
      <4> QED BY <4>1, <4>2, <4>3
    <3>8. Rounds(g, keys, n)
      BY <3>6, <3>7 DEF Rounds
    <3> QED BY <2>3, <3>8
  <2> QED BY <2>4, <2>5
<1> QED BY <1>1

\* Reachable counts as the library does.
LEMMA SameNumber == \A T : W!Cardinality(T) = Cardinality(T)
BY DEF W!Cardinality, Cardinality

\* After as many rounds as there are nodes nothing more is added: until then
\* each round adds a node.
LEMMA RoundsEnd ==
  ASSUME IsFiniteSet(W!Nodes), NEW keys, NEW f, NEW N \in Nat, N = Cardinality(W!Nodes),
         Rounds(f, keys, N)
  PROVE  Closed(f[N]) /\ keys \subseteq f[N]
<1> DEFINE nodes(i) == f[i] \cap W!Nodes
           Done(i) == keys \subseteq f[i] /\ (Closed(f[i]) \/ Cardinality(nodes(i)) >= i + 1)
           P == {i \in 0..N : ~Done(i)}
<1>1. \A i \in 0..N : f[i] = Round(f, keys, i)
  BY DEF Rounds
<1>2. \A i \in 0..N : /\ IsFiniteSet(nodes(i)) /\ Cardinality(nodes(i)) \in Nat
                      /\ Cardinality(nodes(i)) <= N
  <2> TAKE i \in 0..N
  <2>1. nodes(i) \subseteq W!Nodes
    OBVIOUS
  <2> HIDE DEF nodes
  <2> QED BY <2>1, FS_Subset, FS_CardinalityType
<1>3. ASSUME P # {} PROVE FALSE
  <2>1. P \in SUBSET Nat
    OBVIOUS
  <2> HIDE DEF P
  <2>2. PICK i \in P : \A j \in P : i <= j
    BY <1>3, <2>1, FirstPosition
  <2>3. i \in 0..N /\ ~Done(i)
    BY DEF P
  <2>4. CASE i = 0
    <3>1. f[0] = keys
      BY <1>1, <2>3, <2>4 DEF Round
    <3>2. CASE nodes(0) = {}
      BY <2>3, <2>4, <3>1, <3>2 DEF Closed
    <3>3. CASE nodes(0) # {}
      <4>1. 0 \in 0..N
        OBVIOUS
      <4>2. Cardinality(nodes(0)) # 0
        BY <1>2, <3>3, <4>1, FS_EmptySet
      <4>3. Cardinality(nodes(0)) >= 0 + 1
        BY <1>2, <4>1, <4>2
      <4> QED BY <2>3, <2>4, <3>1, <4>3
    <3> QED BY <3>2, <3>3
  <2>5. CASE i # 0
    <3>1. i - 1 \in 0..N /\ ~(i <= i - 1)
      BY <2>3, <2>5
    <3>2. Done(i - 1)
      BY <2>2, <3>1 DEF P
    <3>3. f[i] = f[i - 1] \cup UNION {W!Links(n) : n \in nodes(i - 1)}
      BY <1>1, <2>3, <2>5 DEF Round
    <3>4. keys \subseteq f[i]
      BY <3>2, <3>3
    <3>5. CASE nodes(i) = nodes(i - 1)
      <4>1. Closed(f[i])
        BY <3>3, <3>5 DEF Closed
      <4> QED BY <2>3, <3>4, <4>1
    <3>6. CASE Closed(f[i - 1])
      <4>1. f[i] = f[i - 1]
        BY <3>3, <3>6 DEF Closed
      <4> QED BY <2>3, <3>4, <3>6, <4>1
    <3>7. CASE nodes(i) # nodes(i - 1) /\ ~Closed(f[i - 1])
      <4>1. Cardinality(nodes(i - 1)) >= i - 1 + 1
        BY <3>2, <3>7
      <4>2. nodes(i - 1) \subseteq nodes(i) /\ nodes(i - 1) # nodes(i)
        BY <3>3, <3>7
      <4> HIDE DEF nodes
      <4>3. Cardinality(nodes(i - 1)) <= Cardinality(nodes(i))
            /\ Cardinality(nodes(i - 1)) # Cardinality(nodes(i))
        BY <1>2, <2>3, <4>2, FS_Subset
      <4>4. Cardinality(nodes(i)) >= i + 1
        BY <1>2, <2>3, <3>1, <4>1, <4>3
      <4> QED BY <2>3, <3>4, <4>4
    <3> QED BY <3>5, <3>6, <3>7
  <2> QED BY <2>4, <2>5
<1>4. N \in 0..N
  OBVIOUS
<1>5. Done(N)
  <2> HIDE DEF Done
  <2> QED BY <1>3, <1>4
<1> HIDE DEF nodes
<1>6. ~(Cardinality(nodes(N)) >= N + 1)
  BY <1>2, <1>4
<1> QED BY <1>5, <1>6

\* What links lead to from some keys, None included.
Leads(keys, K) == None \in K /\ keys \subseteq K /\ Closed(K)

\* Closure is the least of these sets, less None.
LEMMA ClosureIsLeast ==
  ASSUME Walkable, NEW keys
  PROVE  \E K : /\ Leads(keys, K) /\ W!Closure(keys) = K \ {None}
                /\ \A L : Leads(keys, L) => K \subseteq L
<1> DEFINE N == Cardinality(W!Nodes)
           Is(f) == Rounds(f, keys, N)
           f == CHOOSE g : Is(g)
           K == f[N] \cup {None}
<1>1. N \in Nat /\ N \in 0..N
  BY FS_CardinalityType DEF Walkable
<1>2. W!Closure(keys) = f[N] \ {None}
  BY SameNumber DEF W!Closure, Rounds, Round
<1>3. \E g : Is(g)
  BY <1>1, RoundsExist
<1> HIDE DEF Is
<1>4. Is(f)
  BY <1>3
<1> HIDE DEF f
<1>5. Rounds(f, keys, N)
  BY <1>4 DEF Is
<1>6. Closed(f[N]) /\ keys \subseteq f[N]
  <2> HIDE DEF N
  <2> QED BY <1>1, <1>5, RoundsEnd DEF Walkable, N
<1>7. Leads(keys, K)
  BY <1>6 DEF Leads, Closed, Walkable
<1>8. ASSUME NEW L, Leads(keys, L) PROVE f[N] \subseteq L
  <2> DEFINE P == {i \in 0..N : ~(f[i] \subseteq L)}
  <2>1. \A i \in 0..N : f[i] = Round(f, keys, i)
    BY <1>5 DEF Rounds
  <2>2. ASSUME P # {} PROVE FALSE
    <3>1. P \in SUBSET Nat
      BY <1>1
    <3> HIDE DEF P
    <3>2. PICK i \in P : \A j \in P : i <= j
      BY <2>2, <3>1, FirstPosition
    <3>3. i \in 0..N /\ ~(f[i] \subseteq L)
      BY DEF P
    <3>4. i # 0
      BY <1>8, <2>1, <3>3 DEF Round, Leads
    <3>5. i - 1 \in 0..N /\ ~(i <= i - 1)
      BY <1>1, <3>3, <3>4
    <3>6. f[i - 1] \subseteq L
      BY <3>2, <3>5 DEF P
    <3>7. f[i] = f[i - 1] \cup UNION {W!Links(n) : n \in f[i - 1] \cap W!Nodes}
      BY <2>1, <3>3, <3>4 DEF Round
    <3> QED BY <1>8, <3>3, <3>6, <3>7 DEF Leads, Closed
  <2> QED BY <1>1, <2>2
<1>9. K \ {None} = f[N] \ {None}
  OBVIOUS
<1>10. \A L : Leads(keys, L) => K \subseteq L
  BY <1>8 DEF Leads
<1> HIDE DEF K
<1> QED BY <1>2, <1>7, <1>9, <1>10

\* The walk.
Start == checkpoint.cursors \cup ({checkpoint.archive} \ {None})
ReachShape ==
    /\ \A n \in Sealed : chain.previous[n] \in Sealed \cup {None}
    /\ \A n \in Archived : /\ chain.previous[n] \in Archived \cup {None}
                           /\ chain.sealed[n] \in Sealed
    /\ checkpoint.cursors \subseteq Sealed /\ checkpoint.archive \in Archived \cup {None}
    /\ found \in [at : {"contents", "next", "failed", "listed"}, node : Sealed \cup {None},
                  keys : {found.keys}, walked : SUBSET W!Nodes, cursors : SUBSET Sealed,
                  archive : Archived \cup {None}]

\* Nothing it has listed or still follows is out of reach,
InReach ==
    \A K : Leads(Start, K) =>
        found.walked \cup found.cursors \cup {found.node, found.archive} \subseteq K

\* and what is within reach was listed, or a node is left that leads there.
Covered ==
    /\ found.keys = checkpoint.contents \cup found.walked
                        \cup {W!Data(n) : n \in found.walked \cap Sealed}
    /\ checkpoint.cursors \subseteq found.walked \cup found.cursors \cup {found.node}
    /\ checkpoint.archive \in found.walked \cup {found.archive, None}
    /\ \A n \in found.walked \cap Sealed :
           chain.previous[n] \in found.walked \cup {found.node, None}
    /\ \A n \in found.walked \cap Archived :
           /\ chain.sealed[n] \in found.walked \cup {found.node}
           /\ chain.previous[n] \in found.walked \cup {found.archive, None}
NothingLeft ==
    found.node = None /\ found.cursors = {} /\ found.archive \in found.walked \cup {None}

ReachInv ==
    /\ ReachShape /\ InReach
    /\ found.at = "contents" => found.walked = {}
    /\ found.at \in {"next", "listed"} => Covered
    /\ found.at = "listed" => NothingLeft
ReachPart == part = "reachable" => ReachInv

\* What is within reach stays so, and only a list that covers it all ends.
LEMMA WalkInv ==
  ASSUME Walkable, ReachInv, W!Next
  PROVE  ReachInv'
<1>1. /\ chain' = chain /\ checkpoint' = checkpoint
      /\ found \in [at : {"contents", "next", "failed", "listed"}, node : Sealed \cup {None},
                    keys : {found.keys}, walked : SUBSET W!Nodes, cursors : SUBSET Sealed,
                    archive : Archived \cup {None}]
  BY DEF W!Next, ReachInv, ReachShape
<1>2. \A K : Leads(Start, K)' <=> Leads(Start, K)
  BY <1>1 DEF Leads, Start, Closed, W!Links
<1>3. CASE W!Listed
  <2> DEFINE keys == checkpoint.contents
             cursors == checkpoint.cursors
             archive == checkpoint.archive
  <2>1. /\ found.at = "contents" /\ found.walked = {}
        /\ found' = [found EXCEPT !.at = "next", !.keys = keys, !.cursors = cursors,
                                  !.archive = archive]
    BY <1>3 DEF W!Listed, ReachInv
  <2> HIDE DEF keys, cursors, archive
  <2>2. /\ found'.at = "next" /\ found'.keys = keys /\ found'.cursors = cursors
        /\ found'.archive = archive /\ found'.node = found.node /\ found'.walked = {}
    BY <1>1, <2>1
  <2>3. ReachShape'
    BY <1>1, <2>1, <2>2 DEF ReachInv, ReachShape, cursors, archive
  <2>4. InReach'
    BY <1>2, <2>1, <2>2 DEF ReachInv, InReach, Leads, Start, cursors, archive
  <2>5. Covered'
    BY <1>1, <2>2 DEF Covered, keys, cursors, archive
  <2> QED BY <2>2, <2>3, <2>4, <2>5 DEF ReachInv
<1>4. CASE W!NextCursor
  <2> DEFINE Moved(n) == found' = [found EXCEPT !.node = n, !.cursors = @ \ {n}]
  <2>0. (\E n \in found.cursors : Moved(n)) /\ found.at = "next" /\ found.node = None
    BY <1>4, Zenon DEF W!NextCursor
  <2> HIDE DEF Moved
  <2>1. PICK n \in found.cursors : Moved(n)
    BY <2>0
  <2> DEFINE cursors == found.cursors \ {n}
  <2>2. n \in Sealed /\ cursors \subseteq Sealed /\ cursors \cup {n} = found.cursors
    BY <1>1, <2>1
  <2> HIDE DEF cursors
  <2>3. /\ found'.at = "next" /\ found'.node = n /\ found'.cursors = cursors
        /\ found'.keys = found.keys /\ found'.walked = found.walked
        /\ found'.archive = found.archive /\ DOMAIN found' = DOMAIN found
        /\ found' = [found EXCEPT !.node = n, !.cursors = cursors]
    BY <1>1, <2>0, <2>1 DEF cursors, Moved
  <2>4. ReachShape'
    BY <1>1, <2>0, <2>2, <2>3 DEF ReachInv, ReachShape
  <2>5. InReach'
    BY <1>2, <2>2, <2>3 DEF ReachInv, InReach
  <2>6. Covered'
    <3>1. Covered
      BY <2>0 DEF ReachInv
    <3>2. checkpoint'.cursors \subseteq found'.walked \cup found'.cursors \cup {found'.node}
      <4>1. None \notin checkpoint.cursors
        BY DEF ReachInv, ReachShape, Walkable, W!Nodes
      <4>2. checkpoint.cursors \subseteq found.walked \cup found.cursors
        BY <2>0, <3>1, <4>1 DEF Covered
      <4> QED BY <1>1, <2>2, <2>3, <4>2
    <3>3. \A m \in found'.walked \cap Sealed :
              chain'.previous[m] \in found'.walked \cup {found'.node, None}
      BY <1>1, <2>0, <2>3, <3>1 DEF Covered
    <3>4. \A m \in found.walked \cap Archived : chain.sealed[m] # None
      BY DEF ReachInv, ReachShape, Walkable, W!Nodes
    <3>5. \A m \in found'.walked \cap Archived :
              /\ chain'.sealed[m] \in found'.walked \cup {found'.node}
              /\ chain'.previous[m] \in found'.walked \cup {found'.archive, None}
      BY <1>1, <2>0, <2>3, <3>1, <3>4 DEF Covered
    <3>6. checkpoint'.archive \in found'.walked \cup {found'.archive, None}
      BY <1>1, <2>3, <3>1 DEF Covered
    <3>7. found'.keys = checkpoint'.contents \cup found'.walked
                          \cup {W!Data(m) : m \in found'.walked \cap Sealed}
      BY <1>1, <2>3, <3>1 DEF Covered
    <3> QED BY <3>2, <3>3, <3>5, <3>6, <3>7 DEF Covered
  <2> QED BY <2>3, <2>4, <2>5, <2>6 DEF ReachInv
<1>5. CASE W!WalkSealed
  <2>1. PICK n \in Sealed : n = found.node /\ found.at = "next" /\ n \in W!Nodes /\ Covered
    BY <1>1, <1>5 DEF W!WalkSealed, W!Nodes, ReachInv
  <2>2. CASE W!Followed(n)
    <3>1. found' = [found EXCEPT !.node = None] /\ n \in found.walked
      BY <1>5, <2>1, <2>2 DEF W!WalkSealed, W!Followed
    <3>2. /\ found'.at = "next" /\ found'.node = None /\ found'.cursors = found.cursors
          /\ found'.keys = found.keys /\ found'.walked = found.walked
          /\ found'.archive = found.archive
      BY <1>1, <2>1, <3>1
    <3>3. ReachShape'
      BY <1>1, <3>1, <3>2 DEF ReachInv, ReachShape
    <3>4. InReach'
      BY <1>2, <3>2 DEF ReachInv, InReach, Leads
    <3>5. Covered'
      BY <1>1, <2>1, <3>1, <3>2 DEF Covered
    <3> QED BY <3>2, <3>3, <3>4, <3>5 DEF ReachInv
  <2>3. CASE ~W!Followed(n) /\ n \in chain.missing
    <3>1. found' = [found EXCEPT !.at = "failed"]
      BY <1>5, <2>1, <2>3 DEF W!WalkSealed
    <3>2. /\ found'.at = "failed" /\ found'.node = found.node /\ found'.cursors = found.cursors
          /\ found'.keys = found.keys /\ found'.walked = found.walked
          /\ found'.archive = found.archive
      BY <1>1, <3>1
    <3>3. ReachShape'
      BY <1>1, <3>1, <3>2 DEF ReachInv, ReachShape
    <3>4. InReach'
      BY <1>2, <3>2 DEF ReachInv, InReach
    <3> QED BY <3>2, <3>3, <3>4 DEF ReachInv
  <2>4. CASE ~W!Followed(n) /\ n \notin chain.missing
    <3> DEFINE next == chain.previous[n]
               walked == found.walked \cup {n}
               keys == found.keys \cup {n, W!Data(n)}
    <3>1. found' = [found EXCEPT !.node = next, !.walked = walked, !.keys = keys]
      BY <1>5, <2>1, <2>4 DEF W!WalkSealed
    <3>2. next \in Sealed \cup {None} /\ next \in W!Links(n) /\ walked \subseteq W!Nodes
      BY <1>1, <2>1 DEF ReachInv, ReachShape, W!Links
    <3> HIDE DEF next, walked, keys
    <3>3. /\ found'.at = "next" /\ found'.node = next /\ found'.cursors = found.cursors
          /\ found'.keys = keys /\ found'.walked = walked /\ found'.archive = found.archive
      BY <1>1, <2>1, <3>1
    <3>4. ReachShape'
      BY <1>1, <3>1, <3>2, <3>3 DEF ReachInv, ReachShape
    <3>5. InReach'
      BY <1>2, <2>1, <3>2, <3>3 DEF ReachInv, InReach, Leads, Closed, walked
    <3>6. Covered'
      <4>1. {W!Data(m) : m \in walked \cap Sealed}
              = {W!Data(m) : m \in found.walked \cap Sealed} \cup {W!Data(n)}
        BY <2>1 DEF walked
      <4>2. found'.keys = checkpoint'.contents \cup found'.walked
                            \cup {W!Data(m) : m \in found'.walked \cap Sealed}
        BY <1>1, <2>1, <3>3, <4>1 DEF Covered, walked, keys
      <4>3. n \notin Archived
        BY <2>1 DEF Walkable
      <4> QED BY <1>1, <2>1, <3>3, <4>2, <4>3 DEF Covered, next, walked
    <3> QED BY <3>3, <3>4, <3>5, <3>6 DEF ReachInv
  <2> QED BY <2>2, <2>3, <2>4
<1>6. CASE W!WalkArchive
  <2> DEFINE n == found.archive
  <2>1. found.at = "next" /\ found.node = None /\ found.cursors = {} /\ Covered
    BY <1>6 DEF W!WalkArchive, ReachInv
  <2>2. CASE n \in found.walked \cup {None}
    <3>1. found' = [found EXCEPT !.at = "listed"]
      BY <1>6, <2>2 DEF W!WalkArchive, W!Followed
    <3>2. /\ found'.at = "listed" /\ found'.node = found.node /\ found'.cursors = found.cursors
          /\ found'.keys = found.keys /\ found'.walked = found.walked
          /\ found'.archive = found.archive
      BY <1>1, <3>1
    <3>3. ReachShape'
      BY <1>1, <3>1, <3>2 DEF ReachInv, ReachShape
    <3>4. InReach'
      BY <1>2, <3>2 DEF ReachInv, InReach
    <3>5. Covered' /\ NothingLeft'
      BY <1>1, <2>1, <2>2, <3>2 DEF Covered, NothingLeft
    <3> QED BY <3>2, <3>3, <3>4, <3>5 DEF ReachInv
  <2>3. CASE n \notin found.walked \cup {None}
    <3> DEFINE next == chain.sealed[n]
               archive == chain.previous[n]
               walked == found.walked \cup {n}
               keys == found.keys \cup {n}
    <3>1. found' = [found EXCEPT !.node = next, !.archive = archive, !.walked = walked,
                                 !.keys = keys]
      BY <1>6, <2>3 DEF W!WalkArchive, W!Followed
    <3>2. n \in Archived /\ n \in W!Nodes
      BY <1>1, <2>3 DEF W!Nodes
    <3>3. /\ next \in Sealed /\ archive \in Archived \cup {None} /\ walked \subseteq W!Nodes
          /\ next \in W!Links(n) /\ archive \in W!Links(n)
      BY <1>1, <3>2 DEF ReachInv, ReachShape, W!Links
    <3>4. n \notin Sealed
      BY <3>2 DEF Walkable
    <3> HIDE DEF next, archive, walked, keys
    <3>5. /\ found'.at = "next" /\ found'.node = next /\ found'.cursors = found.cursors
          /\ found'.keys = keys /\ found'.walked = walked /\ found'.archive = archive
      BY <1>1, <2>1, <3>1
    <3>6. ReachShape'
      BY <1>1, <3>1, <3>3, <3>5 DEF ReachInv, ReachShape
    <3>7. InReach'
      BY <1>2, <3>2, <3>3, <3>5 DEF ReachInv, InReach, Leads, Closed, walked
    <3>8. Covered'
      <4>1. {W!Data(m) : m \in walked \cap Sealed} = {W!Data(m) : m \in found.walked \cap Sealed}
        BY <3>4 DEF walked
      <4>2. found'.keys = checkpoint'.contents \cup found'.walked
                            \cup {W!Data(m) : m \in found'.walked \cap Sealed}
        BY <1>1, <2>1, <3>5, <4>1 DEF Covered, walked, keys
      <4>4. None \notin Sealed /\ None \notin checkpoint.cursors
        BY DEF ReachInv, ReachShape, Walkable, W!Nodes
      <4>5. \A m \in found.walked \cap Archived : chain.sealed[m] \in found.walked
        BY <2>1, <4>4 DEF Covered, ReachInv, ReachShape
      <4>3. checkpoint'.cursors \subseteq found'.walked \cup found'.cursors \cup {found'.node}
            /\ checkpoint'.archive \in found'.walked \cup {found'.archive, None}
        <5>1. checkpoint.cursors \subseteq found.walked
          BY <2>1, <4>4 DEF Covered
        <5>2. checkpoint.archive \in walked \cup {None}
          BY <2>1 DEF Covered, walked
        <5> QED BY <1>1, <3>5, <5>1, <5>2 DEF walked
      <4>6. \A m \in found'.walked \cap Sealed :
                chain'.previous[m] \in found'.walked \cup {found'.node, None}
        BY <1>1, <2>1, <3>4, <3>5 DEF Covered, walked
      <4>7. \A m \in found'.walked \cap Archived :
                /\ chain'.sealed[m] \in found'.walked \cup {found'.node}
                /\ chain'.previous[m] \in found'.walked \cup {found'.archive, None}
        BY <1>1, <2>1, <3>5, <4>5 DEF Covered, next, archive, walked
      <4> QED BY <4>2, <4>3, <4>6, <4>7 DEF Covered
    <3> QED BY <3>5, <3>6, <3>7, <3>8 DEF ReachInv
  <2> QED BY <2>2, <2>3
<1> QED BY <1>3, <1>4, <1>5, <1>6 DEF W!Next

\* A walk that has ended listed what the checkpoint leads to, and only that.
LEMMA ListIsClosure ==
  ASSUME Walkable, ReachInv
  PROVE  W!ReachableComplete
<1> SUFFICES ASSUME found.at = "listed"
             PROVE  found.keys = checkpoint.contents \cup W!Closure(Start)
  BY DEF W!ReachableComplete, Start
<1> DEFINE data == {W!Data(n) : n \in found.walked \cap Sealed}
           listed == found.walked \cup data \cup {None}
<1>1. Covered /\ NothingLeft /\ InReach /\ ReachShape
  BY DEF ReachInv
<1>2. found.walked \subseteq W!Nodes
  BY <1>1 DEF ReachShape
<1>3. None \notin found.walked /\ None \notin data /\ data \cap W!Nodes = {}
  BY <1>2 DEF Walkable
<1>4. None \notin Sealed
  BY DEF Walkable, W!Nodes
<1>5. Leads(Start, listed)
  <2>1. Start \subseteq found.walked
    <3>1. checkpoint.cursors \subseteq found.walked
      BY <1>1, <1>4 DEF Covered, NothingLeft, ReachShape
    <3>2. checkpoint.archive \in found.walked \cup {None}
      BY <1>1 DEF Covered, NothingLeft
    <3> QED BY <3>1, <3>2 DEF Start
  <2>2. ASSUME NEW n \in listed \cap W!Nodes PROVE W!Links(n) \subseteq listed
    <3>1. n \in found.walked
      BY <1>3, <2>2 DEF Walkable
    <3>2. CASE n \in Sealed
      <4>1. n \notin Archived
        BY <3>2 DEF Walkable
      <4>2. W!Links(n) = {W!Data(n), chain.previous[n]}
        BY <3>2, <4>1 DEF W!Links
      <4>3. chain.previous[n] \in found.walked \cup {None}
        BY <1>1, <3>1, <3>2 DEF Covered, NothingLeft
      <4> QED BY <3>1, <3>2, <4>2, <4>3
    <3>3. CASE n \in Archived
      <4>1. n \notin Sealed /\ chain.sealed[n] # None
        BY <1>1, <1>4, <3>3 DEF Walkable, ReachShape
      <4>2. W!Links(n) = {chain.previous[n], chain.sealed[n]}
        BY <3>3, <4>1 DEF W!Links
      <4>3. chain.previous[n] \in found.walked \cup {None}
            /\ chain.sealed[n] \in found.walked
        BY <1>1, <3>1, <3>3, <4>1 DEF Covered, NothingLeft
      <4> QED BY <4>2, <4>3
    <3> QED BY <2>2, <3>2, <3>3 DEF W!Nodes
  <2> HIDE DEF data
  <2> QED BY <2>1, <2>2 DEF Leads, Closed
<1>6. PICK K : /\ Leads(Start, K) /\ W!Closure(Start) = K \ {None}
               /\ \A L : Leads(Start, L) => K \subseteq L
  BY ClosureIsLeast
<1>7. K \subseteq listed
  <2> HIDE DEF listed
  <2> QED BY <1>5, <1>6
<1>8. found.walked \subseteq K
  BY <1>1, <1>6 DEF InReach
<1>9. data \subseteq K
  <2>1. \A n \in found.walked \cap Sealed : W!Data(n) \in W!Links(n)
    BY DEF W!Links
  <2>2. \A n \in found.walked : W!Links(n) \subseteq K
    BY <1>2, <1>6, <1>8 DEF Leads, Closed
  <2> QED BY <2>1, <2>2
<1> HIDE DEF data
<1>10. W!Closure(Start) = found.walked \cup data
  BY <1>3, <1>6, <1>7, <1>8, <1>9
<1> QED BY <1>1, <1>10 DEF Covered, data

\* A list without an error names everything a run resumed from the checkpoint
\* can read and nothing else, whatever chains join, whichever nodes messages
\* name already and in whatever order the cursors are followed.
THEOREM AllReachableIsListed == Walkable => (Spec => []ReachableComplete)
<1> SUFFICES ASSUME Walkable PROVE Spec => []ReachableComplete
  OBVIOUS
<1>1. ASSUME W!Init PROVE ReachInv
  <2>1. /\ \A n \in Sealed : chain.previous[n] \in Sealed \cup {None}
        /\ \A n \in Archived : /\ chain.previous[n] \in Archived \cup {None}
                               /\ chain.sealed[n] \in Sealed
    BY <1>1 DEF W!Init, W!Before, W!Nodes
  <2>2. checkpoint.cursors \subseteq Sealed /\ checkpoint.archive \in Archived \cup {None}
    BY <1>1 DEF W!Init
  <2> DEFINE empty == {}
  <2>3. found = [at |-> "contents", node |-> None, keys |-> empty, walked |-> empty,
                 cursors |-> empty, archive |-> None]
    BY <1>1 DEF W!Init
  <2>4. ReachShape
    BY <2>1, <2>2, <2>3 DEF ReachShape
  <2>5. InReach
    BY <2>3 DEF InReach, Leads
  <2> QED BY <2>3, <2>4, <2>5 DEF ReachInv
<1>2. ASSUME ReachInv, [W!Next]_<<chain, checkpoint, found>> PROVE ReachInv'
  <2>1. CASE UNCHANGED <<chain, checkpoint, found>>
    BY <1>2, <2>1 DEF ReachInv, ReachShape, InReach, Covered, NothingLeft, Leads, Closed,
                      Start, W!Links
  <2> QED BY <1>2, <2>1, WalkInv
<1>3. ReachInv => W!ReachableComplete
  BY ListIsClosure
<1>4. Init => ReachPart
  BY <1>1 DEF Init, ReachPart
<1>5. ReachPart /\ [Next]_vars => ReachPart'
  BY <1>2, StepOfPart DEF ReachPart
<1>6. ReachPart => ReachableComplete
  BY <1>3 DEF ReachPart, ReachableComplete
<1> QED BY <1>4, <1>5, <1>6, PTL DEF Spec
=============================================================================
