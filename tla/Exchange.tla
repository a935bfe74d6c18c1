------------------------------ MODULE Exchange ------------------------------
(***************************************************************************)
(* The exchange session of zhir-models (session.rs): one scheduler task    *)
(* that turns session commands into session events and calls the model     *)
(* once per Generate.  It keeps the local projection: the conversation the *)
(* model is called with.                                                   *)
(*                                                                         *)
(* `commands` is the bounded command channel, `work` the queue in which    *)
(* the engine receives session events (the event channel and the task that *)
(* forwards it), `asked` what the model service has been called with.      *)
(***************************************************************************)
EXTENDS Naturals, Sequences, FiniteSets

CONSTANTS None,
          Capacity,      \* max_session_events: room in the work queue
          Outputs,       \* how many output items a response may carry
          Statuses,      \* the response statuses the model may report
          ServiceFaults  \* may a model call fail?

ASSUME ExchangeConstants ==
    /\ Capacity \in Nat \ {0}
    /\ Outputs \subseteq Nat
    /\ Statuses \subseteq {"Completed", "Continuation", "Failed"}
    /\ ServiceFaults \in BOOLEAN

\* Option::None is neither a status nor a call in progress.
ASSUME NoneIsNoValue ==
    /\ None \notin {"Completed", "Continuation", "Failed"}
    /\ None \notin [gen : Nat, pos : Nat,
                     content : Seq([kind : {"User", "External", "Output", "Finished", "Summary"},
                                    n : Nat, item : Nat])]

\* Nor an event.
ASSUME NoneIsNoEvent ==
    None \notin [kind : {"Ready"}, revision : Nat]
      \cup [kind : {"Acknowledged"},
            id : {"Append", "Replace", "Generate", "Profile", "Seal", "Close"} \X Nat]
      \cup [kind : {"Started"}, gen : Nat, pos : Nat]
      \cup [kind : {"Output"}, gen : Nat, item : Nat]
      \cup [kind : {"Finished"}, gen : Nat, pos : Nat,
            status : {"Completed", "Continuation", "Failed"}]
      \cup [kind : {"Closed"}]

VARIABLES commands, work, session, asked

exchangeVars == <<commands, work, session, asked>>

\* Work::Model and Work::CommandSent.
EventItem(sequence, body) == [type |-> "Event", sequence |-> sequence, body |-> body]
EndItem(result) == [type |-> "Ended", result |-> result]
SentItem(result) == [type |-> "CommandSent", result |-> result]
Room == Len(work) < Capacity

\* SessionEventBody.
Ready(revision) == [kind |-> "Ready", revision |-> revision]
Acknowledged(id) == [kind |-> "Acknowledged", id |-> id]
Started(gen, pos) == [kind |-> "Started", gen |-> gen, pos |-> pos]
Output(gen, item) == [kind |-> "Output", gen |-> gen, item |-> item]
Finished(gen, pos, status) ==
    [kind |-> "Finished", gen |-> gen, pos |-> pos, status |-> status]
ClosedEvent == [kind |-> "Closed"]

\* A command's identity: an intent occurs once with its revision, generation
\* or serial number (new_id() in the code).
Id(c) == <<c.intent, c.n>>

Absent == [phase |-> "absent"]

\* open: the session task with its seed and its first event.
SessionTask(seed, revision, position, profile) ==
    [phase |-> "up", controls |-> <<>>, sending |-> Ready(revision),
     generating |-> FALSE, active |-> None, finishing |-> <<>>,
     closing |-> FALSE, sealed |-> FALSE, seed |-> seed, history |-> <<>>,
     revision |-> revision, position |-> position, profile |-> profile,
     sequence |-> 0]

Projection(s) == s.seed \o s.history

\* An emission of a response; the others are control emissions.
OfResponse(body) == body.kind \in {"Output", "Finished"}

\* finishing.is_some() lasts until the Finish emission is delivered.
Busy(s) == \/ s.active # None
           \/ s.finishing # <<>>
           \/ s.sending # None /\ OfResponse(s.sending)

Ended(result) == [phase |-> "ended", result |-> result]

\* The top of the loop: what is sent next; a closing task with nothing left
\* to send returns.
Stage(s) ==
    IF s.sending # None THEN s
    ELSE IF s.controls # <<>>
      THEN [s EXCEPT !.sending = Head(s.controls), !.controls = Tail(s.controls)]
    ELSE IF s.finishing # <<>>
      THEN [s EXCEPT !.sending = Head(s.finishing), !.finishing = Tail(s.finishing)]
    ELSE IF s.closing THEN Ended("ok") ELSE s

-----------------------------------------------------------------------------
\* Actions of the task

\* The emission in flight finds room.  The callback is invoked only once
\* ResponseStarted has been delivered.
Deliver ==
    /\ session.phase = "up"
    /\ session.sending # None
    /\ Room
    /\ work' = Append(work, EventItem(session.sequence, session.sending))
    /\ LET starts == session.sending.kind = "Started"
       IN  /\ session' = Stage([session EXCEPT !.sending = None,
                                               !.sequence = @ + 1,
                                               !.generating = @ \/ starts])
           /\ asked' = IF starts
                         THEN Append(asked, [gen |-> session.active.gen,
                                             content |-> session.active.content])
                         ELSE asked
    /\ UNCHANGED commands

\* The model call returns: its outputs, then its completion (FinishEvents).
Respond ==
    /\ session.phase = "up"
    /\ session.generating
    /\ \E n \in Outputs, status \in Statuses :
         LET gen == session.active.gen
             pos == session.active.pos
         IN  session' = Stage([session EXCEPT
                !.generating = FALSE,
                !.active = None,
                !.finishing = [i \in 1..n |-> Output(gen, i)]
                                 \o <<Finished(gen, pos, status)>>])
    /\ UNCHANGED <<commands, work, asked>>

\* The model call fails: a definite error or an uncertain one.
CallFails ==
    /\ ServiceFaults
    /\ session.phase = "up"
    /\ session.generating
    /\ \E result \in {"error", "uncertain"} : session' = Ended(result)
    /\ UNCHANGED <<commands, work, asked>>

\* Does the projection accept this command?
Accepts(s, c) ==
    CASE c.intent = "Generate" -> /\ ~Busy(s)
                                  /\ c.revision = s.revision
                                  /\ c.pos = s.position
                                  /\ c.profile = s.profile
      [] c.intent = "Append"   -> /\ ~(c.source = "Submitted" /\ s.sealed
                                         /\ c.entry.kind = "User")
                                  /\ c.n = s.revision + 1
                                  /\ c.pos >= s.position
      [] c.intent = "Replace"  -> ~Busy(s) /\ c.n = s.revision + 1
      [] c.intent = "Profile"  -> c.n = s.profile + 1
      [] c.intent = "Seal"     -> TRUE
      [] c.intent = "Close"    -> ~Busy(s)

\* SessionTask::command: its effect on the projection, then its events.
Applied(s, c) ==
    CASE c.intent = "Generate" -> [s EXCEPT !.active = [gen |-> c.n, pos |-> c.pos,
                                                        content |-> Projection(s)]]
      [] c.intent = "Append"   -> [s EXCEPT !.history = Append(@, c.entry),
                                            !.revision = c.n,
                                            !.position = c.pos]
      [] c.intent = "Replace"  -> [s EXCEPT !.seed = c.entries,
                                            !.history = <<>>,
                                            !.revision = c.n]
      [] c.intent = "Profile"  -> [s EXCEPT !.profile = c.n]
      [] c.intent = "Seal"     -> [s EXCEPT !.sealed = TRUE]
      [] c.intent = "Close"    -> [s EXCEPT !.closing = TRUE]

Answer(c) ==
    CASE c.intent = "Generate" -> <<Acknowledged(Id(c)), Started(c.n, c.pos)>>
      [] c.intent = "Close"    -> <<Acknowledged(Id(c)), ClosedEvent>>
      [] OTHER                 -> <<Acknowledged(Id(c))>>

\* Commands wait while a control emission is staged or in flight, and forever
\* after Close.
Command ==
    /\ session.phase = "up"
    /\ ~session.closing
    /\ session.controls = <<>>
    /\ session.sending # None => OfResponse(session.sending)
    /\ commands # <<>>
    /\ LET c == Head(commands)
       IN  session' = IF Accepts(session, c)
                        THEN Stage([Applied(session, c) EXCEPT !.controls = Answer(c)])
                        ELSE Ended("protocol")
    /\ commands' = Tail(commands)
    /\ UNCHANGED <<work, asked>>

\* EventsReceiver::settle: after the events comes the terminal result, once.
ReportEnd ==
    /\ session.phase = "ended"
    /\ session.result # None
    /\ Room
    /\ work' = Append(work, EndItem(session.result))
    /\ session' = [session EXCEPT !.result = None]
    /\ UNCHANGED <<commands, asked>>

ExchangeStep == Deliver \/ Respond \/ CallFails \/ Command \/ ReportEnd
=============================================================================
