------------------------------- MODULE Native -------------------------------
(***************************************************************************)
(* The ports every native session shares (zhir-models/src/native.rs): what *)
(* a driver has decided but not delivered yet, the bounded channel of      *)
(* session events, the media queue with its budget, and the terminal port  *)
(* that hands over the rest when the driver ends.                          *)
(***************************************************************************)
EXTENDS Naturals, Sequences, SequencesExt

CONSTANTS None,
          EventRoom,   \* max_session_events
          EventLimit,  \* events a driver may hold back
          MediaRoom,   \* budget of the media queue, in chunks
          MediaLimit   \* media a driver may hold back, in chunks

\* `failure` is the first error of this step, None while there is none.
Ports(epoch) ==
    [sequence |-> 0, pendingEvents |-> <<>>, pendingMedia |-> <<>>, minEpoch |-> epoch, ending |-> FALSE,
     events |-> <<>>, media |-> <<>>, mediaOpen |-> TRUE, terminal |-> None, failure |-> None]

Failing(o, reason) == [o EXCEPT !.failure = IF @ = None THEN reason ELSE @]

\* Outputs::event
Event(o, body) ==
    IF Len(o.pendingEvents) >= EventLimit THEN Failing(o, "uncertain")
    ELSE [o EXCEPT !.sequence = @ + 1,
                   !.pendingEvents = Append(@, [sequence |-> o.sequence, body |-> body])]

\* Outputs::queue_media: retired epochs are dropped, excess is an error.
Media(o, chunk) ==
    IF chunk.epoch < o.minEpoch THEN o
    ELSE IF o.ending THEN Failing(o, "protocol")
    ELSE IF Len(o.pendingMedia) >= MediaLimit THEN Failing(o, "uncertain")
    ELSE [o EXCEPT !.pendingMedia = Append(@, chunk)]

InvalidateBefore(o, epoch) ==
    [o EXCEPT !.minEpoch = IF epoch > @ THEN epoch ELSE @,
              !.pendingMedia = SelectSeq(@, LAMBDA chunk : chunk.epoch >= epoch)]

EndMedia(o) ==
    [o EXCEPT !.ending = TRUE, !.mediaOpen = @ /\ o.pendingMedia # <<>>]

Pending(o) == o.pendingEvents # <<>> \/ o.pendingMedia # <<>>
CanReceive(o) == ~Pending(o)
CommandsAllowed(o, headroom) == Len(o.pendingEvents) + headroom < EventLimit

\* flush_one: one event while the channel has room, or one chunk while the
\* budget has.
CanFlushEvent(o) == o.pendingEvents # <<>> /\ Len(o.events) < EventRoom
FlushEvent(o) ==
    [o EXCEPT !.pendingEvents = Tail(@), !.events = Append(@, Head(o.pendingEvents))]
CanFlushMedia(o) == o.pendingMedia # <<>> /\ Len(o.media) < MediaRoom
FlushMedia(o) ==
    [o EXCEPT !.pendingMedia = Tail(@), !.media = Append(@, Head(o.pendingMedia)),
              !.mediaOpen = ~(o.ending /\ Len(o.pendingMedia) = 1)]

\* Variant: what the driver still held back is dropped with it.
SettleEmpty(o, result) ==
    [o EXCEPT !.terminal = [events |-> <<>>, result |-> result],
              !.pendingEvents = <<>>, !.pendingMedia = <<>>, !.mediaOpen = FALSE]

\* settle: events held back go through the terminal port, media does not.
Settle(o, result) ==
    [o EXCEPT !.terminal = [events |-> o.pendingEvents, result |-> result],
              !.pendingEvents = <<>>, !.pendingMedia = <<>>, !.mediaOpen = FALSE]

\* Events::receive: the channel first, then the events of the terminal port,
\* then its result.
NextEvent(o) ==
    IF o.events # <<>> THEN Head(o.events)
    ELSE IF o.terminal = None THEN None
    ELSE IF o.terminal.events # <<>> THEN Head(o.terminal.events)
    ELSE [sequence |-> o.sequence, body |-> [kind |-> "End", result |-> o.terminal.result]]
Taken(o) ==
    IF o.events # <<>> THEN [o EXCEPT !.events = Tail(@)]
    ELSE IF o.terminal # None /\ o.terminal.events # <<>>
    THEN [o EXCEPT !.terminal.events = Tail(@)]
    ELSE o

\* AudioOutput::receive
Heard(o, chunk) == chunk.epoch >= o.minEpoch

\* The actions of one protocol step, in order.
Perform(o, actions) ==
    FoldLeft(LAMBDA acc, a : IF acc.failure # None THEN acc
                             ELSE IF a.kind = "Media" THEN Media(acc, a)
                             ELSE Event(acc, a), o, actions)
=============================================================================
