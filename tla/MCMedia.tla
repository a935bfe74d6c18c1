------------------------------ MODULE MCMedia ------------------------------
(***************************************************************************)
(* What a host exchanges with one invocation.  `part` says which half an   *)
(* execution is: the media of a session (output and interruption with and  *)
(* without a restart, input and its commands with and without a restart,   *)
(* both directions with a failing resource store), or its events, which    *)
(* Observer models.                                                        *)
(***************************************************************************)
EXTENDS Observer, Integers

CONSTANTS None, Streams, Instances

\* An absent chunk is none.
ASSUME NoneIsNoChunk ==
    None \notin [stream : Streams \cup Nat, epoch : Nat, sequence : Nat, end : BOOLEAN]

VARIABLES part, limits, cp, store, eng, queue, sealer, hostOut, hostIn, sender, remote, seen
media == <<cp, store, eng, queue, sealer, hostOut, hostIn, sender, remote, seen>>

M == INSTANCE Media

ASSUME InstancesAreLimits == Instances \subseteq M!Limits

Nothing == [chunks |-> 0, input |-> 0, epoch |-> 0, flushes |-> 0, packets |-> 2,
            attempts |-> 1, seals |-> TRUE, fails |-> FALSE]

MCInstances ==
    { [Nothing EXCEPT !.chunks = 2, !.epoch = 1],
      [Nothing EXCEPT !.chunks = 2, !.epoch = 1, !.attempts = 2, !.seals = FALSE, !.packets = 1],
      [Nothing EXCEPT !.input = 3, !.flushes = 1],
      [Nothing EXCEPT !.input = 2, !.attempts = 2, !.packets = 1],
      [Nothing EXCEPT !.chunks = 1, !.input = 1, !.fails = TRUE] }

MCInit ==
    /\ Init /\ M!Init
    /\ \/ part = "media"
       \/ part = "events" /\ limits = CHOOSE i \in Instances : TRUE

InMedia(A) == part = "media" /\ A /\ UNCHANGED <<part, vars>>
InEvents(A) == part = "events" /\ A /\ UNCHANGED <<part, limits, media>>

MCNext == InMedia(M!Next) \/ InEvents(Next)

\* Fairness as in Media and Observer, each in its part.
MCFairness ==
    /\ WF_media(InMedia(M!SealerTake)) /\ WF_media(InMedia(M!MediaReady))
    /\ WF_media(InMedia(M!SealerDeliver)) /\ WF_media(InMedia(M!MediaError))
    /\ WF_media(InMedia(M!MediaDone)) /\ WF_media(InMedia(M!Input))
    /\ WF_media(InMedia(M!Opened)) /\ WF_media(InMedia(M!Dispatch)) /\ WF_media(InMedia(M!Submit))
    /\ WF_media(InMedia(M!Receive)) /\ WF_media(InMedia(M!PrepareClose))
    /\ WF_media(InMedia(M!Complete)) /\ WF_media(InMedia(M!Finish)) /\ WF_media(InMedia(M!React))
    /\ WF_media(InMedia(M!HostReceive)) /\ WF_media(InMedia(M!ControlSeal))
    /\ WF_media(InMedia(M!Attach))
    /\ WF_vars(InEvents(Emit)) /\ WF_vars(InEvents(Settle))
    /\ WF_vars(InEvents(Close)) /\ WF_vars(InEvents(Drive))

MCSpec == MCInit /\ [][MCNext]_<<part, limits, media, vars>> /\ MCFairness

-----------------------------------------------------------------------------
\* Properties; those of Media hold of `media` in both parts.

\* What is recorded is what was committed, and a stream is archived once.
RecordIsCommitted == M!RecordIsCommitted
ArchivedForGood == M!ArchivedForGood

\* The host receives what is recorded; the model all input, before commands.
ReceivedIsRecorded == M!ReceivedIsRecorded
InputFirst == M!InputFirst
CompletedIsDrained == M!CompletedIsDrained

\* Nothing of an old epoch reaches the host.
NoStaleOutput == M!NoStaleOutput

\* A sealed run accepts no more media.
SealAdmitsNothing == M!SealAdmitsNothing

\* The host gets its result: with all media drained or stopped, and however
\* slowly it handles its events.
HostIsServed == <>(IF part = "media" THEN M!Settled ELSE DriveReturned)
=============================================================================
