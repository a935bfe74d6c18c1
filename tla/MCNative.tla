------------------------------ MODULE MCNative ------------------------------
(***************************************************************************)
(* Small instances of the adapters and of the components of MCComponents.  *)
(* The two native sessions, a MiniMax speech task and an OpenAI Live       *)
(* session, share the ports of Native and what a kernel may rely on;       *)
(* limits.session says which of the two an execution of `part` "native" is.*)
(***************************************************************************)
EXTENDS MCComponents

CONSTANTS
    EventRoom, EventLimit, MediaRoom, MediaLimit,
    CommandRoom, RtpModulus, TtsInstances, LiveInstances

VARIABLES limits, kernel, commands, driver, s, o, wire, service, seen
native == <<kernel, commands, driver, s, o, wire, service, seen>>

N == INSTANCE Native
T == INSTANCE TtsSession
L == INSTANCE LiveSession

\* Speech: texts, flushes and interruptions under a reliable link, fewer of
\* them over one that fails, and all that the kernel accepts, in any order.
Speech == [session |-> "tts", texts |-> 0, epochs |-> 0, flushes |-> 0, seals |-> 1,
           early |-> FALSE, late |-> FALSE, faults |-> FALSE, slow |-> FALSE]
AnyOrder == [Speech EXCEPT !.texts = 1, !.epochs = 1, !.flushes = 1, !.seals = 2,
                           !.early = TRUE, !.late = TRUE]
MCTts ==
    { [Speech EXCEPT !.texts = 1, !.epochs = 2],
      [Speech EXCEPT !.texts = 2, !.flushes = 1],
      [Speech EXCEPT !.texts = 1, !.epochs = 1, !.faults = TRUE, !.slow = TRUE],
      AnyOrder }
\* The host seals before the generation; instead it interrupts after the seal.
MCEarlySeal == {[Speech EXCEPT !.early = TRUE]}
MCLateInterrupt == {[Speech EXCEPT !.epochs = 1, !.late = TRUE]}

\* Live: input and commands, delegations and packets, and a link that fails.
Conversation == [session |-> "live", texts |-> 0, toggles |-> 0, seals |-> 1, delegations |-> 0,
                 input |-> 0, packets |-> 0, late |-> FALSE, faults |-> FALSE]
MCLive ==
    { [Conversation EXCEPT !.texts = 1, !.toggles = 2, !.input = 2],
      [Conversation EXCEPT !.delegations = 1, !.packets = 1],
      [Conversation EXCEPT !.packets = 3],
      [Conversation EXCEPT !.input = 1, !.delegations = 1, !.faults = TRUE],
      [Conversation EXCEPT !.texts = 1, !.toggles = 1, !.input = 1, !.delegations = 1,
                           !.seals = 2, !.late = TRUE] }
\* After the seal a message from outside comes in; instead the host seals again.
MCLateInput == {[Conversation EXCEPT !.texts = 1, !.late = TRUE]}
MCSecondSeal == {[Conversation EXCEPT !.delegations = 1, !.seals = 2]}
MCNone == {}

\* Candidate lists of a host: in either order, or with one of them.
MCOrders == LET a == CHOOSE c \in Candidates : TRUE
                b == CHOOSE c \in Candidates \ {a} : TRUE
            IN {<<a, b>>, <<b, a>>, <<b>>}

\* Two exchanges, or an exchange beside one of the others.
MCMixes == {<<"exchange", "exchange">>, <<"exchange", "socket">>, <<"signal", "exchange">>}

NoNative ==
    /\ limits = None /\ kernel = None /\ commands = None /\ driver = None /\ s = None
    /\ o = None /\ wire = None /\ service = None /\ seen = None
NativeInit ==
    /\ part = "native" /\ (T!Init \/ L!Init)
    /\ NoCircuit /\ NoResources /\ NoEstablishment /\ NoRequests /\ NoAgent /\ NoReach

Tts(step) == part = "native" /\ limits.session = "tts" /\ step
Live(step) == part = "native" /\ limits.session = "live" /\ step
NativeNext ==
    /\ Tts(T!Next) \/ Live(L!Next)
    /\ UNCHANGED vars

all == <<vars, limits, native>>
NativeSpec == NativeInit /\ [][NativeNext]_all
MCSpec ==
    /\ NativeInit \/ (Init /\ NoNative)
    /\ [][NativeNext \/ (Next /\ UNCHANGED <<limits, native>>)]_all

\* Fairness: a driver's task and the select's arms are scheduled, the remote
\* answers, a disconnection ends, the kernel receives events and the host
\* audio, the run generates, seals and closes; requests and the executors that
\* open a session take their next step.
Fairness ==
    /\ WF_native(Tts(T!DriverDone)) /\ WF_native(Tts(T!FlushOne)) /\ WF_native(Tts(T!ReceiveCommand))
    /\ WF_native(Tts(T!ReceiveFrame)) /\ WF_native(Tts(T!Service))
    /\ WF_native(Tts(T!ReceiveEvent)) /\ WF_native(Tts(T!ReceiveAudio))
    /\ WF_native(Tts(T!SubmitGenerate)) /\ WF_native(Tts(T!SubmitSeal)) /\ WF_native(Tts(T!SubmitClose))
    /\ WF_native(Live(L!Loop)) /\ WF_native(Live(L!ReceiveCommand)) /\ WF_native(Live(L!ReceiveInput))
    /\ WF_native(Live(L!ReceiveFrame)) /\ WF_native(Live(L!ReceivePacket)) /\ WF_native(Live(L!Written))
    /\ WF_native(Live(L!FlushOne)) /\ WF_native(Live(L!Answer)) /\ WF_native(Live(L!Grace))
    /\ WF_native(Live(L!ReceiveEvent)) /\ WF_native(Live(L!ReceiveAudio)) /\ WF_native(Live(L!Drop))
    /\ WF_native(Live(L!SubmitResult)) /\ WF_native(Live(L!SubmitSeal)) /\ WF_native(Live(L!SubmitClose))
    /\ \A c \in Callers : WF_requests(part = "requests" /\ Q!Step(c))
    /\ \A r \in Runs : WF_<<saved, opener, sessions, touched>>(
                            part = "establishment" /\ E!Advance(r))
FairSpec == MCSpec /\ Fairness

-----------------------------------------------------------------------------
\* Properties

\* The kernel receives every event a driver decided, in order, before the
\* result: whether it came through the channel or the terminal port.
EventsInOrder ==
    part = "native" /\ N!NextEvent(o) # None /\ kernel.end = None
        => N!NextEvent(o).sequence = seen.events

\* The host's audio is one stream after another, each numbered without gaps.
StreamsWellFormed ==
    part = "native" => Tts(T!StreamsWellFormed) \/ Live(L!StreamsWellFormed)

\* A session that ends well has handed over all the audio it received.
CloseLosesNothing ==
    part = "native" => Tts(T!CloseLosesNothing) \/ Live(L!CloseLosesNothing)

\* A protocol ends its session only over a command outside its order, before
\* the generation or after the seal, once all before it are acknowledged.
OrderedControlsServed ==
    part = "native" => Tts(T!OrderedControlsServed) \/ Live(L!OrderedControlsServed)

\* Whatever control the kernel accepts, no protocol ends its session over it.
ControlsAreServed ==
    part = "native" => Tts(T!ControlsAreServed) \/ Live(L!ControlsAreServed)

\* Acknowledged means written, to the last fragment and the last chunk.
AckedIsWritten == part = "native" /\ limits.session = "live" => L!AckedIsWritten

\* An interruption is not followed by speech from before it.
NoOldAudio ==
    [][part = "native" /\ limits.session = "tts" => T!NoOldAudioStep]_native

\* A run that seals gets the result of its session, a request its answer, and
\* an establishment its session or its error.
Ends == <>(/\ part = "native" => kernel.end # None
           /\ part = "establishment" => E!Ended
           /\ part = "requests" => Q!Ended)
=============================================================================
