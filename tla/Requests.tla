------------------------------ MODULE Requests ------------------------------
(***************************************************************************)
(* Requests of model adapters that share one refreshing credential and one *)
(* request limit: exchanges of an HTTP model, which hold a permit of the   *)
(* limit from before their first attempt until their response is read, and *)
(* retry a rejection; WebSocket handshakes and the creation of a Live      *)
(* session, which retry an unauthorized answer only.                       *)
(*                                                                         *)
(* Credentials are numbered by their generation.  Time is the set of       *)
(* generations that have expired: an attempt reads it before it waits for  *)
(* the credential's lock.                                                  *)
(***************************************************************************)
EXTENDS Integers, FiniteSets

CONSTANTS
    None,
    Callers,         \* the requests
    Mixes,           \* what kinds of requests they may be
    Limit,           \* permits of the request limit
    MaxAttempts,     \* attempts of the retry policy, the first included
    MaxGenerations   \* bound: credentials issued

VARIABLES
    caller,          \* for each caller, the state of its future
    permits,         \* the callers that hold a permit
    credential,      \* the shared provider: its lock and its current value
    remote           \* the service: generations issued, revoked, expired and
                     \* rejected, and how often it acted for each caller
requests == <<caller, permits, credential, remote>>

Generations == 1 .. MaxGenerations

New(kind) == [kind |-> kind, at |-> "new", now |-> {}, generation |-> None,
              attempt |-> 0, failed |-> 0, result |-> None]

Init ==
    /\ \E kinds \in Mixes : caller = [c \in Callers |-> New(kinds[c])]
    /\ permits = {}
    /\ credential = [holder |-> None, current |-> None]
    /\ remote = [newest |-> 0, revoked |-> {}, expired |-> {}, rejected |-> {},
                 acted |-> [c \in Callers |-> 0]]

At(c, place) == caller[c].at = place
Move(c, place) == caller' = [caller EXCEPT ![c].at = place]

\* The future of c ends: its guards give back the lock and the permit.
End(c, result) ==
    /\ caller' = [caller EXCEPT ![c].at = "done", ![c].result = result, ![c].now = {}]
    /\ permits' = permits \ {c}

\* c asks the provider for a credential at the present time.
Resolving(c, attempt) ==
    [caller EXCEPT ![c].at = "resolving", ![c].now = remote.expired, ![c].attempt = attempt]

-----------------------------------------------------------------------------
\* One request

\* An exchange waits for a permit, the other kinds start at once.
Begin(c) ==
    /\ At(c, "new")
    /\ IF caller[c].kind = "exchange"
       THEN Cardinality(permits) < Limit /\ permits' = permits \cup {c}
       ELSE UNCHANGED permits
    /\ caller' = Resolving(c, 0)
    /\ UNCHANGED <<credential, remote>>

\* The provider's lock covers the look at the current value and the refresh.
MayEnter(c) == credential.holder = None

Usable(c) == credential.current # None /\ credential.current \notin caller[c].now

UseCurrent(c) ==
    /\ At(c, "resolving") /\ MayEnter(c) /\ Usable(c)
    /\ caller' = [caller EXCEPT ![c].at = "sending", ![c].generation = credential.current,
                                ![c].now = {}]
    /\ UNCHANGED <<permits, credential, remote>>

StartRefresh(c) ==
    /\ At(c, "resolving") /\ MayEnter(c) /\ ~Usable(c)
    /\ Move(c, "refreshing")
    /\ credential' = [credential EXCEPT !.holder = c]
    /\ UNCHANGED <<permits, remote>>

Refreshed(c) ==
    /\ At(c, "refreshing") /\ remote.newest < MaxGenerations
    /\ LET g == remote.newest + 1 IN
        /\ remote' = [remote EXCEPT !.newest = g]
        /\ credential' = [holder |-> None, current |-> g]
        /\ caller' = [caller EXCEPT ![c].at = "sending", ![c].generation = g, ![c].now = {}]
    /\ UNCHANGED permits

\* The callback fails, or returns a value the provider does not accept.
RefreshFails(c) ==
    /\ At(c, "refreshing")
    /\ End(c, "failed")
    /\ credential' = [credential EXCEPT !.holder = None]
    /\ UNCHANGED remote

\* One credential is rejected once per attempt; a second 401 is an answer.
Unauthorized(c) ==
    /\ At(c, "sending")
    /\ caller[c].generation \in remote.revoked \cup remote.expired
    /\ remote' = [remote EXCEPT !.rejected = @ \cup {caller[c].generation}]
    /\ IF caller[c].attempt = 0
       THEN Move(c, "invalidating") /\ UNCHANGED permits
       ELSE End(c, "rejected")
    /\ UNCHANGED credential

\* A variant: whatever is current leaves.
WithoutAny(g) == None

\* Only the rejected generation leaves the provider: a newer one stays.
WithoutGeneration(g) == IF credential.current = g THEN None ELSE credential.current

Invalidate(c) ==
    /\ At(c, "invalidating") /\ MayEnter(c)
    /\ credential' = [credential EXCEPT !.current = WithoutGeneration(caller[c].generation)]
    /\ caller' = Resolving(c, 1)
    /\ UNCHANGED <<permits, remote>>

Authorized(c) == caller[c].generation \notin remote.revoked \cup remote.expired

\* The service acts on the request.  The body of an answer is still to be
\* read, a handshake is over.
Served(c) ==
    /\ At(c, "sending") /\ Authorized(c)
    /\ remote' = [remote EXCEPT !.acted[c] = @ + 1]
    /\ IF caller[c].kind = "socket"
       THEN End(c, "ok")
       ELSE Move(c, "reading") /\ UNCHANGED permits
    /\ UNCHANGED credential

\* Rejected for good: a status that is neither 401, 429 nor 5xx.
Refused(c) ==
    /\ At(c, "sending") /\ Authorized(c)
    /\ End(c, "rejected")
    /\ UNCHANGED <<credential, remote>>

\* A retryable rejection: 429, 5xx, or no connection, which sent nothing.  An
\* exchange waits while attempts remain and the deadline allows the delay.
Retries(c) == caller[c].kind = "exchange" /\ caller[c].failed + 1 < MaxAttempts

Backoff(c) ==
    /\ caller' = [caller EXCEPT ![c].at = "waiting", ![c].failed = @ + 1]
    /\ UNCHANGED permits

Busy(c) ==
    /\ At(c, "sending") /\ Authorized(c)
    /\ \/ Retries(c) /\ Backoff(c)
       \/ End(c, "rejected")
    /\ UNCHANGED <<credential, remote>>

\* A variant: lost is as good as not connected.
OnLostRetry(c) == IF Retries(c) THEN Backoff(c) ELSE End(c, "uncertain")

\* The connection is lost after the request may have been sent: an exchange
\* and a signal do not know whether the service acted.
OnLost(c) == End(c, "uncertain")

Lost(c) ==
    /\ At(c, "sending") /\ Authorized(c)
    /\ \/ UNCHANGED remote
       \/ remote' = [remote EXCEPT !.acted[c] = @ + 1]
    /\ IF caller[c].kind = "socket" THEN End(c, "failed") ELSE OnLost(c)
    /\ UNCHANGED credential

\* The delay is over: a new attempt resolves again.
Wake(c) ==
    /\ At(c, "waiting")
    /\ caller' = Resolving(c, 0)
    /\ UNCHANGED <<permits, credential, remote>>

\* The body arrives, or breaks off, which is uncertain.
Read(c) ==
    /\ At(c, "reading")
    /\ \E result \in {"ok", "uncertain"} : End(c, result)
    /\ UNCHANGED <<credential, remote>>

\* A variant: a refresh that is dropped keeps the lock.
ReleasedNever(c) == credential.holder

\* Cancellation or the deadline drops the future wherever it waits.  A request
\* on its way may still reach the service.
Released(c) == IF credential.holder = c THEN None ELSE credential.holder

Interrupt(c) ==
    /\ ~At(c, "done")
    /\ End(c, "interrupted")
    /\ credential' = [credential EXCEPT !.holder = Released(c)]
    /\ \/ UNCHANGED remote
       \/ /\ At(c, "sending") /\ Authorized(c)
          /\ remote' = [remote EXCEPT !.acted[c] = @ + 1]

-----------------------------------------------------------------------------
\* The service

\* Credentials end early, or by their time.
Revoke ==
    /\ \E g \in 1 .. remote.newest \ remote.revoked :
        remote' = [remote EXCEPT !.revoked = @ \cup {g}]
    /\ remote.newest < MaxGenerations
    /\ UNCHANGED <<caller, permits, credential>>

Expire ==
    /\ \E g \in 1 .. remote.newest \ remote.expired :
        remote' = [remote EXCEPT !.expired = @ \cup {g}]
    /\ remote.newest < MaxGenerations
    /\ UNCHANGED <<caller, permits, credential>>

Answer(c) == Served(c) \/ Unauthorized(c) \/ Refused(c) \/ Busy(c) \/ Lost(c)
Refresh(c) == Refreshed(c) \/ RefreshFails(c)
Step(c) == \/ Begin(c) \/ UseCurrent(c) \/ StartRefresh(c) \/ Refresh(c)
           \/ Answer(c) \/ Invalidate(c) \/ Wake(c) \/ Read(c)

Next == (\E c \in Callers : Step(c) \/ Interrupt(c)) \/ Revoke \/ Expire

-----------------------------------------------------------------------------
\* Properties

TypeOK ==
    /\ \A c \in Callers : caller[c].failed < MaxAttempts
    /\ permits \subseteq Callers
    /\ credential.holder \in Callers \cup {None}
    /\ credential.current \in 1 .. remote.newest \cup {None}

\* A credential is replaced only with a reason: the service rejected it or it
\* expired.  Callers that find it expired or rejected together, or that report
\* an old generation late, do not refresh twice.
RefreshedWithCause ==
    \A g \in 1 .. remote.newest - 1 : g \in remote.rejected \cup remote.expired

\* The service acts at most once for a request, whatever is lost, retried or
\* interrupted on the way.
NeverReplayed == \A c \in Callers : remote.acted[c] <= 1

\* Exchanges that the service may be answering stay within the limit, through
\* retries and while bodies are read.
WithinLimits ==
    Cardinality({c \in Callers : /\ caller[c].kind = "exchange"
                                 /\ caller[c].at \notin {"new", "done"}}) <= Limit

\* Every request ends: no dropped future leaves the lock or a permit behind.
Ended == \A c \in Callers : At(c, "done")
=============================================================================
