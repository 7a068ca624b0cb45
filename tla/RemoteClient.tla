---------------------------- MODULE RemoteClient ----------------------------
(***************************************************************************)
(* The database adapter of a client process that talks to a connection     *)
(* server (src/infrastructure/remote-transport: RemoteDatabaseAdapter,     *)
(* remote-grpc.ts, errors.ts).                                             *)
(*                                                                         *)
(* Callers share one bundle of gRPC clients.  A call that fails with a     *)
(* transient error waits for a reconnect, which all calls that fail in the *)
(* meantime share, and is then sent once more over whatever bundle is      *)
(* current.  A bundle is the number of its creation.  The server and the   *)
(* channel are external: they may lose, refuse, delay or fail a call, and  *)
(* the server runs on what its caller has given up.                        *)
(***************************************************************************)
EXTENDS Naturals, FiniteSets

CONSTANTS
    Callers,    \* concurrent users of the adapter
    MaxCalls,   \* bound on the calls of one caller
    MaxCrashes   \* bound on server crashes

ASSUME CallersAssumption ==
    IsFiniteSet(Callers) /\ MaxCalls \in Nat /\ MaxCrashes \in Nat

VARIABLES
    clients,     \* this.clients: the current bundle, or NoBundle
    open,        \* the bundles whose channels are not closed
    made,        \* how many bundles have been created
    connecting,  \* what initialize() or reconnect() is waiting for
    call,        \* the call of each caller
    serverUp,
    crashes,
    closed       \* close() has been called: "no", "quiet", or "racing" when a
                 \* reconnect was under way

adapterVars == <<clients, open, made, connecting, call, serverUp, crashes, closed>>

NoBundle == 0
Bundles == Nat \ {NoBundle}

\* errors.ts: the error classes a server answers with, the gRPC status each is
\* sent as, and whether it says that trying again makes sense.
ServerErrors ==
    { [name |-> "QUEUE_FULL", status |-> "RESOURCE_EXHAUSTED", retryable |-> TRUE],
      [name |-> "REQUEST_TIMEOUT", status |-> "DEADLINE_EXCEEDED", retryable |-> TRUE],
      [name |-> "SERVER_DRAINING", status |-> "UNAVAILABLE", retryable |-> TRUE],
      [name |-> "SERVER_SHUTTING_DOWN", status |-> "UNAVAILABLE", retryable |-> TRUE],
      [name |-> "INVALID_ARGUMENT", status |-> "INVALID_ARGUMENT", retryable |-> FALSE],
      [name |-> "INTERNAL_ERROR", status |-> "INTERNAL", retryable |-> FALSE] }

\* What gRPC itself reports.
DeadlineExceeded ==
    [name |-> "deadline", status |-> "DEADLINE_EXCEEDED", retryable |-> TRUE]
Unavailable ==
    [name |-> "unavailable", status |-> "UNAVAILABLE", retryable |-> TRUE]

\* isTransientGrpcError() goes by the status code alone.
IsTransient(e) ==
    e.status \in {"UNAVAILABLE", "DEADLINE_EXCEEDED", "RESOURCE_EXHAUSTED"}

Calls == [pc : {"idle", "sent", "running", "reconnecting"},
          left : 0..MaxCalls, attempt : 0..2, bundle : Bundles \union {NoBundle},
          failedOn : Bundles \union {NoBundle},
          worthIt : BOOLEAN,   \* the first error was a retryable one
          outcome : {"none", "ok", "error", "closed", "unconnected"}]

Nothing == [for |-> "nothing", next |-> NoBundle, previous |-> NoBundle]

AdapterTypeOK ==
    /\ clients \in Bundles \union {NoBundle}
    /\ made \in Nat
    /\ open \subseteq 1..made
    /\ connecting \in [for : {"nothing", "initialize", "reconnect"},
                       next : Bundles \union {NoBundle},
                       previous : Bundles \union {NoBundle}]
    /\ call \in [Callers -> Calls]
    /\ serverUp \in BOOLEAN
    /\ crashes \in 0..MaxCrashes
    /\ closed \in {"no", "quiet", "racing"}
    /\ \A c \in Callers :
          call[c].pc = "reconnecting" => connecting.for = "reconnect"

FreshCall == [pc |-> "idle", left |-> MaxCalls, attempt |-> 0, bundle |-> NoBundle,
          failedOn |-> NoBundle, worthIt |-> FALSE, outcome |-> "none"]

AdapterInit ==
    /\ clients = NoBundle /\ open = {} /\ made = 0 /\ connecting = Nothing
    /\ call = [c \in Callers |-> FreshCall]
    /\ serverUp \in BOOLEAN
    /\ crashes = 0
    /\ closed = "no"

-----------------------------------------------------------------------------
\* initialize(): a first bundle, which becomes current when it is ready.
Initialize ==
    /\ made = 0
    /\ made' = 1 /\ open' = {1}
    /\ connecting' = [for |-> "initialize", next |-> 1, previous |-> NoBundle]
    /\ UNCHANGED <<clients, call, serverUp, crashes, closed>>

Settled(k, how) ==
    [k EXCEPT !.pc = "idle", !.bundle = NoBundle, !.failedOn = NoBundle, !.outcome = how]

\* execute() for the second time, over the bundle that is current by then.
SentAgain(k, bundle) == [k EXCEPT !.pc = "sent", !.attempt = 2, !.bundle = bundle]

\* The calls that wait for the reconnect go on: execute() again on success,
\* the error of the reconnect otherwise.
Resume(step(_)) ==
    call' = [c \in Callers |->
                IF call[c].pc = "reconnecting" THEN step(call[c]) ELSE call[c]]

\* waitForReadyWithRetry() resolves for both clients.  After a reconnect the
\* new bundle replaces the old one, the old one is closed, and every waiting
\* call is sent again, all before anything else runs.
Connected ==
    /\ connecting.for # "nothing"
    /\ serverUp
    /\ clients' = connecting.next
    /\ open' = open \ {connecting.previous}
    /\ Resume(LAMBDA k : SentAgain(k, connecting.next))
    /\ connecting' = Nothing
    /\ UNCHANGED <<made, serverUp, crashes, closed>>

\* Regression: the calls that joined the reconnect do not learn that it failed.
ConnectFailsSilently ==
    /\ connecting.for # "nothing"
    /\ open' = open \ {connecting.next}
    /\ connecting' = Nothing
    /\ UNCHANGED <<clients, made, call, serverUp, crashes, closed>>

\* The connect budget is used up.  reconnect() closes the clients it made;
\* initialize() leaves them open.
ConnectFails ==
    /\ connecting.for # "nothing"
    /\ open' = IF connecting.for = "reconnect"
               THEN open \ {connecting.next} ELSE open
    /\ Resume(LAMBDA k : Settled(k, "unconnected"))
    /\ connecting' = Nothing
    /\ UNCHANGED <<clients, made, serverUp, crashes, closed>>

-----------------------------------------------------------------------------
\* What callWithReconnect() begins with.
FirstAttempt(k, bundle) ==
    [FreshCall EXCEPT !.left = k.left - 1, !.attempt = 1, !.bundle = bundle]

\* A method of the graph or vector adapter: callGraph() or callVector(), whose
\* first attempt needs a current bundle.
Call(c) ==
    /\ call[c].pc = "idle" /\ call[c].left > 0
    /\ made > 0 /\ connecting.for # "initialize"
    /\ LET k == FirstAttempt(call[c], clients)
       IN  call' = [call EXCEPT ![c] =
                       IF clients = NoBundle
                       THEN Settled(k, "closed")
                       ELSE [k EXCEPT !.pc = "sent"]]
    /\ UNCHANGED <<clients, open, made, connecting, serverUp, crashes, closed>>

\* Regression: a reconnect that does not look for one under way.
ReconnectAlone(c, k) ==
    IF clients = NoBundle
    THEN /\ call' = [call EXCEPT ![c] = Settled(k, "closed")]
         /\ UNCHANGED <<open, made, connecting>>
    ELSE /\ made' = made + 1
         /\ open' = open \union {made + 1}
         /\ connecting' = [for |-> "reconnect", next |-> made + 1,
                           previous |-> clients]
         /\ call' = [call EXCEPT ![c] = [k EXCEPT !.pc = "reconnecting"]]

\* reconnect(): join the one under way, or begin one, for which the adapter
\* must not be closed.
Reconnect(c, k) ==
    \/ /\ connecting.for = "reconnect"
       /\ call' = [call EXCEPT ![c] = [k EXCEPT !.pc = "reconnecting"]]
       /\ UNCHANGED <<open, made, connecting>>
    \/ /\ connecting.for = "nothing" /\ clients = NoBundle
       /\ call' = [call EXCEPT ![c] = Settled(k, "closed")]
       /\ UNCHANGED <<open, made, connecting>>
    \/ /\ connecting.for = "nothing" /\ clients # NoBundle
       /\ made' = made + 1
       /\ open' = open \union {made + 1}
       /\ connecting' = [for |-> "reconnect", next |-> made + 1,
                         previous |-> clients]
       /\ call' = [call EXCEPT ![c] = [k EXCEPT !.pc = "reconnecting"]]

\* Regression: a transient error is retried over the same bundle, at once.
FailRetryingAtOnce(c, e) ==
    /\ UNCHANGED <<open, made, connecting>>
    /\ LET k == call[c]
       IN  call' = [call EXCEPT ![c] =
                       IF k.attempt = 1 /\ IsTransient(e)
                       THEN [k EXCEPT !.pc = "sent", !.attempt = 2,
                                      !.failedOn = k.bundle]
                       ELSE Settled(k, "error")]

\* Of the first error it is recorded whether another attempt is worth it.
Noted(k, e) ==
    IF k.attempt = 1
    THEN [k EXCEPT !.worthIt = e.retryable, !.failedOn = k.bundle]
    ELSE k

\* The catch of callWithReconnect(): one more attempt after a transient error.
Fail(c, e) ==
    LET k == Noted(call[c], e)
    IN  \/ /\ k.attempt = 1 /\ IsTransient(e)
           /\ Reconnect(c, k)
        \/ /\ k.attempt = 2 \/ ~IsTransient(e)
           /\ call' = [call EXCEPT ![c] = Settled(k, "error")]
           /\ UNCHANGED <<open, made, connecting>>

-----------------------------------------------------------------------------
\* The server's side of a call and the channel between, external.

\* The call reaches the server, which starts to execute it.
Deliver(c) ==
    /\ call[c].pc = "sent" /\ serverUp
    /\ call[c].bundle \in open
    /\ call' = [call EXCEPT ![c].pc = "running"]
    /\ UNCHANGED <<clients, open, made, connecting, serverUp, crashes, closed>>

Answer(c) ==
    /\ call[c].pc = "running" /\ serverUp
    /\ call' = [call EXCEPT ![c] = Settled(@, "ok")]
    /\ UNCHANGED <<clients, open, made, connecting, serverUp, crashes, closed>>

\* The server answers with an error, with or without having run the call.
Refuse(c) ==
    /\ call[c].pc \in {"sent", "running"} /\ serverUp
    /\ call[c].pc = "sent" => call[c].bundle \in open
    /\ \E e \in ServerErrors : Fail(c, e)
    /\ UNCHANGED <<clients, serverUp, crashes, closed>>

\* The deadline of the call passes; what the server is doing it goes on doing.
Deadline(c) ==
    /\ call[c].pc \in {"sent", "running"}
    /\ Fail(c, DeadlineExceeded)
    /\ UNCHANGED <<clients, serverUp, crashes, closed>>

\* The server is gone, or the bundle was closed before the call had started.
Lost(c) ==
    /\ call[c].pc \in {"sent", "running"}
    /\ ~serverUp \/ (call[c].pc = "sent" /\ call[c].bundle \notin open)
    /\ Fail(c, Unavailable)
    /\ UNCHANGED <<clients, serverUp, crashes, closed>>

ServerCrash ==
    /\ serverUp /\ crashes < MaxCrashes
    /\ serverUp' = FALSE /\ crashes' = crashes + 1
    /\ UNCHANGED <<clients, open, made, connecting, call, closed>>

ServerStart ==
    /\ ~serverUp /\ serverUp' = TRUE
    /\ UNCHANGED <<clients, open, made, connecting, call, crashes, closed>>

-----------------------------------------------------------------------------
\* close(): nothing to do without a current bundle, which includes every
\* moment of initialize().
Close ==
    /\ clients # NoBundle
    /\ open' = open \ {clients}
    /\ clients' = NoBundle
    /\ closed' = IF connecting.for = "reconnect" THEN "racing"
                 ELSE IF closed = "no" THEN "quiet" ELSE closed
    /\ UNCHANGED <<made, connecting, call, serverUp, crashes>>

AdapterNext ==
    \/ Initialize \/ Connected \/ ConnectFails \/ Close
    \/ ServerCrash \/ ServerStart
    \/ \E c \in Callers :
          Call(c) \/ Deliver(c) \/ Answer(c) \/ Refuse(c) \/ Deadline(c) \/ Lost(c)

\* gRPC enforces the deadline of every call, and waitForReadyWithRetry() has a
\* total budget: both end whatever the server does.
AdapterFairness ==
    /\ WF_adapterVars(Connected \/ ConnectFails)
    /\ \A c \in Callers : WF_adapterVars(Deadline(c))

AdapterSpec == AdapterInit /\ [][AdapterNext]_adapterVars /\ AdapterFairness

-----------------------------------------------------------------------------
\* Whatever reconnects, failures and close() do in whatever order, the bundle
\* that calls are sent over is one whose channels are open, and every open
\* channel is the current one or the one a reconnect waits for: a CLI that has
\* closed its adapter is not kept alive by a channel nobody can close.  The
\* clients of a failed initialize() are the exception.
NoLeakedChannel ==
    /\ clients # NoBundle => clients \in open
    /\ open \subseteq {clients, connecting.next} \union
                      (IF clients = NoBundle /\ closed = "no" THEN {1} ELSE {})

\* A closed adapter stays closed: no call reopens it.  Only a reconnect that
\* was under way when close() came brings a bundle back.
ClosedStaysClosed ==
    closed = "quiet" => clients = NoBundle /\ open = {} /\ connecting = Nothing

\* The bundle the adapter holds, the channels it has opened and close() agree.
BundlesSound == AdapterTypeOK /\ NoLeakedChannel /\ ClosedStaysClosed

\* The second attempt never goes over the bundle the first one failed on, or
\* an older one, whoever began the reconnect it waited for.
RetryOnFreshBundle ==
    \A c \in Callers :
        call[c].pc \in {"sent", "running"} /\ call[c].attempt = 2 =>
            call[c].bundle > call[c].failedOn

\* The client's choice by status code agrees with the retryable flag the error
\* classes carry: a call is tried again only when the server would say so, and
\* an error that is worth another attempt is given to the caller only after it.
RetriedIffRetryable ==
    \A c \in Callers :
        /\ call[c].attempt = 2 => call[c].worthIt
        /\ call[c].attempt = 1 /\ call[c].outcome = "error" => ~call[c].worthIt

\* A second attempt is made when, and only when, it can succeed.
RetriesSound == RetryOnFreshBundle /\ RetriedIffRetryable

\* Every call settles, whatever the server, the channel and close() do.
CallsSettle == \A c \in Callers : call[c].pc # "idle" ~> call[c].pc = "idle"
=============================================================================
