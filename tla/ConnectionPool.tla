--------------------------- MODULE ConnectionPool ---------------------------
(***************************************************************************)
(* The embedded connection pool                                            *)
(* (src/infrastructure/persistence/connection-pool.ts, pool-helpers.ts)    *)
(* and the adapters that use it (database-adapter.ts): each adapter        *)
(* acquires one connection in initialize() and gives it back in close().   *)
(*                                                                         *)
(* acquire() awaits a health check, the close of a sick connection and the *)
(* opening of a new one; drain() awaits the close of each idle connection. *)
(* Every await lets the other callers run, so each stretch of code between *)
(* two awaits is an action.                                                *)
(*                                                                         *)
(* Each awaited close() of a connection may reject.  Nothing catches that: *)
(* acquire(), release() or drain() throws at that point, and what comes    *)
(* after it in the code does not happen.  The connection may be left open, *)
(* and then neither the pool nor a caller can reach it any more.           *)
(***************************************************************************)
EXTENDS Integers, Sequences, FiniteSets, SequencesExt

CONSTANTS
    Callers,        \* the adapters
    MaxConnections,
    MinConnections,
    Conns,          \* connection handles; a closed one may be used again
    FirstConn,      \* the handle createLadybugConnection() itself opened
    NoConn

\* validatePoolConfig(); enough handles for every caller at once.
ASSUME PoolConfigAssumption ==
    /\ MaxConnections \in Nat \ {0}
    /\ MinConnections \in 0..MaxConnections
    /\ IsFiniteSet(Callers) /\ IsFiniteSet(Conns)
    /\ Cardinality(Conns) > MaxConnections + Cardinality(Callers)
    /\ FirstConn \in Conns /\ NoConn \notin Conns

VARIABLES
    idle,        \* idle connections, the last one is handed out first
    active,      \* the set of connections handed out
    waitQueue,   \* callers waiting for a release, first come first served
    drained,     \* the flag that makes acquire() throw
    drainStage,  \* progress of drain()
    closing,     \* index of the next idle connection drain() closes
    open,        \* connections open against the database
    dbOpen,      \* the shared database itself
    pc,          \* where each caller is in acquire()/close()
    conn,        \* the connection each caller works with
    late,        \* callers inside acquire() when drain() began
    lost         \* history: connections left open by a close() that rejected

vars == <<idle, active, waitQueue, drained, drainStage, closing, open, dbOpen,
          pc, conn, late, lost>>

\* "failed" is an acquire() that threw, "closeFailed" a close() that did.
CallerStages == {"start", "validating", "discarding", "creating", "waiting",
                 "holding", "releasing", "closed", "failed", "closeFailed"}

DrainStages == {"none", "closingIdle", "waiting", "closingDatabase", "done", "failed"}

TypeOK ==
    /\ idle \in Seq(Conns)
    /\ active \subseteq Conns
    /\ waitQueue \in Seq(Callers)
    /\ drained \in BOOLEAN
    /\ drainStage \in DrainStages
    /\ closing \in Nat
    /\ open \subseteq Conns
    /\ dbOpen \in BOOLEAN
    /\ pc \in [Callers -> CallerStages]
    /\ conn \in [Callers -> Conns \union {NoConn}]
    /\ \A k \in Callers :
          conn[k] # NoConn <=>
             pc[k] \in {"validating", "discarding", "holding", "releasing"}
    /\ late \subseteq Callers
    /\ lost \subseteq Conns

\* create(): one connection comes with the database, whatever minConnections
\* says, and minConnections - 1 more are opened.  Handles are interchangeable.
Prewarmed == IF MinConnections = 0 THEN 1 ELSE MinConnections

Init ==
    /\ idle = CHOOSE s \in [1..Prewarmed -> Conns] :
                 IsInjective(s) /\ s[1] = FirstConn
    /\ active = {}
    /\ waitQueue = <<>>
    /\ drained = FALSE
    /\ drainStage = "none"
    /\ closing = 1
    /\ open = ToSet(idle)
    /\ dbOpen = TRUE
    /\ pc = [k \in Callers |-> "start"]
    /\ conn = [k \in Callers |-> NoConn]
    /\ late = {}
    /\ lost = {}

-----------------------------------------------------------------------------
\* Regression: a waiter goes to the front of the queue.
NextConnectionLifo(k) ==
    \/ /\ idle # <<>>
       /\ idle' = Front(idle)
       /\ conn' = [conn EXCEPT ![k] = Last(idle)]
       /\ pc' = [pc EXCEPT ![k] = "validating"]
       /\ UNCHANGED waitQueue
    \/ /\ idle = <<>>
       /\ Cardinality(active) < MaxConnections
       /\ conn' = [conn EXCEPT ![k] = NoConn]
       /\ pc' = [pc EXCEPT ![k] = "creating"]
       /\ UNCHANGED <<idle, waitQueue>>
    \/ /\ idle = <<>>
       /\ Cardinality(active) >= MaxConnections
       /\ conn' = [conn EXCEPT ![k] = NoConn]
       /\ pc' = [pc EXCEPT ![k] = "waiting"]
       /\ waitQueue' = <<k>> \o waitQueue
       /\ UNCHANGED idle

\* The part of acquire() between two awaits: take the newest idle connection
\* and check it, else open one below the maximum, else wait in the queue.
NextConnection(k) ==
    \/ /\ idle # <<>>
       /\ idle' = Front(idle)
       /\ conn' = [conn EXCEPT ![k] = Last(idle)]
       /\ pc' = [pc EXCEPT ![k] = "validating"]
       /\ UNCHANGED waitQueue
    \/ /\ idle = <<>>
       /\ Cardinality(active) < MaxConnections
       /\ conn' = [conn EXCEPT ![k] = NoConn]
       /\ pc' = [pc EXCEPT ![k] = "creating"]
       /\ UNCHANGED <<idle, waitQueue>>
    \/ /\ idle = <<>>
       /\ Cardinality(active) >= MaxConnections
       /\ conn' = [conn EXCEPT ![k] = NoConn]
       /\ pc' = [pc EXCEPT ![k] = "waiting"]
       /\ waitQueue' = Append(waitQueue, k)
       /\ UNCHANGED idle

\* acquire(): PoolDrainedError once drain() has begun.
Acquire(k) ==
    /\ pc[k] = "start"
    /\ \/ /\ drained
          /\ pc' = [pc EXCEPT ![k] = "failed"]
          /\ UNCHANGED <<idle, waitQueue, conn>>
       \/ /\ ~drained
          /\ NextConnection(k)
    /\ UNCHANGED <<active, drained, drainStage, closing, open, dbOpen, late, lost>>

\* The health check answers.  A closed connection cannot answer; an open one
\* may be sick.
Validated(k) ==
    /\ pc[k] = "validating"
    /\ conn[k] \in open
    /\ active' = active \union {conn[k]}
    /\ pc' = [pc EXCEPT ![k] = "holding"]
    /\ UNCHANGED <<idle, waitQueue, drained, drainStage, closing, open, dbOpen,
                   conn, late, lost>>

ValidationFailed(k) ==
    /\ pc[k] = "validating"
    /\ pc' = [pc EXCEPT ![k] = "discarding"]
    /\ UNCHANGED <<idle, active, waitQueue, drained, drainStage, closing, open,
                   dbOpen, conn, late, lost>>

\* The sick connection is closed and acquire() goes on, without another look
\* at the drained flag.
Discarded(k) ==
    /\ pc[k] = "discarding"
    /\ open' = open \ {conn[k]}
    /\ NextConnection(k)
    /\ UNCHANGED <<active, drained, drainStage, closing, dbOpen, late, lost>>

\* close() of connection c rejects; it may or may not be closed all the same.
CloseRejects(c) ==
    \/ open' = open \ {c} /\ UNCHANGED lost
    \/ c \in open /\ lost' = lost \union {c} /\ UNCHANGED open

\* The close of the sick connection rejects: acquire() throws, and the
\* connection, already popped, is in no list.
DiscardRejected(k) ==
    /\ pc[k] = "discarding"
    /\ CloseRejects(conn[k])
    /\ pc' = [pc EXCEPT ![k] = "failed"]
    /\ conn' = [conn EXCEPT ![k] = NoConn]
    /\ UNCHANGED <<idle, active, waitQueue, drained, drainStage, closing, dbOpen, late>>

\* Handles some variable of the program still refers to, and those left open.
InUse == {FirstConn} \union open \union active \union ToSet(idle)
            \union {conn[k] : k \in Callers} \union lost

\* createPooledConnection() returns, or throws.
Created(k) ==
    /\ pc[k] = "creating"
    /\ dbOpen
    /\ LET c == CHOOSE x \in Conns \ InUse : TRUE
       IN  /\ open' = open \union {c}
           /\ active' = active \union {c}
           /\ conn' = [conn EXCEPT ![k] = c]
    /\ pc' = [pc EXCEPT ![k] = "holding"]
    /\ UNCHANGED <<idle, waitQueue, drained, drainStage, closing, dbOpen, late, lost>>

CreationFailed(k) ==
    /\ pc[k] = "creating"
    /\ pc' = [pc EXCEPT ![k] = "failed"]
    /\ UNCHANGED <<idle, active, waitQueue, drained, drainStage, closing, open,
                   dbOpen, conn, late, lost>>

\* acquireTimeoutMs passes: PoolExhaustedError.
WaitTimeout(k) ==
    /\ pc[k] = "waiting"
    /\ \E i \in DOMAIN waitQueue :
          /\ waitQueue[i] = k
          /\ waitQueue' = RemoveAt(waitQueue, i)
    /\ pc' = [pc EXCEPT ![k] = "failed"]
    /\ UNCHANGED <<idle, active, drained, drainStage, closing, open, dbOpen,
                   conn, late, lost>>

\* Regressions of release(): the waiters are not looked at; the connection
\* stays active when it goes back to the idle list.
CloseIgnoringWaiters(k) ==
    /\ pc[k] = "holding"
    /\ pc' = [pc EXCEPT ![k] = "closed"]
    /\ conn' = [conn EXCEPT ![k] = NoConn]
    /\ active' = active \ {conn[k]}
    /\ idle' = Append(idle, conn[k])
    /\ UNCHANGED <<waitQueue, drained, drainStage, closing, open, dbOpen, late, lost>>

\* close() of an adapter: release() of the connection it holds.
Close(k) ==
    /\ pc[k] = "holding"
    /\ \/ \* draining: await the close of the connection
          /\ drained
          /\ active' = active \ {conn[k]}
          /\ pc' = [pc EXCEPT ![k] = "releasing"]
          /\ UNCHANGED <<idle, waitQueue, conn>>
       \/ \* hand over to the first waiter
          /\ ~drained
          /\ waitQueue # <<>>
          /\ waitQueue' = Tail(waitQueue)
          /\ pc' = [pc EXCEPT ![k] = "closed", ![Head(waitQueue)] = "holding"]
          /\ conn' = [conn EXCEPT ![Head(waitQueue)] = conn[k], ![k] = NoConn]
          /\ UNCHANGED <<idle, active>>
       \/ \* back to the idle list
          /\ ~drained
          /\ waitQueue = <<>>
          /\ active' = active \ {conn[k]}
          /\ idle' = Append(idle, conn[k])
          /\ pc' = [pc EXCEPT ![k] = "closed"]
          /\ conn' = [conn EXCEPT ![k] = NoConn]
          /\ UNCHANGED waitQueue
    /\ UNCHANGED <<drained, drainStage, closing, open, dbOpen, late, lost>>

\* Regressions: the last release does not wake drain(); the adapter keeps its
\* reference.
ReleasedWithoutSignal(k) ==
    /\ pc[k] = "releasing"
    /\ open' = open \ {conn[k]}
    /\ pc' = [pc EXCEPT ![k] = "closed"]
    /\ conn' = [conn EXCEPT ![k] = NoConn]
    /\ UNCHANGED <<idle, active, waitQueue, drained, drainStage, closing,
                   dbOpen, late, lost>>

\* A connection released while draining is closed; the one that finds nothing
\* active lets drain() go on.
Released(k) ==
    /\ pc[k] = "releasing"
    /\ open' = open \ {conn[k]}
    /\ drainStage' = IF active = {} /\ drainStage = "waiting"
                     THEN "closingDatabase" ELSE drainStage
    /\ pc' = [pc EXCEPT ![k] = "closed"]
    /\ conn' = [conn EXCEPT ![k] = NoConn]
    /\ UNCHANGED <<idle, active, waitQueue, drained, closing, dbOpen, late, lost>>

\* That close rejects: the adapter's close() throws, and drain() is not woken
\* even if nothing is active any more.
ReleaseRejected(k) ==
    /\ pc[k] = "releasing"
    /\ CloseRejects(conn[k])
    /\ pc' = [pc EXCEPT ![k] = "closeFailed"]
    /\ conn' = [conn EXCEPT ![k] = NoConn]
    /\ UNCHANGED <<idle, active, waitQueue, drained, drainStage, closing, dbOpen, late>>

\* evictIdleConnections(), from the interval timer drain() stops.  The idle
\* list is ordered by lastUsedAt, so the expired entries are its first n.  No
\* close is awaited, and a rejecting one is swallowed.
EvictIdle ==
    /\ ~drained
    /\ \E n \in 1..Len(idle) :
          /\ n <= Cardinality(active) + Len(idle) - MinConnections
          /\ idle' = SubSeq(idle, n + 1, Len(idle))
          /\ \E left \in SUBSET (open \intersect ToSet(SubSeq(idle, 1, n))) :
                /\ open' = open \ (ToSet(SubSeq(idle, 1, n)) \ left)
                /\ lost' = lost \union left
    /\ UNCHANGED <<active, waitQueue, drained, drainStage, closing, dbOpen, pc,
                   conn, late>>

-----------------------------------------------------------------------------
InAcquire(k) == pc[k] \in {"validating", "discarding", "creating"}

\* drain(): set the flag, stop the eviction timer, start closing.
StartDrain ==
    /\ drainStage = "none"
    /\ drained' = TRUE
    /\ drainStage' = "closingIdle"
    /\ late' = {k \in Callers : InAcquire(k)}
    /\ UNCHANGED <<idle, active, waitQueue, closing, open, dbOpen, pc, conn, lost>>

\* One turn of "for (const conn of this.idle) await close": the list is live.
CloseNextIdle ==
    /\ drainStage = "closingIdle"
    /\ closing <= Len(idle)
    /\ open' = open \ {idle[closing]}
    /\ closing' = closing + 1
    /\ UNCHANGED <<idle, active, waitQueue, drained, drainStage, dbOpen, pc,
                   conn, late, lost>>

\* That close rejects: drain() throws, with the connection still in the idle
\* list and the waiters still in the queue, left to their timers.
CloseIdleRejected ==
    /\ drainStage = "closingIdle"
    /\ closing <= Len(idle)
    /\ open' \in {open, open \ {idle[closing]}}
    /\ drainStage' = "failed"
    /\ UNCHANGED <<idle, active, waitQueue, drained, closing, dbOpen, pc, conn,
                   late, lost>>

\* The loop ends: empty the idle list, reject the waiters, wait for the active
\* connections or go on.
IdleClosed ==
    /\ drainStage = "closingIdle"
    /\ closing > Len(idle)
    /\ idle' = <<>>
    /\ waitQueue' = <<>>
    /\ pc' = [k \in Callers |-> IF k \in ToSet(waitQueue) THEN "failed" ELSE pc[k]]
    /\ drainStage' = IF active # {} THEN "waiting" ELSE "closingDatabase"
    /\ UNCHANGED <<active, drained, closing, open, dbOpen, conn, late, lost>>

\* ladybugConnection.close() has closed its own connection and the database,
\* and drain() returns.
DatabaseClosed ==
    /\ drainStage = "closingDatabase"
    /\ drainStage' = "done"
    /\ dbOpen' = FALSE
    /\ open' = open \ {FirstConn}
    /\ lost' = lost \ {FirstConn}
    /\ UNCHANGED <<idle, active, waitQueue, drained, closing, pc, conn, late>>

\* ladybugConnection.close() rejects, before or after it closed anything.
DatabaseCloseFails ==
    /\ drainStage = "closingDatabase"
    /\ drainStage' = "failed"
    /\ dbOpen' \in BOOLEAN
    /\ \/ UNCHANGED <<open, lost>>
       \/ open' = open \ {FirstConn} /\ lost' = lost \ {FirstConn}
    /\ UNCHANGED <<idle, active, waitQueue, drained, closing, pc, conn, late>>

Next ==
    \/ \E k \in Callers :
          \/ Acquire(k) \/ Validated(k) \/ ValidationFailed(k) \/ Discarded(k)
          \/ Created(k) \/ CreationFailed(k) \/ WaitTimeout(k)
          \/ Close(k) \/ Released(k) \/ DiscardRejected(k) \/ ReleaseRejected(k)
    \/ EvictIdle
    \/ StartDrain \/ CloseNextIdle \/ IdleClosed \/ DatabaseClosed
    \/ CloseIdleRejected \/ DatabaseCloseFails

\* Native calls return or throw, and the timers of the waiters, which keep the
\* process alive, fire.  Nothing makes an adapter close: initialize() may throw
\* after acquire(), and then nobody holds the adapter to close it.
Fairness ==
    /\ \A k \in Callers :
          /\ WF_vars(Validated(k) \/ ValidationFailed(k))
          /\ WF_vars(Discarded(k) \/ DiscardRejected(k))
          /\ WF_vars(Created(k) \/ CreationFailed(k))
          /\ WF_vars(WaitTimeout(k))
          /\ WF_vars(Released(k) \/ ReleaseRejected(k))
    /\ WF_vars(CloseNextIdle \/ CloseIdleRejected) /\ WF_vars(IdleClosed)
    /\ WF_vars(DatabaseClosed \/ DatabaseCloseFails)

Spec == Init /\ [][Next]_vars /\ Fairness

-----------------------------------------------------------------------------
Holders(c) == {k \in Callers : pc[k] = "holding" /\ conn[k] = c}

\* A connection is in one place only: idle, handed to one caller, or in the
\* hands of one acquire(); "active" is exactly what callers hold; and one whose
\* close() failed is never handed out again.
ExclusiveConnections ==
    /\ \A i, j \in DOMAIN idle : i # j => idle[i] # idle[j]
    /\ active \intersect ToSet(idle) = {}
    /\ lost \intersect (active \union ToSet(idle)) = {}
    /\ \A c \in Conns :
          /\ Cardinality(Holders(c)) = IF c \in active THEN 1 ELSE 0
          /\ \A k \in Callers :
                pc[k] \in {"validating", "discarding"} /\ conn[k] = c =>
                   /\ c \notin active \union ToSet(idle)
                   /\ \A j \in Callers \ {k} :
                         InAcquire(j) => conn[j] # c

\* No connection is lost but by a close() that rejects: any other open one can
\* still be reached by a release, an eviction, an acquire() in progress or
\* drain().
NoLeakedConnection ==
    open \subseteq active \union ToSet(idle) \union lost \union
        {conn[k] : k \in {j \in Callers : InAcquire(j) \/ pc[j] = "releasing"}}

\* A caller waits only while somebody holds a connection whose release will
\* wake it: no wakeup is lost between a release and a new waiter.
NoStrandedWaiter ==
    /\ waitQueue # <<>> /\ ~drained => active # {}
    /\ \A k \in Callers : pc[k] = "waiting" <=> k \in ToSet(waitQueue)

\* When drain() has returned, the database is closed under nobody, except
\* callers that were already inside acquire() when drain() began.
DrainSparesHolders ==
    ~dbOpen => \A k \in Callers : pc[k] = "holding" => k \in late

\* The pool is sound, whichever closes reject: no connection is shared, closed
\* under its user or lost without a failed close, and no caller of acquire()
\* waits for a wakeup that will not come.
PoolSound ==
    /\ TypeOK /\ ExclusiveConnections /\ NoLeakedConnection
    /\ NoStrandedWaiter /\ DrainSparesHolders

Ahead(q, a, b) == \E i, j \in DOMAIN q : i < j /\ q[i] = a /\ q[j] = b

NobodyOvertakes ==
    \A a \in ToSet(waitQueue), b \in Callers :
       ~Ahead(waitQueue, b, a) =>
          /\ ~Ahead(waitQueue', b, a)
          /\ b # a /\ pc[b] = "waiting" /\ pc'[b] = "holding" =>
               pc'[a] # "waiting"

\* Waiters are served first come, first served: nobody gets in front of a
\* waiting caller, and nobody behind it is handed a connection before it.
FifoHandOver == [][NobodyOvertakes]_vars

\* Every acquire() gets an answer, also from a pool whose drain() failed; and
\* drain() returns or throws, unless an adapter keeps its connection for ever
\* or a release() failed while draining.
AcquireAndDrainReturn ==
    /\ \A k \in Callers :
          pc[k] # "start" ~> pc[k] \in {"holding", "closed", "failed", "closeFailed"}
    /\ (\A k \in Callers : <>[](pc[k] \notin {"holding", "closeFailed"})) =>
          (drainStage # "none" ~> drainStage \in {"done", "failed"})

\* Property 1 of the design: totalConnections <= maxConnections at all times.
PoolBound == Cardinality(active) + Len(idle) <= MaxConnections

\* Property 8 of the design: once drain() has returned every connection is
\* closed and stats().totalConnections = 0.
DrainComplete == drainStage = "done" => active = {} /\ idle = <<>> /\ open = {}
=============================================================================
