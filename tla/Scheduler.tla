----------------------------- MODULE Scheduler -----------------------------
(***************************************************************************)
(* The request scheduler of the connection server                          *)
(* (src/apps/ladybug-server/scheduler.ts, PriorityRequestScheduler).       *)
(*                                                                         *)
(* Every RPC passes through enqueue(): it is refused, queued by priority   *)
(* or started, and its promise is settled by the operation's result, by    *)
(* its own timer, or by the deadline of a bounded drain.  JavaScript runs  *)
(* one callback at a time, so each callback is one action.  Timers are     *)
(* macrotasks: they never fire between an operation's .then/.catch and its *)
(* .finally, which are microtasks of one turn (MicrotaskPending).          *)
(***************************************************************************)
EXTENDS Integers, Sequences, FiniteSets

CONSTANTS
    Requests,        \* the calls of enqueue(), one element each
    Priority,        \* the priority each call carries
    MaxConcurrency,  \* constructor argument maxConcurrency
    MaxQueue,        \* constructor argument maxQueue
    Drains,          \* the calls of drain()
    BoundedDrains    \* those that pass a timeoutMs

PriorityOrder == [admin |-> 0, interactive_read |-> 1, background_write |-> 2]

\* The constructor throws unless both limits are positive integers.
ASSUME LimitsAssumption ==
    /\ MaxConcurrency \in Nat \ {0}
    /\ MaxQueue \in Nat \ {0}

\* Distinct calls carry distinct ids (randomUUID in the client), so a call
\* and its id are the same thing here.
ASSUME CallsAssumption ==
    /\ IsFiniteSet(Requests)
    /\ Priority \in [Requests -> DOMAIN PriorityOrder]
    /\ BoundedDrains \subseteq Drains

VARIABLES
    queue,             \* waiting calls, highest priority first
    inFlight,          \* the slot counter compared with maxConcurrency
    inFlightRequests,  \* started calls whose promise a deadline may settle
    stage,             \* where each call is in its life
    outcome,           \* how its promise was settled, "none" until then
    draining,          \* the flag behind isAcceptingRequests()
    drainResolvers,    \* drain() calls waiting for idleness
    drained,           \* drain() calls whose promise has resolved
    deadlines,         \* armed drain deadline timers
    totals             \* the three lifetime counters of stats()

vars == <<queue, inFlight, inFlightRequests, stage, outcome,
          draining, drainResolvers, drained, deadlines, totals>>

Stages == {"new", "refused", "queued", "running", "finishing", "finished"}
Outcomes == {"none", "own", "timeout", "shutdown", "full", "draining"}

TypeOK ==
    /\ queue \in Seq(Requests)
    /\ inFlight \in Nat
    /\ inFlightRequests \subseteq Requests
    /\ stage \in [Requests -> Stages]
    /\ outcome \in [Requests -> Outcomes]
    /\ draining \in BOOLEAN
    /\ drainResolvers \subseteq Drains
    /\ drained \subseteq Drains
    /\ deadlines \subseteq BoundedDrains
    /\ totals \in [processed : Nat, timedOut : Nat, rejected : Nat]

Init ==
    /\ queue = <<>>
    /\ inFlight = 0
    /\ inFlightRequests = {}
    /\ stage = [r \in Requests |-> "new"]
    /\ outcome = [r \in Requests |-> "none"]
    /\ draining = FALSE
    /\ drainResolvers = {}
    /\ drained = {}
    /\ deadlines = {}
    /\ totals = [processed |-> 0, timedOut |-> 0, rejected |-> 0]

-----------------------------------------------------------------------------
Rank(r) == PriorityOrder[Priority[r]]
Settled(r) == outcome[r] # "none"
Queued == {queue[i] : i \in DOMAIN queue}

\* Stages in which a call holds one of the inFlight slots.
HoldsSlot(r) == stage[r] \in {"running", "finishing"}

\* A .finally callback is due: no timer fires before it has run.
MicrotaskPending == \E r \in Requests : stage[r] = "finishing"

\* Regression: insertion ignores the priority.
InsertLast(q, r) == Append(q, r)

\* insertByPriority: before the first entry of strictly lower priority.
InsertByPriority(q, r) ==
    LET i == CHOOSE n \in 1..(Len(q) + 1) :
                /\ \A j \in 1..(n - 1) : Rank(q[j]) <= Rank(r)
                /\ n <= Len(q) => Rank(q[n]) > Rank(r)
    IN  SubSeq(q, 1, i - 1) \o <<r>> \o SubSeq(q, i, Len(q))

\* removeFromQueue: drop the entry of r and close the gap.
RemoveFromQueue(q, r) ==
    IF \E i \in DOMAIN q : q[i] = r
    THEN LET i == CHOOSE n \in DOMAIN q : q[n] = r
         IN  SubSeq(q, 1, i - 1) \o SubSeq(q, i + 1, Len(q))
    ELSE q

\* The entries among the first k that the loop starts: it skips those whose
\* timer has already fired.
Startable(q, k) == {r \in {q[i] : i \in 1..k} : outcome[r] # "timeout"}

\* tryExecuteNext: shift entries while a slot is free and the queue is not
\* empty.  k is the number of entries shifted: the loop condition held before
\* the last of them and does not hold after it.
TryExecuteNext(q, running, owned, st) ==
    \E k \in 0..Len(q) :
        LET begun == Startable(q, k)
        IN  /\ k > 0 =>
                 running + Cardinality(Startable(q, k - 1)) < MaxConcurrency
            /\ k < Len(q) => running + Cardinality(begun) >= MaxConcurrency
            /\ queue' = SubSeq(q, k + 1, Len(q))
            /\ inFlight' = running + Cardinality(begun)
            /\ inFlightRequests' = owned \union begun
            /\ stage' = [r \in Requests |->
                            IF r \in begun THEN "running" ELSE st[r]]
            /\ totals' = [totals EXCEPT !.processed = @ + Cardinality(begun)]

\* Regression: running operations are forgotten.
FlushWhenQueueEmpty ==
    IF queue' = <<>>
    THEN /\ drained' = drained \union drainResolvers
         /\ drainResolvers' = {}
    ELSE UNCHANGED <<drained, drainResolvers>>

\* flushDrainWaiters: resolve every drain() once nothing runs or waits.
FlushDrainWaiters ==
    IF inFlight' = 0 /\ queue' = <<>>
    THEN /\ drained' = drained \union drainResolvers
         /\ drainResolvers' = {}
    ELSE UNCHANGED <<drained, drainResolvers>>

-----------------------------------------------------------------------------
\* enqueue() while draining: ServerDrainingError.
RejectDraining(r) ==
    /\ stage[r] = "new"
    /\ draining
    /\ stage' = [stage EXCEPT ![r] = "refused"]
    /\ outcome' = [outcome EXCEPT ![r] = "draining"]
    /\ totals' = [totals EXCEPT !.rejected = @ + 1]
    /\ UNCHANGED <<queue, inFlight, inFlightRequests, draining,
                   drainResolvers, drained, deadlines>>

\* enqueue() on a full queue: QueueFullError.
RejectFull(r) ==
    /\ stage[r] = "new"
    /\ ~draining
    /\ Len(queue) >= MaxQueue
    /\ stage' = [stage EXCEPT ![r] = "refused"]
    /\ outcome' = [outcome EXCEPT ![r] = "full"]
    /\ totals' = [totals EXCEPT !.rejected = @ + 1]
    /\ UNCHANGED <<queue, inFlight, inFlightRequests, draining,
                   drainResolvers, drained, deadlines>>

\* enqueue(): arm the timer, insert by priority, start what can start.
Admit(r) ==
    /\ stage[r] = "new"
    /\ ~draining
    /\ Len(queue) < MaxQueue
    /\ TryExecuteNext(InsertByPriority(queue, r), inFlight, inFlightRequests,
                      [stage EXCEPT ![r] = "queued"])
    /\ UNCHANGED <<outcome, draining, drainResolvers, drained, deadlines>>

\* Regression: a late result is delivered although the caller was answered.
CompleteUnguarded(r) ==
    /\ stage[r] = "running"
    /\ stage' = [stage EXCEPT ![r] = "finishing"]
    /\ outcome' = [outcome EXCEPT ![r] = "own"]
    /\ UNCHANGED <<queue, inFlight, inFlightRequests, draining,
                   drainResolvers, drained, deadlines, totals>>

\* The operation's promise settles and .then/.catch passes its own result or
\* error on, unless the timer or a drain deadline answered the caller first.
Complete(r) ==
    /\ stage[r] = "running"
    /\ stage' = [stage EXCEPT ![r] = "finishing"]
    /\ outcome' = IF Settled(r) THEN outcome
                  ELSE [outcome EXCEPT ![r] = "own"]
    /\ UNCHANGED <<queue, inFlight, inFlightRequests, draining,
                   drainResolvers, drained, deadlines, totals>>

\* Regression: the freed slot is not offered to the queue.
FinishWithoutNext(r) ==
    /\ stage[r] = "finishing"
    /\ inFlight' = inFlight - 1
    /\ inFlightRequests' = inFlightRequests \ {r}
    /\ stage' = [stage EXCEPT ![r] = "finished"]
    /\ UNCHANGED <<queue, totals>>
    /\ FlushDrainWaiters
    /\ UNCHANGED <<outcome, draining, deadlines>>

\* .finally: give the slot back, start what can start, flush drain waiters.
Finish(r) ==
    /\ stage[r] = "finishing"
    /\ TryExecuteNext(queue, inFlight - 1, inFlightRequests \ {r},
                      [stage EXCEPT ![r] = "finished"])
    /\ FlushDrainWaiters
    /\ UNCHANGED <<outcome, draining, deadlines>>

\* Regression: a started call that times out gives its slot back at once,
\* and .finally gives it back again.
TimeoutFreesSlot(r) ==
    /\ stage[r] \in {"queued", "running"}
    /\ ~Settled(r)
    /\ ~MicrotaskPending
    /\ outcome' = [outcome EXCEPT ![r] = "timeout"]
    /\ totals' = [totals EXCEPT !.timedOut = @ + 1]
    /\ queue' = RemoveFromQueue(queue, r)
    /\ inFlightRequests' = inFlightRequests \ {r}
    /\ inFlight' = IF stage[r] = "running" THEN inFlight - 1 ELSE inFlight
    /\ UNCHANGED <<stage, draining, deadlines>>
    /\ FlushDrainWaiters

\* The call's own timer.  A started operation keeps its slot: it still runs
\* natively.  The handler returns early once the call is settled.
Timeout(r) ==
    /\ stage[r] \in {"queued", "running"}
    /\ ~Settled(r)
    /\ ~MicrotaskPending
    /\ outcome' = [outcome EXCEPT ![r] = "timeout"]
    /\ totals' = [totals EXCEPT !.timedOut = @ + 1]
    /\ IF stage[r] = "queued"
       THEN /\ queue' = RemoveFromQueue(queue, r)
            /\ UNCHANGED inFlightRequests
       ELSE /\ inFlightRequests' = inFlightRequests \ {r}
            /\ UNCHANGED queue
    /\ UNCHANGED <<inFlight, stage, draining, deadlines>>
    /\ FlushDrainWaiters

\* markDraining()
MarkDraining ==
    /\ ~draining
    /\ draining' = TRUE
    /\ UNCHANGED <<queue, inFlight, inFlightRequests, stage, outcome,
                   drainResolvers, drained, deadlines, totals>>

\* Regression: the deadline timer is not armed.
DrainWithoutDeadline(d) ==
    /\ d \notin drained \union drainResolvers
    /\ draining' = TRUE
    /\ IF inFlight = 0 /\ queue = <<>>
       THEN drained' = drained \union {d} /\ UNCHANGED drainResolvers
       ELSE drainResolvers' = drainResolvers \union {d} /\ UNCHANGED drained
    /\ UNCHANGED <<queue, inFlight, inFlightRequests, stage, outcome,
                   deadlines, totals>>

\* drain(): resolved at once when idle, otherwise a waiter, with a deadline
\* timer when a timeoutMs was passed.
Drain(d) ==
    /\ d \notin drained \union drainResolvers
    /\ draining' = TRUE
    /\ IF inFlight = 0 /\ queue = <<>>
       THEN /\ drained' = drained \union {d}
            /\ UNCHANGED <<drainResolvers, deadlines>>
       ELSE /\ drainResolvers' = drainResolvers \union {d}
            /\ deadlines' = deadlines \union ({d} \intersect BoundedDrains)
            /\ UNCHANGED drained
    /\ UNCHANGED <<queue, inFlight, inFlightRequests, stage, outcome, totals>>

\* settlePendingForDrain: reject every queued and in-flight call, then
\* resolve every drain() waiter, whatever still runs natively.
DrainDeadline(d) ==
    /\ d \in deadlines
    /\ ~MicrotaskPending
    /\ LET pending == {r \in Queued \union inFlightRequests : ~Settled(r)}
       IN  /\ outcome' = [r \in Requests |->
                             IF r \in pending THEN "shutdown" ELSE outcome[r]]
           /\ totals' = [totals EXCEPT !.rejected = @ + Cardinality(pending)]
    /\ queue' = <<>>
    /\ inFlightRequests' = {}
    /\ drained' = drained \union drainResolvers
    /\ drainResolvers' = {}
    /\ deadlines' = deadlines \ {d}
    /\ UNCHANGED <<inFlight, stage, draining>>

-----------------------------------------------------------------------------
Enqueue(r) == RejectDraining(r) \/ RejectFull(r) \/ Admit(r)

Next ==
    \/ \E r \in Requests : \/ Enqueue(r)
                           \/ Complete(r)
                           \/ Finish(r)
                           \/ Timeout(r)
    \/ MarkDraining
    \/ \E d \in Drains : Drain(d) \/ DrainDeadline(d)

\* Timers fire and microtasks run; a native operation may hang for ever and
\* nobody is obliged to call enqueue() or drain().
Fairness ==
    /\ \A r \in Requests : WF_vars(Timeout(r)) /\ WF_vars(Finish(r))
    /\ \A d \in Drains : WF_vars(DrainDeadline(d))

Spec == Init /\ [][Next]_vars /\ Fairness

-----------------------------------------------------------------------------
\* The slot counter is exactly the number of operations that have not run
\* their .finally, timed-out and drained ones included, so no settlement path
\* gives a slot back early or twice; it never exceeds maxConcurrency; and the
\* lifetime counters of stats() add up with what the callers were told,
\* whichever of the four rejection sites did it.
Accounting ==
    /\ inFlight = Cardinality({r \in Requests : HoldsSlot(r)})
    /\ inFlight <= MaxConcurrency
    /\ totals.timedOut = Cardinality({r \in Requests : outcome[r] = "timeout"})
    /\ totals.rejected = Cardinality({r \in Requests :
          outcome[r] \in {"full", "draining", "shutdown"}})
    /\ totals.processed = Cardinality({r \in Requests :
          stage[r] \in {"running", "finishing", "finished"}})

\* The queue holds at most maxQueue calls, no call twice, only calls whose
\* caller still waits, and is sorted by priority after any mixture of
\* insertions, timeouts and starts.
QueueDiscipline ==
    /\ Len(queue) <= MaxQueue
    /\ \A i, j \in DOMAIN queue :
          i < j => queue[i] # queue[j] /\ Rank(queue[i]) <= Rank(queue[j])
    /\ \A r \in Queued : stage[r] = "queued" /\ ~Settled(r)

\* A call somebody still waits for is reachable by every path that settles
\* calls: it is in the queue until it starts and in inFlightRequests after,
\* and it never waits beside a free slot.
NoCallLost ==
    /\ \A r \in Requests :
          ~Settled(r) => /\ stage[r] = "queued" => r \in Queued
                         /\ stage[r] = "running" => r \in inFlightRequests
    /\ queue # <<>> => inFlight = MaxConcurrency

\* A caller is answered once: a late result, a timer and a drain deadline
\* never change an answer already given.
AnsweredOnce ==
    [][\A r \in Requests : Settled(r) => outcome'[r] = outcome[r]]_vars

Before(q, a, b) == \E i, j \in DOMAIN q : i < j /\ q[i] = a /\ q[j] = b

\* No overtaking: while a waits, neither a call queued behind it nor a new
\* call of the same or a lower priority starts or gets in front of it.
OvertakesNobody ==
    \A a \in Queued, b \in Requests :
       (Before(queue, a, b) \/ (stage[b] = "new" /\ Rank(a) <= Rank(b)))
          => /\ ~Before(queue', b, a)
             /\ stage'[b] = "running" => a \notin Queued'
NoOvertaking == [][OvertakesNobody]_vars

\* Every call of enqueue() is answered and every bounded drain() resolves,
\* even when an operation never ends.
AllAnswered ==
    /\ \A r \in Requests : stage[r] # "new" ~> Settled(r)
    /\ \A d \in BoundedDrains : d \in drainResolvers ~> d \in drained

\* Every call is served, and those that wait are served in their turn.
ServedInTurn == NoOvertaking /\ AllAnswered

\* The scheduler implements RequestService.
Phase(r) ==
    IF Settled(r) THEN "answered"
    ELSE IF stage[r] = "new" THEN "new" ELSE "pending"

Service == INSTANCE RequestService
               WITH open <- ~draining,
                    phase <- [r \in Requests |-> Phase(r)],
                    reported <- drained

\* Seen from its callers, every step of the scheduler is a step the service
\* contract allows: nothing is accepted once draining, nothing is answered
\* twice, and a drain() is told "done" only when nobody still waits, so that
\* shutdown may close the database.
ServiceSpec == Service!SSpec
=============================================================================
