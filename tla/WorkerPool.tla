----------------------------- MODULE WorkerPool -----------------------------
(***************************************************************************)
(* The resilient worker pool (src/platform/utils/worker-pool.ts): run()    *)
(* hands indexed tasks to persistent worker threads, fails the task of a   *)
(* worker that crashes or goes silent, respawns workers within a budget,   *)
(* and trips a circuit breaker that gives every remaining task back to the *)
(* caller.  Worker threads run concurrently with the main thread: what     *)
(* they post, and the 'error' and 'exit' events of their death, reach the  *)
(* main thread later and in any order between workers.                     *)
(*                                                                         *)
(* Workers and watchdogs are unref'd: they do not keep the process alive.  *)
(* Once nothing else does, the event loop may end with run() unresolved.   *)
(***************************************************************************)
EXTENDS Integers, FiniteSets

CONSTANTS
    TaskCount,    \* tasks.length; a task is its index
    PoolSize,     \* opts.size
    MaxRespawns,  \* opts.maxRespawns
    MaxTimeouts   \* timeouts until maxCumulativeTimeoutMs is reached

ASSUME PoolAssumption ==
    /\ TaskCount \in Nat \ {0}
    /\ PoolSize \in Nat \ {0}
    /\ MaxRespawns \in Nat
    /\ MaxTimeouts \in Nat \ {0}

Tasks == 1..TaskCount
None == 0

\* The pool is clamped to the number of tasks.
FleetSize == IF PoolSize < TaskCount THEN PoolSize ELSE TaskCount
Slots == 1..FleetSize

\* Worker threads in the order they are created: one per slot, then one per
\* respawn.
Workers == 1..(FleetSize + MaxRespawns)

VARIABLES
    nextTask,   \* the next task to dispatch
    slots,      \* per slot: its worker, the task it owns, the retiring flag
    outcome,    \* per task: "none", "ok" (a result) or "failed"
    notified,   \* per task: how often onSettled has fired
    respawns,   \* respawns used
    timeouts,   \* timed-out tasks, the cumulative budget in units of one
    tripped,    \* breakerTripped
    finished,   \* the promise of run() has resolved
    destroyed,  \* destroy() has run
    spawned,    \* worker threads created
    heldOpen,   \* something of the caller's keeps the process alive
    threads     \* per worker thread: its slot, whether it runs, its task, the
                \* result it posted and the death events still to be delivered

poolVars == <<nextTask, slots, outcome, notified, respawns, timeouts,
              tripped, finished, destroyed, spawned>>
vars == <<poolVars, heldOpen, threads>>

TypeOK ==
    /\ nextTask \in 1..(TaskCount + 1)
    /\ slots \in [Slots -> [worker : Workers, current : Tasks \union {None},
                            retiring : BOOLEAN]]
    /\ outcome \in [Tasks -> {"none", "ok", "failed"}]
    /\ notified \in [Tasks -> Nat]
    /\ respawns \in 0..MaxRespawns
    /\ timeouts \in 0..MaxTimeouts
    /\ tripped \in BOOLEAN /\ finished \in BOOLEAN /\ destroyed \in BOOLEAN
    /\ spawned \in Workers
    /\ threads \in [Workers -> [slot : Slots, alive : BOOLEAN,
                                job : Tasks \union {None},
                                posted : Tasks \union {None},
                                events : 0..2, crashed : BOOLEAN]]

-----------------------------------------------------------------------------
Thread(s, task) ==
    [slot |-> s, alive |-> TRUE, job |-> task, posted |-> None,
     events |-> 0, crashed |-> FALSE]

\* terminate() on a thread that still runs delivers one 'exit' later; on a
\* dead one it does nothing.
Terminated(t) == IF t.alive THEN [t EXCEPT !.alive = FALSE, !.events = @ + 1] ELSE t

\* settle(): first settlement of each task in T, and one onSettled for each.
Settle(T, how) ==
    /\ outcome' = [t \in Tasks |->
                      IF t \in T /\ outcome[t] = "none" THEN how ELSE outcome[t]]
    /\ notified' = [t \in Tasks |->
                      IF t \in T /\ outcome[t] = "none" THEN notified[t] + 1
                                                        ELSE notified[t]]

\* maybeFinish(): run() resolves once every task is settled.
MaybeFinish == finished' = (\A t \in Tasks : outcome'[t] # "none")

\* tripBreaker(): give up every task a slot owns and every task not dispatched.
TripBreaker ==
    /\ tripped' = TRUE
    /\ Settle({slots[s].current : s \in Slots} \union nextTask..TaskCount, "failed")
    /\ slots' = [s \in Slots |-> [slots[s] EXCEPT !.current = None]]
    /\ nextTask' = TaskCount + 1
    /\ UNCHANGED <<respawns, spawned>>

\* The task dispatchTo() hands to a free worker, None when there is no more.
Upcoming == IF nextTask <= TaskCount THEN nextTask ELSE None

\* dispatchTo(): nextTask++ unless every task has been handed out.
AdvanceNext ==
    nextTask' = IF nextTask <= TaskCount THEN nextTask + 1 ELSE nextTask

\* recycle() within the budget: retire the slot's worker, spawn another into
\* the slot (which resets retiring) and hand it the next task.
Respawn(s, T) ==
    /\ respawns' = respawns + 1
    /\ spawned' = spawned + 1
    /\ slots' = [slots EXCEPT ![s] =
                    [worker |-> spawned + 1, current |-> Upcoming, retiring |-> FALSE]]
    /\ threads' = [T EXCEPT ![slots[s].worker] = Terminated(@),
                            ![spawned + 1] = Thread(s, Upcoming)]
    /\ AdvanceNext
    /\ UNCHANGED tripped

\* recycle(s) after the tasks in T failed, with the thread states W: a tripped
\* breaker spawns nothing, an exhausted budget trips it.
FailAndRecycle(s, T, W) ==
    \/ /\ tripped
       /\ Settle(T, "failed")
       /\ slots' = [slots EXCEPT ![s].current = None]
       /\ threads' = W
       /\ UNCHANGED <<nextTask, respawns, spawned, tripped>>
    \/ /\ ~tripped
       /\ respawns >= MaxRespawns
       /\ TripBreaker
       /\ threads' = W
    \/ /\ ~tripped
       /\ respawns < MaxRespawns
       /\ Settle(T, "failed")
       /\ Respawn(s, W)

-----------------------------------------------------------------------------
\* run(): spawn the fleet and prime each worker with one task.
Init ==
    /\ nextTask = FleetSize + 1
    /\ slots = [s \in Slots |-> [worker |-> s, current |-> s, retiring |-> FALSE]]
    /\ outcome = [t \in Tasks |-> "none"]
    /\ notified = [t \in Tasks |-> 0]
    /\ respawns = 0
    /\ timeouts = 0
    /\ tripped = FALSE
    /\ finished = FALSE
    /\ destroyed = FALSE
    /\ spawned = FleetSize
    /\ heldOpen \in BOOLEAN
    /\ threads = [w \in Workers |-> IF w \in Slots THEN Thread(w, w)
                     ELSE [Thread(1, None) EXCEPT !.alive = FALSE]]

\* Regression: the timeout path forgets maybeFinish().
OnTaskTimeoutUnfinished(s) ==
    /\ ~finished
    /\ slots[s].current # None
    /\ timeouts' = timeouts + 1
    /\ \/ /\ timeouts + 1 >= MaxTimeouts
          /\ TripBreaker
          /\ UNCHANGED threads
       \/ /\ timeouts + 1 < MaxTimeouts
          /\ FailAndRecycle(s, {slots[s].current}, threads)
    /\ UNCHANGED <<finished, destroyed>>

\* The watchdog of slot s fires: its task fails and its worker is recycled,
\* or the cumulative budget is spent and the breaker trips.
OnTaskTimeout(s) ==
    /\ ~finished
    /\ slots[s].current # None
    /\ timeouts' = timeouts + 1
    /\ \/ /\ timeouts + 1 >= MaxTimeouts
          /\ TripBreaker
          /\ UNCHANGED threads
       \/ /\ timeouts + 1 < MaxTimeouts
          /\ FailAndRecycle(s, {slots[s].current}, threads)
    /\ MaybeFinish
    /\ UNCHANGED destroyed

\* Regression: any result frame is taken for the answer to the current task.
OnMessageUnmatched(w) ==
    LET s == threads[w].slot
        t == slots[s].current
    IN  /\ threads[w].posted # None
        /\ IF finished \/ t = None
           THEN /\ threads' = [threads EXCEPT ![w].posted = None]
                /\ UNCHANGED poolVars
           ELSE /\ Settle({t}, "ok")
                /\ slots' = [slots EXCEPT ![s].current = Upcoming]
                /\ AdvanceNext
                /\ threads' = [threads EXCEPT ![w].posted = None,
                                              ![slots[s].worker].job = Upcoming]
                /\ MaybeFinish
                /\ UNCHANGED <<respawns, timeouts, tripped, destroyed, spawned>>

\* A frame posted by thread w arrives.  It counts only when it answers the
\* task its slot owns now; a late frame of a recycled worker is ignored.
OnMessage(w) ==
    LET s == threads[w].slot
        t == threads[w].posted
    IN  /\ t # None
        /\ IF finished \/ slots[s].current # t
           THEN /\ threads' = [threads EXCEPT ![w].posted = None]
                /\ UNCHANGED poolVars
           ELSE /\ Settle({t}, "ok")
                /\ slots' = [slots EXCEPT ![s].current = Upcoming]
                /\ AdvanceNext
                /\ threads' = [threads EXCEPT ![w].posted = None,
                                              ![slots[s].worker].job = Upcoming]
                /\ MaybeFinish
                /\ UNCHANGED <<respawns, timeouts, tripped, destroyed, spawned>>

\* Regression: the slot of a dead worker is freed, its task is not failed and
\* nothing is respawned.
OnExitForgetting(w) ==
    /\ threads[w].events > 0
    /\ threads' = [threads EXCEPT ![w].events = @ - 1]
    /\ slots' = [slots EXCEPT ![threads[w].slot].current = None]
    /\ UNCHANGED <<nextTask, outcome, notified, respawns, timeouts, tripped,
                   finished, destroyed, spawned>>

\* An 'error' or 'exit' event of thread w.  The handler is bound to the slot,
\* not to the worker: it looks at the slot's retiring flag and current task.
OnExit(w) ==
    LET s == threads[w].slot
        rest == [threads EXCEPT ![w].events = @ - 1]
    IN  /\ threads[w].events > 0
        /\ \/ /\ finished \/ slots[s].retiring
              /\ threads' = rest
              /\ UNCHANGED poolVars
           \/ /\ ~(finished \/ slots[s].retiring)
              /\ FailAndRecycle(s, {slots[s].current}, rest)
              /\ MaybeFinish
              /\ UNCHANGED <<timeouts, destroyed>>

\* destroy(), from the caller's finally: terminate the whole fleet.
Destroy ==
    /\ finished /\ ~destroyed
    /\ destroyed' = TRUE
    /\ slots' = [s \in Slots |-> [slots[s] EXCEPT !.retiring = TRUE]]
    /\ threads' = [w \in Workers |->
                      IF \E s \in Slots : slots[s].worker = w
                      THEN Terminated(threads[w]) ELSE threads[w]]
    /\ UNCHANGED <<nextTask, outcome, notified, respawns, timeouts, tripped,
                   finished, spawned>>

\* A worker thread finishes its task and posts the result.
Post(w) ==
    /\ threads[w].alive
    /\ threads[w].job # None
    /\ threads[w].posted = None
    /\ threads' = [threads EXCEPT ![w].posted = threads[w].job, ![w].job = None]
    /\ UNCHANGED poolVars

\* A worker thread dies by itself, busy or idle: process.exit() delivers
\* 'exit', an uncaught throw delivers 'error' and then 'exit'.
Crash(w) ==
    /\ threads[w].alive
    /\ \E n \in 1..2 :
          threads' = [threads EXCEPT ![w].alive = FALSE, ![w].events = n,
                                     ![w].crashed = TRUE]
    /\ UNCHANGED poolVars

\* The caller closes the last of its own handles before run() has resolved.
LetGo ==
    /\ heldOpen /\ ~finished
    /\ heldOpen' = FALSE
    /\ UNCHANGED <<poolVars, threads>>

PoolNext ==
    \/ \E s \in Slots : OnTaskTimeout(s)
    \/ \E w \in Workers : OnMessage(w) \/ OnExit(w) \/ Post(w) \/ Crash(w)
    \/ Destroy

Next ==
    \/ PoolNext /\ UNCHANGED heldOpen
    \/ LetGo

\* While the process is kept alive the watchdog timer fires and posted frames
\* and events are delivered; a worker may stay silent for ever.  What follows
\* the resolution of run() needs no further event.
Fairness ==
    /\ \A s \in Slots : WF_vars(heldOpen /\ OnTaskTimeout(s) /\ UNCHANGED heldOpen)
    /\ \A w \in Workers : /\ WF_vars(heldOpen /\ OnMessage(w) /\ UNCHANGED heldOpen)
                           /\ WF_vars(heldOpen /\ OnExit(w) /\ UNCHANGED heldOpen)
    /\ WF_vars(Destroy /\ UNCHANGED heldOpen)

Spec == Init /\ [][Next]_vars /\ Fairness

-----------------------------------------------------------------------------
Owned(s) == slots[s].current

\* Whatever mixture of results, timeouts, crashes, late frames and breaker
\* trips occurs: onSettled fires exactly once per settled task, and run()
\* resolves exactly when it has fired for every task.
SettledExactlyOnce ==
    /\ \A t \in Tasks : notified[t] = IF outcome[t] = "none" THEN 0 ELSE 1
    /\ finished <=> \A t \in Tasks : notified[t] = 1

\* A dispatched task without an outcome is owned by exactly one slot, whose
\* watchdog therefore still runs; no slot owns a task that is settled or that
\* was never dispatched; a tripped breaker leaves nothing owned or undispatched.
TaskOwnership ==
    /\ \A t \in 1..(nextTask - 1) :
          outcome[t] = "none" => \E s \in Slots : Owned(s) = t
    /\ \A s \in Slots : Owned(s) # None =>
          /\ outcome[Owned(s)] = "none"
          /\ Owned(s) < nextTask
          /\ \A q \in Slots \ {s} : Owned(q) # Owned(s)
    /\ tripped => nextTask = TaskCount + 1 /\ \A s \in Slots : Owned(s) = None

\* At most one thread per slot runs, the one the slot points to: a recycled
\* worker never keeps running beside its successor, and after destroy() no
\* thread is left.
NoStrayThread ==
    /\ \A w \in Workers : threads[w].alive => slots[threads[w].slot].worker = w
    /\ destroyed => \A w \in Workers : ~threads[w].alive

\* The bookkeeping of the pool as a whole: the three facts above hold together
\* in every order of results, timeouts, crashes and late events.
PoolInvariant ==
    TypeOK /\ heldOpen \in BOOLEAN /\ SettledExactlyOnce /\ TaskOwnership /\ NoStrayThread

AcceptsFromOwner ==
    \A t \in Tasks : outcome[t] = "none" /\ outcome'[t] = "ok" =>
        \E s \in Slots : Owned(s) = t /\ threads[slots[s].worker].posted = t

\* A result is accepted only from the thread the slot owns now, for the task it
\* was given: a late frame of a recycled worker never fills a slot.
ResultFromOwner == [][AcceptsFromOwner]_vars

\* run() resolves and its fleet is destroyed, even when every worker hangs or
\* dies, for a caller that keeps the process alive until it has.
RunResolves == []heldOpen => <>destroyed

\* "retiring: Set when we are intentionally terminating this worker (ignore
\* its exit)": the exit of a worker the pool itself terminated fails no task.
RetiredExitIgnored ==
    [][\A w \in Workers :
         /\ threads'[w].events < threads[w].events
         /\ ~threads[w].crashed
         => outcome' = outcome]_vars
=============================================================================
