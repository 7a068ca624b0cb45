--------------------------- MODULE IndexingProofs ---------------------------
(***************************************************************************)
(* Proofs about the two parts of the indexing pipeline that hand work out  *)
(* and put the answers back in their places: the worker pool of the        *)
(* parsing phase and the embeddings of the search phase.                   *)
(*                                                                         *)
(* WorkerPool, for any number of tasks, workers, respawns and timeouts:    *)
(* every task is settled exactly once, a task without an outcome has a     *)
(* slot whose watchdog runs, and no replaced thread goes on running.  The  *)
(* ownership of tasks is inductive only with what has not been dispatched  *)
(* being open, and NoStrayThread only with every slot pointing to a thread *)
(* that has been made, and every thread that runs having no event of its   *)
(* death on the way (Budgets, ThreadsInv).  That a result is taken only    *)
(* from its owner needs, on top, which thread may still answer which task  *)
(* (Frames).                                                               *)
(*                                                                         *)
(* EmbeddingIndex, for any files, contents, models, cap, batches and       *)
(* bounds: every result is the vector of its job's text, no row outlives   *)
(* its text, and the saved cache follows the corpus.  EmbeddingInv adds    *)
(* that a cache entry holds the vector of its own text (EntryType), what   *)
(* the rows follow while the parse cache does not vouch for them           *)
(* (RowsSound), and what the cache of a run is between its lookups and     *)
(* its flush (CacheSound).                                                 *)
(***************************************************************************)
EXTENDS WorkerPool, EmbeddingIndex, SequenceTheorems, FiniteSetTheorems, TLAPS

-----------------------------------------------------------------------------
(* The worker pool.                                                        *)

SlotRecords == [worker : Workers, current : Tasks \union {None}, retiring : BOOLEAN]
ThreadRecords == [slot : Slots, alive : BOOLEAN, job : Tasks \union {None},
                  posted : Tasks \union {None}, events : 0..2, crashed : BOOLEAN]

UndispatchedOpen == \A t \in nextTask..TaskCount : outcome[t] = "none"

Budgets ==
    /\ spawned = FleetSize + respawns
    /\ timeouts = MaxTimeouts => tripped
    /\ destroyed => finished
    /\ \A s \in Slots : slots[s].worker <= spawned

\* The threads in W are those of now, some of them perhaps dead since.
SoundThreads(W, n) ==
    /\ W \in [Workers -> ThreadRecords]
    /\ \A w \in Workers : W[w].alive => w <= n /\ W[w].events = 0

Kept(W) ==
    /\ SoundThreads(W, spawned)
    /\ \A w \in Workers : W[w].alive => threads[w].alive /\ W[w].slot = threads[w].slot

ThreadsInv == SoundThreads(threads, spawned)

IInv ==
    /\ TypeOK /\ SettledExactlyOnce /\ TaskOwnership /\ NoStrayThread
    /\ UndispatchedOpen /\ Budgets /\ ThreadsInv

-----------------------------------------------------------------------------
LEMMA Sizes ==
    /\ FleetSize \in Nat \ {0} /\ FleetSize <= TaskCount
    /\ Slots = 1..FleetSize /\ Tasks = 1..TaskCount /\ TaskCount \in Nat \ {0}
    /\ Workers = 1..(FleetSize + MaxRespawns) /\ MaxRespawns \in Nat /\ MaxTimeouts \in Nat \ {0}
BY PoolAssumption DEF FleetSize, Slots, Tasks, Workers

LEMMA SettleKeeps ==
    ASSUME TypeOK, SettledExactlyOnce, NEW T, NEW how \in {"ok", "failed"}, Settle(T, how)
    PROVE  /\ outcome' \in [Tasks -> {"none", "ok", "failed"}] /\ notified' \in [Tasks -> Nat]
           /\ \A t \in Tasks : notified'[t] = IF outcome'[t] = "none" THEN 0 ELSE 1
           /\ \A t \in Tasks : outcome'[t] = "none" <=> (outcome[t] = "none" /\ t \notin T)
<1>1. outcome' \in [Tasks -> {"none", "ok", "failed"}] /\ notified' \in [Tasks -> Nat]
    BY DEF TypeOK, Settle
<1>2. ASSUME NEW t \in Tasks
      PROVE  /\ notified'[t] = IF outcome'[t] = "none" THEN 0 ELSE 1
             /\ outcome'[t] = "none" <=> (outcome[t] = "none" /\ t \notin T)
    BY DEF TypeOK, SettledExactlyOnce, Settle
<1>. QED
    BY <1>1, <1>2

LEMMA Finishes ==
    ASSUME MaybeFinish, \A t \in Tasks : notified'[t] = IF outcome'[t] = "none" THEN 0 ELSE 1
    PROVE  finished' \in BOOLEAN /\ SettledExactlyOnce'
<1>1. finished' = (\A t \in Tasks : outcome'[t] # "none")
    BY DEF MaybeFinish
<1>2. (\A t \in Tasks : outcome'[t] # "none") <=> (\A t \in Tasks : notified'[t] = 1)
    OBVIOUS
<1>3. finished' \in BOOLEAN /\ (finished' <=> \A t \in Tasks : notified'[t] = 1)
    BY <1>1, <1>2, Zenon
<1>. QED
    BY <1>3 DEF SettledExactlyOnce

\* The task of one slot is settled and the slot gets the next one.
LEMMA NextTaskOwned ==
    ASSUME TypeOK, TaskOwnership, UndispatchedOpen, tripped = FALSE, tripped' = tripped, NEW s \in Slots,
           \A t \in Tasks : outcome'[t] = "none" <=> (outcome[t] = "none" /\ t # slots[s].current),
           slots'[s].current = Upcoming,
           \A q \in Slots \ {s} : slots'[q].current = slots[q].current,
           AdvanceNext
    PROVE  TaskOwnership' /\ UndispatchedOpen' /\ nextTask' \in 1..(TaskCount + 1)
<1>1. nextTask \in 1..(TaskCount + 1) /\ TaskCount \in Nat /\ Tasks = 1..TaskCount
    BY Sizes DEF TypeOK
<1>2. nextTask' = (IF nextTask <= TaskCount THEN nextTask + 1 ELSE nextTask) /\ nextTask' \in 1..(TaskCount + 1)
    BY <1>1 DEF AdvanceNext
<1>3. \A q \in Slots : slots[q].current \in Tasks \union {None}
    BY DEF TypeOK
<1>4. slots[s].current < nextTask
    BY <1>1, <1>3 DEF TaskOwnership, Owned, None
<1>5. ASSUME NEW t \in 1..(nextTask' - 1), outcome'[t] = "none" PROVE \E q \in Slots : slots'[q].current = t
    <2>1. CASE t = nextTask
        <3>1. nextTask <= TaskCount
            BY <1>1, <1>2, <2>1
        <3>. QED
            BY <2>1, <3>1 DEF Upcoming
    <2>2. CASE t # nextTask
        <3>1. t \in 1..(nextTask - 1) /\ t \in Tasks
            BY <1>1, <1>2, <2>2
        <3>2. outcome[t] = "none" /\ t # slots[s].current
            BY <1>5, <3>1
        <3>3. PICK q \in Slots : slots[q].current = t
            BY <3>1, <3>2 DEF TaskOwnership, Owned
        <3>. QED
            BY <3>2, <3>3
    <2>. QED
        BY <2>1, <2>2
<1>6. ASSUME NEW q \in Slots, slots'[q].current # None
      PROVE  /\ outcome'[slots'[q].current] = "none"
             /\ slots'[q].current < nextTask'
             /\ \A p \in Slots \ {q} : slots'[p].current # slots'[q].current
    <2>1. CASE q = s
        <3>1. slots'[s].current = nextTask /\ nextTask <= TaskCount /\ nextTask' = nextTask + 1
            BY <1>2, <1>6, <2>1 DEF Upcoming
        <3>2. outcome[nextTask] = "none"
            BY <1>1, <3>1 DEF UndispatchedOpen
        <3>3. \A p \in Slots \ {s} : slots'[p].current # nextTask
            BY <1>1, <1>3, <3>1 DEF TaskOwnership, Owned, None
        <3>. QED
            BY <1>1, <1>4, <2>1, <3>1, <3>2, <3>3
    <2>2. CASE q # s
        <3>1. /\ slots'[q].current = slots[q].current /\ slots[q].current \in Tasks
              /\ outcome[slots[q].current] = "none" /\ slots[q].current < nextTask
              /\ \A p \in Slots \ {q} : slots[p].current # slots[q].current
            BY <1>3, <1>6, <2>2 DEF TaskOwnership, Owned
        <3>2. slots[s].current # slots[q].current
            BY <2>2, <3>1
        <3>3. \A p \in Slots \ {q} : slots'[p].current # slots[q].current
            BY <1>1, <3>1 DEF Upcoming, None
        <3>. QED
            BY <1>1, <1>2, <3>1, <3>2, <3>3
    <2>. QED
        BY <2>1, <2>2
<1>7. TaskOwnership'
    BY <1>5, <1>6 DEF TaskOwnership, Owned
<1>8. UndispatchedOpen'
    BY <1>1, <1>2, <1>3, <1>4 DEF UndispatchedOpen
<1>. QED
    BY <1>2, <1>7, <1>8

LEMMA InitIInv == Init => IInv
<1> SUFFICES ASSUME Init PROVE IInv
    OBVIOUS
<1>. USE DEF None
<1>1. FleetSize \in 1..TaskCount /\ Slots \subseteq Tasks /\ Slots \subseteq Workers /\ 1 \in Slots
    BY Sizes
<1>2. slots \in [Slots -> SlotRecords] /\ \A s \in Slots : slots[s].worker = s /\ slots[s].current = s
    BY <1>1 DEF Init, SlotRecords
<1>3. /\ threads \in [Workers -> ThreadRecords]
      /\ \A w \in Workers : threads[w].alive => w \in Slots /\ threads[w].slot = w /\ threads[w].events = 0
    <2>1. ASSUME NEW w \in Slots
          PROVE  Thread(w, w) \in ThreadRecords /\ Thread(w, w).slot = w /\ Thread(w, w).events = 0
        BY <1>1 DEF Thread, ThreadRecords
    <2>2. /\ [Thread(1, None) EXCEPT !.alive = FALSE] \in ThreadRecords
          /\ ~[Thread(1, None) EXCEPT !.alive = FALSE].alive
        <3>. DEFINE k == Thread(1, None)
        <3>1. k \in ThreadRecords
            BY <1>1 DEF Thread, ThreadRecords
        <3>. HIDE DEF k
        <3>2. [k EXCEPT !.alive = FALSE] \in ThreadRecords /\ ~[k EXCEPT !.alive = FALSE].alive
            BY <3>1 DEF ThreadRecords
        <3>. QED
            BY <3>2 DEF k
    <2>. HIDE DEF None
    <2>. QED
        BY <2>1, <2>2, <1>1 DEF Init
<1>4. TypeOK
    <2>1. /\ nextTask \in 1..(TaskCount + 1) /\ spawned \in Workers
          /\ respawns \in 0..MaxRespawns /\ timeouts \in 0..MaxTimeouts
        BY <1>1, Sizes DEF Init
    <2>. QED
        BY <1>2, <1>3, <2>1 DEF Init, TypeOK, SlotRecords, ThreadRecords
<1>5. SettledExactlyOnce
    BY Sizes DEF Init, SettledExactlyOnce
<1>6. TaskOwnership
    <2>1. \A t \in 1..(nextTask - 1) : t \in Slots
        BY Sizes DEF Init
    <2>2. \A s \in Slots : s \in Tasks /\ s < nextTask
        BY Sizes DEF Init
    <2>. QED
        BY <2>1, <2>2, <1>2 DEF Init, TaskOwnership, Owned
<1>7. UndispatchedOpen
    BY Sizes DEF Init, UndispatchedOpen
<1>8. Budgets
    BY <1>2, Sizes DEF Init, Budgets
<1>9. NoStrayThread
    BY <1>2, <1>3 DEF Init, NoStrayThread
<1>10. ThreadsInv
    <2>1. \A s \in Slots : s <= spawned
        BY Sizes DEF Init
    <2>. QED
        BY <1>3, <2>1 DEF ThreadsInv, SoundThreads
<1>. QED
    BY <1>4, <1>5, <1>6, <1>7, <1>8, <1>9, <1>10 DEF IInv

-----------------------------------------------------------------------------
LEMMA TripBreakerKeeps ==
    ASSUME TypeOK, SettledExactlyOnce, TaskOwnership, TripBreaker
    PROVE  /\ outcome' \in [Tasks -> {"none", "ok", "failed"}] /\ notified' \in [Tasks -> Nat]
           /\ \A t \in Tasks : notified'[t] = IF outcome'[t] = "none" THEN 0 ELSE 1
           /\ slots' \in [Slots -> SlotRecords]
           /\ \A q \in Slots : slots'[q].worker = slots[q].worker /\ slots'[q].current = None
           /\ TaskOwnership' /\ UndispatchedOpen' /\ nextTask' \in 1..(TaskCount + 1)
<1>. DEFINE T == {slots[s].current : s \in Slots} \union nextTask..TaskCount
<1>1. /\ outcome' \in [Tasks -> {"none", "ok", "failed"}] /\ notified' \in [Tasks -> Nat]
      /\ \A t \in Tasks : notified'[t] = IF outcome'[t] = "none" THEN 0 ELSE 1
      /\ \A t \in Tasks : outcome'[t] = "none" <=> (outcome[t] = "none" /\ t \notin T)
    <2>1. Settle(T, "failed")
        BY DEF TripBreaker
    <2>. HIDE DEF T
    <2>2. PICK S : S = T
        OBVIOUS
    <2>. QED
        BY <2>1, SettleKeeps
<1>2. nextTask \in 1..(TaskCount + 1) /\ TaskCount \in Nat /\ Tasks = 1..TaskCount
    BY Sizes DEF TypeOK
<1>3. \A t \in Tasks : outcome'[t] # "none"
    <2>1. ASSUME NEW t \in Tasks, outcome[t] = "none" PROVE t \in T
        <3>1. CASE t < nextTask
            BY <1>2, <2>1, <3>1 DEF TaskOwnership, Owned
        <3>2. CASE t >= nextTask
            BY <1>2, <3>2
        <3>. QED
            BY <1>2, <3>1, <3>2
    <2>. QED
        BY <1>1, <2>1
<1>4. /\ slots' \in [Slots -> SlotRecords]
      /\ \A q \in Slots : slots'[q].worker = slots[q].worker /\ slots'[q].current = None
    BY DEF TripBreaker, TypeOK, SlotRecords
<1>5. nextTask' = TaskCount + 1 /\ tripped' = TRUE
    BY DEF TripBreaker
<1>6. TaskOwnership'
    BY <1>2, <1>3, <1>4, <1>5 DEF TaskOwnership, Owned
<1>7. UndispatchedOpen'
    BY <1>2, <1>5 DEF UndispatchedOpen
<1>. QED
    BY <1>1, <1>2, <1>4, <1>5, <1>6, <1>7

LEMMA TerminatedDead ==
    ASSUME NEW k \in ThreadRecords, k.alive => k.events = 0
    PROVE  Terminated(k) \in ThreadRecords /\ ~Terminated(k).alive
<1>1. CASE ~k.alive
    BY <1>1 DEF Terminated
<1>2. CASE k.alive
    <2>. DEFINE a == [k EXCEPT !.alive = FALSE]
                b == [a EXCEPT !.events = @ + 1]
    <2>1. a \in ThreadRecords /\ ~a.alive /\ a.events = 0
        BY <1>2 DEF ThreadRecords
    <2>. HIDE DEF a
    <2>2. b \in ThreadRecords /\ ~b.alive
        BY <2>1 DEF ThreadRecords
    <2>3. Terminated(k) = b
        BY <1>2, Zenon DEF Terminated, a
    <2>. QED
        BY <2>2, <2>3
<1>. QED
    BY <1>1, <1>2

LEMMA RespawnKeeps ==
    ASSUME TypeOK, NoStrayThread, Budgets, respawns < MaxRespawns,
           NEW s \in Slots, NEW W, Kept(W), Respawn(s, W)
    PROVE  /\ slots' \in [Slots -> SlotRecords]
           /\ slots'[s].current = Upcoming
           /\ \A q \in Slots \ {s} : slots'[q] = slots[q]
           /\ respawns' \in 0..MaxRespawns /\ spawned' \in Workers
           /\ spawned' = FleetSize + respawns'
           /\ \A q \in Slots : slots'[q].worker <= spawned'
           /\ ThreadsInv'
           /\ \A w \in Workers : threads'[w].alive => slots'[threads'[w].slot].worker = w
<1>. DEFINE old == slots[s].worker
            new == spawned + 1
<1>1. /\ respawns' = respawns + 1 /\ spawned' = new /\ AdvanceNext
      /\ slots' = [slots EXCEPT ![s] = [worker |-> new, current |-> Upcoming, retiring |-> FALSE]]
      /\ threads' = [W EXCEPT ![old] = Terminated(@), ![new] = Thread(s, Upcoming)]
    BY DEF Respawn
<1>2. /\ respawns' \in 0..MaxRespawns /\ new \in Workers /\ spawned' = FleetSize + respawns'
      /\ spawned \in Nat /\ old \in Workers /\ old # new
    <2>1. respawns \in Nat /\ respawns < MaxRespawns /\ spawned = FleetSize + respawns
        BY Sizes DEF TypeOK, Budgets
    <2>2. old \in Workers /\ old <= spawned
        BY DEF TypeOK, Budgets
    <2>. QED
        BY <1>1, <2>1, <2>2, Sizes
<1>3. Upcoming \in Tasks \union {None}
    BY Sizes DEF TypeOK, Upcoming
<1>. HIDE DEF new
<1>4. slots \in [Slots -> SlotRecords]
    BY DEF TypeOK, SlotRecords
<1>5. slots' \in [Slots -> SlotRecords] /\ slots'[s].current = Upcoming /\ slots'[s].worker = new
    BY <1>1, <1>2, <1>3, <1>4 DEF SlotRecords
<1>6. \A q \in Slots \ {s} : slots'[q] = slots[q]
    BY <1>1, <1>4
<1>7. \A q \in Slots : slots'[q].worker <= spawned'
    <2>1. \A q \in Slots : slots[q].worker <= spawned /\ slots[q].worker \in Nat
        BY <1>4, Sizes DEF Budgets, SlotRecords
    <2>. QED
        BY <1>1, <1>2, <1>5, <1>6, <2>1 DEF new
<1>8. Thread(s, Upcoming) \in ThreadRecords /\ Thread(s, Upcoming).slot = s /\ Thread(s, Upcoming).events = 0
    BY <1>3 DEF Thread, ThreadRecords, None
<1>9. Terminated(W[old]) \in ThreadRecords /\ ~Terminated(W[old]).alive
    BY <1>2, TerminatedDead DEF Kept, SoundThreads
<1>. HIDE DEF old
<1>10. /\ threads' \in [Workers -> ThreadRecords]
       /\ threads'[new] = Thread(s, Upcoming) /\ ~threads'[old].alive
       /\ \A w \in Workers \ {old, new} : threads'[w] = W[w]
    BY <1>1, <1>2, <1>8, <1>9 DEF Kept, SoundThreads
<1>11. ThreadsInv'
    <2>1. ASSUME NEW w \in Workers, threads'[w].alive PROVE w <= spawned' /\ threads'[w].events = 0
        <3>1. CASE w = new
            <4>1. w <= spawned'
                BY <1>1, <1>2, <3>1 DEF new
            <4>2. threads'[w].events = 0
                BY <1>8, <1>10, <3>1
            <4>. QED
                BY <4>1, <4>2
        <3>2. CASE w # new
            <4>1. w \in Workers \ {old, new}
                BY <1>10, <2>1, <3>2
            <4>2. w <= spawned /\ W[w].events = 0 /\ w \in Nat
                BY <1>10, <2>1, <4>1, Sizes DEF Kept, SoundThreads
            <4>3. w <= spawned'
                BY <1>1, <1>2, <4>2 DEF new
            <4>. QED
                BY <1>10, <4>1, <4>2, <4>3
        <3>. QED
            BY <3>1, <3>2
    <2>. QED
        BY <1>10, <2>1 DEF ThreadsInv, SoundThreads
<1>12. ASSUME NEW w \in Workers, threads'[w].alive PROVE slots'[threads'[w].slot].worker = w
    <2>1. CASE w = new
        BY <1>5, <1>8, <1>10, <2>1
    <2>2. CASE w # new
        <3>1. w \in Workers \ {old, new} /\ threads'[w] = W[w]
            BY <1>10, <1>12, <2>2
        <3>2. slots[W[w].slot].worker = w
            BY <1>12, <3>1 DEF Kept, NoStrayThread
        <3>3. W[w].slot # s
            BY <3>1, <3>2 DEF old
        <3>4. W[w].slot \in Slots
            BY <3>1 DEF Kept, SoundThreads, ThreadRecords
        <3>. QED
            BY <1>6, <3>1, <3>2, <3>3, <3>4
    <2>. QED
        BY <2>1, <2>2
<1>. QED
    BY <1>1, <1>2, <1>5, <1>6, <1>7, <1>11, <1>12

\* What a step that settles tasks has to leave.
LEMMA Assembled ==
    ASSUME outcome' \in [Tasks -> {"none", "ok", "failed"}], notified' \in [Tasks -> Nat],
           \A t \in Tasks : notified'[t] = IF outcome'[t] = "none" THEN 0 ELSE 1,
           MaybeFinish, TaskOwnership', UndispatchedOpen', nextTask' \in 1..(TaskCount + 1),
           slots' \in [Slots -> SlotRecords], \A q \in Slots : slots'[q].worker <= spawned',
           respawns' \in 0..MaxRespawns, spawned' \in Workers, spawned' = FleetSize + respawns',
           tripped' \in BOOLEAN, timeouts' \in 0..MaxTimeouts, timeouts' = MaxTimeouts => tripped',
           destroyed' = FALSE,
           ThreadsInv', \A w \in Workers : threads'[w].alive => slots'[threads'[w].slot].worker = w
    PROVE  IInv'
<1>1. finished' \in BOOLEAN /\ SettledExactlyOnce'
    BY Finishes
<1>2. TypeOK'
    <2>1. threads' \in [Workers -> ThreadRecords]
        BY DEF ThreadsInv, SoundThreads
    <2>. QED
        BY <1>1, <2>1 DEF TypeOK, SlotRecords, ThreadRecords
<1>3. NoStrayThread'
    BY DEF NoStrayThread
<1>4. Budgets'
    BY DEF Budgets
<1>. QED
    BY <1>1, <1>2, <1>3, <1>4 DEF IInv

LEMMA SlotsTyped == ASSUME TypeOK PROVE slots \in [Slots -> SlotRecords]
BY DEF TypeOK, SlotRecords

\* Threads that are those of now, with the slots pointing where they did.
LEMMA ThreadsKept ==
    ASSUME TypeOK, NoStrayThread, Kept(threads'), spawned' = spawned,
           \A q \in Slots : slots'[q].worker = slots[q].worker
    PROVE  ThreadsInv' /\ \A w \in Workers : threads'[w].alive => slots'[threads'[w].slot].worker = w
<1>1. ThreadsInv'
    BY DEF ThreadsInv, Kept, SoundThreads
<1>2. ASSUME NEW w \in Workers, threads'[w].alive PROVE slots'[threads'[w].slot].worker = w
    <2>1. threads'[w].slot = threads[w].slot /\ threads[w].alive /\ threads'[w].slot \in Slots
        BY <1>2 DEF Kept, SoundThreads, ThreadRecords
    <2>. QED
        BY <2>1 DEF NoStrayThread
<1>. QED
    BY <1>1, <1>2

\* tripBreaker(), with the threads as they are or with one event delivered.
LEMMA TripKeeps ==
    ASSUME IInv, ~destroyed, TripBreaker, Kept(threads'), MaybeFinish, destroyed' = destroyed,
           timeouts' \in 0..MaxTimeouts
    PROVE  IInv'
<1>1. TypeOK /\ SettledExactlyOnce /\ TaskOwnership /\ NoStrayThread /\ Budgets
    BY DEF IInv
<1>2. tripped' = TRUE /\ respawns' = respawns /\ spawned' = spawned
    BY DEF TripBreaker
<1>3. /\ outcome' \in [Tasks -> {"none", "ok", "failed"}] /\ notified' \in [Tasks -> Nat]
      /\ \A t \in Tasks : notified'[t] = IF outcome'[t] = "none" THEN 0 ELSE 1
      /\ slots' \in [Slots -> SlotRecords]
      /\ \A q \in Slots : slots'[q].worker = slots[q].worker /\ slots'[q].current = None
      /\ TaskOwnership' /\ UndispatchedOpen' /\ nextTask' \in 1..(TaskCount + 1)
    BY <1>1, TripBreakerKeeps
<1>4. ThreadsInv' /\ \A w \in Workers : threads'[w].alive => slots'[threads'[w].slot].worker = w
    BY <1>1, <1>2, <1>3, ThreadsKept
<1>5. /\ respawns' \in 0..MaxRespawns /\ spawned' \in Workers /\ spawned' = FleetSize + respawns'
      /\ \A q \in Slots : slots'[q].worker <= spawned'
    BY <1>1, <1>2, <1>3 DEF TypeOK, Budgets
<1>6. destroyed' = FALSE
    BY <1>1 DEF TypeOK
<1>. QED
    BY <1>2, <1>3, <1>4, <1>5, <1>6, Assembled

\* recycle() after a failed task, in each of its three outcomes.
LEMMA FailAndRecycleKeeps ==
    ASSUME IInv, ~destroyed, NEW s \in Slots, NEW W, Kept(W),
           FailAndRecycle(s, {slots[s].current}, W), MaybeFinish, destroyed' = destroyed,
           timeouts' \in 0..MaxTimeouts, timeouts' = MaxTimeouts => tripped
    PROVE  IInv'
<1>1. TypeOK /\ SettledExactlyOnce /\ TaskOwnership /\ NoStrayThread /\ UndispatchedOpen /\ Budgets
    BY DEF IInv
<1>2. destroyed' = FALSE /\ slots \in [Slots -> SlotRecords] /\ tripped \in BOOLEAN
    BY <1>1, SlotsTyped DEF TypeOK
<1>3. ASSUME Settle({slots[s].current}, "failed")
      PROVE  /\ outcome' \in [Tasks -> {"none", "ok", "failed"}] /\ notified' \in [Tasks -> Nat]
             /\ \A t \in Tasks : notified'[t] = IF outcome'[t] = "none" THEN 0 ELSE 1
             /\ \A t \in Tasks : outcome'[t] = "none" <=> (outcome[t] = "none" /\ t # slots[s].current)
    <2>1. PICK T : T = {slots[s].current}
        OBVIOUS
    <2>. QED
        BY <1>1, <1>3, <2>1, SettleKeeps
<1>4. CASE /\ tripped
           /\ Settle({slots[s].current}, "failed")
           /\ slots' = [slots EXCEPT ![s].current = None]
           /\ threads' = W
           /\ UNCHANGED <<nextTask, respawns, spawned, tripped>>
    <2>1. /\ slots' \in [Slots -> SlotRecords]
          /\ \A q \in Slots : slots'[q].worker = slots[q].worker /\ slots'[q].current = slots[q].current
        BY <1>1, <1>2, <1>4 DEF SlotRecords, TaskOwnership, Owned
    <2>2. nextTask = TaskCount + 1 /\ \A q \in Slots : slots[q].current = None
        BY <1>1, <1>4 DEF TaskOwnership, Owned
    <2>3. \A t \in Tasks : outcome'[t] # "none"
        <3>1. ASSUME NEW t \in Tasks PROVE outcome[t] # "none"
            <4>1. t \in 1..(nextTask - 1) /\ t # None
                BY <2>2, Sizes DEF None
            <4>. QED
                BY <1>1, <2>2, <4>1 DEF TaskOwnership, Owned
        <3>. QED
            BY <1>3, <1>4, <3>1
    <2>4. TaskOwnership' /\ UndispatchedOpen'
        BY <1>4, <2>1, <2>2, <2>3, Sizes DEF TaskOwnership, Owned, UndispatchedOpen
    <2>5. ThreadsInv' /\ \A w \in Workers : threads'[w].alive => slots'[threads'[w].slot].worker = w
        BY <1>1, <1>4, <2>1, ThreadsKept
    <2>6. /\ respawns' \in 0..MaxRespawns /\ spawned' \in Workers /\ spawned' = FleetSize + respawns'
          /\ \A q \in Slots : slots'[q].worker <= spawned'
          /\ nextTask' \in 1..(TaskCount + 1) /\ tripped' \in BOOLEAN
        BY <1>1, <1>4, <2>1 DEF TypeOK, Budgets
    <2>. QED
        BY <1>2, <1>3, <1>4, <2>1, <2>4, <2>5, <2>6, Assembled
<1>5. CASE TripBreaker /\ threads' = W
    BY <1>5, TripKeeps
<1>6. CASE ~tripped /\ respawns < MaxRespawns /\ Settle({slots[s].current}, "failed") /\ Respawn(s, W)
    <2>1. /\ slots' \in [Slots -> SlotRecords]
          /\ slots'[s].current = Upcoming
          /\ \A q \in Slots \ {s} : slots'[q] = slots[q]
          /\ respawns' \in 0..MaxRespawns /\ spawned' \in Workers
          /\ spawned' = FleetSize + respawns'
          /\ \A q \in Slots : slots'[q].worker <= spawned'
          /\ ThreadsInv'
          /\ \A w \in Workers : threads'[w].alive => slots'[threads'[w].slot].worker = w
        BY <1>1, <1>6, RespawnKeeps
    <2>2. AdvanceNext /\ tripped' = tripped /\ tripped = FALSE
        BY <1>2, <1>6 DEF Respawn
    <2>3. TaskOwnership' /\ UndispatchedOpen' /\ nextTask' \in 1..(TaskCount + 1)
        BY <1>1, <1>3, <1>6, <2>1, <2>2, NextTaskOwned
    <2>4. timeouts' = MaxTimeouts => tripped'
        BY <2>2
    <2>. QED
        BY <1>2, <1>3, <1>6, <2>1, <2>2, <2>3, <2>4, Assembled
<1>. QED
    BY <1>4, <1>5, <1>6 DEF FailAndRecycle

-----------------------------------------------------------------------------
\* A step of the threads alone.
LEMMA ThreadStepKeeps ==
    ASSUME IInv, UNCHANGED poolVars, Kept(threads')
    PROVE  IInv'
<1>1. /\ TypeOK /\ SettledExactlyOnce /\ TaskOwnership /\ NoStrayThread /\ UndispatchedOpen /\ Budgets
      /\ slots \in [Slots -> SlotRecords]
    BY SlotsTyped DEF IInv
<1>2. /\ nextTask' = nextTask /\ slots' = slots /\ outcome' = outcome /\ notified' = notified
      /\ respawns' = respawns /\ timeouts' = timeouts /\ tripped' = tripped
      /\ finished' = finished /\ destroyed' = destroyed /\ spawned' = spawned
    BY DEF poolVars
<1>3. ThreadsInv' /\ \A w \in Workers : threads'[w].alive => slots'[threads'[w].slot].worker = w
    BY <1>1, <1>2, ThreadsKept
<1>4. TypeOK'
    <2>1. threads' \in [Workers -> ThreadRecords]
        BY <1>3 DEF ThreadsInv, SoundThreads
    <2>. QED
        BY <1>1, <1>2, <2>1 DEF TypeOK, ThreadRecords
<1>5. SettledExactlyOnce' /\ TaskOwnership' /\ UndispatchedOpen' /\ Budgets'
    BY <1>1, <1>2 DEF SettledExactlyOnce, TaskOwnership, Owned, UndispatchedOpen, Budgets
<1>6. NoStrayThread'
    BY <1>1, <1>2, <1>3 DEF NoStrayThread, Kept
<1>. QED
    BY <1>3, <1>4, <1>5, <1>6 DEF IInv

LEMMA EventDelivered ==
    ASSUME IInv, NEW w \in Workers, threads[w].events > 0
    PROVE  Kept([threads EXCEPT ![w].events = @ - 1])
BY DEF IInv, ThreadsInv, Kept, SoundThreads, ThreadRecords

LEMMA ThreadsNow == ASSUME IInv PROVE Kept(threads)
BY DEF IInv, ThreadsInv, Kept

LEMMA OnTaskTimeoutKeeps == ASSUME IInv, NEW s \in Slots, OnTaskTimeout(s) PROVE IInv'
<1>1. ~tripped /\ ~destroyed /\ destroyed' = destroyed /\ MaybeFinish
    BY DEF IInv, OnTaskTimeout, TaskOwnership, Owned, Budgets
<1>2. timeouts \in 0..MaxTimeouts /\ timeouts # MaxTimeouts /\ MaxTimeouts \in Nat
    BY <1>1, Sizes DEF IInv, TypeOK, Budgets
<1>3. timeouts' = timeouts + 1 /\ timeouts' \in 0..MaxTimeouts
    BY <1>2 DEF OnTaskTimeout
<1>4. CASE TripBreaker /\ threads' = threads
    BY <1>1, <1>3, <1>4, ThreadsNow, TripKeeps
<1>5. CASE timeouts + 1 < MaxTimeouts /\ FailAndRecycle(s, {slots[s].current}, threads)
    <2>1. timeouts' # MaxTimeouts
        BY <1>2, <1>3, <1>5
    <2>2. PICK W : W = threads
        OBVIOUS
    <2>. QED
        BY <1>1, <1>3, <1>5, <2>1, <2>2, ThreadsNow, FailAndRecycleKeeps
<1>. QED
    BY <1>4, <1>5 DEF OnTaskTimeout

LEMMA OnExitKeeps == ASSUME IInv, NEW w \in Workers, OnExit(w) PROVE IInv'
<1>. DEFINE s == threads[w].slot
            rest == [threads EXCEPT ![w].events = @ - 1]
<1>1. threads[w].events > 0 /\ Kept(rest) /\ s \in Slots
    BY EventDelivered DEF OnExit, IInv, TypeOK
<1>2. CASE threads' = rest /\ UNCHANGED poolVars
    BY <1>1, <1>2, ThreadStepKeeps
<1>3. CASE /\ ~(finished \/ slots[s].retiring)
           /\ FailAndRecycle(s, {slots[s].current}, rest)
           /\ MaybeFinish
           /\ UNCHANGED <<timeouts, destroyed>>
    <2>1. ~destroyed
        BY <1>3 DEF IInv, Budgets
    <2>2. timeouts' \in 0..MaxTimeouts /\ (timeouts' = MaxTimeouts => tripped)
        BY <1>3 DEF IInv, TypeOK, Budgets
    <2>. HIDE DEF rest, s
    <2>3. PICK W : W = rest
        OBVIOUS
    <2>4. PICK q \in Slots : q = s
        BY <1>1
    <2>. QED
        BY <1>1, <1>3, <2>1, <2>2, <2>3, <2>4, FailAndRecycleKeeps
<1>. QED
    BY <1>2, <1>3 DEF OnExit

LEMMA PostKeeps == ASSUME IInv, NEW w \in Workers, Post(w) PROVE IInv'
<1>1. threads \in [Workers -> ThreadRecords] /\ threads[w].job \in Tasks \union {None}
    BY DEF IInv, ThreadsInv, SoundThreads, ThreadRecords
<1>. DEFINE a == [threads EXCEPT ![w].posted = threads[w].job]
            b == [a EXCEPT ![w].job = None]
<1>2. a \in [Workers -> ThreadRecords]
      /\ \A v \in Workers : a[v].alive = threads[v].alive /\ a[v].slot = threads[v].slot /\ a[v].events = threads[v].events
    BY <1>1 DEF ThreadRecords
<1>3. threads' = b
    BY <1>1 DEF Post
<1>. HIDE DEF a
<1>4. b \in [Workers -> ThreadRecords]
      /\ \A v \in Workers : b[v].alive = a[v].alive /\ b[v].slot = a[v].slot /\ b[v].events = a[v].events
    BY <1>2 DEF ThreadRecords
<1>5. Kept(threads')
    BY <1>2, <1>3, <1>4 DEF Kept, SoundThreads, IInv, ThreadsInv
<1>. QED
    BY <1>5, ThreadStepKeeps DEF Post

LEMMA CrashKeeps == ASSUME IInv, NEW w \in Workers, Crash(w) PROVE IInv'
<1>1. threads \in [Workers -> ThreadRecords]
    BY DEF IInv, ThreadsInv, SoundThreads
<1>2. PICK n \in 1..2 : threads' = [threads EXCEPT ![w].alive = FALSE, ![w].events = n, ![w].crashed = TRUE]
    BY DEF Crash
<1>. DEFINE a == [threads EXCEPT ![w].alive = FALSE]
            b == [a EXCEPT ![w].events = n]
            c == [b EXCEPT ![w].crashed = TRUE]
<1>3. a \in [Workers -> ThreadRecords] /\ ~a[w].alive /\ \A v \in Workers \ {w} : a[v] = threads[v]
    BY <1>1 DEF ThreadRecords
<1>4. threads' = c
    BY <1>2
<1>. HIDE DEF a
<1>5. b \in [Workers -> ThreadRecords] /\ ~b[w].alive /\ \A v \in Workers \ {w} : b[v] = a[v]
    BY <1>3 DEF ThreadRecords
<1>. HIDE DEF b
<1>6. c \in [Workers -> ThreadRecords] /\ ~c[w].alive /\ \A v \in Workers \ {w} : c[v] = b[v]
    BY <1>5 DEF ThreadRecords
<1>7. Kept(threads')
    <2>1. \A v \in Workers : threads'[v].alive => threads'[v] = threads[v]
        BY <1>3, <1>4, <1>5, <1>6
    <2>. QED
        BY <1>4, <1>6, <2>1 DEF Kept, SoundThreads, IInv, ThreadsInv
<1>. QED
    BY <1>7, ThreadStepKeeps DEF Crash

LEMMA OnMessageKeeps == ASSUME IInv, NEW w \in Workers, OnMessage(w) PROVE IInv'
<1>. DEFINE s == threads[w].slot
            t == threads[w].posted
            rest == [threads EXCEPT ![w].posted = None]
<1>1. /\ TypeOK /\ SettledExactlyOnce /\ TaskOwnership /\ NoStrayThread /\ UndispatchedOpen /\ Budgets
      /\ slots \in [Slots -> SlotRecords] /\ threads \in [Workers -> ThreadRecords]
    BY SlotsTyped DEF IInv, ThreadsInv, SoundThreads
<1>2. s \in Slots /\ t \in Tasks /\ t # None
    BY <1>1 DEF OnMessage, ThreadRecords
<1>3. /\ rest \in [Workers -> ThreadRecords]
      /\ \A v \in Workers : /\ rest[v].alive = threads[v].alive /\ rest[v].slot = threads[v].slot
                            /\ rest[v].events = threads[v].events
    BY <1>1 DEF ThreadRecords
<1>4. CASE threads' = rest /\ UNCHANGED poolVars
    <2>1. Kept(threads')
        BY <1>3, <1>4 DEF Kept, SoundThreads, IInv, ThreadsInv
    <2>. QED
        BY <1>4, <2>1, ThreadStepKeeps
<1>5. CASE /\ ~(finished \/ slots[s].current # t)
           /\ Settle({t}, "ok")
           /\ slots' = [slots EXCEPT ![s].current = Upcoming]
           /\ AdvanceNext
           /\ threads' = [threads EXCEPT ![w].posted = None, ![slots[s].worker].job = Upcoming]
           /\ MaybeFinish
           /\ UNCHANGED <<respawns, timeouts, tripped, destroyed, spawned>>
    <2>1. slots[s].current = t /\ ~destroyed /\ tripped = FALSE /\ destroyed' = FALSE
        BY <1>1, <1>2, <1>5 DEF TypeOK, TaskOwnership, Owned, Budgets
    <2>2. Upcoming \in Tasks \union {None}
        BY <1>1, Sizes DEF TypeOK, Upcoming
    <2>3. /\ slots' \in [Slots -> SlotRecords] /\ slots'[s].current = Upcoming
          /\ \A q \in Slots : slots'[q].worker = slots[q].worker
          /\ \A q \in Slots \ {s} : slots'[q].current = slots[q].current
        BY <1>1, <1>2, <1>5, <2>2 DEF SlotRecords
    <2>4. /\ outcome' \in [Tasks -> {"none", "ok", "failed"}] /\ notified' \in [Tasks -> Nat]
          /\ \A u \in Tasks : notified'[u] = IF outcome'[u] = "none" THEN 0 ELSE 1
          /\ \A u \in Tasks : outcome'[u] = "none" <=> (outcome[u] = "none" /\ u # slots[s].current)
        <3>1. PICK T : T = {t}
            OBVIOUS
        <3>. QED
            BY <1>1, <1>5, <2>1, <3>1, SettleKeeps
    <2>5. TaskOwnership' /\ UndispatchedOpen' /\ nextTask' \in 1..(TaskCount + 1)
        <3>1. PICK q \in Slots : q = s
            BY <1>2
        <3>2. tripped' = tripped /\ AdvanceNext
            BY <1>5
        <3>. HIDE DEF s
        <3>. QED
            BY <1>1, <2>1, <2>3, <2>4, <3>1, <3>2, NextTaskOwned
    <2>6. Kept(threads')
        <3>. DEFINE b == [rest EXCEPT ![slots[s].worker].job = Upcoming]
        <3>1. threads' = b
            BY <1>1, <1>5
        <3>. HIDE DEF rest
        <3>2. /\ b \in [Workers -> ThreadRecords]
              /\ \A v \in Workers : /\ b[v].alive = rest[v].alive /\ b[v].slot = rest[v].slot
                                    /\ b[v].events = rest[v].events
            BY <1>3, <2>2, ZenonT(60) DEF ThreadRecords
        <3>. QED
            BY <1>3, <3>1, <3>2 DEF Kept, SoundThreads, IInv, ThreadsInv
    <2>7. ThreadsInv' /\ \A v \in Workers : threads'[v].alive => slots'[threads'[v].slot].worker = v
        BY <1>1, <1>5, <2>3, <2>6, ThreadsKept
    <2>8. /\ respawns' \in 0..MaxRespawns /\ spawned' \in Workers /\ spawned' = FleetSize + respawns'
          /\ \A q \in Slots : slots'[q].worker <= spawned'
          /\ tripped' \in BOOLEAN /\ timeouts' \in 0..MaxTimeouts /\ (timeouts' = MaxTimeouts => tripped')
        BY <1>1, <1>5, <2>3 DEF TypeOK, Budgets
    <2>. QED
        BY <1>5, <2>1, <2>3, <2>4, <2>5, <2>7, <2>8, Assembled
<1>. QED
    BY <1>4, <1>5 DEF OnMessage

LEMMA DestroyKeeps == ASSUME IInv, Destroy PROVE IInv'
<1>1. /\ TypeOK /\ SettledExactlyOnce /\ TaskOwnership /\ NoStrayThread /\ UndispatchedOpen /\ Budgets
      /\ slots \in [Slots -> SlotRecords] /\ ThreadsInv
    BY SlotsTyped DEF IInv
<1>2. /\ nextTask' = nextTask /\ outcome' = outcome /\ notified' = notified
      /\ respawns' = respawns /\ timeouts' = timeouts /\ tripped' = tripped
      /\ finished' = finished /\ finished = TRUE /\ destroyed' = TRUE /\ spawned' = spawned
      /\ slots' = [s \in Slots |-> [slots[s] EXCEPT !.retiring = TRUE]]
      /\ threads' = [w \in Workers |-> IF \E s \in Slots : slots[s].worker = w
                                       THEN Terminated(threads[w]) ELSE threads[w]]
    BY <1>1 DEF Destroy, TypeOK
<1>3. /\ slots' \in [Slots -> SlotRecords]
      /\ \A q \in Slots : slots'[q].worker = slots[q].worker /\ slots'[q].current = slots[q].current
    BY <1>1, <1>2 DEF SlotRecords
<1>4. ASSUME NEW w \in Workers PROVE threads'[w] \in ThreadRecords /\ ~threads'[w].alive
    <2>1. /\ threads[w] \in ThreadRecords /\ (threads[w].alive => threads[w].events = 0)
          /\ threads'[w] = IF \E s \in Slots : slots[s].worker = w THEN Terminated(threads[w]) ELSE threads[w]
        BY <1>1, <1>2 DEF ThreadsInv, SoundThreads
    <2>2. Terminated(threads[w]) \in ThreadRecords /\ ~Terminated(threads[w]).alive
        BY <2>1, TerminatedDead
    <2>3. threads[w].alive => \E s \in Slots : slots[s].worker = w
        BY <1>1, <2>1 DEF NoStrayThread, ThreadRecords
    <2>. QED
        BY <2>1, <2>2, <2>3
<1>5. threads' \in [Workers -> ThreadRecords]
    <2>1. \E f : threads' = [w \in Workers |-> f[w]]
        BY <1>2
    <2>. QED
        BY <1>4, <2>1
<1>6. ThreadsInv' /\ NoStrayThread'
    BY <1>4, <1>5 DEF ThreadsInv, SoundThreads, NoStrayThread
<1>7. TypeOK'
    BY <1>1, <1>2, <1>3, <1>5 DEF TypeOK, SlotRecords, ThreadRecords
<1>8. SettledExactlyOnce' /\ UndispatchedOpen'
    BY <1>1, <1>2 DEF SettledExactlyOnce, UndispatchedOpen
<1>9. TaskOwnership'
    BY <1>1, <1>2, <1>3 DEF TaskOwnership, Owned
<1>10. Budgets'
    BY <1>1, <1>2, <1>3 DEF Budgets
<1>. QED
    BY <1>6, <1>7, <1>8, <1>9, <1>10 DEF IInv

LEMMA NextIInv == IInv /\ [Next]_vars => IInv'
<1> SUFFICES ASSUME IInv, [Next]_vars PROVE IInv'
    OBVIOUS
<1>1. CASE UNCHANGED vars
    <2>1. UNCHANGED poolVars /\ threads' = threads
        BY <1>1 DEF vars
    <2>. QED
        BY <2>1, ThreadsNow, ThreadStepKeeps
<1>2. ASSUME NEW s \in Slots, OnTaskTimeout(s) PROVE IInv'
    BY <1>2, OnTaskTimeoutKeeps
<1>3. ASSUME NEW w \in Workers, OnMessage(w) \/ OnExit(w) \/ Post(w) \/ Crash(w) PROVE IInv'
    BY <1>3, OnMessageKeeps, OnExitKeeps, PostKeeps, CrashKeeps
<1>4. CASE Destroy
    BY <1>4, DestroyKeeps
<1>5. CASE LetGo
    <2>1. UNCHANGED poolVars /\ threads' = threads
        BY <1>5 DEF LetGo
    <2>. QED
        BY <2>1, ThreadsNow, ThreadStepKeeps
<1>. QED
    BY <1>1, <1>2, <1>3, <1>4, <1>5 DEF Next, PoolNext

\* The inductive invariant holds in every reachable state of a run of the
\* pool, whatever its workers do.
THEOREM Invariance == Spec => []IInv
BY InitIInv, NextIInv, PTL DEF Spec

\* Every task is settled and announced exactly once and run() resolves exactly
\* then; a dispatched task without an outcome is owned by exactly one slot,
\* whose watchdog runs (onTaskTimeout(), recycle(), dispatchTo()); and at most
\* one thread per slot runs, none after destroy().
THEOREM PoolStaysSound == Spec => []PoolInvariant
<1>. DEFINE Held == heldOpen \in BOOLEAN
<1>1. IInv /\ Held => PoolInvariant
    BY DEF IInv, PoolInvariant
<1>2. Spec => []Held
    <2>1. Init => Held
        BY DEF Init
    <2>2. Held /\ [Next]_vars => Held'
        BY DEF Next, LetGo, vars
    <2>. HIDE DEF Held
    <2>. QED
        BY <2>1, <2>2, PTL DEF Spec
<1>. HIDE DEF Held
<1>. QED
    BY Invariance, <1>1, <1>2, PTL

-----------------------------------------------------------------------------
(* Which thread may still answer a task.                                   *)

Carries(w) == {threads[w].job, threads[w].posted} \ {None}

\* A task without an outcome is carried by nobody but the thread its slot
\* points to, and a slot points to a thread of its own.
Frames ==
    /\ \A s \in Slots : threads[slots[s].worker].slot = s
    /\ \A w \in Workers : \A t \in Carries(w) :
          /\ t < nextTask
          /\ outcome[t] = "none" => /\ slots[threads[w].slot].worker = w
                                    /\ slots[threads[w].slot].current = t

LEMMA FramesTyped ==
    ASSUME TypeOK
    PROVE  /\ nextTask \in 1..(TaskCount + 1) /\ TaskCount \in Nat /\ Tasks = 1..TaskCount
           /\ \A s \in Slots : slots[s].worker \in Workers /\ slots[s].current \in Tasks \union {None}
           /\ \A w \in Workers : /\ threads[w].slot \in Slots /\ Carries(w) \subseteq Tasks
                                 /\ threads[w].job \in Tasks \union {None}
                                 /\ threads[w].posted \in Tasks \union {None}
<1>1. \A w \in Workers : threads[w] \in ThreadRecords
    BY DEF TypeOK, ThreadRecords
<1>2. \A w \in Workers : /\ threads[w].slot \in Slots
                         /\ threads[w].job \in Tasks \union {None}
                         /\ threads[w].posted \in Tasks \union {None}
    BY <1>1 DEF ThreadRecords
<1>3. \A w \in Workers : Carries(w) \subseteq Tasks
    BY <1>2 DEF Carries
<1>4. \A s \in Slots : slots[s] \in SlotRecords
    BY DEF TypeOK, SlotRecords
<1>5. \A s \in Slots : slots[s].worker \in Workers /\ slots[s].current \in Tasks \union {None}
    BY <1>4 DEF SlotRecords
<1>. QED
    BY <1>2, <1>3, <1>5, Sizes DEF TypeOK

\* Nobody takes on a task, and no slot another task or thread.
LEMMA FramesStay ==
    ASSUME TypeOK, Frames, nextTask' = nextTask, outcome' = outcome,
           \A w \in Workers : threads'[w].slot = threads[w].slot /\ Carries(w)' \subseteq Carries(w),
           \A s \in Slots : slots'[s].worker = slots[s].worker /\ slots'[s].current = slots[s].current
    PROVE  Frames'
<1>1. \A s \in Slots : slots[s].worker \in Workers
    BY FramesTyped
<1>2. \A w \in Workers : threads[w].slot \in Slots
    BY FramesTyped
<1>3. \A s \in Slots : threads'[slots'[s].worker].slot = s
    BY <1>1 DEF Frames
<1>4. ASSUME NEW w \in Workers, NEW t \in Carries(w)'
      PROVE  /\ t < nextTask'
             /\ outcome'[t] = "none" => /\ slots'[threads'[w].slot].worker = w
                                        /\ slots'[threads'[w].slot].current = t
    BY <1>2, <1>4 DEF Frames
<1>. QED
    BY <1>3, <1>4 DEF Frames

\* After the breaker has tripped, nothing is open.
LEMMA FramesTripped ==
    ASSUME TypeOK', TaskOwnership', tripped', \A s \in Slots : threads'[slots'[s].worker].slot = s
    PROVE  Frames'
<1>1. /\ nextTask' = TaskCount + 1 /\ \A s \in Slots : slots'[s].current = None
      /\ \A t \in 1..(nextTask' - 1) : outcome'[t] = "none" => \E s \in Slots : slots'[s].current = t
    BY DEF TaskOwnership, Owned
<1>2. \A w \in Workers : Carries(w)' \subseteq 1..TaskCount
    <2>1. \A w \in Workers : threads'[w] \in ThreadRecords
        BY DEF TypeOK, ThreadRecords
    <2>2. \A w \in Workers : threads'[w].job \in Tasks \union {None} /\ threads'[w].posted \in Tasks \union {None}
        BY <2>1 DEF ThreadRecords
    <2>. QED
        BY <2>2 DEF Carries, Tasks
<1>3. \A t \in 1..TaskCount : outcome'[t] # "none" /\ t < nextTask'
    BY <1>1, Sizes DEF None
<1>. QED
    BY <1>2, <1>3 DEF Frames

LEMMA InitFrames == Init => Frames
<1> SUFFICES ASSUME Init PROVE Frames
    OBVIOUS
<1>. USE DEF None
<1>1. FleetSize \in 1..TaskCount /\ Slots = 1..FleetSize /\ Slots \subseteq Workers /\ 1 \in Slots
    BY Sizes
<1>2. /\ \A s \in Slots : slots[s].worker = s /\ slots[s].current = s
      /\ nextTask = FleetSize + 1
    BY <1>1 DEF Init
<1>3. \A w \in Slots : threads[w].slot = w /\ Carries(w) = {w}
    <2>1. ASSUME NEW w \in Slots PROVE threads[w].slot = w /\ threads[w].job = w /\ threads[w].posted = 0
        BY <1>1 DEF Init, Thread
    <2>2. \A w \in Slots : w # 0
        BY <1>1
    <2>. QED
        BY <2>1, <2>2 DEF Carries
<1>4. \A w \in Workers \ Slots : Carries(w) = {}
    <2>. DEFINE k == Thread(1, None)
    <2>1. k \in ThreadRecords /\ k.job = 0 /\ k.posted = 0
        BY <1>1 DEF Thread, ThreadRecords
    <2>. HIDE DEF k
    <2>2. [k EXCEPT !.alive = FALSE].job = 0 /\ [k EXCEPT !.alive = FALSE].posted = 0
        BY <2>1 DEF ThreadRecords
    <2>3. \A w \in Workers \ Slots : threads[w] = [k EXCEPT !.alive = FALSE]
        BY DEF Init, k
    <2>. QED
        BY <2>2, <2>3 DEF Carries
<1>. QED
    BY <1>1, <1>2, <1>3, <1>4 DEF Frames

LEMMA TerminatedCarries ==
    ASSUME NEW k \in ThreadRecords
    PROVE  Terminated(k).slot = k.slot /\ Terminated(k).job = k.job /\ Terminated(k).posted = k.posted
<1>1. CASE ~k.alive
    BY <1>1 DEF Terminated
<1>2. CASE k.alive
    <2>. DEFINE a == [k EXCEPT !.alive = FALSE]
                b == [a EXCEPT !.events = @ + 1]
    <2>1. a \in ThreadRecords /\ a.slot = k.slot /\ a.job = k.job /\ a.posted = k.posted
        BY DEF ThreadRecords
    <2>. HIDE DEF a
    <2>2. b.slot = a.slot /\ b.job = a.job /\ b.posted = a.posted
        BY <2>1 DEF ThreadRecords
    <2>3. Terminated(k) = b
        BY <1>2, Zenon DEF Terminated, a
    <2>. QED
        BY <2>1, <2>2, <2>3
<1>. QED
    BY <1>1, <1>2

\* A respawned thread takes the next task; the others keep what they carry.
LEMMA RespawnFrames ==
    ASSUME IInv, Frames, respawns < MaxRespawns, NEW s \in Slots, NEW W, Kept(W),
           \A w \in Workers : /\ W[w].slot = threads[w].slot
                              /\ W[w].job = threads[w].job /\ W[w].posted = threads[w].posted,
           Settle({slots[s].current}, "failed"), Respawn(s, W)
    PROVE  Frames'
<1>. DEFINE old == slots[s].worker
            new == spawned + 1
<1>1. TypeOK /\ SettledExactlyOnce /\ Budgets
    BY DEF IInv
<1>2. /\ AdvanceNext
      /\ slots' = [slots EXCEPT ![s] = [worker |-> new, current |-> Upcoming, retiring |-> FALSE]]
      /\ threads' = [W EXCEPT ![old] = Terminated(@), ![new] = Thread(s, Upcoming)]
    BY DEF Respawn
<1>3. new \in Workers /\ \A q \in Slots : slots[q].worker \in Workers /\ slots[q].worker # new
    <2>1. respawns \in Nat /\ respawns < MaxRespawns /\ spawned = FleetSize + respawns
        BY <1>1, Sizes DEF TypeOK, Budgets
    <2>2. \A q \in Slots : slots[q].worker \in Workers /\ slots[q].worker <= spawned
        BY <1>1, FramesTyped DEF Budgets
    <2>. QED
        BY <2>1, <2>2, Sizes
<1>. HIDE DEF new
<1>4. /\ slots'[s].worker = new /\ slots'[s].current = Upcoming
      /\ \A q \in Slots \ {s} : slots'[q] = slots[q]
    BY <1>1, <1>2, SlotsTyped
<1>5. /\ nextTask \in Nat /\ nextTask' \in Nat /\ nextTask <= nextTask'
      /\ Upcoming # None => Upcoming = nextTask /\ nextTask < nextTask'
    <2>1. nextTask \in 1..(TaskCount + 1) /\ TaskCount \in Nat
        BY <1>1, FramesTyped
    <2>2. nextTask' = IF nextTask <= TaskCount THEN nextTask + 1 ELSE nextTask
        BY <1>2 DEF AdvanceNext
    <2>. QED
        BY <2>1, <2>2 DEF Upcoming, None
<1>6. \A t \in Tasks : outcome'[t] = "none" <=> (outcome[t] = "none" /\ t # slots[s].current)
    <2>1. PICK T : T = {slots[s].current}
        OBVIOUS
    <2>. QED
        BY <1>1, <2>1, SettleKeeps
<1>7. /\ Terminated(W[old]).slot = threads[old].slot
      /\ Terminated(W[old]).job = threads[old].job /\ Terminated(W[old]).posted = threads[old].posted
    BY <1>3, TerminatedCarries DEF Kept, SoundThreads
<1>8. Thread(s, Upcoming).slot = s /\ Thread(s, Upcoming).job = Upcoming /\ Thread(s, Upcoming).posted = None
    BY DEF Thread
<1>. HIDE DEF old
<1>9. /\ threads'[new] = Thread(s, Upcoming)
      /\ \A w \in Workers \ {new} : threads'[w] = IF w = old THEN Terminated(W[old]) ELSE W[w]
    BY <1>2, <1>3 DEF Kept, SoundThreads
<1>10. \A w \in Workers \ {new} : threads'[w].slot = threads[w].slot /\ Carries(w)' = Carries(w)
    BY <1>7, <1>9 DEF Carries
<1>11. ASSUME NEW q \in Slots PROVE threads'[slots'[q].worker].slot = q
    <2>1. CASE q = s
        BY <1>4, <1>8, <1>9, <2>1
    <2>2. CASE q # s
        BY <1>3, <1>4, <1>10, <2>2 DEF Frames
    <2>. QED
        BY <2>1, <2>2
<1>12. ASSUME NEW w \in Workers, NEW t \in Carries(w)'
       PROVE  /\ t < nextTask'
              /\ outcome'[t] = "none" => /\ slots'[threads'[w].slot].worker = w
                                         /\ slots'[threads'[w].slot].current = t
    <2>1. CASE w = new
        <3>1. t = Upcoming /\ Upcoming # None /\ threads'[w].slot = s
            BY <1>8, <1>9, <1>12, <2>1 DEF Carries
        <3>. QED
            BY <1>4, <1>5, <2>1, <3>1
    <2>2. CASE w # new
        <3>1. t \in Carries(w) /\ t \in Tasks /\ threads'[w].slot = threads[w].slot /\ threads[w].slot \in Slots
            BY <1>1, <1>10, <1>12, <2>2, FramesTyped
        <3>2. t < nextTask /\ t \in Nat
            BY <3>1, Sizes DEF Frames
        <3>3. ASSUME outcome'[t] = "none"
              PROVE  /\ threads[w].slot # s
                     /\ slots[threads[w].slot].worker = w /\ slots[threads[w].slot].current = t
            BY <1>6, <3>1, <3>3 DEF Frames
        <3>. QED
            BY <1>4, <1>5, <3>1, <3>2, <3>3
    <2>. QED
        BY <2>1, <2>2
<1>. QED
    BY <1>11, <1>12 DEF Frames

\* What recycle() does to the threads, W being those of now but for an event.
LEMMA FailAndRecycleFrames ==
    ASSUME IInv, IInv', Frames, NEW s \in Slots, NEW W, Kept(W),
           \A w \in Workers : /\ W[w].slot = threads[w].slot
                              /\ W[w].job = threads[w].job /\ W[w].posted = threads[w].posted,
           FailAndRecycle(s, {slots[s].current}, W)
    PROVE  Frames'
<1>1. TypeOK /\ SettledExactlyOnce /\ TaskOwnership /\ TypeOK' /\ TaskOwnership'
    BY DEF IInv
<1>2. \A q \in Slots : slots[q].worker \in Workers
    BY <1>1, FramesTyped
<1>3. CASE tripped /\ slots' = [slots EXCEPT ![s].current = None] /\ threads' = W /\ tripped' = tripped
    <2>1. \A q \in Slots : slots'[q].worker = slots[q].worker
        BY <1>1, <1>3, SlotsTyped DEF SlotRecords
    <2>. QED
        BY <1>1, <1>2, <1>3, <2>1, FramesTripped DEF Frames
<1>4. CASE TripBreaker /\ threads' = W
    <2>1. tripped' /\ \A q \in Slots : slots'[q].worker = slots[q].worker
        BY <1>1, <1>4, SlotsTyped DEF SlotRecords, TripBreaker
    <2>. QED
        BY <1>1, <1>2, <1>4, <2>1, FramesTripped DEF Frames
<1>5. CASE respawns < MaxRespawns /\ Settle({slots[s].current}, "failed") /\ Respawn(s, W)
    BY <1>5, RespawnFrames
<1>. QED
    BY <1>3, <1>4, <1>5 DEF FailAndRecycle

\* The answered task leaves its thread, and the slot's thread gets the next.
LEMMA OnMessageFrames == ASSUME IInv, Frames, NEW w \in Workers, OnMessage(w) PROVE Frames'
<1>. DEFINE s == threads[w].slot
            t == threads[w].posted
            rest == [threads EXCEPT ![w].posted = None]
<1>1. /\ TypeOK /\ SettledExactlyOnce
      /\ slots \in [Slots -> SlotRecords] /\ threads \in [Workers -> ThreadRecords]
    BY SlotsTyped DEF IInv, ThreadsInv, SoundThreads
<1>2. s \in Slots /\ t \in Tasks /\ \A q \in Slots : slots[q].worker \in Workers
    BY <1>1, FramesTyped DEF OnMessage
<1>3. /\ rest \in [Workers -> ThreadRecords]
      /\ \A v \in Workers : /\ rest[v].slot = threads[v].slot /\ rest[v].job = threads[v].job
                            /\ rest[v].posted \in {threads[v].posted, None}
    BY <1>1 DEF ThreadRecords
<1>4. CASE threads' = rest /\ UNCHANGED poolVars
    BY <1>1, <1>3, <1>4, FramesStay DEF poolVars, Carries
<1>5. CASE /\ ~(finished \/ slots[s].current # t)
           /\ Settle({t}, "ok")
           /\ slots' = [slots EXCEPT ![s].current = Upcoming]
           /\ AdvanceNext
           /\ threads' = [threads EXCEPT ![w].posted = None, ![slots[s].worker].job = Upcoming]
    <2>. DEFINE x == slots[s].worker
    <2>1. /\ nextTask \in Nat /\ nextTask' \in Nat /\ nextTask <= nextTask'
          /\ Upcoming \in Tasks \union {None}
          /\ Upcoming # None => Upcoming = nextTask /\ nextTask < nextTask'
        <3>1. nextTask \in 1..(TaskCount + 1) /\ TaskCount \in Nat /\ Tasks = 1..TaskCount
            BY <1>1, FramesTyped
        <3>2. nextTask' = IF nextTask <= TaskCount THEN nextTask + 1 ELSE nextTask
            BY <1>5 DEF AdvanceNext
        <3>. QED
            BY <3>1, <3>2 DEF Upcoming, None
    <2>2. /\ slots'[s].current = Upcoming
          /\ \A q \in Slots : slots'[q].worker = slots[q].worker
          /\ \A q \in Slots \ {s} : slots'[q].current = slots[q].current
        BY <1>1, <1>2, <1>5, <2>1 DEF SlotRecords
    <2>3. \A u \in Tasks : outcome'[u] = "none" <=> (outcome[u] = "none" /\ u # slots[s].current)
        <3>1. PICK T : T = {t}
            OBVIOUS
        <3>. QED
            BY <1>1, <1>5, <3>1, SettleKeeps
    <2>4. \A v \in Workers : /\ threads'[v].slot = threads[v].slot
                             /\ threads'[v].posted \in {threads[v].posted, None}
                             /\ threads'[v].job = IF v = x THEN Upcoming ELSE threads[v].job
        <3>. DEFINE b == [rest EXCEPT ![x].job = Upcoming]
        <3>1. threads' = b /\ x \in Workers
            BY <1>1, <1>2, <1>5
        <3>. HIDE DEF rest, x
        <3>2. \A v \in Workers : /\ b[v].slot = rest[v].slot /\ b[v].posted = rest[v].posted
                                 /\ b[v].job = IF v = x THEN Upcoming ELSE rest[v].job
            BY <1>3, <2>1, <3>1 DEF ThreadRecords
        <3>. QED
            BY <1>3, <3>1, <3>2
    <2>5. ASSUME NEW q \in Slots PROVE threads'[slots'[q].worker].slot = q
        BY <1>2, <2>2, <2>4 DEF Frames
    <2>6. ASSUME NEW v \in Workers, NEW u \in Carries(v)'
          PROVE  /\ u < nextTask'
                 /\ outcome'[u] = "none" => /\ slots'[threads'[v].slot].worker = v
                                            /\ slots'[threads'[v].slot].current = u
        <3>1. CASE v = x /\ u = Upcoming
            <4>1. Upcoming # None /\ threads'[v].slot = s
                BY <1>2, <2>4, <2>6, <3>1 DEF Carries, Frames
            <4>. QED
                BY <1>2, <2>1, <2>2, <3>1, <4>1
        <3>2. CASE u \in Carries(v)
            <4>1. u \in Tasks /\ threads'[v].slot = threads[v].slot /\ threads[v].slot \in Slots
                BY <1>1, <2>4, <3>2, FramesTyped
            <4>2. u < nextTask /\ u \in Nat
                BY <3>2, <4>1, Sizes DEF Frames
            <4>3. ASSUME outcome'[u] = "none"
                  PROVE  /\ threads[v].slot # s
                         /\ slots[threads[v].slot].worker = v /\ slots[threads[v].slot].current = u
                BY <2>3, <3>2, <4>1, <4>3 DEF Frames
            <4>. QED
                BY <2>1, <2>2, <4>1, <4>2, <4>3
        <3>3. u \in Carries(v) \/ (v = x /\ u = Upcoming)
            BY <2>4, <2>6 DEF Carries
        <3>. QED
            BY <3>1, <3>2, <3>3
    <2>. QED
        BY <2>5, <2>6 DEF Frames
<1>. QED
    BY <1>4, <1>5 DEF OnMessage

LEMMA NextFrames == IInv /\ IInv' /\ Frames /\ [Next]_vars => Frames'
<1> SUFFICES ASSUME IInv, IInv', Frames, [Next]_vars PROVE Frames'
    OBVIOUS
<1>1. /\ TypeOK /\ SettledExactlyOnce /\ TaskOwnership /\ TypeOK' /\ TaskOwnership'
      /\ slots \in [Slots -> SlotRecords] /\ threads \in [Workers -> ThreadRecords]
    BY SlotsTyped DEF IInv, ThreadsInv, SoundThreads
<1>2. \A w \in Workers : threads[w].slot \in Slots
    BY <1>1, FramesTyped
<1>3. CASE UNCHANGED vars
    BY <1>1, <1>3, FramesStay DEF vars, poolVars, Carries
<1>4. ASSUME NEW s \in Slots, OnTaskTimeout(s) PROVE Frames'
    <2>1. CASE TripBreaker /\ threads' = threads
        <3>1. tripped' /\ \A q \in Slots : slots'[q].worker = slots[q].worker
            BY <1>1, <2>1 DEF SlotRecords, TripBreaker
        <3>. QED
            BY <1>1, <2>1, <3>1, FramesTyped, FramesTripped DEF Frames
    <2>2. CASE FailAndRecycle(s, {slots[s].current}, threads)
        <3>1. PICK W : W = threads
            OBVIOUS
        <3>. QED
            BY <2>2, <3>1, ThreadsNow, FailAndRecycleFrames
    <2>. QED
        BY <1>4, <2>1, <2>2 DEF OnTaskTimeout
<1>5. ASSUME NEW w \in Workers, OnExit(w) PROVE Frames'
    <2>. DEFINE rest == [threads EXCEPT ![w].events = @ - 1]
    <2>1. /\ Kept(rest)
          /\ \A v \in Workers : /\ rest[v].slot = threads[v].slot
                                /\ rest[v].job = threads[v].job /\ rest[v].posted = threads[v].posted
        BY <1>1, <1>5, EventDelivered DEF OnExit, ThreadRecords
    <2>. HIDE DEF rest
    <2>2. CASE threads' = rest /\ UNCHANGED poolVars
        BY <1>1, <2>1, <2>2, FramesStay DEF poolVars, Carries
    <2>3. CASE FailAndRecycle(threads[w].slot, {slots[threads[w].slot].current}, rest)
        <3>1. PICK W : W = rest
            OBVIOUS
        <3>2. PICK q \in Slots : q = threads[w].slot
            BY <1>2
        <3>. QED
            BY <2>1, <2>3, <3>1, <3>2, FailAndRecycleFrames
    <2>. QED
        BY <1>5, <2>2, <2>3 DEF OnExit, rest
<1>6. ASSUME NEW w \in Workers, Post(w) PROVE Frames'
    <2>1. \A v \in Workers : threads'[v].slot = threads[v].slot
        BY <1>1, <1>6 DEF Post, ThreadRecords
    <2>2. \A v \in Workers : Carries(v)' \subseteq Carries(v)
        <3>1. threads'[w].posted = threads[w].job /\ threads'[w].job = None
            BY <1>1, <1>6 DEF Post, ThreadRecords
        <3>2. \A v \in Workers \ {w} : threads'[v] = threads[v]
            BY <1>1, <1>6 DEF Post
        <3>. QED
            BY <3>1, <3>2 DEF Carries
    <2>. QED
        BY <1>1, <1>6, <2>1, <2>2, FramesStay DEF Post, poolVars
<1>7. ASSUME NEW w \in Workers, Crash(w) PROVE Frames'
    <2>1. \A v \in Workers : /\ threads'[v].slot = threads[v].slot
                             /\ threads'[v].job = threads[v].job /\ threads'[v].posted = threads[v].posted
        BY <1>1, <1>7 DEF Crash, ThreadRecords
    <2>. QED
        BY <1>1, <1>7, <2>1, FramesStay DEF Crash, poolVars, Carries
<1>8. CASE Destroy
    <2>1. \A v \in Workers : /\ threads'[v].slot = threads[v].slot
                             /\ threads'[v].job = threads[v].job /\ threads'[v].posted = threads[v].posted
        BY <1>1, <1>8, TerminatedCarries DEF Destroy
    <2>2. \A q \in Slots : slots'[q].worker = slots[q].worker /\ slots'[q].current = slots[q].current
        BY <1>1, <1>8 DEF Destroy, SlotRecords
    <2>. QED
        BY <1>1, <1>8, <2>1, <2>2, FramesStay DEF Destroy, Carries
<1>9. CASE LetGo
    BY <1>1, <1>9, FramesStay DEF LetGo, poolVars, Carries
<1>. QED
    BY <1>3, <1>4, <1>5, <1>6, <1>7, <1>8, <1>9, OnMessageFrames DEF Next, PoolNext

LEMMA OwnerStep ==
    ASSUME IInv, Frames, [Next]_vars, NEW t \in Tasks, outcome[t] = "none", outcome'[t] = "ok"
    PROVE  \E s \in Slots : Owned(s) = t /\ threads[slots[s].worker].posted = t
<1>1. outcome \in [Tasks -> {"none", "ok", "failed"}]
    BY DEF IInv, TypeOK
<1>2. outcome' # outcome
    OBVIOUS
<1>3. \A T : ~Settle(T, "failed")
    BY <1>1 DEF Settle
<1>4. \A s, T, W : ~FailAndRecycle(s, T, W)
    BY <1>3 DEF FailAndRecycle, TripBreaker
<1>5. ~TripBreaker
    BY <1>3 DEF TripBreaker
<1>6. PICK w \in Workers : OnMessage(w)
    BY <1>2, <1>4, <1>5 DEF Next, PoolNext, LetGo, vars, poolVars, OnTaskTimeout, OnExit, Post, Crash,
                           Destroy
<1>7. /\ slots[threads[w].slot].current = threads[w].posted /\ threads[w].posted # None
      /\ Settle({threads[w].posted}, "ok")
    BY <1>2, <1>6 DEF OnMessage, poolVars
<1>8. t = threads[w].posted
    BY <1>1, <1>7 DEF Settle
<1>9. threads[w].slot \in Slots /\ t \in Carries(w)
    BY <1>7, <1>8, FramesTyped DEF IInv, Carries
<1>10. slots[threads[w].slot].worker = w
    BY <1>9 DEF Frames
<1>. QED
    BY <1>7, <1>8, <1>9, <1>10 DEF Owned

\* onMessage() accepts a result only from the thread the slot points to, for
\* the task it was given: a frame of a thread that has been replaced, however
\* late, fills no slot.
THEOREM ResultsFromOwners == Spec => ResultFromOwner
<1>1. Spec => []Frames
    BY Invariance, InitFrames, NextFrames, PTL DEF Spec
<1>2. IInv /\ Frames /\ [Next]_vars => [AcceptsFromOwner]_vars
    BY OwnerStep DEF AcceptsFromOwner
<1>. QED
    BY <1>1, <1>2, Invariance, PTL DEF Spec, ResultFromOwner

-----------------------------------------------------------------------------
(* The search index: types and the inductive invariant.                    *)

TextType == Seq(Contents \union {"cluster"})
Vectors == [text : TextType, model : Models]
VectorOrNone == Vectors \union {NoVector}
\* A cache entry holds the vector of its own text.
EntryType == {e \in TextType \X Vectors : e[2].text = e[1]}
Tree == [Files -> Contents \union {Absent}]
Ids == Files \union {ClusterId}
JobType == [id : Ids, text : TextType, file : Files]
RowType == [text : TextType, model : Models, file : Files]
EmbeddingRuns ==
    [phase : {"idle", "embed", "flush", "write"}, mode : Modes \union {"none"},
     model : Models \union {"none"}, tree : Tree, jobs : Seq(JobType),
     cache : Seq(EntryType), hits : SUBSET Nat, settled : Seq(VectorOrNone),
     items : SUBSET Nat, batches : SUBSET (SUBSET Nat)]

EmbeddingTypeOK ==
    /\ tree \in Tree /\ model \in Models /\ parsed \in Tree
    /\ manifest \in Seq(EntryType)
    /\ stored \in [Ids -> RowType \union {NoVector}]
    /\ run \in EmbeddingRuns
    /\ unvouched \in BOOLEAN /\ lost \in BOOLEAN

Aligned ==
    \A i \in DOMAIN run.jobs :
        run.settled[i] # NoVector =>
            /\ run.settled[i].text = run.jobs[i].text
            /\ Dims[run.settled[i].model] = Dims[run.model]

RunSound ==
    ~At("idle") =>
        /\ run.tree = tree /\ run.jobs = Jobs(tree)
        /\ run.model \in Models /\ run.mode \in Modes
        /\ Len(run.settled) = Len(run.jobs)
        /\ run.mode = "refresh" => unvouched
        /\ Aligned

RowsFollow(t) ==
    \A f \in Files : stored[f] # NoVector => t[f] # Absent /\ stored[f].text = <<t[f]>>

RowsSound ==
    /\ \A f \in Files : stored[f] # NoVector => stored[f].file = f
    /\ ~lost /\ ~unvouched => RowsFollow(parsed)
    /\ ~lost /\ unvouched => RowsFollow(tree)

Usable == {run.jobs[i].text : i \in {i \in DOMAIN run.jobs : run.settled[i] # NoVector}}
Live == {run.jobs[i].text : i \in DOMAIN run.jobs}

CacheSound ==
    /\ Len(manifest) <= Cap
    /\ At("embed") =>
          /\ run.cache = manifest
          /\ \A i \in run.hits : i \in DOMAIN run.jobs => run.jobs[i].text \in Texts(manifest)
    /\ At("flush") =>
          /\ Texts(run.cache) \subseteq Live
          /\ Cardinality(Texts(manifest)) + Cardinality(Usable) <= Cap => Usable \subseteq Texts(run.cache)
          /\ Len(run.cache) <= Cap

EmbeddingInv == EmbeddingTypeOK /\ RunSound /\ RowsSound /\ CacheSound

-----------------------------------------------------------------------------
(* Lists: what Rank, Nth and Picked return.                                *)

\* What comes before an element of a finite set of numbers is fewer than the
\* set, and more is before a greater element.
LEMMA RankFacts ==
    ASSUME NEW S \in SUBSET Nat, IsFiniteSet(S), NEW i \in S
    PROVE  /\ Rank(i, S) \in Nat
           /\ Rank(i, S) < Cardinality(S)
           /\ Cardinality(S) \in Nat
           /\ \A j \in S : i < j => Rank(i, S) < Rank(j, S)
<1>. DEFINE Below(j) == {x \in S : x < j}
<1>1. \A j \in S : /\ IsFiniteSet(Below(j)) /\ Cardinality(Below(j)) \in Nat
                   /\ IsFiniteSet(Below(j) \union {j})
                   /\ Cardinality(Below(j) \union {j}) = Cardinality(Below(j)) + 1
  <2>. TAKE j \in S
  <2>1. IsFiniteSet(Below(j))
    BY FS_Subset
  <2>2. j \notin Below(j)
    OBVIOUS
  <2>. QED
    BY <2>1, <2>2, FS_AddElement, FS_CardinalityType
<1>2. Cardinality(S) \in Nat
    BY FS_CardinalityType
<1>3. Cardinality(Below(i) \union {i}) <= Cardinality(S)
  <2>1. Below(i) \union {i} \subseteq S
    OBVIOUS
  <2>. QED BY <2>1, FS_Subset
<1>4. ASSUME NEW j \in S, i < j
      PROVE  Cardinality(Below(i) \union {i}) <= Cardinality(Below(j))
  <2>1. Below(i) \union {i} \subseteq Below(j)
    <3>. SUFFICES ASSUME NEW x \in S, x < i \/ x = i
                  PROVE  x < j
      BY <1>4
    <3>1. x \in Nat /\ i \in Nat /\ j \in Nat
      OBVIOUS
    <3>. QED BY <3>1, <1>4
  <2>. QED BY <2>1, <1>1, FS_Subset
<1>5. \A j \in S : Rank(j, S) = Cardinality(Below(j))
    BY DEF Rank
<1>6. Rank(i, S) \in Nat /\ Rank(i, S) + 1 <= Cardinality(S)
  <2>. HIDE DEF Below
  <2>. QED BY <1>1, <1>3, <1>5
<1>7. ASSUME NEW j \in S, i < j
      PROVE  Rank(i, S) < Rank(j, S)
  <2>1. Rank(j, S) \in Nat /\ Rank(i, S) + 1 <= Rank(j, S)
    <3>. HIDE DEF Below
    <3>. QED BY <1>1, <1>4, <1>5, <1>7
  <2>. QED BY <2>1, <1>6
<1>. QED
    BY <1>2, <1>6, <1>7

\* A finite set of numbers has a k-th element for every k up to its size, and
\* every element is the k-th for one k.
LEMMA NthFacts ==
    ASSUME NEW S \in SUBSET Nat, IsFiniteSet(S)
    PROVE  /\ Cardinality(S) \in Nat
           /\ \A k \in 1..Cardinality(S) : Nth(S, k) \in S /\ Rank(Nth(S, k), S) = k - 1
           /\ \A i \in S : Rank(i, S) + 1 \in 1..Cardinality(S) /\ Nth(S, Rank(i, S) + 1) = i
<1>. DEFINE n == Cardinality(S)
            f == [i \in S |-> Rank(i, S)]
<1>1. n \in Nat
    BY FS_CardinalityType
<1>2. \A i \in S : Rank(i, S) \in 0..(n - 1)
  <2>. TAKE i \in S
  <2>. QED BY RankFacts
<1>3. \A i, j \in S : Rank(i, S) = Rank(j, S) => i = j
  <2>. TAKE i, j \in S
  <2>. HAVE Rank(i, S) = Rank(j, S)
  <2>1. ~(i < j)
    BY RankFacts
  <2>2. ~(j < i)
    BY RankFacts
  <2>. QED BY <2>1, <2>2
<1>4. ASSUME NEW k \in 1..n
      PROVE  \E i \in S : Rank(i, S) = k - 1
  <2>. SUFFICES ASSUME \A i \in S : Rank(i, S) # k - 1
                PROVE  FALSE
    OBVIOUS
  <2>. DEFINE R == (0..(n - 1)) \ {k - 1}
  <2>1. f \in [S -> R]
    BY <1>2
  <2>2. IsFiniteSet(0..(n - 1)) /\ Cardinality(0..(n - 1)) = n
    <3>1. 0 \in Int /\ n - 1 \in Int /\ ~(0 > n - 1) /\ (n - 1) - 0 + 1 = n
      BY <1>1
    <3>. HIDE DEF n
    <3>. QED BY <3>1, FS_Interval
  <2>3. IsFiniteSet(R) /\ Cardinality(R) = n - 1
    <3>1. k - 1 \in 0..(n - 1)
      BY <1>1
    <3>. HIDE DEF n
    <3>2. /\ IsFiniteSet(R)
          /\ Cardinality(R) = Cardinality(0..(n - 1)) - 1
      <4>. DEFINE T == 0..(n - 1)
                  x == k - 1
      <4>1. IsFiniteSet(T) /\ x \in T /\ R = T \ {x}
        BY <2>2, <3>1
      <4>. HIDE DEF T, x, R
      <4>2. IsFiniteSet(R) /\ Cardinality(R) = Cardinality(T) - 1
        BY <4>1, FS_RemoveElement
      <4>. QED BY <4>2 DEF T
    <3>. QED BY <2>2, <3>2
  <2>4. Cardinality(R) < Cardinality(S)
    BY <2>3, <1>1
  <2>5. \E x, y \in S : x # y /\ f[x] = f[y]
    <3>. HIDE DEF R, f
    <3>. QED BY <2>1, <2>3, <2>4, FS_PigeonHole
  <2>. QED BY <2>5, <1>3
<1>5. \A k \in 1..n : Nth(S, k) \in S /\ Rank(Nth(S, k), S) = k - 1
  <2>. TAKE k \in 1..n
  <2>1. \E i \in S : Rank(i, S) = k - 1
    BY <1>4
  <2>. QED BY <2>1 DEF Nth
<1>6. \A i \in S : Rank(i, S) + 1 \in 1..n /\ Nth(S, Rank(i, S) + 1) = i
  <2>. TAKE i \in S
  <2>1. Rank(i, S) + 1 \in 1..n /\ (Rank(i, S) + 1) - 1 = Rank(i, S)
    BY <1>1, <1>2
  <2>2. /\ Nth(S, Rank(i, S) + 1) \in S
        /\ Rank(Nth(S, Rank(i, S) + 1), S) = Rank(i, S)
    BY <2>1, <1>5
  <2>. QED BY <2>1, <2>2, <1>3
<1>. QED
    BY <1>1, <1>5, <1>6

\* A picked list holds what the list has at the places picked, and is as long
\* as they are many.
LEMMA PickedFacts ==
    ASSUME NEW E, NEW list, NEW places \in SUBSET Nat, IsFiniteSet(places),
           \A p \in places : list[p] \in E
    PROVE  /\ Picked(list, places) \in Seq(E)
           /\ Len(Picked(list, places)) = Cardinality(places)
           /\ Entries(Picked(list, places)) = {list[p] : p \in places}
<1>. DEFINE n == Cardinality(places)
<1>1. n \in Nat
    BY NthFacts
<1>2. \A k \in 1..n : Nth(places, k) \in places
    BY NthFacts
<1>3. \A p \in places : \E k \in 1..n : Nth(places, k) = p
    BY NthFacts
<1>4. Picked(list, places) = [k \in 1..n |-> list[Nth(places, k)]]
    BY DEF Picked
<1>. HIDE DEF n
<1>5. Picked(list, places) \in Seq(E) /\ Len(Picked(list, places)) = n
  <2>1. [k \in 1..n |-> list[Nth(places, k)]] \in [1..n -> E]
    BY <1>2
  <2>2. \A t \in [1..n -> E] : t \in Seq(E) /\ Len(t) = n
    BY <1>1
  <2>. QED BY <1>4, <2>1, <2>2
<1>6. Entries(Picked(list, places)) = {list[Nth(places, k)] : k \in 1..n}
    BY <1>4 DEF Entries
<1>7. {list[Nth(places, k)] : k \in 1..n} = {list[p] : p \in places}
    BY <1>2, <1>3
<1>. QED
    BY <1>5, <1>6, <1>7 DEF n

\* The places of a list are finitely many numbers.
LEMMA PlacesFinite ==
    ASSUME NEW E, NEW list \in Seq(E), NEW places \in SUBSET DOMAIN list
    PROVE  /\ places \in SUBSET Nat /\ IsFiniteSet(places)
           /\ Cardinality(places) <= Len(list)
           /\ \A p \in places : list[p] \in E
<1>1. DOMAIN list = 1..Len(list) /\ Len(list) \in Nat
    OBVIOUS
<1>2. IsFiniteSet(1..Len(list)) /\ Cardinality(1..Len(list)) = Len(list)
  <2>. DEFINE n == Len(list)
  <2>1. n \in Nat /\ 1 \in Int /\ n \in Int
    BY <1>1
  <2>. HIDE DEF n
  <2>2. IsFiniteSet(1..n) /\ Cardinality(1..n) = IF 1 > n THEN 0 ELSE n - 1 + 1
    BY <2>1, FS_Interval
  <2>3. IsFiniteSet(1..n) /\ Cardinality(1..n) = n
    BY <2>1, <2>2
  <2>. QED BY <2>3 DEF n
<1>3. IsFiniteSet(places) /\ Cardinality(places) <= Len(list)
    BY <1>1, <1>2, FS_Subset
<1>4. \A p \in 1..Len(list) : list[p] \in E
    OBVIOUS
<1>. QED
    BY <1>1, <1>3, <1>4

\* A finite set of numbers that is not empty has a greatest element.
LEMMA Greatest ==
    ASSUME NEW S \in SUBSET Nat, IsFiniteSet(S), S # {}
    PROVE  \E m \in S : \A i \in S : i <= m
<1>1. Cardinality(S) \in Nat /\ Cardinality(S) # 0
    BY FS_CardinalityType, FS_EmptySet
<1>. DEFINE m == Nth(S, Cardinality(S))
<1>2. Cardinality(S) \in 1..Cardinality(S)
    BY <1>1
<1>3. m \in S /\ Rank(m, S) = Cardinality(S) - 1
    BY <1>2, NthFacts
<1>4. ASSUME NEW i \in S, m < i
      PROVE  FALSE
  <2>1. Rank(m, S) < Rank(i, S)
    BY <1>3, <1>4, RankFacts
  <2>2. Rank(i, S) < Cardinality(S) /\ Rank(i, S) \in Nat
    BY RankFacts
  <2>. QED BY <1>1, <1>3, <2>1, <2>2
<1>5. \A i \in S : i <= m
  <2>. TAKE i \in S
  <2>1. i \in Nat /\ m \in Nat /\ ~(m < i)
    BY <1>3, <1>4
  <2>. HIDE DEF m
  <2>. QED BY <2>1
<1>. QED
    BY <1>3, <1>5

-----------------------------------------------------------------------------
(* The embedding cache: what its operations keep and lose.                 *)

\* After deletes and inserts the cache has every text once: it is no longer
\* than any set that has all its texts.
LEMMA LatestFacts ==
    ASSUME NEW E, NEW s \in Seq(E)
    PROVE  /\ Latest(s) \in Seq(E)
           /\ Texts(Latest(s)) = Texts(s)
           /\ \A T : IsFiniteSet(T) /\ Texts(s) \subseteq T => Len(Latest(s)) <= Cardinality(T)
<1>. DEFINE last == {k \in DOMAIN s : \A later \in DOMAIN s : later > k => s[later][1] # s[k][1]}
<1>1. /\ last \in SUBSET Nat /\ IsFiniteSet(last)
      /\ \A p \in last : s[p] \in E
    BY PlacesFinite
<1>2. Latest(s) = Picked(s, last)
    BY DEF Latest
<1>3. /\ Latest(s) \in Seq(E)
      /\ Len(Latest(s)) = Cardinality(last)
      /\ Entries(Latest(s)) = {s[p] : p \in last}
  <2>. HIDE DEF last
  <2>. QED BY <1>1, <1>2, PickedFacts
<1>4. ASSUME NEW i \in DOMAIN s
      PROVE  \E p \in last : s[p][1] = s[i][1]
  <2>. DEFINE same == {k \in DOMAIN s : s[k][1] = s[i][1]}
  <2>1. same \in SUBSET Nat /\ IsFiniteSet(same)
    BY PlacesFinite
  <2>2. PICK p \in same : \A k \in same : k <= p
    <3>1. same # {}
      BY <1>4
    <3>. HIDE DEF same
    <3>. QED BY <2>1, <3>1, Greatest
  <2>3. \A later \in DOMAIN s : later > p => s[later][1] # s[p][1]
    <3>. SUFFICES ASSUME NEW later \in DOMAIN s, later > p, s[later][1] = s[p][1]
                  PROVE  FALSE
      OBVIOUS
    <3>1. later \in same
      BY <2>2
    <3>2. later <= p /\ later \in Nat /\ p \in Nat
      BY <3>1, <2>2, <2>1
    <3>. QED BY <3>2
  <2>. QED BY <2>2, <2>3
<1>5. Texts(Latest(s)) = Texts(s)
  <2>1. Texts(Latest(s)) = {s[p][1] : p \in last}
    <3>. HIDE DEF last
    <3>. QED BY <1>3 DEF Texts
  <2>2. Texts(s) = {s[i][1] : i \in DOMAIN s}
    BY DEF Texts, Entries
  <2>3. last \subseteq DOMAIN s
    OBVIOUS
  <2>. HIDE DEF last
  <2>. QED BY <2>1, <2>2, <2>3, <1>4
<1>6. ASSUME NEW T, IsFiniteSet(T), Texts(s) \subseteq T
      PROVE  Cardinality(last) <= Cardinality(T)
  <2>. DEFINE f == [p \in last |-> s[p][1]]
  <2>1. f \in [last -> T]
    <3>1. \A p \in last : s[p][1] \in Texts(s)
      BY DEF Texts, Entries
    <3>. HIDE DEF last
    <3>. QED BY <3>1, <1>6
  <2>2. ASSUME NEW p \in last, NEW q \in last, p # q
        PROVE  s[p][1] # s[q][1]
    <3>1. p \in Nat /\ q \in Nat
      BY <1>1
    <3>2. p > q \/ q > p
      BY <3>1, <2>2
    <3>. QED BY <3>2
  <2>3. \A p, q \in last : f[p] = f[q] => p = q
    BY <2>2
  <2>. HIDE DEF f, last
  <2>4. IsInjective(f)
    BY <2>1, <2>3 DEF IsInjective
  <2>. QED
    BY <2>1, <2>4, <1>6, FS_Injection DEF Injection
<1>. QED
    BY <1>3, <1>5, <1>6

\* prune keeps the entries of the live texts, and only them.
LEMMA PruneFacts ==
    ASSUME NEW E, NEW s \in Seq(E), NEW live
    PROVE  /\ Prune(s, live) \in Seq(E)
           /\ Len(Prune(s, live)) <= Len(s)
           /\ Texts(Prune(s, live)) = Texts(s) \intersect live
<1>. DEFINE kept == {k \in DOMAIN s : s[k][1] \in live}
<1>1. /\ kept \in SUBSET Nat /\ IsFiniteSet(kept)
      /\ Cardinality(kept) <= Len(s)
      /\ \A p \in kept : s[p] \in E
    BY PlacesFinite
<1>2. Prune(s, live) = Picked(s, kept)
    BY DEF Prune
<1>3. /\ Prune(s, live) \in Seq(E)
      /\ Len(Prune(s, live)) = Cardinality(kept)
      /\ Entries(Prune(s, live)) = {s[p] : p \in kept}
  <2>. HIDE DEF kept
  <2>. QED BY <1>1, <1>2, PickedFacts
<1>4. Texts(Prune(s, live)) = {s[p][1] : p \in kept}
  <2>. HIDE DEF kept
  <2>. QED BY <1>3 DEF Texts
<1>5. Texts(s) = {s[i][1] : i \in DOMAIN s}
    BY DEF Texts, Entries
<1>6. {s[p][1] : p \in kept} = {s[i][1] : i \in DOMAIN s} \intersect live
    OBVIOUS
<1>. QED
  <2>. HIDE DEF kept
  <2>. QED BY <1>1, <1>3, <1>4, <1>5, <1>6

\* evictToCap leaves no more than the cap, and takes nothing below it.
LEMMA EvictFacts ==
    ASSUME NEW E, NEW s \in Seq(E)
    PROVE  /\ EvictToCap(s) \in Seq(E)
           /\ Len(EvictToCap(s)) <= Cap
           /\ Len(s) <= Cap => EvictToCap(s) = s
<1>1. Cap \in Nat \ {0}
    BY BoundsArePositive
<1>2. CASE Len(s) <= Cap
    BY <1>2 DEF EvictToCap
<1>3. CASE ~(Len(s) <= Cap)
  <2>1. EvictToCap(s) = SubSeq(s, Len(s) - Cap + 1, Len(s))
    BY <1>3 DEF EvictToCap
  <2>2. /\ Len(s) \in Nat /\ Len(s) - Cap + 1 \in 1..Len(s)
        /\ Len(s) - (Len(s) - Cap + 1) + 1 = Cap
    BY <1>1, <1>3
  <2>. QED
    BY <2>1, <2>2, <1>3, SubSeqProperties
<1>. QED
    BY <1>2, <1>3

\* setMany loses no text as long as all of them are within the cap.
LEMMA SetManyFacts ==
    ASSUME NEW E, NEW s \in Seq(E), NEW more \in Seq(E)
    PROVE  /\ SetMany(s, more) \in Seq(E)
           /\ Len(SetMany(s, more)) <= Cap
           /\ \A T : IsFiniteSet(T) /\ Texts(s) \union Texts(more) \subseteq T /\ Cardinality(T) <= Cap
                => Texts(SetMany(s, more)) = Texts(s) \union Texts(more)
<1>1. s \o more \in Seq(E)
    OBVIOUS
<1>2. Texts(s \o more) = Texts(s) \union Texts(more)
  <2>1. \A q \in Seq(E) : Texts(q) = {q[i][1] : i \in 1..Len(q)}
    BY DEF Texts, Entries
  <2>2. /\ Len(s \o more) = Len(s) + Len(more)
        /\ Len(s) \in Nat /\ Len(more) \in Nat
        /\ \A i \in 1..Len(s) : (s \o more)[i] = s[i]
        /\ \A i \in 1..Len(more) : (s \o more)[Len(s) + i] = more[i]
    OBVIOUS
  <2>3. \A i \in 1..(Len(s) + Len(more)) :
            i \in 1..Len(s) \/ \E j \in 1..Len(more) : i = Len(s) + j
    <3>. TAKE i \in 1..(Len(s) + Len(more))
    <3>1. i \in 1..Len(s) \/ (i - Len(s) \in 1..Len(more) /\ i = Len(s) + (i - Len(s)))
      BY <2>2
    <3>. QED BY <3>1
  <2>4. \A i \in 1..Len(s) : i \in 1..(Len(s) + Len(more))
    BY <2>2
  <2>5. \A j \in 1..Len(more) : Len(s) + j \in 1..(Len(s) + Len(more))
    BY <2>2
  <2>6. Texts(s \o more) \subseteq Texts(s) \union Texts(more)
    <3>. SUFFICES ASSUME NEW i \in 1..(Len(s) + Len(more))
                  PROVE  (s \o more)[i][1] \in Texts(s) \union Texts(more)
      <4>1. Texts(s \o more) = {(s \o more)[i][1] : i \in 1..(Len(s) + Len(more))}
        BY <1>1, <2>1, <2>2
      <4>. QED BY <4>1
    <3>1. CASE i \in 1..Len(s)
      BY <3>1, <2>1, <2>2
    <3>2. CASE \E j \in 1..Len(more) : i = Len(s) + j
      BY <3>2, <2>1, <2>2
    <3>. QED BY <3>1, <3>2, <2>3
  <2>7. Texts(s) \subseteq Texts(s \o more)
    <3>. SUFFICES ASSUME NEW i \in 1..Len(s)
                  PROVE  s[i][1] \in Texts(s \o more)
      BY <2>1
    <3>1. i \in 1..Len(s \o more) /\ (s \o more)[i] = s[i]
      BY <2>2, <2>4
    <3>. QED BY <3>1, <2>1, <1>1
  <2>8. Texts(more) \subseteq Texts(s \o more)
    <3>. SUFFICES ASSUME NEW j \in 1..Len(more)
                  PROVE  more[j][1] \in Texts(s \o more)
      BY <2>1
    <3>1. Len(s) + j \in 1..Len(s \o more) /\ (s \o more)[Len(s) + j] = more[j]
      BY <2>2, <2>5
    <3>. QED BY <3>1, <2>1, <1>1
  <2>. QED BY <2>6, <2>7, <2>8
<1>. DEFINE all == Latest(s \o more)
<1>3. /\ all \in Seq(E) /\ Texts(all) = Texts(s) \union Texts(more)
      /\ \A T : IsFiniteSet(T) /\ Texts(s) \union Texts(more) \subseteq T => Len(all) <= Cardinality(T)
    BY <1>1, <1>2, LatestFacts
<1>4. SetMany(s, more) = EvictToCap(all)
    BY DEF SetMany
<1>. HIDE DEF all
<1>5. SetMany(s, more) \in Seq(E) /\ Len(SetMany(s, more)) <= Cap
    BY <1>3, <1>4, EvictFacts
<1>6. ASSUME NEW T, IsFiniteSet(T), Texts(s) \union Texts(more) \subseteq T, Cardinality(T) <= Cap
      PROVE  Texts(SetMany(s, more)) = Texts(s) \union Texts(more)
  <2>1. Len(all) <= Cardinality(T) /\ Len(all) \in Nat /\ Cardinality(T) \in Nat /\ Cap \in Nat
    BY <1>3, <1>6, FS_CardinalityType, BoundsArePositive
  <2>2. Len(all) <= Cap
    BY <2>1, <1>6
  <2>3. EvictToCap(all) = all
    BY <2>2, <1>3, EvictFacts
  <2>. QED BY <2>3, <1>3, <1>4
<1>. QED
    BY <1>5, <1>6

-----------------------------------------------------------------------------
(* The jobs of a run and what it finds in the cache.                       *)

LEMMA FilesAreNumbers ==
    /\ Files \subseteq Nat /\ ClusterId \notin Files
    /\ \A S \in SUBSET Files : S \in SUBSET Nat /\ IsFiniteSet(S)
BY FilesAreNumbered, FS_Subset DEF ClusterId

\* The job of a row with the id of a file is the job of that file's symbol: the
\* file is there, and its content is what is embedded.
LEMMA JobsFacts ==
    ASSUME NEW t \in Tree
    PROVE  /\ Jobs(t) \in Seq(JobType)
           /\ \A i \in DOMAIN Jobs(t) : Jobs(t)[i].id \in Files =>
                 /\ t[Jobs(t)[i].id] # Absent
                 /\ Jobs(t)[i].text = <<t[Jobs(t)[i].id]>>
                 /\ Jobs(t)[i].file = Jobs(t)[i].id
<1>. DEFINE G == {job \in JobType : job.id \in Files => /\ t[job.id] # Absent
                                                        /\ job.text = <<t[job.id]>>
                                                        /\ job.file = job.id}
            symbolJobs == [k \in 1..Cardinality(Present(t)) |-> SymbolJob(t, Nth(Present(t), k))]
            clusterJobs == IF Cardinality(Members(t)) >= 2 THEN <<ClusterJob(t)>> ELSE <<>>
<1>1. /\ Present(t) \in SUBSET Nat /\ IsFiniteSet(Present(t)) /\ Present(t) \subseteq Files
      /\ Members(t) \in SUBSET Nat /\ IsFiniteSet(Members(t)) /\ Members(t) \subseteq Present(t)
  <2>1. Present(t) \subseteq Files /\ Members(t) \subseteq Present(t)
    BY DEF Present, Members
  <2>. QED BY <2>1, FilesAreNumbers
<1>2. \A f \in Present(t) : t[f] # Absent /\ t[f] \in Contents /\ f \in Files
    BY DEF Present, Tree
<1>3. ASSUME NEW f \in Present(t)
      PROVE  SymbolJob(t, f) \in G
  <2>1. <<t[f]>> \in TextType
    BY <1>2 DEF TextType
  <2>2. SymbolJob(t, f) \in JobType
    BY <1>2, <2>1 DEF SymbolJob, JobType, Ids
  <2>. QED
    BY <1>2, <2>2 DEF SymbolJob
<1>4. symbolJobs \in Seq(G)
  <2>1. \A k \in 1..Cardinality(Present(t)) : Nth(Present(t), k) \in Present(t)
    BY <1>1, NthFacts
  <2>2. Cardinality(Present(t)) \in Nat
    BY <1>1, FS_CardinalityType
  <2>3. symbolJobs \in [1..Cardinality(Present(t)) -> G]
    <3>. HIDE DEF G
    <3>. QED BY <2>1, <1>3
  <2>. HIDE DEF symbolJobs, G
  <2>. QED BY <2>2, <2>3
<1>5. ASSUME Cardinality(Members(t)) >= 2
      PROVE  ClusterJob(t) \in G
  <2>. DEFINE E == Contents \union {"cluster"}
  <2>1. Picked(t, Members(t)) \in Seq(E)
    <3>1. \A p \in Members(t) : t[p] \in E
      BY <1>1, <1>2
    <3>. HIDE DEF E
    <3>. QED BY <1>1, <3>1, PickedFacts
  <2>2. <<"cluster">> \o Picked(t, Members(t)) \in TextType
    <3>1. <<"cluster">> \in Seq(E)
      OBVIOUS
    <3>2. \A p, q \in Seq(E) : p \o q \in Seq(E)
      OBVIOUS
    <3>. QED BY <2>1, <3>1, <3>2 DEF TextType
  <2>3. Nth(Members(t), 1) \in Files
    <3>1. 1 \in 1..Cardinality(Members(t))
      <4>1. Cardinality(Members(t)) \in Nat
        BY <1>1, FS_CardinalityType
      <4>. QED BY <4>1, <1>5
    <3>2. Nth(Members(t), 1) \in Members(t)
      BY <1>1, <3>1, NthFacts
    <3>. QED BY <3>2, <1>1, <1>2
  <2>4. ClusterJob(t) \in JobType /\ ClusterJob(t).id = ClusterId
    BY <2>2, <2>3 DEF ClusterJob, JobType, Ids
  <2>. QED BY <2>4, FilesAreNumbers
<1>6. clusterJobs \in Seq(G)
  <2>. HIDE DEF G
  <2>. QED BY <1>5
<1>7. Jobs(t) \in Seq(G)
  <2>1. Jobs(t) = symbolJobs \o clusterJobs
    BY DEF Jobs
  <2>. HIDE DEF symbolJobs, clusterJobs, G
  <2>. QED BY <1>4, <1>6, <2>1
<1>8. \A i \in DOMAIN Jobs(t) : Jobs(t)[i] \in G
  <2>. HIDE DEF G
  <2>. QED BY <1>7
<1>9. Jobs(t) \in Seq(JobType)
  <2>1. G \subseteq JobType
    OBVIOUS
  <2>. HIDE DEF G
  <2>. QED BY <1>7, <2>1, SeqMonotonic
<1>. QED
    BY <1>8, <1>9

\* What the lookups fill in is the vector of the job's own text, of the
\* dimensions asked for, and only jobs whose text is in the cache are hits.
LEMMA LookupFacts ==
    ASSUME NEW jobs \in Seq(JobType), NEW cached \in Seq(EntryType), NEW dims, NEW batching \in BOOLEAN
    PROVE  LET found == Lookup(jobs, cached, dims, batching)
           IN  /\ found.hits \in SUBSET Nat
               /\ found.settled \in Seq(VectorOrNone) /\ Len(found.settled) = Len(jobs)
               /\ found.items \in SUBSET Nat /\ found.batches \in SUBSET (SUBSET Nat)
               /\ \A i \in DOMAIN jobs : found.settled[i] # NoVector =>
                     /\ found.settled[i].text = jobs[i].text
                     /\ Dims[found.settled[i].model] = dims
               /\ \A i \in found.hits : i \in DOMAIN jobs => jobs[i].text \in Texts(cached)
<1>. DEFINE hit == [i \in DOMAIN jobs |-> Get(cached, jobs[i].text, dims)]
            misses == {i \in DOMAIN jobs : hit[i] = {}}
            answers == [i \in DOMAIN jobs |-> IF hit[i] = {} THEN NoVector ELSE CHOOSE v \in hit[i] : TRUE]
            found == Lookup(jobs, cached, dims, batching)
<1>1. DOMAIN jobs = 1..Len(jobs) /\ Len(jobs) \in Nat
    OBVIOUS
<1>2. /\ found.hits = DOMAIN jobs \ misses
      /\ found.settled = answers
      /\ found.items = IF batching THEN {} ELSE misses
      /\ found.batches = IF batching THEN BatchesOf(misses) ELSE {}
    BY DEF Lookup
<1>3. \A i \in DOMAIN jobs : \A v \in hit[i] :
          /\ v \in Vectors /\ v.text = jobs[i].text /\ Dims[v.model] = dims
          /\ jobs[i].text \in Texts(cached)
  <2>. SUFFICES ASSUME NEW i \in DOMAIN jobs, NEW e \in Entries(cached),
                       e[1] = jobs[i].text, Dims[e[2].model] = dims
                PROVE  /\ e[2] \in Vectors /\ e[2].text = jobs[i].text
                       /\ jobs[i].text \in Texts(cached)
    BY DEF Get
  <2>1. PICK k \in DOMAIN cached : e = cached[k]
    BY DEF Entries
  <2>2. e \in EntryType
    BY <2>1
  <2>. QED BY <2>2 DEF EntryType, Texts
<1>4. misses \in SUBSET Nat /\ misses \subseteq DOMAIN jobs
    BY <1>1
<1>5. BatchesOf(misses) \in SUBSET (SUBSET Nat)
  <2>. HIDE DEF misses
  <2>. QED BY <1>4 DEF BatchesOf
<1>6. \A i \in DOMAIN jobs :
          /\ answers[i] \in VectorOrNone
          /\ answers[i] # NoVector => answers[i].text = jobs[i].text /\ Dims[answers[i].model] = dims
  <2>. TAKE i \in DOMAIN jobs
  <2>1. CASE hit[i] = {}
    BY <2>1 DEF VectorOrNone
  <2>2. CASE hit[i] # {}
    <3>1. answers[i] \in hit[i]
      BY <2>2
    <3>. HIDE DEF answers, hit
    <3>. QED BY <3>1, <1>3 DEF VectorOrNone
  <2>. QED BY <2>1, <2>2
<1>7. answers \in Seq(VectorOrNone) /\ Len(answers) = Len(jobs)
  <2>1. DOMAIN answers = 1..Len(jobs)
    BY <1>1
  <2>2. answers = [i \in 1..Len(jobs) |-> answers[i]]
    BY <1>1
  <2>. HIDE DEF answers
  <2>3. answers \in [1..Len(jobs) -> VectorOrNone]
    BY <1>1, <1>6, <2>2
  <2>. QED BY <2>1, <2>3, <1>1
<1>8. \A i \in DOMAIN jobs \ misses : jobs[i].text \in Texts(cached)
    BY <1>3
<1>. HIDE DEF misses, answers, hit
<1>. QED
    BY <1>1, <1>2, <1>4, <1>5, <1>6, <1>7, <1>8

-----------------------------------------------------------------------------
(* The steps.                                                              *)

LEMMA EmbeddingInitial == EmbeddingInit => EmbeddingInv
<1>. SUFFICES ASSUME EmbeddingInit
              PROVE  EmbeddingInv
    OBVIOUS
<1>1. <<>> \in Seq(EntryType) /\ <<>> \in Seq(JobType) /\ <<>> \in Seq(VectorOrNone)
    OBVIOUS
<1>2. [f \in Files |-> Absent] \in Tree
    BY DEF Tree
<1>3. run \in EmbeddingRuns /\ run.phase = "idle"
    BY <1>1, <1>2 DEF EmbeddingInit, Idle, EmbeddingRuns
<1>4. EmbeddingTypeOK
    BY <1>1, <1>2, <1>3 DEF EmbeddingInit, EmbeddingTypeOK, Tree, Ids
<1>5. \A f \in Files : stored[f] = NoVector
    BY DEF EmbeddingInit
<1>6. RunSound /\ RowsSound
    BY <1>3, <1>5 DEF RunSound, RowsSound, RowsFollow, At
<1>7. CacheSound
    BY <1>3, BoundsArePositive DEF CacheSound, At, EmbeddingInit
<1>. QED
    BY <1>4, <1>6, <1>7 DEF EmbeddingInv

LEMMA EditKeeps ==
    ASSUME EmbeddingInv, NEW f \in Files, Edit(f)
    PROVE  EmbeddingInv'
<1>. USE DEF EmbeddingInv
<1>1. run.phase = "idle" /\ run' = run
    BY DEF Edit, At
<1>2. EmbeddingTypeOK'
    BY DEF EmbeddingTypeOK, Edit, Tree
<1>3. RunSound'
    BY <1>1 DEF RunSound, At
<1>4. RowsSound'
  <2>1. lost' = (lost \/ unvouched) /\ UNCHANGED <<stored, parsed, unvouched>>
    BY DEF Edit
  <2>. QED BY <2>1 DEF RowsSound, RowsFollow, EmbeddingTypeOK
<1>5. CacheSound'
    BY <1>1 DEF CacheSound, At, Edit
<1>. QED
    BY <1>2, <1>3, <1>4, <1>5

LEMMA SwapModelKeeps ==
    ASSUME EmbeddingInv, SwapModel
    PROVE  EmbeddingInv'
<1>. USE DEF EmbeddingInv
<1>1. run.phase = "idle" /\ run' = run
    BY DEF SwapModel, At
<1>2. EmbeddingTypeOK'
    BY DEF EmbeddingTypeOK, SwapModel
<1>3. RunSound'
    BY <1>1 DEF RunSound, At
<1>4. RowsSound'
    BY DEF RowsSound, RowsFollow, SwapModel
<1>5. CacheSound'
    BY <1>1 DEF CacheSound, At, SwapModel
<1>. QED
    BY <1>2, <1>3, <1>4, <1>5

LEMMA StartRunKeeps ==
    ASSUME EmbeddingInv, NEW mode \in Modes, NEW batching \in BOOLEAN, StartRun(mode, batching)
    PROVE  EmbeddingInv'
<1>. USE DEF EmbeddingInv
<1>. DEFINE found == Lookup(Jobs(tree), manifest, Dims[model], batching)
<1>1. /\ tree \in Tree /\ model \in Models /\ manifest \in Seq(EntryType) /\ mode \in Modes
      /\ Jobs(tree) \in Seq(JobType)
    BY JobsFacts DEF EmbeddingTypeOK
<1>2. /\ found.hits \in SUBSET Nat
      /\ found.settled \in Seq(VectorOrNone) /\ Len(found.settled) = Len(Jobs(tree))
      /\ found.items \in SUBSET Nat /\ found.batches \in SUBSET (SUBSET Nat)
      /\ \A i \in DOMAIN Jobs(tree) : found.settled[i] # NoVector =>
            /\ found.settled[i].text = Jobs(tree)[i].text
            /\ Dims[found.settled[i].model] = Dims[model]
      /\ \A i \in found.hits : i \in DOMAIN Jobs(tree) => Jobs(tree)[i].text \in Texts(manifest)
    BY <1>1, LookupFacts
<1>3. /\ run' = [phase |-> "embed", mode |-> mode, model |-> model, tree |-> tree, jobs |-> Jobs(tree),
                 cache |-> manifest, hits |-> found.hits, settled |-> found.settled,
                 items |-> found.items, batches |-> found.batches]
      /\ UNCHANGED <<tree, model, manifest, lost>>
    BY DEF StartRun
<1>. HIDE DEF found
<1>4. /\ run'.phase = "embed" /\ run'.mode = mode /\ run'.model = model /\ run'.tree = tree
      /\ run'.jobs = Jobs(tree) /\ run'.cache = manifest /\ run'.hits = found.hits
      /\ run'.settled = found.settled
    BY <1>3
<1>5. run' \in EmbeddingRuns
    BY <1>1, <1>2, <1>3 DEF EmbeddingRuns
<1>6. ASSUME mode = "refresh"
      PROVE  EmbeddingTypeOK' /\ RowsSound'
  <2>1. /\ stored' = [id \in DOMAIN stored |-> NoVector]
        /\ parsed' = [f \in Files |-> Absent]
        /\ unvouched' = TRUE
    BY <1>6 DEF StartRun
  <2>2. DOMAIN stored = Ids
    BY DEF EmbeddingTypeOK
  <2>3. EmbeddingTypeOK'
    BY <1>3, <1>5, <2>1, <2>2 DEF EmbeddingTypeOK, Tree
  <2>4. \A f \in Files : stored'[f] = NoVector
    BY <2>1, <2>2 DEF Ids
  <2>5. RowsSound'
    BY <2>4 DEF RowsSound, RowsFollow
  <2>. QED BY <2>3, <2>5
<1>7. ASSUME mode # "refresh"
      PROVE  EmbeddingTypeOK' /\ RowsSound'
  <2>1. UNCHANGED <<stored, parsed, unvouched>>
    BY <1>7 DEF StartRun
  <2>2. EmbeddingTypeOK'
    BY <1>3, <1>5, <2>1 DEF EmbeddingTypeOK
  <2>3. RowsSound'
    BY <1>3, <2>1 DEF RowsSound, RowsFollow
  <2>. QED BY <2>2, <2>3
<1>8. mode = "refresh" => unvouched'
    BY DEF StartRun
<1>9. RunSound'
  <2>1. Aligned'
    BY <1>2, <1>4 DEF Aligned
  <2>2. run'.tree = tree' /\ run'.jobs = Jobs(tree') /\ run'.model \in Models /\ run'.mode \in Modes
    BY <1>1, <1>3, <1>4
  <2>. QED BY <2>1, <2>2, <1>2, <1>4, <1>8 DEF RunSound
<1>10. CacheSound'
    BY <1>2, <1>3, <1>4 DEF CacheSound, At
<1>. QED
    BY <1>6, <1>7, <1>9, <1>10

\* The list of results has a place for every job while a run goes on.
LEMMA Places ==
    ASSUME EmbeddingInv, run.phase # "idle"
    PROVE  /\ run.jobs \in Seq(JobType) /\ run.settled \in Seq(VectorOrNone)
           /\ DOMAIN run.settled = DOMAIN run.jobs
           /\ DOMAIN run.jobs \subseteq Nat
           /\ \A i \in DOMAIN run.jobs : run.settled[i] \in VectorOrNone /\ run.jobs[i].text \in TextType
           /\ run.model \in Models
<1>1. /\ run.jobs \in Seq(JobType) /\ run.settled \in Seq(VectorOrNone)
      /\ Len(run.settled) = Len(run.jobs)
      /\ run.model \in Models
    BY DEF EmbeddingInv, EmbeddingTypeOK, EmbeddingRuns, RunSound, At
<1>2. /\ DOMAIN run.settled = DOMAIN run.jobs /\ DOMAIN run.jobs \subseteq Nat
      /\ \A i \in DOMAIN run.jobs : run.settled[i] \in VectorOrNone /\ run.jobs[i] \in JobType
    BY <1>1
<1>. QED
    BY <1>1, <1>2 DEF JobType

\* Steps of the embedding that only fill in results: the invariant is kept when
\* what they fill in is sound.
LEMMA SettlingKeeps ==
    ASSUME EmbeddingInv, At("embed"),
           NEW answers \in Seq(VectorOrNone), NEW left \in SUBSET Nat, NEW batches \in SUBSET (SUBSET Nat),
           Len(answers) = Len(run.jobs),
           \A i \in DOMAIN run.jobs : answers[i] # NoVector =>
               answers[i].text = run.jobs[i].text /\ Dims[answers[i].model] = Dims[run.model],
           run' = [run EXCEPT !.items = left, !.batches = batches, !.settled = answers],
           UNCHANGED <<tree, model, parsed, manifest, stored, unvouched, lost>>
    PROVE  EmbeddingInv'
<1>. USE DEF EmbeddingInv
<1>1. run \in EmbeddingRuns /\ run.phase = "embed"
    BY DEF EmbeddingTypeOK, At
<1>2. /\ run' \in EmbeddingRuns /\ run'.phase = "embed" /\ run'.settled = answers
      /\ run'.jobs = run.jobs /\ run'.tree = run.tree /\ run'.model = run.model
      /\ run'.mode = run.mode /\ run'.cache = run.cache /\ run'.hits = run.hits
    BY <1>1 DEF EmbeddingRuns
<1>3. EmbeddingTypeOK'
    BY <1>2 DEF EmbeddingTypeOK
<1>4. RunSound'
    BY <1>1, <1>2 DEF RunSound, Aligned, At
<1>5. RowsSound'
    BY DEF RowsSound, RowsFollow
<1>6. CacheSound'
    BY <1>1, <1>2 DEF CacheSound, At
<1>. QED
    BY <1>3, <1>4, <1>5, <1>6

LEMMA ItemSettlesKeeps ==
    ASSUME EmbeddingInv, NEW i \in DOMAIN run.jobs, ItemSettles(i)
    PROVE  EmbeddingInv'
<1>1. run.phase = "embed" /\ At("embed")
    BY DEF ItemSettles, At
<1>2. /\ run.settled \in Seq(VectorOrNone) /\ DOMAIN run.settled = DOMAIN run.jobs
      /\ run.jobs[i].text \in TextType /\ run.model \in Models
      /\ run.jobs \in Seq(JobType)
    BY <1>1, Places
<1>3. PICK answer \in EmbedText(run.jobs[i].text, run.model) :
          run' = [run EXCEPT !.items = @ \ {i}, !.settled[i] = answer]
    BY DEF ItemSettles
<1>4. answer \in VectorOrNone /\ (answer # NoVector => answer = Vector(run.jobs[i].text, run.model))
    BY <1>2 DEF EmbedText, Vector, VectorOrNone, Vectors
<1>. DEFINE answers == [run.settled EXCEPT ![i] = answer]
<1>5. /\ answers \in Seq(VectorOrNone) /\ Len(answers) = Len(run.jobs)
      /\ answers[i] = answer
      /\ \A j \in DOMAIN run.jobs \ {i} : answers[j] = run.settled[j]
    BY <1>2, <1>4
<1>6. run \in EmbeddingRuns /\ Aligned
    BY <1>1 DEF EmbeddingInv, EmbeddingTypeOK, RunSound, At
<1>7. run.items \ {i} \in SUBSET Nat /\ run.batches \in SUBSET (SUBSET Nat)
    BY <1>6 DEF EmbeddingRuns
<1>8. run' = [run EXCEPT !.items = run.items \ {i}, !.batches = run.batches, !.settled = answers]
    BY <1>3, <1>6 DEF EmbeddingRuns
<1>9. \A j \in DOMAIN run.jobs : answers[j] # NoVector =>
          answers[j].text = run.jobs[j].text /\ Dims[answers[j].model] = Dims[run.model]
  <2>. HIDE DEF answers
  <2>. QED BY <1>4, <1>5, <1>6 DEF Aligned, Vector
<1>10. UNCHANGED <<tree, model, parsed, manifest, stored, unvouched, lost>>
    BY DEF ItemSettles
<1>. HIDE DEF answers
<1>. QED
    BY <1>1, <1>5, <1>7, <1>8, <1>9, <1>10, SettlingKeeps

LEMMA BatchAnswersKeeps ==
    ASSUME EmbeddingInv, NEW b \in run.batches, BatchAnswers(b)
    PROVE  EmbeddingInv'
<1>1. run.phase = "embed" /\ At("embed")
    BY DEF BatchAnswers, At
<1>2. /\ run.settled \in Seq(VectorOrNone) /\ DOMAIN run.settled = DOMAIN run.jobs
      /\ \A i \in DOMAIN run.jobs : run.settled[i] \in VectorOrNone /\ run.jobs[i].text \in TextType
      /\ run.model \in Models /\ run.jobs \in Seq(JobType)
    BY <1>1, Places
<1>3. PICK rows \in EmbedTexts([i \in b |-> run.jobs[i].text], run.model) :
          run' = [run EXCEPT !.batches = @ \ {b}, !.settled = Scattered(@, rows)]
    BY DEF BatchAnswers
<1>4. DOMAIN rows = b /\ \A i \in b : rows[i] \in {NoVector, Vector(run.jobs[i].text, run.model)}
    BY DEF EmbedTexts
<1>. DEFINE answers == Scattered(run.settled, rows)
<1>5. /\ answers = [i \in DOMAIN run.jobs |-> IF i \in b THEN rows[i] ELSE run.settled[i]]
      /\ \A i \in DOMAIN run.jobs : answers[i] \in VectorOrNone
  <2>1. answers = [i \in DOMAIN run.jobs |-> IF i \in b THEN rows[i] ELSE run.settled[i]]
    BY <1>2, <1>4 DEF Scattered
  <2>2. \A i \in DOMAIN run.jobs : i \in b => rows[i] \in VectorOrNone
    BY <1>2, <1>4 DEF Vector, VectorOrNone, Vectors
  <2>. HIDE DEF answers
  <2>. QED BY <2>1, <2>2, <1>2
<1>6. answers \in Seq(VectorOrNone) /\ Len(answers) = Len(run.jobs)
  <2>1. DOMAIN run.jobs = 1..Len(run.jobs) /\ Len(run.jobs) \in Nat
    BY <1>2
  <2>2. answers \in [1..Len(run.jobs) -> VectorOrNone]
    <3>. HIDE DEF answers
    <3>. QED BY <1>5, <2>1
  <2>. HIDE DEF answers
  <2>. QED BY <2>1, <2>2
<1>7. run \in EmbeddingRuns /\ Aligned
    BY <1>1 DEF EmbeddingInv, EmbeddingTypeOK, RunSound, At
<1>8. \A i \in DOMAIN run.jobs : answers[i] # NoVector =>
          answers[i].text = run.jobs[i].text /\ Dims[answers[i].model] = Dims[run.model]
  <2>. HIDE DEF answers
  <2>. QED BY <1>4, <1>5, <1>7 DEF Aligned, Vector
<1>9. run.items \in SUBSET Nat /\ run.batches \ {b} \in SUBSET (SUBSET Nat)
    BY <1>7 DEF EmbeddingRuns
<1>10. run' = [run EXCEPT !.items = run.items, !.batches = run.batches \ {b}, !.settled = answers]
    BY <1>3, <1>7 DEF EmbeddingRuns
<1>11. UNCHANGED <<tree, model, parsed, manifest, stored, unvouched, lost>>
    BY DEF BatchAnswers
<1>. HIDE DEF answers
<1>. QED
    BY <1>1, <1>6, <1>8, <1>9, <1>10, <1>11, SettlingKeeps

LEMMA BatchFailsKeeps ==
    ASSUME EmbeddingInv, NEW b \in run.batches, BatchFails(b)
    PROVE  EmbeddingInv'
<1>1. run.phase = "embed" /\ At("embed")
    BY DEF BatchFails, At
<1>2. run \in EmbeddingRuns /\ Aligned /\ Len(run.settled) = Len(run.jobs)
    BY <1>1 DEF EmbeddingInv, EmbeddingTypeOK, RunSound, At
<1>3. /\ run.items \union b \in SUBSET Nat /\ run.batches \ {b} \in SUBSET (SUBSET Nat)
      /\ run.settled \in Seq(VectorOrNone)
    BY <1>2 DEF EmbeddingRuns
<1>4. run' = [run EXCEPT !.items = run.items \union b, !.batches = run.batches \ {b},
                         !.settled = run.settled]
    BY <1>2 DEF BatchFails, EmbeddingRuns
<1>5. UNCHANGED <<tree, model, parsed, manifest, stored, unvouched, lost>>
    BY DEF BatchFails
<1>. QED
    BY <1>1, <1>2, <1>3, <1>4, <1>5, SettlingKeeps DEF Aligned

\* What is recorded in the cache are the vectors of the jobs that were embedded
\* now, each under its own text.
LEMMA FreshFacts ==
    ASSUME EmbeddingInv, run.phase # "idle"
    PROVE  /\ Fresh \in Seq(EntryType)
           /\ Texts(Fresh) = {run.jobs[i].text : i \in
                  {i \in DOMAIN run.jobs : run.settled[i] # NoVector /\ i \notin run.hits}}
<1>. DEFINE entry == [i \in DOMAIN run.jobs |-> <<run.jobs[i].text, run.settled[i]>>]
            new == {i \in DOMAIN run.jobs : run.settled[i] # NoVector /\ i \notin run.hits}
<1>1. /\ run.jobs \in Seq(JobType) /\ DOMAIN run.jobs \subseteq Nat
      /\ \A i \in DOMAIN run.jobs : run.settled[i] \in VectorOrNone /\ run.jobs[i].text \in TextType
    BY Places
<1>2. Aligned
    BY DEF EmbeddingInv, RunSound, At
<1>3. new \in SUBSET Nat /\ IsFiniteSet(new)
    BY <1>1, PlacesFinite
<1>4. \A i \in new : entry[i] \in EntryType /\ entry[i][1] = run.jobs[i].text
    BY <1>1, <1>2 DEF Aligned, EntryType, VectorOrNone
<1>5. Fresh = Picked(entry, new)
    BY DEF Fresh
<1>. HIDE DEF entry, new
<1>6. Fresh \in Seq(EntryType) /\ Entries(Fresh) = {entry[i] : i \in new}
    BY <1>3, <1>4, <1>5, PickedFacts
<1>7. Texts(Fresh) = {run.jobs[i].text : i \in new}
    BY <1>4, <1>6 DEF Texts
<1>. QED
    BY <1>6, <1>7 DEF new

\* The texts of a list, and of the results, are finitely many.
LEMMA TextsFinite ==
    ASSUME NEW E, NEW list \in Seq(E)
    PROVE  IsFiniteSet(Texts(list)) /\ Cardinality(Texts(list)) <= Len(list)
<1>. DEFINE n == Len(list)
            f == [i \in 1..n |-> list[i][1]]
<1>1. n \in Nat /\ IsFiniteSet(1..n) /\ Cardinality(1..n) = n
  <2>1. DOMAIN list \in SUBSET DOMAIN list /\ DOMAIN list = 1..n /\ n \in Nat
    OBVIOUS
  <2>2. n \in Int /\ 1 \in Int
    BY <2>1
  <2>. HIDE DEF n
  <2>3. IsFiniteSet(1..n) /\ Cardinality(1..n) = IF 1 > n THEN 0 ELSE n - 1 + 1
    BY <2>2, FS_Interval
  <2>. QED BY <2>1, <2>3
<1>2. Texts(list) = {list[i][1] : i \in 1..n}
    BY DEF Texts, Entries
<1>3. f \in Surjection(1..n, Texts(list))
    BY <1>2 DEF Surjection
<1>. HIDE DEF f, n
<1>4. IsFiniteSet(Texts(list)) /\ Cardinality(Texts(list)) <= Cardinality(1..n)
    BY <1>1, <1>3, FS_Surjection
<1>. QED
    BY <1>1, <1>4 DEF n

LEMMA UsableFinite ==
    ASSUME EmbeddingInv, run.phase # "idle"
    PROVE  IsFiniteSet(Usable)
<1>. DEFINE usable == {i \in DOMAIN run.jobs : run.settled[i] # NoVector}
            f == [i \in usable |-> run.jobs[i].text]
<1>1. run.jobs \in Seq(JobType)
    BY Places
<1>2. IsFiniteSet(usable)
    BY <1>1, PlacesFinite
<1>3. Usable = {run.jobs[i].text : i \in usable}
    BY DEF Usable
<1>4. f \in Surjection(usable, Usable)
    BY <1>3 DEF Surjection
<1>. HIDE DEF f, usable
<1>. QED
    BY <1>2, <1>4, FS_Surjection

LEMMA WriteBackKeeps ==
    ASSUME EmbeddingInv, WriteBack
    PROVE  EmbeddingInv'
<1>. USE DEF EmbeddingInv
<1>. DEFINE recorded == IF Fresh = <<>> THEN run.cache ELSE SetMany(run.cache, Fresh)
            pruned == Prune(recorded, Live)
<1>1. run \in EmbeddingRuns /\ run.phase = "embed"
    BY DEF EmbeddingTypeOK, WriteBack, At
<1>2. /\ run.cache \in Seq(EntryType) /\ run.cache = manifest /\ Len(manifest) <= Cap
      /\ \A i \in run.hits : i \in DOMAIN run.jobs => run.jobs[i].text \in Texts(manifest)
    BY <1>1 DEF EmbeddingRuns, CacheSound, At
<1>3. /\ Fresh \in Seq(EntryType)
      /\ Texts(Fresh) = {run.jobs[i].text : i \in
             {i \in DOMAIN run.jobs : run.settled[i] # NoVector /\ i \notin run.hits}}
    BY <1>1, FreshFacts
<1>4. recorded \in Seq(EntryType) /\ Len(recorded) <= Cap
    BY <1>2, <1>3, SetManyFacts
<1>5. Usable \subseteq Texts(manifest) \union Texts(Fresh) /\ Texts(Fresh) \subseteq Usable
  <2>. SUFFICES ASSUME NEW i \in DOMAIN run.jobs, run.settled[i] # NoVector
                PROVE  run.jobs[i].text \in Texts(manifest) \union Texts(Fresh)
    BY <1>3 DEF Usable
  <2>. QED BY <1>2, <1>3
<1>6. ASSUME Cardinality(Texts(manifest)) + Cardinality(Usable) <= Cap
      PROVE  Usable \subseteq Texts(recorded)
  <2>. DEFINE T == Texts(manifest) \union Usable
  <2>1. IsFiniteSet(Texts(manifest)) /\ IsFiniteSet(Usable)
    BY <1>1, <1>2, TextsFinite, UsableFinite
  <2>2. IsFiniteSet(T) /\ Cardinality(T) <= Cap
    <3>1. /\ IsFiniteSet(T)
          /\ Cardinality(T) = Cardinality(Texts(manifest)) + Cardinality(Usable)
                                - Cardinality(Texts(manifest) \intersect Usable)
      BY <2>1, FS_Union
    <3>2. IsFiniteSet(Texts(manifest) \intersect Usable)
      BY <2>1, FS_Intersection
    <3>3. /\ Cardinality(Texts(manifest)) \in Nat /\ Cardinality(Usable) \in Nat
          /\ Cardinality(Texts(manifest) \intersect Usable) \in Nat /\ Cap \in Nat
      BY <2>1, <3>2, FS_CardinalityType, BoundsArePositive
    <3>. HIDE DEF T
    <3>. QED BY <3>1, <3>3, <1>6
  <2>3. CASE Fresh = <<>>
    <3>1. Texts(Fresh) = {}
      BY <2>3 DEF Texts, Entries
    <3>. QED BY <2>3, <3>1, <1>2, <1>5
  <2>4. CASE Fresh # <<>>
    <3>1. Texts(run.cache) \union Texts(Fresh) \subseteq T
      BY <1>2, <1>5
    <3>. HIDE DEF T
    <3>2. Texts(SetMany(run.cache, Fresh)) = Texts(run.cache) \union Texts(Fresh)
      BY <1>2, <1>3, <2>2, <3>1, SetManyFacts
    <3>. QED BY <2>4, <3>2, <1>2, <1>5
  <2>. QED BY <2>3, <2>4
<1>. HIDE DEF recorded
<1>7. /\ pruned \in Seq(EntryType) /\ Len(pruned) <= Len(recorded)
      /\ Texts(pruned) = Texts(recorded) \intersect Live
    BY <1>4, PruneFacts
<1>8. Usable \subseteq Live
    BY DEF Usable, Live
<1>9. Len(pruned) <= Cap
  <2>1. Len(pruned) \in Nat /\ Len(recorded) \in Nat /\ Cap \in Nat
    BY <1>4, <1>7, BoundsArePositive
  <2>. HIDE DEF pruned
  <2>. QED BY <2>1, <1>4, <1>7
<1>10. /\ run' = [run EXCEPT !.phase = "flush", !.cache = pruned]
       /\ UNCHANGED <<tree, model, parsed, manifest, stored, unvouched, lost>>
    BY DEF WriteBack, recorded, Live
<1>. HIDE DEF pruned
<1>11. /\ run' \in EmbeddingRuns /\ run'.phase = "flush" /\ run'.cache = pruned
       /\ run'.settled = run.settled /\ run'.jobs = run.jobs /\ run'.tree = run.tree
       /\ run'.model = run.model /\ run'.mode = run.mode
    BY <1>1, <1>7, <1>10 DEF EmbeddingRuns
<1>12. EmbeddingTypeOK'
    BY <1>10, <1>11 DEF EmbeddingTypeOK
<1>13. RunSound'
    BY <1>1, <1>10, <1>11 DEF RunSound, Aligned, At
<1>14. RowsSound'
    BY <1>10 DEF RowsSound, RowsFollow
<1>15. Live' = Live /\ Usable' = Usable /\ Texts(manifest)' = Texts(manifest)
    BY <1>10, <1>11 DEF Live, Usable, Texts, Entries
<1>16. CacheSound'
  <2>1. /\ manifest' = manifest /\ run'.phase = "flush" /\ Len(manifest) <= Cap
        /\ Texts(run'.cache) \subseteq Live /\ Len(run'.cache) <= Cap
        /\ Cardinality(Texts(manifest)) + Cardinality(Usable) <= Cap => Usable \subseteq Texts(run'.cache)
    BY <1>2, <1>6, <1>7, <1>8, <1>9, <1>10, <1>11
  <2>. QED BY <2>1, <1>15 DEF CacheSound, At
<1>. QED
    BY <1>12, <1>13, <1>14, <1>16

\* Steps that only move the run on, with the manifest saved or not.
LEMMA FlushingKeeps ==
    ASSUME EmbeddingInv, At("flush"), run' = [run EXCEPT !.phase = "write"],
           manifest' \in {manifest, run.cache},
           UNCHANGED <<tree, model, parsed, stored, unvouched, lost>>
    PROVE  EmbeddingInv'
<1>. USE DEF EmbeddingInv
<1>1. run \in EmbeddingRuns /\ run.phase = "flush"
    BY DEF EmbeddingTypeOK, At
<1>2. /\ run' \in EmbeddingRuns /\ run'.phase = "write"
      /\ run'.settled = run.settled /\ run'.jobs = run.jobs /\ run'.tree = run.tree
      /\ run'.model = run.model /\ run'.mode = run.mode
    BY <1>1 DEF EmbeddingRuns
<1>3. EmbeddingTypeOK'
    BY <1>1, <1>2 DEF EmbeddingTypeOK, EmbeddingRuns
<1>4. RunSound'
    BY <1>1, <1>2 DEF RunSound, Aligned, At
<1>5. RowsSound'
    BY DEF RowsSound, RowsFollow
<1>6. CacheSound'
    BY <1>1, <1>2 DEF CacheSound, At
<1>. QED
    BY <1>3, <1>4, <1>5, <1>6

LEMMA DiesKeeps ==
    ASSUME EmbeddingInv, Dies
    PROVE  EmbeddingInv'
<1>. USE DEF EmbeddingInv
<1>1. /\ run' = Idle
      /\ UNCHANGED <<tree, model, parsed, manifest, stored, unvouched, lost>>
    BY DEF Dies
<1>2. run' \in EmbeddingRuns /\ run'.phase = "idle"
  <2>1. <<>> \in Seq(EntryType) /\ <<>> \in Seq(JobType) /\ <<>> \in Seq(VectorOrNone)
    OBVIOUS
  <2>2. [f \in Files |-> Absent] \in Tree
    BY DEF Tree
  <2>. QED BY <1>1, <2>1, <2>2 DEF Idle, EmbeddingRuns
<1>3. EmbeddingTypeOK'
    BY <1>1, <1>2 DEF EmbeddingTypeOK
<1>4. RunSound' /\ CacheSound'
    BY <1>1, <1>2 DEF RunSound, CacheSound, At
<1>5. RowsSound'
    BY <1>1 DEF RowsSound, RowsFollow
<1>. QED
    BY <1>3, <1>4, <1>5

\* The delta write.  A row it leaves alone is of a file that neither went nor
\* changed since the rows followed the parse cache.
LEMMA WriteVectorsKeeps ==
    ASSUME EmbeddingInv, WriteVectors
    PROVE  EmbeddingInv'
<1>. USE DEF EmbeddingInv
<1>. DEFINE Written(id) == {i \in DOMAIN run.jobs : run.jobs[i].id = id /\ run.settled[i] # NoVector
                                                    /\ InVectorScope(run.jobs[i])}
<1>1. /\ run \in EmbeddingRuns /\ run.phase = "write"
      /\ run.tree = tree /\ run.jobs = Jobs(tree) /\ tree \in Tree /\ parsed \in Tree
      /\ run.mode \in Modes /\ (run.mode = "refresh" => unvouched) /\ Aligned
      /\ stored \in [Ids -> RowType \union {NoVector}]
    BY DEF EmbeddingTypeOK, WriteVectors, RunSound, At
<1>2. /\ run.jobs \in Seq(JobType)
      /\ \A i \in DOMAIN run.jobs : run.settled[i] \in VectorOrNone /\ run.jobs[i] \in JobType
    BY <1>1, Places
<1>3. \A i \in DOMAIN run.jobs : run.jobs[i].id \in Files =>
          /\ tree[run.jobs[i].id] # Absent
          /\ run.jobs[i].text = <<tree[run.jobs[i].id]>>
          /\ run.jobs[i].file = run.jobs[i].id
    BY <1>1, JobsFacts
<1>4. /\ run' = [run EXCEPT !.phase = "idle"]
      /\ UNCHANGED <<tree, model, manifest, lost>>
      /\ IF Delta THEN parsed' = run.tree /\ unvouched' = FALSE ELSE UNCHANGED <<parsed, unvouched>>
    BY DEF WriteVectors
<1>5. run' \in EmbeddingRuns /\ run'.phase = "idle"
    BY <1>1, <1>4 DEF EmbeddingRuns
<1>6. /\ DOMAIN stored' = Ids
      /\ \A id \in Ids :
            \/ \E i \in Written(id) : stored'[id] = [text |-> run.settled[i].text,
                                                     model |-> run.settled[i].model,
                                                     file |-> run.jobs[i].file]
            \/ stored'[id] = NoVector
            \/ stored'[id] = stored[id] /\ ~Deleted(id)
  <2>1. stored' = [id \in Ids |->
            IF Written(id) # {}
            THEN [text |-> run.settled[CHOOSE i \in Written(id) : TRUE].text,
                  model |-> run.settled[CHOOSE i \in Written(id) : TRUE].model,
                  file |-> run.jobs[CHOOSE i \in Written(id) : TRUE].file]
            ELSE IF Deleted(id) THEN NoVector ELSE stored[id]]
    BY <1>1 DEF WriteVectors
  <2>. HIDE DEF Written
  <2>2. \A id \in Ids : Written(id) # {} => (CHOOSE i \in Written(id) : TRUE) \in Written(id)
    OBVIOUS
  <2>. QED BY <2>1, <2>2
<1>7. \A i \in DOMAIN run.jobs : run.settled[i] # NoVector =>
          /\ run.settled[i] \in Vectors
          /\ run.settled[i].text = run.jobs[i].text
    BY <1>1, <1>2 DEF Aligned, VectorOrNone
<1>8. stored' \in [Ids -> RowType \union {NoVector}]
  <2>1. \A id \in Ids : \A i \in Written(id) :
            [text |-> run.settled[i].text, model |-> run.settled[i].model,
             file |-> run.jobs[i].file] \in RowType
    BY <1>2, <1>7 DEF RowType, Vectors, JobType
  <2>. HIDE DEF Written
  <2>2. \A id \in Ids : stored'[id] \in RowType \union {NoVector}
    BY <1>1, <1>6, <2>1
  <2>3. stored' = [id \in Ids |-> stored'[id]]
    BY DEF WriteVectors, EmbeddingTypeOK
  <2>. QED BY <2>2, <2>3
<1>9. EmbeddingTypeOK'
    BY <1>1, <1>4, <1>5, <1>8 DEF EmbeddingTypeOK
<1>10. RunSound' /\ CacheSound'
    BY <1>4, <1>5 DEF RunSound, CacheSound, At
<1>11. ASSUME NEW f \in Files
       PROVE  \/ stored'[f] = NoVector
              \/ stored'[f].file = f /\ tree[f] # Absent /\ stored'[f].text = <<tree[f]>>
              \/ stored'[f] = stored[f] /\ ~Deleted(f)
  <2>1. f \in Ids
    BY DEF Ids
  <2>2. ASSUME NEW i \in Written(f),
               stored'[f] = [text |-> run.settled[i].text, model |-> run.settled[i].model,
                             file |-> run.jobs[i].file]
        PROVE  stored'[f].file = f /\ tree[f] # Absent /\ stored'[f].text = <<tree[f]>>
    BY <2>2, <1>3, <1>7
  <2>. HIDE DEF Written
  <2>. QED BY <2>1, <2>2, <1>6
<1>12. \A f \in Files : stored'[f] # NoVector => stored'[f].file = f
    BY <1>11 DEF RowsSound
<1>13. ASSUME ~lost, unvouched
       PROVE  RowsFollow(tree)'
    BY <1>4, <1>11, <1>13 DEF RowsSound, RowsFollow
<1>14. ASSUME ~lost, ~unvouched
       PROVE  RowsFollow(tree)'
  <2>1. Delta
    BY <1>1, <1>14, ModesAreKnown DEF Delta
  <2>2. ASSUME NEW f \in Files, stored[f] # NoVector, ~Deleted(f)
        PROVE  tree[f] # Absent /\ stored[f].text = <<tree[f]>>
    <3>1. parsed[f] # Absent /\ stored[f].text = <<parsed[f]>> /\ stored[f].file = f
      BY <1>14, <2>2 DEF RowsSound, RowsFollow
    <3>2. f \notin Removed /\ f \notin Changed
      BY <2>1, <2>2, <3>1 DEF Deleted, FilePath
    <3>3. tree[f] # Absent /\ tree[f] = parsed[f]
      BY <1>1, <3>1, <3>2 DEF Removed, Changed
    <3>. QED BY <3>1, <3>3
  <2>. QED BY <1>4, <1>11, <2>2 DEF RowsFollow
<1>15. RowsSound'
  <2>1. CASE Delta
    BY <2>1, <1>1, <1>4, <1>12, <1>13, <1>14 DEF RowsSound, RowsFollow, EmbeddingTypeOK
  <2>2. CASE ~Delta
    <3>1. unvouched /\ unvouched' = unvouched
      BY <2>2, <1>1, <1>4, ModesAreKnown DEF Delta
    <3>. QED BY <3>1, <1>4, <1>12, <1>13 DEF RowsSound
  <2>. QED BY <2>1, <2>2
<1>. QED
    BY <1>9, <1>10, <1>15

LEMMA EmbeddingInductive == EmbeddingInv /\ [EmbeddingNext]_embeddingVars => EmbeddingInv'
<1>. SUFFICES ASSUME EmbeddingInv, [EmbeddingNext]_embeddingVars
              PROVE  EmbeddingInv'
    OBVIOUS
<1>1. CASE \E f \in Files : Edit(f)
    BY <1>1, EditKeeps
<1>2. CASE SwapModel
    BY <1>2, SwapModelKeeps
<1>3. CASE \E mode \in Modes, batching \in BOOLEAN : StartRun(mode, batching)
    BY <1>3, StartRunKeeps
<1>4. CASE \E i \in DOMAIN run.jobs : ItemSettles(i)
    BY <1>4, ItemSettlesKeeps
<1>5. CASE \E b \in run.batches : BatchAnswers(b) \/ BatchFails(b)
    BY <1>5, BatchAnswersKeeps, BatchFailsKeeps
<1>6. CASE WriteBack
    BY <1>6, WriteBackKeeps
<1>7. CASE Flush \/ FlushFails
    BY <1>7, FlushingKeeps DEF Flush, FlushFails, At
<1>8. CASE Dies
    BY <1>8, DiesKeeps
<1>9. CASE WriteVectors
    BY <1>9, WriteVectorsKeeps
<1>10. CASE UNCHANGED embeddingVars
    BY <1>10 DEF embeddingVars, EmbeddingInv, EmbeddingTypeOK, RunSound, Aligned, RowsSound,
                 RowsFollow, CacheSound, Usable, Live, At
<1>. QED
    BY <1>1, <1>2, <1>3, <1>4, <1>5, <1>6, <1>7, <1>8, <1>9, <1>10 DEF EmbeddingNext

\* While a run embeds, batch by batch or item by item and in any order of the
\* answers, what it has is sound, and so are the rows and the cache it leaves.
THEOREM EmbeddingInvariance == EmbeddingSpec => []EmbeddingInv
<1>. QED
    BY EmbeddingInitial, EmbeddingInductive, PTL DEF EmbeddingSpec

\* Every result belongs to the text of its job, and no row of the vector table
\* to a text its symbol no longer has (buildSearchIndex, the delta write).
THEOREM VectorsBelong == EmbeddingSpec => []VectorsSound
<1>1. EmbeddingInv => VectorsSound
    BY DEF EmbeddingInv, RunSound, RowsSound, RowsFollow, Aligned, VectorsSound,
           ResultsAligned, NoStaleVector
<1>. QED
    BY <1>1, EmbeddingInvariance, PTL

\* A manifest that is saved has the texts of its run and no others, all that
\* were embedded as long as the cap leaves room (FileEmbeddingCache).
THEOREM SavedCacheTracks == EmbeddingSpec => CacheTracksCorpus
<1>. DEFINE Tracks ==
         LET usable == {run.jobs[i].text : i \in {i \in DOMAIN run.jobs : run.settled[i] # NoVector}}
             all    == {run.jobs[i].text : i \in DOMAIN run.jobs}
         IN  /\ Texts(manifest') \subseteq all
             /\ Cardinality(Texts(manifest)) + Cardinality(usable) <= Cap => usable \subseteq Texts(manifest')
             /\ Len(manifest') <= Cap
<1>1. EmbeddingInv /\ [EmbeddingNext]_embeddingVars => [manifest' # manifest => Tracks]_embeddingVars
  <2>. SUFFICES ASSUME EmbeddingInv, EmbeddingNext, manifest' # manifest
                PROVE  Tracks
    BY DEF embeddingVars
  <2>1. Flush
    BY DEF EmbeddingNext, Edit, SwapModel, StartRun, ItemSettles, BatchAnswers, BatchFails,
           WriteBack, FlushFails, Dies, WriteVectors
  <2>2. manifest' = run.cache /\ At("flush")
    BY <2>1 DEF Flush
  <2>. QED BY <2>2 DEF EmbeddingInv, CacheSound, Usable, Live
<1>. QED
    BY <1>1, EmbeddingInvariance, PTL DEF EmbeddingSpec, CacheTracksCorpus
=============================================================================
