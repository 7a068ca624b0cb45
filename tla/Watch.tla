------------------------------- MODULE Watch -------------------------------
(***************************************************************************)
(* Watch mode: `typocop watch` (executeWatch and its single-flight         *)
(* scheduler in src/apps/cli/executor.ts over                              *)
(* src/infrastructure/watch/file-watcher.ts).                              *)
(*                                                                         *)
(* File events are debounced into batches, batches that arrive while a     *)
(* reindex is running are queued, and a reindex walks the whole tree,      *)
(* whatever paths it was given.  SIGINT closes the watcher and then the    *)
(* adapter, without waiting for the reindex.                               *)
(*                                                                         *)
(* Nothing is indexed when watch begins, and chokidar is imported lazily   *)
(* and told to ignore what its first scan finds: what was changed before   *)
(* it is ready, or in a file its filters drop, may never be announced.     *)
(* Such a file is `unseen' until an announced change lets the index catch  *)
(* up with it; the properties are about all others.                        *)
(***************************************************************************)
EXTENDS Naturals, FiniteSets

CONSTANTS
    Files,        \* the files the pipeline's own walk finds
    Ignored,      \* those of them that the watcher's filters drop, such as a
                  \* file below a directory tmp outside the working directory
    Bare,         \* versions of a file that hold no symbol
    MaxEdits,     \* bound on the edits
    MaxFailures   \* bound on the reindexes that fail by themselves

ASSUME WatchAssumption ==
    /\ IsFiniteSet(Files) /\ Ignored \subseteq Files /\ Bare \subseteq Nat
    /\ MaxEdits \in Nat /\ MaxFailures \in Nat

VARIABLES
    ready,      \* chokidar is loaded and through with its first scan
    disk,       \* the version of each file on disk
    indexed,    \* the version of each file the index was last written from
    unseen,     \* history: files whose last change no event is told of
    raised,     \* files whose file system event is still on its way
    pending,    \* the watcher's set of changed paths
    timer,      \* whether its debounce timer is armed
    runs,       \* the reindexes in progress
    queued,     \* the scheduler's set of paths for the next one
    started,    \* how many times drive() has been called
    teardown,   \* SIGINT: "no", "watcher" while it closes, "done" after the adapter
    edits,
    failures,
    outcome     \* of the last reindex: "wrote", "empty" when it returned early,
                \* having written nothing, or "failed"

watchVars == <<ready, disk, indexed, unseen, raised, pending, timer, runs, queued,
               started, teardown, edits, failures, outcome>>

\* 1 is what a file is when watch begins, 0 an older one.
Versions == Nat

\* A reindex: which files it has still to read, and what it has read.
Runs == [id : Nat, unread : SUBSET Files, read : [Files -> Versions]]

WatchTypeOK ==
    /\ disk \in [Files -> Versions] /\ indexed \in [Files -> Versions]
    /\ ready \in BOOLEAN
    /\ unseen \subseteq Files /\ raised \subseteq Files /\ pending \subseteq Files /\ queued \subseteq Files
    /\ timer \in BOOLEAN
    /\ runs \subseteq Runs
    /\ started \in Nat
    /\ teardown \in {"no", "watcher", "done"}
    /\ edits \in 0..MaxEdits /\ failures \in 0..MaxFailures
    /\ outcome \in {"wrote", "empty", "failed"}
    \* The timer is armed exactly while paths wait for it, and paths are queued
    \* only behind a reindex.
    /\ timer <=> pending # {}
    /\ queued # {} => runs # {}

\* executeWatch() indexes nothing: what changed since the last run of another
\* command stays behind.
WatchInit ==
    /\ disk = [f \in Files |-> 1] /\ indexed \in [Files -> {0, 1}]
    /\ ready = FALSE /\ unseen = {f \in Files : indexed[f] # disk[f]}
    /\ raised = {} /\ pending = {} /\ queued = {} /\ timer = FALSE
    /\ runs = {} /\ started = 0
    /\ teardown = "no" /\ edits = 0 /\ failures = 0 /\ outcome = "wrote"

-----------------------------------------------------------------------------
\* chokidar is imported and has scanned the tree.
WatcherReady ==
    /\ ~ready /\ teardown = "no"
    /\ ready' = TRUE
    /\ UNCHANGED <<disk, indexed, unseen, raised, pending, timer, runs, queued,
                   started, teardown, edits, failures, outcome>>

\* Somebody saves a file.  Before chokidar is ready, and for a path it was told
\* to ignore, there may be no event.
Edit(f) ==
    /\ edits < MaxEdits /\ edits' = edits + 1
    /\ disk' = [disk EXCEPT ![f] = @ + 1]
    /\ \/ /\ raised' = raised \union {f}
          /\ unseen' = IF f \in Ignored THEN unseen \union {f} ELSE unseen \ {f}
       \/ /\ ~ready \/ f \in Ignored
          /\ unseen' = unseen \union {f}
          /\ UNCHANGED raised
    /\ UNCHANGED <<ready, indexed, pending, timer, runs, queued, started, teardown,
                   failures, outcome>>

\* chokidar reports it: unless its path is to be ignored it is added and the
\* debounce starts again.  A closed watcher drops it.
RawEvent(f) ==
    /\ f \in raised
    /\ raised' = raised \ {f}
    /\ IF teardown = "no" /\ f \notin Ignored
       THEN pending' = pending \union {f} /\ timer' = TRUE
       ELSE UNCHANGED <<pending, timer>>
    /\ UNCHANGED <<ready, disk, indexed, unseen, runs, queued, started, teardown,
                   edits, failures, outcome>>

Begin(id) == [id |-> id, unread |-> Files, read |-> disk]

\* Regression: a batch that arrives during a reindex is dropped.
ScheduleDropping(batch) ==
    IF runs # {}
    THEN UNCHANGED <<runs, queued, started>>
    ELSE /\ started' = started + 1
         /\ runs' = {Begin(started + 1)}
         /\ UNCHANGED queued

\* schedule(): queue behind the reindex in flight, or drive() a new one.
Schedule(batch) ==
    IF runs # {}
    THEN queued' = queued \union batch /\ UNCHANGED <<runs, started>>
    ELSE /\ started' = started + 1
         /\ runs' = {Begin(started + 1)}
         /\ UNCHANGED queued

\* The debounce timer fires: all pending paths become one batch.
Flush ==
    /\ timer
    /\ timer' = FALSE /\ pending' = {}
    /\ Schedule(pending)
    /\ UNCHANGED <<ready, disk, indexed, unseen, raised, teardown, edits, failures, outcome>>

\* The reindex reads one more file of the tree.
ReadFile(r, f) ==
    /\ r \in runs /\ f \in r.unread
    /\ runs' = (runs \ {r}) \union
               {[r EXCEPT !.unread = @ \ {f}, !.read[f] = disk[f]]}
    /\ UNCHANGED <<ready, disk, indexed, unseen, raised, pending, timer, queued, started,
                   teardown, edits, failures, outcome>>

\* Regression: the loop of drive() ends after one batch.
ContinueNot(r) == runs' = runs \ {r} /\ queued' = {}

\* The loop of drive(): the queued paths are the next batch, if there are any.
Continue(r) ==
    /\ runs' = (runs \ {r}) \union (IF queued = {} THEN {} ELSE {Begin(r.id)})
    /\ queued' = {}

\* The pipeline found no file, or no symbol in any.
FoundNothing(r) == \A f \in Files : r.read[f] \in Bare

\* The reindex writes what it has read, for which the adapter has to be open,
\* or returns before that when there is nothing to write.
RunSucceeds(r) ==
    /\ r \in runs /\ r.unread = {}
    /\ \/ /\ FoundNothing(r)
          /\ outcome' = "empty" /\ UNCHANGED indexed
       \/ /\ ~FoundNothing(r) /\ teardown # "done"
          /\ outcome' = "wrote" /\ indexed' = r.read
    /\ Continue(r)
    /\ UNCHANGED <<ready, disk, unseen, raised, pending, timer, started, teardown, edits, failures>>

\* reindexChangedFiles() throws at some point, having written some files; the
\* error is logged and the loop goes on.
RunFails(r) ==
    /\ r \in runs
    /\ \/ teardown = "done" /\ UNCHANGED failures
       \/ failures < MaxFailures /\ failures' = failures + 1
    /\ \E S \in SUBSET (Files \ r.unread) :
          indexed' = [f \in Files |-> IF f \in S THEN r.read[f] ELSE indexed[f]]
    /\ outcome' = "failed"
    /\ Continue(r)
    /\ UNCHANGED <<ready, disk, unseen, raised, pending, timer, started, teardown, edits>>

\* SIGINT: the watcher is closed first and forgets what it has pending.
Sigint ==
    /\ teardown = "no"
    /\ teardown' = "watcher"
    /\ timer' = FALSE /\ pending' = {}
    /\ UNCHANGED <<ready, disk, indexed, unseen, raised, runs, queued, started, edits, failures, outcome>>

\* Then the adapter, whether or not a reindex is using it.
AdapterClosed ==
    /\ teardown = "watcher"
    /\ teardown' = "done"
    /\ UNCHANGED <<ready, disk, indexed, unseen, raised, pending, timer, runs, queued, started,
                   edits, failures, outcome>>

RunStep == \E r \in runs :
    RunSucceeds(r) \/ RunFails(r) \/ \E f \in Files : ReadFile(r, f)

WatchNext ==
    \/ WatcherReady
    \/ \E f \in Files : Edit(f) \/ RawEvent(f)
    \/ Flush \/ RunStep \/ Sigint \/ AdapterClosed

\* Events are delivered, timers fire, and a reindex ends; chokidar's watcher is
\* persistent and the debounce timer referenced, so the process stays alive.
Fairness ==
    /\ \A f \in Files : WF_watchVars(RawEvent(f))
    /\ WF_watchVars(Flush) /\ WF_watchVars(RunStep)

WatchSpec == WatchInit /\ [][WatchNext]_watchVars /\ Fairness

-----------------------------------------------------------------------------
\* "Guarantees run invocations never interleave": the adapter and the caches
\* are used by one reindex at a time.
NeverInterleaves == Cardinality(runs) <= 1

\* No change falls between the event, the debounce, the queue and the walk: a
\* file the index is behind on is on its way to a reindex that has yet to read
\* it, or has been read in its present version by the one that is running.
\* Excepted are a file whose last change was never announced, a reindex that
\* failed or found a tree without symbols, and a watcher that was closed.
NothingForgotten ==
    \A f \in Files :
        indexed[f] # disk[f] =>
            \/ f \in raised \union pending \union queued
            \/ \E r \in runs : f \in r.unread \/ r.read[f] = disk[f]
            \/ f \in unseen \/ outcome # "wrote" \/ teardown # "no"

\* One reindex at a time, and no change without one.
WatchSound == WatchTypeOK /\ NeverInterleaves /\ NothingForgotten

\* Once the watcher is being closed only what was queued is still driven.
NoRunAfterClose == [][teardown # "no" /\ runs = {} => runs' = {}]_watchVars

\* When the edits stop the index catches up with every file whose last change
\* was announced, unless the last reindex failed or found nothing to write, or
\* the user stopped watching.
CatchesUp ==
    <>[](\/ \A f \in Files \ unseen : indexed[f] = disk[f]
         \/ outcome # "wrote" \/ teardown # "no")

\* Until it is closed the watcher keeps up; after that it starts nothing new.
KeepsUp == NoRunAfterClose /\ CatchesUp
=============================================================================
