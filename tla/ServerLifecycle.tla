-------------------------- MODULE ServerLifecycle --------------------------
(***************************************************************************)
(* The life of connection server processes that succeed each other on one  *)
(* database (src/apps/ladybug-server/server.ts, safety-net.ts, runtime.ts, *)
(* src/infrastructure/persistence/connection.ts, file-lock.ts).            *)
(*                                                                         *)
(* What the processes share are two names in the file system: the lock     *)
(* directory of proper-lockfile and the discovery file.  Both are removed  *)
(* by path, whoever put them there.  Inside a process startup, shutdown,   *)
(* the close of the database and the timers take turns at every await.     *)
(***************************************************************************)
EXTENDS Naturals, FiniteSets

CONSTANTS
    Servers,      \* server processes, each started at most once
    None,         \* no process
    IdleTtl,      \* whether idleTtlMs > 0
    MaxFaults     \* bound on killed processes and failed removals

ASSUME ServersAssumption ==
    /\ IsFiniteSet(Servers) /\ None \notin Servers
    /\ IdleTtl \in BOOLEAN
    /\ MaxFaults \in Nat

VARIABLES
    srv,        \* the state of each process
    lockDir,    \* who made the lock directory that exists now
    discovery,  \* who wrote the discovery file that exists now
    faults

vars == <<srv, lockDir, discovery, faults>>

\* startup: startConnectionServer();  shutdown: shutdown();  db: the native
\* database and the progress of runtime.close().
State == [
    life     : {"down", "alive", "exited", "killed"},
    startup  : {"none", "locking", "opening", "binding", "advertising",
                "advertised", "up", "aborting"},
    shutdown : {"none", "unadvertise", "stopping", "closing", "cleanup",
                "unlock", "done"},
    db       : {"none", "open", "closing connection", "releasing lock",
                "closing database", "closed", "failed"},
    holds    : BOOLEAN,   \* proper-lockfile believes it has the lock
    cleanedUp : BOOLEAN,
    idleTimer : BOOLEAN,
    hardExit : BOOLEAN,   \* the hard-exit timer is armed
    net      : BOOLEAN,   \* the safety net is installed
    fatal    : BOOLEAN,   \* exit(1) follows shutdown()
    early    : BOOLEAN,   \* shutdown() began before startup was over
    stuck    : BOOLEAN]   \* a removal of the discovery file failed

TypeOK ==
    /\ srv \in [Servers -> State]
    /\ lockDir \in Servers \union {None}
    /\ discovery \in Servers \union {None}
    /\ faults \in 0..MaxFaults
    /\ \A p \in Servers :
          /\ srv[p].hardExit => srv[p].shutdown \notin {"none", "done"}
          /\ srv[p].startup # "none" <=> srv[p].life = "alive"

Fresh ==
    [life |-> "down", startup |-> "none", shutdown |-> "none", db |-> "none",
     holds |-> FALSE, cleanedUp |-> FALSE, idleTimer |-> FALSE,
     hardExit |-> FALSE, net |-> FALSE, fatal |-> FALSE, early |-> FALSE,
     stuck |-> FALSE]

Init ==
    /\ srv = [p \in Servers |-> Fresh]
    /\ lockDir = None
    /\ discovery = None
    /\ faults = 0

-----------------------------------------------------------------------------
Alive(p) == srv[p].life = "alive"
Starting(p, s) == Alive(p) /\ srv[p].startup = s
Stopping(p, s) == Alive(p) /\ srv[p].shutdown = s

\* The process is gone, and with it all its state.  What is kept of one that
\* exited by itself says how far it had come, for the properties.
Gone(s, how) ==
    IF how = "killed" THEN [Fresh EXCEPT !.life = how]
    ELSE [Fresh EXCEPT !.life = how, !.early = s.early, !.stuck = s.stuck,
              !.shutdown = IF s.shutdown \in {"cleanup", "unlock"}
                           THEN s.shutdown ELSE "none",
              !.db = IF s.db = "none" THEN "none" ELSE "closed"]

\* cleanupSync(): remove both names unless a cleanup has already begun.
CleanupSync(p) ==
    IF srv[p].cleanedUp
    THEN UNCHANGED <<lockDir, discovery>>
    ELSE lockDir' = None /\ discovery' = None

\* rm of the discovery file, whoever wrote it; a failure is logged only.
RemoveDiscovery(p, next) ==
    \/ /\ discovery' = None
       /\ srv' = [srv EXCEPT ![p] = next]
       /\ UNCHANGED faults
    \/ /\ faults < MaxFaults
       /\ faults' = faults + 1
       /\ srv' = [srv EXCEPT ![p] = [next EXCEPT !.stuck = TRUE]]
       /\ UNCHANGED discovery

-----------------------------------------------------------------------------
\* main() calls startConnectionServer(), which opens the runtime.
Start(p) ==
    /\ srv[p].life = "down"
    /\ srv' = [srv EXCEPT ![p].life = "alive", ![p].startup = "locking"]
    /\ UNCHANGED <<lockDir, discovery, faults>>

\* acquireFileLock(): the lock is free, or its maker is dead and it has gone
\* stale.
AcquireLock(p) ==
    /\ Starting(p, "locking")
    /\ lockDir # None => ~Alive(lockDir)
    /\ lockDir' = p
    /\ srv' = [srv EXCEPT ![p].startup = "opening", ![p].holds = TRUE]
    /\ UNCHANGED <<discovery, faults>>

\* DatabaseLockedError: the process exits, nothing of its own to clean up.
LockFails(p) ==
    /\ Starting(p, "locking")
    /\ lockDir # None
    /\ srv' = [srv EXCEPT ![p] = Gone(@, "exited")]
    /\ UNCHANGED <<lockDir, discovery, faults>>

\* The database cannot be opened, or the schema not created.  In the first
\* case the lock is given back; in the second the directory may stay behind.
OpenFails(p) ==
    /\ Starting(p, "opening")
    /\ lockDir' \in {lockDir, None}
    /\ srv' = [srv EXCEPT ![p] = Gone(@, "exited")]
    /\ UNCHANGED <<discovery, faults>>

\* runtime.open() returns; the code up to the next await adds the services,
\* the signal handlers and the safety net, and asks gRPC to bind.
Opened(p) ==
    /\ Starting(p, "opening")
    /\ srv' = [srv EXCEPT ![p].startup = "binding", ![p].db = "open",
                          ![p].net = TRUE]
    /\ UNCHANGED <<lockDir, discovery, faults>>

\* bindAsync calls back, gRPC starts, and the discovery file is written.
Bound(p) ==
    /\ Starting(p, "binding")
    /\ srv' = [srv EXCEPT ![p].startup = "advertising"]
    /\ UNCHANGED <<lockDir, discovery, faults>>

\* writeFile takes effect; startConnectionServer() goes on later.
Advertise(p) ==
    /\ Starting(p, "advertising")
    /\ discovery' = p
    /\ srv' = [srv EXCEPT ![p].startup = "advertised"]
    /\ UNCHANGED <<lockDir, faults>>

\* The idle timer is installed, whatever happened during the awaits.
Started(p) ==
    /\ Starting(p, "advertised")
    /\ srv' = [srv EXCEPT ![p].startup = "up", ![p].idleTimer = IdleTtl]
    /\ UNCHANGED <<lockDir, discovery, faults>>

\* runtime.close(): nothing to do unless the database is open; a second call
\* while one is under way returns early.
BeginClose(s) ==
    IF s.db = "open" THEN [s EXCEPT !.db = "closing connection"] ELSE s

\* Binding, starting or advertising throws: the catch of startConnectionServer
\* disposes the safety net and closes the runtime, without a time limit.
StartupFails(p) ==
    /\ \E s \in {"binding", "advertising"} : Starting(p, s)
    /\ srv' = [srv EXCEPT ![p] =
                  BeginClose([@ EXCEPT !.startup = "aborting", !.net = FALSE])]
    /\ UNCHANGED <<lockDir, discovery, faults>>

\* The runtime is closed: clean up, rethrow, process.exit(1).
StartupAborted(p) ==
    /\ Starting(p, "aborting")
    /\ srv[p].db \in {"closed", "failed"} \/ srv[p].shutdown # "none"
    /\ CleanupSync(p)
    /\ srv' = [srv EXCEPT ![p] = Gone([@ EXCEPT !.cleanedUp = TRUE], "exited")]
    /\ UNCHANGED faults

-----------------------------------------------------------------------------
\* The handlers are installed once runtime.open() has returned, and stay.
CanShutdown(p) ==
    \E s \in {"binding", "advertising", "advertised", "up", "aborting"} :
        Starting(p, s)

\* Regression: the idle timer survives.
BeginShutdownKeepingTimer(s) ==
    [s EXCEPT !.shutdown = "unadvertise", !.hardExit = TRUE,
              !.early = (s.startup # "up")]

\* The synchronous part of shutdown(): no new work, no idle timer, hard-exit
\* timer armed.  A second call only returns the promise of the first.
BeginShutdown(s) ==
    [s EXCEPT !.shutdown = "unadvertise", !.idleTimer = FALSE,
              !.hardExit = TRUE, !.early = (s.startup # "up")]

\* SIGTERM, SIGINT, the Admin call or the idle timer.
Shutdown(p) ==
    /\ CanShutdown(p)
    /\ srv[p].shutdown = "none"
    /\ srv' = [srv EXCEPT ![p] = BeginShutdown(@)]
    /\ UNCHANGED <<lockDir, discovery, faults>>

\* uncaughtException or unhandledRejection: shutdown(), then exit(1).
Fatal(p) ==
    /\ Alive(p) /\ srv[p].net /\ ~srv[p].fatal
    /\ srv' = [srv EXCEPT ![p] =
          LET s == [@ EXCEPT !.fatal = TRUE]
          IN  IF s.shutdown = "none" THEN BeginShutdown(s) ELSE s]
    /\ UNCHANGED <<lockDir, discovery, faults>>

\* proper-lockfile finds that the directory is no longer its own and throws
\* from its timer: an uncaught exception, with or without a safety net.
Compromised(p) ==
    /\ Alive(p)
    /\ srv[p].holds /\ lockDir # p
    /\ srv' = [srv EXCEPT ![p] =
          LET s == [@ EXCEPT !.fatal = TRUE, !.holds = FALSE]
          IN  IF ~s.net THEN Gone(s, "exited")
              ELSE IF s.shutdown = "none" THEN BeginShutdown(s) ELSE s]
    /\ UNCHANGED <<lockDir, discovery, faults>>

\* Regression: shutdown() does not stop advertising first.
UnadvertiseLater(p) ==
    /\ Stopping(p, "unadvertise")
    /\ srv' = [srv EXCEPT ![p].shutdown = "stopping"]
    /\ UNCHANGED <<lockDir, discovery, faults>>

\* Phase C(1): stop advertising.
Unadvertise(p) ==
    /\ Stopping(p, "unadvertise")
    /\ RemoveDiscovery(p, [srv[p] EXCEPT !.shutdown = "stopping"])
    /\ UNCHANGED lockDir

\* Phase C(2), C(3): gRPC has stopped and the scheduler is drained, both by
\* their deadline at the latest; runtime.close() begins.
Stopped(p) ==
    /\ Stopping(p, "stopping")
    /\ srv' = [srv EXCEPT ![p] = BeginClose([@ EXCEPT !.shutdown = "closing"])]
    /\ UNCHANGED <<lockDir, discovery, faults>>

\* close() of connection.ts: first the native connection,
ConnectionClosed(p) ==
    /\ Alive(p) /\ srv[p].db = "closing connection"
    /\ srv' = [srv EXCEPT ![p].db = "releasing lock"]
    /\ UNCHANGED <<lockDir, discovery, faults>>

\* then the lock, by path (a compromised lock cannot be released, and close()
\* rejects),
LockReleased(p) ==
    /\ Alive(p) /\ srv[p].db = "releasing lock"
    /\ \/ /\ srv[p].holds
          /\ lockDir' = None
          /\ srv' = [srv EXCEPT ![p].db = "closing database", ![p].holds = FALSE]
       \/ /\ ~srv[p].holds
          /\ srv' = [srv EXCEPT ![p].db = "failed"]
          /\ UNCHANGED lockDir
    /\ UNCHANGED <<discovery, faults>>

\* and last the database.
DatabaseClosed(p) ==
    /\ Alive(p) /\ srv[p].db = "closing database"
    /\ srv' = [srv EXCEPT ![p].db = "closed"]
    /\ UNCHANGED <<lockDir, discovery, faults>>

\* The end of shutdown(): no hard exit, no safety net.
Finished(s) == [s EXCEPT !.shutdown = "done", !.hardExit = FALSE, !.net = FALSE]

\* Phase C(4): runtime.close() has returned or shutdownHardMs have passed; the
\* close goes on by itself.  cleanupAsync() runs unless a cleanup already has.
CloseEnds(p) ==
    /\ Stopping(p, "closing")
    /\ srv' = [srv EXCEPT ![p] =
          IF @.cleanedUp THEN Finished(@)
          ELSE [@ EXCEPT !.shutdown = "cleanup", !.cleanedUp = TRUE]]
    /\ UNCHANGED <<lockDir, discovery, faults>>

\* cleanupAsync(): the discovery file again, then the lock directory.
CleanupDiscovery(p) ==
    /\ Stopping(p, "cleanup")
    /\ RemoveDiscovery(p, [srv[p] EXCEPT !.shutdown = "unlock"])
    /\ UNCHANGED lockDir

CleanupLock(p) ==
    /\ Stopping(p, "unlock")
    /\ lockDir' = None
    /\ srv' = [srv EXCEPT ![p] = Finished(@)]
    /\ UNCHANGED <<discovery, faults>>

\* The backstop: clean up at once and process.exit(1).
HardExit(p) ==
    /\ Alive(p) /\ srv[p].hardExit
    /\ CleanupSync(p)
    /\ srv' = [srv EXCEPT ![p] = Gone([@ EXCEPT !.cleanedUp = TRUE], "exited")]
    /\ UNCHANGED faults

\* What keeps a process without gRPC server running: startup that is not over,
\* the idle timer, and a native call that has not returned.
EventLoopEmpty(s) ==
    /\ s.startup = "up"
    /\ ~s.idleTimer
    /\ s.db \in {"closed", "failed"}

\* After shutdown() the process exits: at once after a fatal error, otherwise
\* when nothing is left to wait for.
Exit(p) ==
    /\ Stopping(p, "done")
    /\ srv[p].fatal \/ EventLoopEmpty(srv[p])
    /\ srv' = [srv EXCEPT ![p] = Gone(@, "exited")]
    /\ UNCHANGED <<lockDir, discovery, faults>>

\* SIGKILL, the memory killer or a second SIGTERM: nothing is cleaned up.
Kill(p) ==
    /\ Alive(p)
    /\ faults < MaxFaults
    /\ faults' = faults + 1
    /\ srv' = [srv EXCEPT ![p] = Gone(@, "killed")]
    /\ UNCHANGED <<lockDir, discovery>>

-----------------------------------------------------------------------------
StartupStep(p) ==
    \/ AcquireLock(p) \/ LockFails(p) \/ OpenFails(p) \/ Opened(p)
    \/ Bound(p) \/ Advertise(p) \/ Started(p)
    \/ StartupFails(p) \/ StartupAborted(p)

ShutdownStep(p) ==
    \/ Unadvertise(p) \/ Stopped(p) \/ CloseEnds(p)
    \/ CleanupDiscovery(p) \/ CleanupLock(p)

CloseStep(p) == ConnectionClosed(p) \/ LockReleased(p) \/ DatabaseClosed(p)

Next ==
    \E p \in Servers :
        \/ Start(p) \/ StartupStep(p)
        \/ Shutdown(p) \/ Fatal(p) \/ Compromised(p)
        \/ ShutdownStep(p) \/ HardExit(p) \/ Exit(p)
        \/ CloseStep(p) \/ Kill(p)

\* What a process does by itself: timers fire, file system calls return and the
\* awaits of startup are answered.  A native close may hang for ever, and
\* nobody has to call shutdown().
OwnStep(p) == StartupStep(p) \/ ShutdownStep(p) \/ HardExit(p) \/ Exit(p)

Fairness == \A p \in Servers : WF_vars(OwnStep(p))

Spec == Init /\ [][Next]_vars /\ Fairness

-----------------------------------------------------------------------------
\* However a server that got as far as opening its database exits (graceful
\* shutdown, fatal error, hard exit, failed startup, in any overlap), neither
\* its lock directory nor its advertisement stays behind to block or mislead
\* the next one.  Excepted are an exit in the middle of cleanupAsync(), which
\* has marked the cleanup as done before it does it, and the advertisement of
\* a server that was told to stop while it started.
NoOrphans ==
    \A p \in Servers :
        srv[p].life = "exited" /\ srv[p].db # "none" =>
            /\ lockDir = p => srv[p].shutdown \in {"cleanup", "unlock"}
            /\ discovery = p => srv[p].early \/ srv[p].stuck

\* A client that follows the discovery file to a live server finds one that
\* has its database open: shutdown() takes the file away before it closes
\* anything, and startup writes it last.
AdvertisedServes ==
    \A p \in Servers :
        discovery = p /\ Alive(p) /\ ~srv[p].early /\ ~srv[p].stuck =>
            /\ srv[p].startup \in {"advertised", "up"}
            /\ srv[p].shutdown \in {"none", "unadvertise"}
            /\ srv[p].db = "open"

\* What clients and successors may rely on in the two files a server leaves in
\* the file system.
LifecycleSound == TypeOK /\ NoOrphans /\ AdvertisedServes

\* The two ways in which a server outlives its shutdown(): a native close that
\* never returns, and the idle timer that startup installs after shutdown()
\* has looked for it.
Lingers(p) ==
    /\ srv[p].shutdown = "done"
    /\ \/ srv[p].db \notin {"closed", "failed"}
       \/ srv[p].early /\ srv[p].idleTimer

\* "Bound the shutdown so it can never hang": whatever hangs, shutdown() ends,
\* and the process with it, unless it lingers in one of those two ways.
ShutdownEnds ==
    \A p \in Servers :
        srv[p].shutdown # "none" ~> ~Alive(p) \/ Lingers(p)

\* "Ensure exactly one process owns the LadybugDB database lock": two servers
\* nobody has told to stop never both believe that they hold it.
LockExclusive ==
    \A p, q \in Servers :
        p # q => ~ \A r \in {p, q} :
                    Alive(r) /\ srv[r].holds /\ srv[r].shutdown = "none"
=============================================================================
