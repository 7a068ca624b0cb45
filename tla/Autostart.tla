----------------------------- MODULE Autostart -----------------------------
(***************************************************************************)
(* How client processes find, replace and start the connection server      *)
(* (src/infrastructure/remote-transport/autostart.ts, autostart-runtime.ts,*)
(* discovery.ts).                                                          *)
(*                                                                         *)
(* All servers listen on one port; each prefix has its own database, its   *)
(* own discovery file and its own startup lock.  A client may trust only   *)
(* what a health probe of the port and the discovery files say, and a      *)
(* probe may go unanswered although a server serves.  A client may die     *)
(* inside ensureServer().  A pid is used again for any process once its    *)
(* process is gone.                                                        *)
(***************************************************************************)
EXTENDS Naturals, FiniteSets

CONSTANTS
    Clients,        \* client processes
    Prefixes,
    Pids,
    Nobody,         \* no client or no process
    Stale,          \* the maker of a lock directory, after its death
    MaxEnsures,     \* bound on the ensureServer() calls
    MaxSpawnAttempts,
    MaxFaults       \* bound on crashes, embedded and unrelated processes
                    \* and clients that die

ASSUME AutostartAssumption ==
    /\ IsFiniteSet(Clients) /\ IsFiniteSet(Pids)
    /\ Nobody \notin Clients \union Pids \union Prefixes
    /\ Stale \notin Clients \union Pids
    /\ MaxEnsures \in Nat /\ MaxFaults \in Nat
    /\ MaxSpawnAttempts \in Nat \ {0}

VARIABLES
    client,     \* the ensureServer() call of each client
    ensures,    \* how many calls there have been
    proc,       \* what runs under each pid
    listener,   \* the pid that has bound the port
    discovery,  \* the pid in the discovery file of each prefix
    startLock,  \* the client that has made the startup lock of each prefix
    dbLock,     \* the pid whose lock directory exists, per prefix
    faults,
    robbed,     \* the live processes whose lock directory a client removed
    signalled   \* the signals sent to processes that are not servers

vars == <<client, ensures, proc, listener, discovery, startLock, dbLock, faults,
          robbed, signalled>>

\* "left" is for the properties: its client has left the server behind while
\* it was coming up.
Process(kind, prefix, phase) ==
    [kind |-> kind, prefix |-> prefix, phase |-> phase, left |-> FALSE]
Gone == Process("none", Nobody, "none")

TypeOK ==
    /\ client \in [Clients ->
          [pc : {"idle", "find", "lock", "recheck", "refind", "probe", "wait down",
                 "lock again", "check again", "look for restart", "await restart",
                 "spawn", "poll", "advertise"},
           prefix : Prefixes \union {Nobody}, pid : Pids \union {Nobody},
           attempt : 0..MaxSpawnAttempts, healthy : BOOLEAN, met : BOOLEAN,
           unheard : BOOLEAN, result : {"none", "returned", "threw", "died"}]]
    /\ ensures \in 0..MaxEnsures
    /\ proc \in [Pids -> [kind : {"none", "server", "embedded", "other"},
                          prefix : Prefixes \union {Nobody},
                          phase : {"none", "starting", "opening", "bound",
                                   "serving", "stopping", "open"},
                          left : BOOLEAN]]
    /\ listener \in Pids \union {Nobody}
    /\ discovery \in [Prefixes -> Pids \union {Nobody}]
    /\ startLock \in [Prefixes -> Clients \union {Nobody, Stale}]
    /\ dbLock \in [Prefixes -> Pids \union {Nobody, Stale}]
    /\ faults \in 0..MaxFaults
    /\ robbed \subseteq [phase : {"starting", "opening", "bound", "serving",
                                  "stopping", "open"},
                         left : BOOLEAN, unheard : BOOLEAN]
    /\ signalled \subseteq {"SIGTERM", "SIGKILL"}
    \* The listener is a server, and a lock holder is inside ensureServer().
    /\ listener # Nobody => proc[listener].phase \in {"bound", "serving", "stopping"}
    /\ \A f \in Prefixes : startLock[f] \in Clients =>
          client[startLock[f]].prefix = f /\ client[startLock[f]].pc \notin
              {"idle", "find", "lock", "lock again"}

Idle == [pc |-> "idle", prefix |-> Nobody, pid |-> Nobody, attempt |-> 0,
         healthy |-> FALSE, met |-> FALSE, unheard |-> FALSE, result |-> "none"]

Init ==
    /\ client = [c \in Clients |-> Idle]
    /\ ensures = 0
    /\ proc = [p \in Pids |-> Gone]
    /\ listener = Nobody
    /\ discovery = [f \in Prefixes |-> Nobody]
    /\ startLock = [f \in Prefixes |-> Nobody]
    /\ dbLock = [f \in Prefixes |-> Nobody]
    /\ faults = 0 /\ robbed = {} /\ signalled = {}

-----------------------------------------------------------------------------
Alive(p) == p # Nobody /\ proc[p].kind # "none"

\* checkServerHealth(): whoever has the port says SERVING, and in time.  Any
\* error, a refused token and a deadline that has passed all count as silence,
\* so that a server that serves may still fail its probe.
Healthy == listener # Nobody /\ proc[listener].phase \in {"bound", "serving"}
Answers == {Healthy, FALSE}

\* findDiscoveryForServerUrl(): the first file in directory order whose url has
\* our port; all have.  Nobody stands for no file at all.
Records == {f \in Prefixes : discovery[f] # Nobody}
FoundRecords == IF Records = {} THEN {Nobody} ELSE Records

Go(c, pc) == client' = [client EXCEPT ![c].pc = pc]
At(c, pc) == client[c].pc = pc

ServersUnchanged ==
    UNCHANGED <<ensures, proc, listener, discovery, dbLock, faults, robbed, signalled>>

\* ensureServer() is over: whether the last probe was answered, and whether the
\* client met a server of another prefix, are kept for the properties.
Return(c, how, healthy) ==
    client' = [client EXCEPT ![c] = [Idle EXCEPT !.healthy = healthy,
                  !.met = client[c].met, !.result = how]]

Release(c) == startLock' = [startLock EXCEPT ![client[c].prefix] = Nobody]

\* The process under pid p is gone; its names in the file system stay.
Dead(p) ==
    /\ proc' = [proc EXCEPT ![p] = Gone]
    /\ listener' = IF listener = p THEN Nobody ELSE listener

LeaveLock(p) ==
    dbLock' = [f \in Prefixes |-> IF dbLock[f] = p THEN Stale ELSE dbLock[f]]

-----------------------------------------------------------------------------
\* ensureServer() begins with a health probe.
Ensure(c) ==
    /\ At(c, "idle") /\ ensures < MaxEnsures
    /\ ensures' = ensures + 1
    /\ \E f \in Prefixes, ok \in Answers :
          client' = [client EXCEPT ![c] = [Idle EXCEPT !.prefix = f,
                        !.healthy = ok, !.pc = IF ok THEN "find" ELSE "lock again"]]
    /\ UNCHANGED <<proc, listener, discovery, startLock, dbLock, faults, robbed,
                   signalled>>

\* A server is there: it is ours unless the record found says otherwise.
Find(c) ==
    /\ At(c, "find")
    /\ \E f \in FoundRecords :
          IF f \in {Nobody, client[c].prefix} THEN Return(c, "returned", TRUE)
          ELSE client' = [client EXCEPT ![c].pc = "lock", ![c].met = TRUE]
    /\ UNCHANGED startLock /\ ServersUnchanged

\* acquireCrossProcessLock() on the lock file of the client's own prefix: free,
\* or made by a client that is dead.
Acquire(c) ==
    /\ \/ At(c, "lock") /\ Go(c, "recheck")
       \/ At(c, "lock again") /\ Go(c, "check again")
    /\ startLock[client[c].prefix] \in {Nobody, Stale}
    /\ startLock' = [startLock EXCEPT ![client[c].prefix] = c]
    /\ ServersUnchanged

\* All retries of the lock are used up, or the lock file cannot be made:
\* ensureServer() throws.
AcquireFails(c) ==
    /\ At(c, "lock") \/ At(c, "lock again")
    /\ Return(c, "threw", FALSE)
    /\ UNCHANGED startLock /\ ServersUnchanged

\* Under the lock: a port that has become silent means return, server or not.
Recheck(c) ==
    /\ At(c, "recheck")
    /\ \/ Healthy /\ Go(c, "refind") /\ UNCHANGED startLock
       \/ Return(c, "returned", FALSE) /\ Release(c)
    /\ ServersUnchanged

\* The record is read again.  isOurLiveServer() first wants its pid alive.
Refind(c) ==
    /\ At(c, "refind")
    /\ \E f \in FoundRecords :
          IF f \in {Nobody, client[c].prefix}
          THEN Return(c, "returned", TRUE) /\ Release(c)
          ELSE /\ UNCHANGED startLock
               /\ client' = [client EXCEPT ![c].pid = discovery[f], ![c].pc =
                     IF Alive(discovery[f]) THEN "probe" ELSE "wait down"]
    /\ ServersUnchanged

\* SIGTERM to pid p: a server that has installed its handlers begins to shut
\* down and takes its advertisement away, everything else dies.
Terminate(p) ==
    \/ /\ proc[p].kind = "server" /\ proc[p].phase \in {"bound", "serving"}
       /\ proc' = [proc EXCEPT ![p].phase = "stopping"]
       /\ discovery' = [discovery EXCEPT ![proc[p].prefix] = Nobody]
       /\ UNCHANGED <<listener, dbLock, signalled>>
    \/ /\ proc[p].kind = "server" /\ proc[p].phase = "stopping"
       /\ UNCHANGED <<proc, listener, discovery, dbLock, signalled>>
    \/ /\ proc[p].kind = "server"
       /\ proc[p].phase \in {"starting", "opening"}
       /\ Dead(p) /\ LeaveLock(p) /\ UNCHANGED <<discovery, signalled>>
    \/ /\ proc[p].kind \in {"embedded", "other"}
       /\ Dead(p) /\ LeaveLock(p)
       /\ signalled' = signalled \union {"SIGTERM"}
       /\ UNCHANGED discovery
    \/ /\ proc[p].kind = "none"
       /\ UNCHANGED <<proc, listener, discovery, dbLock, signalled>>

\* and then a health probe of the url in the record, which is that of the port,
\* to answer; the kill follows without another await.
Probe(c) ==
    /\ At(c, "probe")
    /\ \/ Healthy /\ Terminate(client[c].pid)
       \/ UNCHANGED <<proc, listener, discovery, dbLock, signalled>>
    /\ Go(c, "wait down")
    /\ UNCHANGED <<ensures, startLock, faults, robbed>>

\* The port is silent or HEALTH_TIMEOUT_MS have passed.
WaitDown(c) ==
    /\ At(c, "wait down")
    /\ client' = [client EXCEPT ![c].pc = "lock again", ![c].pid = Nobody]
    /\ Release(c)
    /\ ServersUnchanged

-----------------------------------------------------------------------------
\* Under the lock again: any server that answers will do.  Whether a server
\* served and was not heard is kept for the properties.
CheckAgain(c) ==
    /\ At(c, "check again")
    /\ \/ Healthy /\ Return(c, "returned", TRUE) /\ Release(c)
       \/ /\ client' = [client EXCEPT ![c].pc = "look for restart",
                                      ![c].unheard = Healthy]
          /\ UNCHANGED startLock
    /\ ServersUnchanged

\* awaitRestartingServer(): only a record of our own with a live pid counts.
LookForRestart(c) ==
    /\ At(c, "look for restart")
    /\ \E f \in FoundRecords :
          client' = IF f = client[c].prefix /\ Alive(discovery[f])
                    THEN [client EXCEPT ![c].pc = "await restart",
                                        ![c].pid = discovery[f]]
                    ELSE [client EXCEPT ![c].pc = "spawn"]
    /\ UNCHANGED startLock /\ ServersUnchanged

\* Regression: the deadline of the wait counts as success.
AwaitRestartGivesUp(c) ==
    /\ At(c, "await restart")
    /\ \E ok \in Answers : Return(c, "returned", ok) /\ Release(c)
    /\ ServersUnchanged

\* Regression: the wait for a restarting server has no deadline.
AwaitRestartForEver(c) ==
    /\ At(c, "await restart")
    /\ \/ Healthy /\ Return(c, "returned", TRUE) /\ Release(c)
       \/ /\ ~Alive(client[c].pid)
          /\ client' = [client EXCEPT ![c].pc = "spawn", ![c].pid = Nobody]
          /\ UNCHANGED startLock
    /\ ServersUnchanged

\* A probe is answered: done.  The pid is gone, or RESTART_AWAIT_DEADLINE_MS
\* have passed: spawn.
AwaitRestart(c) ==
    /\ At(c, "await restart")
    /\ \/ Healthy /\ Return(c, "returned", TRUE) /\ Release(c)
       \/ /\ client' = [client EXCEPT ![c].pc = "spawn", ![c].pid = Nobody]
          /\ UNCHANGED startLock
    /\ ServersUnchanged

\* spawnConnectionServer() with the client's database and prefix.
Spawn(c) ==
    /\ At(c, "spawn")
    /\ \E p \in Pids :
          /\ ~Alive(p)
          /\ proc' = [proc EXCEPT ![p] =
                         Process("server", client[c].prefix, "starting")]
          /\ client' = [client EXCEPT ![c].pc = "poll", ![c].pid = p,
                                      ![c].attempt = @ + 1]
    /\ UNCHANGED <<ensures, listener, discovery, startLock, dbLock, faults,
                   robbed, signalled>>

\* The server that client c has spawned, if it is still coming up, will not be
\* looked after any more.
ComesUpFor(c, p) ==
    /\ At(c, "poll") /\ p = client[c].pid /\ proc[p].prefix = client[c].prefix
    /\ proc[p].phase \in {"starting", "opening"}

LeaveBehind(c) ==
    proc' = [p \in Pids |-> [proc[p] EXCEPT !.left = @ \/ ComesUpFor(c, p)]]

\* The probe tells that a server answers, not which one.
PollHealthy(c) ==
    /\ At(c, "poll") /\ Healthy
    /\ Go(c, "advertise")
    /\ LeaveBehind(c)
    /\ UNCHANGED <<ensures, listener, discovery, startLock, dbLock, faults,
                   robbed, signalled>>

\* Another attempt, unless startupTimeoutMs are used up.
AfterAttempt(c) ==
    \/ /\ client[c].attempt < MaxSpawnAttempts
       /\ client' = [client EXCEPT ![c].pc = "spawn", ![c].pid = Nobody]
       /\ UNCHANGED startLock
    \/ Return(c, "threw", FALSE) /\ Release(c)

\* clearDbLock(): the lock directory goes, whoever made it.
ClearDbLock(c) ==
    /\ robbed' = robbed \union
          {[phase |-> proc'[p].phase, left |-> proc'[p].left,
            unheard |-> client[c].unheard] :
           p \in {q \in Pids : dbLock[client[c].prefix] = q /\ proc'[q].kind # "none"}}
    /\ dbLock' = [g \in Prefixes |->
          IF g = client[c].prefix THEN Nobody
          ELSE IF dbLock[g] \in Pids /\ proc'[dbLock[g]].kind = "none"
          THEN Stale ELSE dbLock[g]]

\* Regression: the wedged server is left running.
PollTimesOutSparingServer(c) ==
    /\ At(c, "poll")
    /\ UNCHANGED <<ensures, proc, listener, discovery, faults, signalled>>
    /\ ClearDbLock(c)
    /\ AfterAttempt(c)

\* The attempt is over, its probes unanswered (or there was no time for one):
\* SIGKILL the pid that was spawned, whatever runs under it now, and drop the
\* database lock of the prefix.
PollTimesOut(c) ==
    /\ At(c, "poll")
    /\ LET p == client[c].pid
       IN  /\ Dead(p)
           /\ signalled' = signalled \union
                 (IF proc[p].kind \in {"embedded", "other"} THEN {"SIGKILL"} ELSE {})
    /\ ClearDbLock(c)
    /\ AfterAttempt(c)
    /\ UNCHANGED <<ensures, discovery, faults>>

\* writeDiscoveryFile() with the spawned pid, whichever server answered.
Advertise(c) ==
    /\ At(c, "advertise")
    /\ discovery' = [discovery EXCEPT ![client[c].prefix] = client[c].pid]
    /\ Return(c, "returned", TRUE) /\ Release(c)
    /\ UNCHANGED <<ensures, proc, listener, dbLock, faults, robbed, signalled>>

\* The file cannot be written: ensureServer() throws, and gives its lock back.
WriteFails(c) ==
    /\ At(c, "advertise")
    /\ Return(c, "threw", FALSE) /\ Release(c)
    /\ ServersUnchanged

\* The process of the client ends inside ensureServer(): its startup lock is no
\* longer refreshed.
Die(c) ==
    /\ client' = [client EXCEPT ![c] = [Idle EXCEPT !.result = "died"]]
    /\ startLock' = [startLock EXCEPT ![client[c].prefix] = IF @ = c THEN Stale ELSE @]

\* There is no process to be had: child_process says so in an "error" event
\* that nobody listens to, and that ends the client.
SpawnFails(c) ==
    /\ At(c, "spawn")
    /\ Die(c)
    /\ ServersUnchanged

\* The client is killed or crashes.  The server it has spawned runs on,
\* detached.
ClientDies(c) ==
    /\ ~At(c, "idle")
    /\ faults < MaxFaults /\ faults' = faults + 1
    /\ Die(c)
    /\ LeaveBehind(c)
    /\ UNCHANGED <<ensures, listener, discovery, dbLock, robbed, signalled>>

-----------------------------------------------------------------------------
\* The servers, as far as a client can tell (ServerLifecycle has the rest).
ClientsUnchanged == UNCHANGED <<client, ensures, startLock, signalled>>
Phase(p, s) == proc[p].kind = "server" /\ proc[p].phase = s
Advance(p, s) == proc' = [proc EXCEPT ![p].phase = s]

\* The lock is free or stale; otherwise the server waits, and gives up in time.
ServerLocks(p) ==
    /\ Phase(p, "starting")
    /\ LET f == proc[p].prefix
       IN  \/ /\ dbLock[f] \in {Nobody, Stale}
              /\ dbLock' = [dbLock EXCEPT ![f] = p]
              /\ Advance(p, "opening")
              /\ UNCHANGED listener
           \/ dbLock[f] # Nobody /\ Dead(p) /\ UNCHANGED dbLock
    /\ UNCHANGED <<discovery, faults, robbed>> /\ ClientsUnchanged

\* The database is open; the port is free, or startup fails and cleans up by
\* path.
ServerBinds(p) ==
    /\ Phase(p, "opening")
    /\ \/ /\ listener = Nobody
          /\ listener' = p /\ Advance(p, "bound")
          /\ UNCHANGED <<discovery, dbLock>>
       \/ /\ listener # Nobody
          /\ Dead(p)
          /\ discovery' = [discovery EXCEPT ![proc[p].prefix] = Nobody]
          /\ dbLock' = [dbLock EXCEPT ![proc[p].prefix] = Nobody]
    /\ UNCHANGED <<faults, robbed>> /\ ClientsUnchanged

ServerAdvertises(p) ==
    /\ Phase(p, "bound") /\ Advance(p, "serving")
    /\ discovery' = [discovery EXCEPT ![proc[p].prefix] = p]
    /\ UNCHANGED <<listener, dbLock, faults, robbed>> /\ ClientsUnchanged

\* Idle for too long, or told to stop.
ServerStops(p) ==
    /\ \E s \in {"bound", "serving"} : Phase(p, s)
    /\ faults < MaxFaults /\ faults' = faults + 1
    /\ Advance(p, "stopping")
    /\ discovery' = [discovery EXCEPT ![proc[p].prefix] = Nobody]
    /\ UNCHANGED <<listener, dbLock, robbed>> /\ ClientsUnchanged

ServerExits(p) ==
    /\ Phase(p, "stopping")
    /\ Dead(p)
    /\ dbLock' = [dbLock EXCEPT ![proc[p].prefix] = Nobody]
    /\ UNCHANGED <<discovery, faults, robbed>> /\ ClientsUnchanged

\* A crash leaves the lock directory and the discovery file behind.
Crash(p) ==
    /\ proc[p].kind = "server" /\ proc[p].phase # "stopping"
    /\ faults < MaxFaults /\ faults' = faults + 1
    /\ Dead(p) /\ LeaveLock(p)
    /\ UNCHANGED <<discovery, robbed>> /\ ClientsUnchanged

\* An unrelated process gets a pid, or a CLI opens a database by itself.
OtherStarts(p) ==
    /\ ~Alive(p)
    /\ faults < MaxFaults /\ faults' = faults + 1
    /\ \/ /\ proc' = [proc EXCEPT ![p] = Process("other", Nobody, "none")]
          /\ UNCHANGED dbLock
       \/ \E f \in Prefixes :
             /\ dbLock[f] \in {Nobody, Stale}
             /\ proc' = [proc EXCEPT ![p] = Process("embedded", f, "open")]
             /\ dbLock' = [dbLock EXCEPT ![f] = p]
    /\ UNCHANGED <<listener, discovery, robbed>> /\ ClientsUnchanged

-----------------------------------------------------------------------------
ClientStep(c) ==
    \/ Find(c) \/ Acquire(c) \/ AcquireFails(c) \/ Recheck(c) \/ Refind(c)
    \/ Probe(c) \/ WaitDown(c) \/ CheckAgain(c) \/ LookForRestart(c)
    \/ AwaitRestart(c) \/ Spawn(c) \/ PollHealthy(c) \/ PollTimesOut(c)
    \/ Advertise(c) \/ WriteFails(c) \/ SpawnFails(c)

ServerStep(p) ==
    \/ ServerLocks(p) \/ ServerBinds(p) \/ ServerAdvertises(p)
    \/ ServerStops(p) \/ ServerExits(p) \/ Crash(p) \/ OtherStarts(p)

Next ==
    \/ \E c \in Clients : Ensure(c) \/ ClientStep(c) \/ ClientDies(c)
    \/ \E p \in Pids : ServerStep(p)

\* Every wait of a client has a deadline.  No server has to do anything.
Spec == Init /\ [][Next]_vars /\ \A c \in Clients : WF_vars(ClientStep(c))

-----------------------------------------------------------------------------
\* "Drop the DB lock it may hold": the server the client has given up is dead by
\* then.  A live process can lose its lock directory to a client only if it is
\* on its way out, an embedded process, a server that was left behind while it
\* came up (by a client that took the answer of another server for that of its
\* own, or died), or a server that serves and was not heard: the client had
\* probed it in vain under the startup lock before it spawned another.
NoServerRobbed ==
    \A r \in robbed : \/ r.phase \in {"stopping", "open"} \/ r.left
                      \/ r.phase \in {"bound", "serving"} /\ r.unheard

\* "Avoid spawn storms": the startup lock and the kill before each new attempt
\* leave at most one server per prefix on its way up, however many clients
\* find the port silent at the same time, besides those that were left behind.
OneServerStarting ==
    \A f \in Prefixes :
        Cardinality({p \in Pids : /\ proc[p].prefix = f /\ ~proc[p].left
                                  /\ proc[p].phase \in {"starting", "opening"}}) <= 1

\* Clients that start servers for each other do no harm to one another's.
StartsSound == TypeOK /\ NoServerRobbed /\ OneServerStarting

\* A client returns only after a probe that was answered.  Excepted is the one
\* that met a server of another prefix and found the port silent under the
\* lock.
ReturnsServed ==
    \A c \in Clients :
        client[c].result = "returned" => client[c].healthy \/ client[c].met

\* "Total work is bounded": ensureServer() returns or throws, whatever servers
\* and other clients do.
EnsureEnds == \A c \in Clients : ~At(c, "idle") ~> At(c, "idle")

\* "So we never SIGTERM a recycled/foreign pid."
OnlyServersTerminated == "SIGTERM" \notin signalled
=============================================================================
