----------------------------- MODULE CliProofs -----------------------------
(***************************************************************************)
(* Proofs about what the commands of the CLI rest on, each for any values  *)
(* of its constants: Autostart, by which clients find and start the        *)
(* connection server, Watch, which reindexes as files change, and          *)
(* Settings, what a process makes of its environment.                      *)
(*                                                                         *)
(* Autostart.  That no server that comes up loses its database lock is not *)
(* inductive: it needs that every such server has a client that spawned it *)
(* and still polls for it, or was left behind (Polled), that this client   *)
(* holds the startup lock of its prefix (GoodCall), that a client which    *)
(* has heard all there was to hear finds no other server of its prefix     *)
(* serving while it spawns (Alone), and that a process holds only the lock *)
(* of its own prefix and has the port exactly while it serves              *)
(* (GoodProcess).                                                          *)
(*                                                                         *)
(* Watch.  NothingForgotten is not inductive: a reindex that succeeds      *)
(* makes the index what it has read, so that it has to be known of every   *)
(* running reindex that what it has read and is out of date is on its way  *)
(* to the next one (ReadsFollowed).                                        *)
(*                                                                         *)
(* Settings.  Every reader returns one value at most, and reads what a     *)
(* client puts on the command line as the client read it (PrefixOnce,      *)
(* PathAgain, NumberRead); the rest of the environment is inherited        *)
(* (ToldByArgs), so that the server's parts are the client's, one by one.  *)
(***************************************************************************)
EXTENDS Autostart, Watch, Settings, FiniteSetTheorems, TLAPS

-----------------------------------------------------------------------------
(* Autostart: records and the inductive invariant.                         *)

ClientRecord ==
    [pc : {"idle", "find", "lock", "recheck", "refind", "probe", "wait down",
           "lock again", "check again", "look for restart", "await restart",
           "spawn", "poll", "advertise"},
     prefix : Prefixes \union {Nobody}, pid : Pids \union {Nobody},
     attempt : 0..MaxSpawnAttempts, healthy : BOOLEAN, met : BOOLEAN,
     unheard : BOOLEAN, result : {"none", "returned", "threw", "died"}]

ProcRecord ==
    [kind : {"none", "server", "embedded", "other"},
     prefix : Prefixes \union {Nobody},
     phase : {"none", "starting", "opening", "bound", "serving", "stopping", "open"},
     left : BOOLEAN]

Robbery ==
    [phase : {"starting", "opening", "bound", "serving", "stopping", "open"},
     left : BOOLEAN, unheard : BOOLEAN]

\* Inside one of the two critical sections of ensureServer().
Locked == {"recheck", "refind", "probe", "wait down", "check again",
           "look for restart", "await restart", "spawn", "poll", "advertise"}

\* What may be said of client c with record k, when the startup locks are as
\* lock says.
GoodCall(c, k, lock) ==
    /\ k \in ClientRecord
    /\ k.pc # "idle" => k.prefix \in Prefixes /\ k.result = "none"
    /\ k.pc \in Locked => lock[k.prefix] = c
    /\ \A f \in Prefixes : lock[f] = c => k.pc \in Locked /\ k.prefix = f
    /\ k.pc \in {"poll", "advertise"} \/ k.attempt < MaxSpawnAttempts
    /\ k.pc \in {"probe", "poll", "advertise"} => k.pid \in Pids
    /\ k.pc \in {"lock", "recheck"} => k.met
    /\ k.result = "returned" => k.healthy \/ k.met

ClientsGood ==
    /\ client \in [Clients -> ClientRecord]
    /\ startLock \in [Prefixes -> Clients \union {Nobody, Stale}]
    /\ \A c \in Clients : GoodCall(c, client[c], startLock)

ComingUp == {"starting", "opening"}
Up == {"bound", "serving"}
HasPort == {"bound", "serving", "stopping"}

\* What may be said of a process with record s, that has the port or not (l),
\* and the lock directories of the prefixes L.
GoodProcess(s, l, L) ==
    /\ s \in ProcRecord
    /\ \/ s.kind = "none" /\ s.phase = "none"
       \/ s.kind = "server" /\ s.prefix \in Prefixes /\ s.phase \in ComingUp \union HasPort
       \/ s.kind = "embedded" /\ s.prefix \in Prefixes /\ s.phase = "open"
       \/ s.kind = "other" /\ s.phase = "none"
    /\ l <=> s.phase \in HasPort
    /\ \A f \in L : s.prefix = f /\ s.phase \notin {"none", "starting"}

LocksOf(p) == {f \in Prefixes : dbLock[f] = p}

ServersGood ==
    /\ proc \in [Pids -> ProcRecord]
    /\ listener \in Pids \union {Nobody}
    /\ discovery \in [Prefixes -> Pids \union {Nobody}]
    /\ dbLock \in [Prefixes -> Pids \union {Nobody, Stale}]
    /\ \A p \in Pids : GoodProcess(proc[p], listener = p, LocksOf(p))

\* Every server on its way up was left behind, or has a client that spawned it
\* and still polls for it.
Polled ==
    \A p \in Pids : proc[p].phase \in ComingUp =>
        \/ proc[p].left
        \/ \E c \in Clients : /\ client[c].pc = "poll" /\ client[c].pid = p
                              /\ client[c].prefix = proc[p].prefix

\* Past the last probe before it spawns: what client k has found, unless there
\* was a server that it did not hear.
Searched(k) ==
    k.pc \in {"look for restart", "await restart", "spawn", "poll"} /\ ~k.unheard

\* No server of its prefix serves then but the one it has spawned itself, and
\* those that were left behind.
Alone ==
    \A c \in Clients, p \in Pids :
        Searched(client[c]) /\ proc[p].prefix = client[c].prefix /\ proc[p].phase \in Up
        => proc[p].left \/ (client[c].pc = "poll" /\ client[c].pid = p)

Counters ==
    /\ ensures \in 0..MaxEnsures /\ faults \in 0..MaxFaults
    /\ signalled \subseteq {"SIGTERM", "SIGKILL"}
    /\ robbed \subseteq Robbery

StartsInv ==
    /\ ClientsGood /\ ServersGood
    /\ Polled /\ Alone
    /\ Counters /\ NoServerRobbed
-----------------------------------------------------------------------------
LEMMA IdleIs ==
    /\ Idle \in ClientRecord /\ Idle.pc = "idle" /\ Idle.prefix = Nobody
    /\ Idle.attempt = 0 /\ Idle.result = "none" /\ 0 < MaxSpawnAttempts
  BY AutostartAssumption DEF Idle, ClientRecord

\* What is left to show of a step of client c: that its own record is good.
\* The startup lock it gives back or takes is its own.
LEMMA OneClient ==
    ASSUME ClientsGood, NEW c \in Clients, NEW k,
           client' = [client EXCEPT ![c] = k],
           \/ startLock' = startLock
           \/ \E g \in Prefixes : /\ startLock[g] \in {c, Nobody, Stale}
                                  /\ startLock' \in {[startLock EXCEPT ![g] = Nobody],
                                                     [startLock EXCEPT ![g] = Stale],
                                                     [startLock EXCEPT ![g] = c]},
           GoodCall(c, k, startLock')
    PROVE  ClientsGood'
<1>1. k \in ClientRecord
  BY DEF GoodCall
<1>2. client' \in [Clients -> ClientRecord]
  BY <1>1 DEF ClientsGood
<1>3. startLock' \in [Prefixes -> Clients \union {Nobody, Stale}]
  BY DEF ClientsGood
<1>4. \A d \in Clients, f \in Prefixes : d # c => (startLock'[f] = d <=> startLock[f] = d)
  BY AutostartAssumption DEF ClientsGood
<1>5. ASSUME NEW d \in Clients
      PROVE  GoodCall(d, client'[d], startLock')
  <2>1. CASE d = c
    BY <2>1 DEF ClientsGood
  <2>2. CASE d # c
    <3>1. client'[d] = client[d] /\ GoodCall(d, client[d], startLock)
      BY <2>2 DEF ClientsGood
    <3>2. \A f \in Prefixes : startLock'[f] = d <=> startLock[f] = d
      BY <1>4, <2>2
    <3>3. client[d].pc \in Locked => client[d].prefix \in Prefixes
      BY <3>1 DEF GoodCall, Locked
    <3> QED  BY <3>1, <3>2, <3>3 DEF GoodCall
  <2> QED  BY <2>1, <2>2
<1> QED  BY <1>2, <1>3, <1>5 DEF ClientsGood

\* A call ends outside the locks, or gives its lock back.
LEMMA ReturnKeepsClients ==
    ASSUME ClientsGood, NEW c \in Clients, NEW how \in {"returned", "threw"},
           NEW h \in BOOLEAN, Return(c, how, h),
           how = "returned" => h \/ client[c].met,
           \/ client[c].pc \notin Locked /\ UNCHANGED startLock
           \/ client[c].pc \in Locked /\ Release(c)
    PROVE  ClientsGood'
<1>1. client[c] \in ClientRecord /\ GoodCall(c, client[c], startLock)
  BY DEF ClientsGood
<1>2. PICK m \in BOOLEAN : m = client[c].met
  BY <1>1 DEF ClientRecord
<1> DEFINE r == [Idle EXCEPT !.healthy = h, !.met = m, !.result = how]
<1>3. client' = [client EXCEPT ![c] = r]
  BY <1>2 DEF Return
<1>4. PICK i \in ClientRecord : i = Idle
  BY IdleIs
<1>5. r = [i EXCEPT !.healthy = h, !.met = m, !.result = how]
  BY <1>4
<1> HIDE DEF r
<1>6. i.pc = "idle" /\ i.attempt = 0 /\ 0 < MaxSpawnAttempts
  BY <1>4, IdleIs
<1>7. /\ r \in ClientRecord /\ r.pc = i.pc /\ r.healthy = h /\ r.met = m
      /\ r.result = how /\ r.attempt = i.attempt
  BY <1>5 DEF ClientRecord
<1>8. /\ r \in ClientRecord /\ r.pc = "idle" /\ r.healthy = h
      /\ r.met = m /\ r.result = how /\ r.attempt < MaxSpawnAttempts
  BY <1>6, <1>7
<1>9. CASE client[c].pc \notin Locked /\ UNCHANGED startLock
  <2>1. \A f \in Prefixes : startLock'[f] # c
    BY <1>1, <1>9 DEF GoodCall
  <2>2. GoodCall(c, r, startLock')
    BY <1>2, <1>8, <2>1 DEF GoodCall, Locked
  <2> QED  BY <1>3, <1>9, <2>2, OneClient
<1>10. CASE client[c].pc \in Locked /\ Release(c)
  <2>1. client[c].prefix \in Prefixes /\ startLock[client[c].prefix] = c
    BY <1>1, <1>10 DEF GoodCall, Locked
  <2>2. startLock' = [startLock EXCEPT ![client[c].prefix] = Nobody]
    BY <1>10 DEF Release
  <2>3. \A f \in Prefixes : startLock'[f] # c
    BY <1>1, <2>2, AutostartAssumption DEF GoodCall, ClientsGood
  <2>4. GoodCall(c, r, startLock')
    BY <1>2, <1>8, <2>3 DEF GoodCall, Locked
  <2> QED  BY <1>3, <2>1, <2>2, <2>4, OneClient
<1> QED  BY <1>9, <1>10

\* A step inside the critical section, or outside.
LEMMA GoKeepsClients ==
    ASSUME ClientsGood, NEW c \in Clients, NEW pc, Go(c, pc), UNCHANGED startLock,
           \/ client[c].pc \in Locked /\ pc \in Locked \ {"recheck", "probe", "poll", "advertise"}
              /\ client[c].pc \notin {"poll", "advertise"}
           \/ client[c].pc = "poll" /\ pc = "advertise"
    PROVE  ClientsGood'
<1> DEFINE k == [client[c] EXCEPT !.pc = pc]
<1>1. client[c] \in ClientRecord /\ GoodCall(c, client[c], startLock)
  BY DEF ClientsGood
<1>2. /\ k.pc = pc /\ k \in ClientRecord /\ k.prefix = client[c].prefix
      /\ k.pid = client[c].pid /\ k.attempt = client[c].attempt /\ k.met = client[c].met
      /\ k.result = client[c].result /\ k.healthy = client[c].healthy
  BY <1>1 DEF ClientRecord, Locked
<1>3. client' = [client EXCEPT ![c] = k]
  BY DEF Go
<1> HIDE DEF k
<1>4. GoodCall(c, k, startLock')
  BY <1>1, <1>2 DEF GoodCall, Locked
<1> QED  BY <1>3, <1>4, OneClient

\* The same, with another pid to look at.
LEMMA MoveKeepsClients ==
    ASSUME ClientsGood, NEW c \in Clients, UNCHANGED startLock,
           NEW pc \in Locked \ {"recheck", "poll", "advertise"},
           NEW pid \in Pids \union {Nobody},
           client' = [client EXCEPT ![c].pc = pc, ![c].pid = pid],
           client[c].pc \in Locked, client[c].attempt < MaxSpawnAttempts,
           pc = "probe" => pid \in Pids
    PROVE  ClientsGood'
<1> DEFINE k == [client[c] EXCEPT !.pc = pc, !.pid = pid]
<1>1. client[c] \in ClientRecord /\ GoodCall(c, client[c], startLock)
  BY DEF ClientsGood
<1>2. /\ k.pc = pc /\ k \in ClientRecord /\ k.prefix = client[c].prefix
      /\ k.pid = pid /\ k.attempt = client[c].attempt /\ k.met = client[c].met
      /\ k.result = client[c].result /\ k.healthy = client[c].healthy
  BY <1>1 DEF ClientRecord, Locked
<1>3. client' = [client EXCEPT ![c] = k]
  BY DEF ClientsGood
<1> HIDE DEF k
<1>4. GoodCall(c, k, startLock')
  BY <1>1, <1>2 DEF GoodCall, Locked
<1> QED  BY <1>3, <1>4, OneClient

LEMMA EnsureKeepsClients ==
    ASSUME ClientsGood, NEW c \in Clients, Ensure(c)
    PROVE  ClientsGood'
<1>1. PICK f \in Prefixes, ok \in Answers :
          client' = [client EXCEPT ![c] = [Idle EXCEPT !.prefix = f, !.healthy = ok,
                        !.pc = IF ok THEN "find" ELSE "lock again"]]
  BY DEF Ensure
<1>2. PICK pc \in {"find", "lock again"} : pc = IF ok THEN "find" ELSE "lock again"
  OBVIOUS
<1>3. PICK h \in BOOLEAN : h = ok
  BY DEF Healthy, Answers
<1> DEFINE k == [Idle EXCEPT !.prefix = f, !.healthy = h, !.pc = pc]
<1>4. client' = [client EXCEPT ![c] = k]
  BY <1>1, <1>2, <1>3
<1>5. PICK i \in ClientRecord : i = Idle
  BY IdleIs
<1>6. k = [i EXCEPT !.prefix = f, !.healthy = h, !.pc = pc]
  BY <1>5
<1> HIDE DEF k
<1>7. /\ k \in ClientRecord /\ k.pc = pc /\ k.prefix = f
      /\ k.result = i.result /\ k.attempt = i.attempt
  BY <1>6 DEF ClientRecord
<1>8. i.result = "none" /\ i.attempt = 0 /\ 0 < MaxSpawnAttempts
  BY <1>5, IdleIs
<1>9. startLock' = startLock /\ client[c].pc = "idle" /\ GoodCall(c, client[c], startLock)
  BY DEF Ensure, At, ClientsGood
<1>10. GoodCall(c, k, startLock')
  BY <1>7, <1>8, <1>9 DEF GoodCall, Locked
<1> QED  BY <1>4, <1>9, <1>10, OneClient

LEMMA FindKeepsClients ==
    ASSUME ClientsGood, NEW c \in Clients, Find(c)
    PROVE  ClientsGood'
<1>1. /\ client[c].pc = "find" /\ startLock' = startLock
      /\ client[c] \in ClientRecord /\ GoodCall(c, client[c], startLock)
  BY DEF Find, At, ClientsGood
<1>2. CASE Return(c, "returned", TRUE)
  BY <1>1, <1>2, ReturnKeepsClients DEF Locked
<1>3. CASE client' = [client EXCEPT ![c].pc = "lock", ![c].met = TRUE]
  <2> DEFINE k == [client[c] EXCEPT !.pc = "lock", !.met = TRUE]
  <2>1. /\ k.pc = "lock" /\ k \in ClientRecord /\ k.prefix = client[c].prefix
        /\ k.attempt = client[c].attempt /\ k.met = TRUE
        /\ k.result = client[c].result
    BY <1>1 DEF ClientRecord
  <2>2. client' = [client EXCEPT ![c] = k]
    BY <1>3 DEF ClientsGood
  <2> HIDE DEF k
  <2>3. GoodCall(c, k, startLock')
    BY <1>1, <2>1 DEF GoodCall, Locked
  <2> QED  BY <1>1, <2>2, <2>3, OneClient
<1> QED  BY <1>2, <1>3 DEF Find

LEMMA AcquireKeepsClients ==
    ASSUME ClientsGood, NEW c \in Clients, Acquire(c)
    PROVE  ClientsGood'
<1>1. client[c] \in ClientRecord /\ GoodCall(c, client[c], startLock)
  BY DEF ClientsGood
<1>2. PICK pc : /\ client' = [client EXCEPT ![c].pc = pc]
                /\ \/ client[c].pc = "lock" /\ pc = "recheck"
                   \/ client[c].pc = "lock again" /\ pc = "check again"
  BY DEF Acquire, At, Go
<1> DEFINE k == [client[c] EXCEPT !.pc = pc]
<1>3. /\ k.pc = pc /\ k \in ClientRecord /\ k.prefix = client[c].prefix
      /\ k.attempt = client[c].attempt /\ k.met = client[c].met
      /\ k.result = client[c].result
  BY <1>1, <1>2 DEF ClientRecord
<1>4. client' = [client EXCEPT ![c] = k]
  BY <1>2
<1> HIDE DEF k
<1>5. /\ client[c].prefix \in Prefixes /\ startLock[client[c].prefix] \in {Nobody, Stale}
      /\ startLock' = [startLock EXCEPT ![client[c].prefix] = c]
  BY <1>1, <1>2 DEF Acquire, GoodCall
<1>6. \A f \in Prefixes : startLock'[f] = c <=> f = client[c].prefix
  <2>1. \A f \in Prefixes : startLock[f] # c
    BY <1>1, <1>2 DEF GoodCall, Locked
  <2> QED  BY <1>5, <2>1 DEF ClientsGood
<1>7. GoodCall(c, k, startLock')
  BY <1>1, <1>2, <1>3, <1>5, <1>6 DEF GoodCall, Locked
<1> QED  BY <1>4, <1>5, <1>7, OneClient

LEMMA WaitDownKeepsClients ==
    ASSUME ClientsGood, NEW c \in Clients, WaitDown(c)
    PROVE  ClientsGood'
<1>1. /\ client[c] \in ClientRecord /\ GoodCall(c, client[c], startLock)
      /\ client[c].pc = "wait down"
  BY DEF ClientsGood, WaitDown, At
<1> DEFINE k == [client[c] EXCEPT !.pc = "lock again", !.pid = Nobody]
<1>2. /\ k.pc = "lock again" /\ k \in ClientRecord /\ k.prefix = client[c].prefix
      /\ k.attempt = client[c].attempt /\ k.result = client[c].result
  BY <1>1 DEF ClientRecord
<1>3. client' = [client EXCEPT ![c] = k]
  BY DEF WaitDown, ClientsGood
<1> HIDE DEF k
<1>4. /\ client[c].prefix \in Prefixes /\ startLock[client[c].prefix] = c
      /\ startLock' = [startLock EXCEPT ![client[c].prefix] = Nobody]
  BY <1>1 DEF WaitDown, Release, GoodCall, Locked
<1>5. \A f \in Prefixes : startLock'[f] # c
  <2>1. \A f \in Prefixes : startLock[f] = c => f = client[c].prefix
    BY <1>1 DEF GoodCall
  <2> QED  BY <1>4, <2>1, AutostartAssumption DEF ClientsGood
<1>6. GoodCall(c, k, startLock')
  BY <1>1, <1>2, <1>5 DEF GoodCall, Locked
<1> QED  BY <1>3, <1>4, <1>6, OneClient

LEMMA SpawnKeepsClients ==
    ASSUME ClientsGood, NEW c \in Clients, Spawn(c)
    PROVE  ClientsGood'
<1>1. /\ client[c] \in ClientRecord /\ GoodCall(c, client[c], startLock)
      /\ client[c].pc = "spawn" /\ startLock' = startLock
  BY DEF ClientsGood, Spawn, At
<1>2. PICK p \in Pids :
          client' = [client EXCEPT ![c].pc = "poll", ![c].pid = p, ![c].attempt = @ + 1]
  BY DEF Spawn
<1>3. PICK n \in 0..MaxSpawnAttempts : n = client[c].attempt + 1
  <2>1. client[c].attempt \in 0..MaxSpawnAttempts
    BY <1>1 DEF ClientRecord
  <2>2. client[c].attempt < MaxSpawnAttempts
    BY <1>1 DEF GoodCall
  <2> QED  BY <2>1, <2>2, AutostartAssumption
<1> DEFINE k == [client[c] EXCEPT !.pc = "poll", !.pid = p, !.attempt = n]
<1>4. /\ k.pc = "poll" /\ k \in ClientRecord /\ k.prefix = client[c].prefix
      /\ k.pid = p /\ k.result = client[c].result
  BY <1>1 DEF ClientRecord
<1>5. client' = [client EXCEPT ![c] = k]
  BY <1>2, <1>3 DEF ClientsGood
<1> HIDE DEF k
<1>6. GoodCall(c, k, startLock')
  BY <1>1, <1>4 DEF GoodCall, Locked
<1> QED  BY <1>1, <1>5, <1>6, OneClient

LEMMA ToSpawnKeepsClients ==
    ASSUME ClientsGood, NEW c \in Clients, UNCHANGED startLock,
           client' = [client EXCEPT ![c].pc = "spawn", ![c].pid = Nobody],
           client[c].pc \in Locked, client[c].attempt < MaxSpawnAttempts
    PROVE  ClientsGood'
<1>1. PICK pc \in Locked \ {"recheck", "poll", "advertise"} : pc = "spawn"
  BY DEF Locked
<1>2. PICK pid \in Pids \union {Nobody} : pid = Nobody
  OBVIOUS
<1>3. client' = [client EXCEPT ![c].pc = pc, ![c].pid = pid]
  BY <1>1, <1>2
<1>4. pc # "probe"
  BY <1>1
<1> QED  BY <1>3, <1>4, MoveKeepsClients

\* The end of an attempt: another one, or the end of the call.
LEMMA AfterAttemptKeepsClients ==
    ASSUME ClientsGood, NEW c \in Clients, client[c].pc = "poll", AfterAttempt(c)
    PROVE  ClientsGood'
<1>1. CASE /\ client[c].attempt < MaxSpawnAttempts
           /\ client' = [client EXCEPT ![c].pc = "spawn", ![c].pid = Nobody]
           /\ UNCHANGED startLock
  BY <1>1, ToSpawnKeepsClients DEF Locked
<1>2. CASE Return(c, "threw", FALSE) /\ Release(c)
  BY <1>2, ReturnKeepsClients DEF Locked
<1> QED  BY <1>1, <1>2 DEF AfterAttempt

\* What a dead client held is nobody's.
LEMMA DieKeepsClients ==
    ASSUME ClientsGood, NEW c \in Clients, client[c].pc # "idle", Die(c)
    PROVE  ClientsGood'
<1>1. client[c] \in ClientRecord /\ GoodCall(c, client[c], startLock)
  BY DEF ClientsGood
<1> DEFINE r == [Idle EXCEPT !.result = "died"]
           f == client[c].prefix
<1>2. client' = [client EXCEPT ![c] = r]
  BY DEF Die
<1>3. PICK i \in ClientRecord : i = Idle
  BY IdleIs
<1>4. r = [i EXCEPT !.result = "died"]
  BY <1>3
<1>5. i.pc = "idle" /\ i.attempt = 0 /\ 0 < MaxSpawnAttempts
  BY <1>3, IdleIs
<1> HIDE DEF r
<1>6. /\ r \in ClientRecord /\ r.pc = "idle" /\ r.attempt < MaxSpawnAttempts
      /\ r.result = "died"
  BY <1>4, <1>5 DEF ClientRecord
<1>7. f \in Prefixes /\ startLock' = [startLock EXCEPT ![f] = IF @ = c THEN Stale ELSE @]
  BY <1>1 DEF GoodCall, Die
<1> HIDE DEF f
<1>8. \A g \in Prefixes : startLock[g] = c => g = f
  BY <1>1 DEF GoodCall, f
<1>9. /\ \A g \in Prefixes : startLock'[g] # c
      /\ \/ startLock' = startLock
         \/ startLock[f] = c /\ startLock' = [startLock EXCEPT ![f] = Stale]
  <2>1. CASE startLock[f] = c
    BY <1>7, <1>8, <2>1, AutostartAssumption DEF ClientsGood
  <2>2. CASE startLock[f] # c
    <3>1. startLock' = startLock
      BY <1>7, <2>2 DEF ClientsGood
    <3> QED  BY <1>8, <2>2, <3>1
  <2> QED  BY <2>1, <2>2
<1>10. GoodCall(c, r, startLock')
  BY <1>6, <1>9 DEF GoodCall, Locked
<1> QED  BY <1>2, <1>7, <1>9, <1>10, OneClient

\* Every step of a client keeps the locks and the calls in order.
LEMMA ClientKeepsClients ==
    ASSUME ClientsGood, ServersGood, NEW c \in Clients, ClientStep(c)
    PROVE  ClientsGood'
<1>0. GoodCall(c, client[c], startLock)
  BY DEF ClientsGood
<1>1. ASSUME AcquireFails(c) PROVE ClientsGood'
  BY <1>1, ReturnKeepsClients DEF AcquireFails, At, Locked
<1>2. ASSUME Recheck(c) PROVE ClientsGood'
  <2>1. client[c].pc = "recheck" /\ client[c].met
    BY <1>0, <1>2 DEF Recheck, At, GoodCall
  <2>2. CASE Go(c, "refind") /\ UNCHANGED startLock
    BY <2>1, <2>2, GoKeepsClients DEF Locked
  <2>3. CASE Return(c, "returned", FALSE) /\ Release(c)
    BY <2>1, <2>3, ReturnKeepsClients DEF Locked
  <2> QED  BY <1>2, <2>2, <2>3 DEF Recheck
<1>3. ASSUME Refind(c) PROVE ClientsGood'
  <2>1. client[c].pc = "refind" /\ client[c].attempt < MaxSpawnAttempts
    BY <1>0, <1>3 DEF Refind, At, GoodCall
  <2>2. PICK f \in FoundRecords :
            IF f \in {Nobody, client[c].prefix}
            THEN Return(c, "returned", TRUE) /\ Release(c)
            ELSE /\ UNCHANGED startLock
                 /\ client' = [client EXCEPT ![c].pid = discovery[f], ![c].pc =
                       IF Alive(discovery[f]) THEN "probe" ELSE "wait down"]
    BY <1>3 DEF Refind
  <2>3. CASE f \in {Nobody, client[c].prefix}
    BY <2>1, <2>2, <2>3, ReturnKeepsClients DEF Locked
  <2>4. CASE f \notin {Nobody, client[c].prefix}
    <3>1. discovery[f] \in Pids
      BY <2>4 DEF FoundRecords, Records, ServersGood
    <3>2. PICK pc \in {"probe", "wait down"} :
              pc = IF Alive(discovery[f]) THEN "probe" ELSE "wait down"
      OBVIOUS
    <3>3. client' = [client EXCEPT ![c].pc = pc, ![c].pid = discovery[f]]
      BY <2>2, <2>4, <3>2 DEF ClientsGood, ClientRecord
    <3> QED  BY <2>1, <2>2, <2>4, <3>1, <3>3, MoveKeepsClients DEF Locked
  <2> QED  BY <2>3, <2>4
<1>4. ASSUME Probe(c) PROVE ClientsGood'
  BY <1>4, GoKeepsClients DEF Probe, At, Locked
<1>5. ASSUME CheckAgain(c) PROVE ClientsGood'
  <2>1. CASE Return(c, "returned", TRUE) /\ Release(c)
    BY <1>5, <2>1, ReturnKeepsClients DEF CheckAgain, At, Locked
  <2>2. CASE /\ client' = [client EXCEPT ![c].pc = "look for restart",
                                         ![c].unheard = Healthy]
             /\ UNCHANGED startLock
    <3>1. PICK h \in BOOLEAN : h = Healthy
      BY DEF Healthy
    <3> DEFINE k == [client[c] EXCEPT !.pc = "look for restart", !.unheard = h]
    <3>2. client[c] \in ClientRecord /\ client[c].pc = "check again"
      BY <1>5 DEF CheckAgain, At, ClientsGood
    <3>3. /\ k.pc = "look for restart" /\ k \in ClientRecord
          /\ k.prefix = client[c].prefix /\ k.attempt = client[c].attempt
          /\ k.result = client[c].result
      BY <3>2 DEF ClientRecord
    <3>4. client' = [client EXCEPT ![c] = k]
      BY <2>2, <3>1 DEF ClientsGood
    <3> HIDE DEF k
    <3>5. GoodCall(c, k, startLock')
      BY <1>0, <2>2, <3>2, <3>3 DEF GoodCall, Locked
    <3> QED  BY <2>2, <3>4, <3>5, OneClient
  <2> QED  BY <1>5, <2>1, <2>2 DEF CheckAgain
<1>6. ASSUME LookForRestart(c) PROVE ClientsGood'
  <2>1. /\ client[c].pc = "look for restart" /\ client[c].attempt < MaxSpawnAttempts
        /\ startLock' = startLock
    BY <1>0, <1>6 DEF LookForRestart, At, GoodCall
  <2>2. \/ client' = [client EXCEPT ![c].pc = "spawn"]
        \/ \E p \in Pids : client' = [client EXCEPT ![c].pc = "await restart", ![c].pid = p]
    <3>1. client[c].prefix \in Prefixes /\ discovery[client[c].prefix] \in Pids \union {Nobody}
      BY <1>0, <2>1 DEF GoodCall, ServersGood
    <3> QED  BY <1>6, <3>1 DEF LookForRestart, Alive
  <2>3. CASE client' = [client EXCEPT ![c].pc = "spawn"]
    BY <2>1, <2>3, GoKeepsClients DEF Go, Locked
  <2>4. ASSUME NEW p \in Pids,
               client' = [client EXCEPT ![c].pc = "await restart", ![c].pid = p]
        PROVE  ClientsGood'
    BY <2>1, <2>4, MoveKeepsClients DEF Locked
  <2> QED  BY <2>2, <2>3, <2>4
<1>7. ASSUME AwaitRestart(c) PROVE ClientsGood'
  <2>1. client[c].pc = "await restart" /\ client[c].attempt < MaxSpawnAttempts
    BY <1>0, <1>7 DEF AwaitRestart, At, GoodCall
  <2>2. CASE Return(c, "returned", TRUE) /\ Release(c)
    BY <2>1, <2>2, ReturnKeepsClients DEF Locked
  <2>3. CASE /\ client' = [client EXCEPT ![c].pc = "spawn", ![c].pid = Nobody]
             /\ UNCHANGED startLock
    BY <2>1, <2>3, ToSpawnKeepsClients DEF Locked
  <2> QED  BY <1>7, <2>2, <2>3, Zenon DEF AwaitRestart
<1>8. ASSUME PollHealthy(c) PROVE ClientsGood'
  BY <1>8, GoKeepsClients DEF PollHealthy, At
<1>9. ASSUME PollTimesOut(c) PROVE ClientsGood'
  BY <1>9, AfterAttemptKeepsClients DEF PollTimesOut, At
<1>10. ASSUME Advertise(c) PROVE ClientsGood'
  BY <1>10, ReturnKeepsClients DEF Advertise, At, Locked
<1>11. ASSUME WriteFails(c) PROVE ClientsGood'
  BY <1>11, ReturnKeepsClients DEF WriteFails, At, Locked
<1>12. ASSUME SpawnFails(c) PROVE ClientsGood'
  BY <1>12, DieKeepsClients DEF SpawnFails, At
<1> QED  BY <1>1, <1>2, <1>3, <1>4, <1>5, <1>6, <1>7, <1>8, <1>9, <1>10, <1>11, <1>12,
            FindKeepsClients, AcquireKeepsClients, WaitDownKeepsClients, SpawnKeepsClients
         DEF ClientStep

-----------------------------------------------------------------------------
(* The processes.                                                          *)

\* What is left to show of a step that changes process p: that p is good.  The
\* others keep the port and at most lose lock directories.
LEMMA OneProcess ==
    ASSUME ServersGood, NEW p \in Pids, NEW s,
           proc' = [proc EXCEPT ![p] = s],
           listener' \in Pids \union {Nobody},
           \A q \in Pids : q # p => (listener' = q <=> listener = q),
           dbLock' \in [Prefixes -> Pids \union {Nobody, Stale}],
           \A q \in Pids, f \in Prefixes : q # p => (dbLock'[f] = q => dbLock[f] = q),
           discovery' \in [Prefixes -> Pids \union {Nobody}],
           GoodProcess(s, listener' = p, LocksOf(p)')
    PROVE  ServersGood'
<1>1. s \in ProcRecord
  BY DEF GoodProcess
<1>2. proc' \in [Pids -> ProcRecord]
  BY <1>1 DEF ServersGood
<1>3. ASSUME NEW q \in Pids
      PROVE  GoodProcess(proc'[q], listener' = q, LocksOf(q)')
  <2>1. CASE q = p
    BY <2>1 DEF ServersGood
  <2>2. CASE q # p
    <3>1. proc'[q] = proc[q] /\ GoodProcess(proc[q], listener = q, LocksOf(q))
      BY <2>2 DEF ServersGood
    <3>2. (listener' = q <=> listener = q) /\ LocksOf(q)' \subseteq LocksOf(q)
      BY <2>2 DEF LocksOf
    <3> QED  BY <3>1, <3>2 DEF GoodProcess
  <2> QED  BY <2>1, <2>2
<1> QED  BY <1>2, <1>3 DEF ServersGood

LEMMA GoneIs == Gone \in ProcRecord /\ Gone.kind = "none" /\ Gone.phase = "none"
  BY DEF Gone, Process, ProcRecord

\* The end of a process whose lock directories are not its own any more.
LEMMA DeadKeepsServers ==
    ASSUME ServersGood, NEW p \in Pids, Dead(p),
           dbLock' \in [Prefixes -> Pids \union {Nobody, Stale}],
           \A q \in Pids, f \in Prefixes : dbLock'[f] = q => q # p /\ dbLock[f] = q,
           discovery' \in [Prefixes -> Pids \union {Nobody}]
    PROVE  ServersGood'
<1>1. proc' = [proc EXCEPT ![p] = Gone]
  BY DEF Dead
<1>2. /\ listener' \in Pids \union {Nobody} /\ listener' # p
      /\ \A q \in Pids : q # p => (listener' = q <=> listener = q)
  BY AutostartAssumption DEF Dead, ServersGood
<1>3. LocksOf(p)' = {}
  BY DEF LocksOf
<1>4. GoodProcess(Gone, listener' = p, LocksOf(p)')
  BY <1>2, <1>3, GoneIs DEF GoodProcess, HasPort
<1> QED  BY <1>1, <1>2, <1>4, OneProcess

\* The next phase of a server.
LEMMA AdvanceKeepsServers ==
    ASSUME ServersGood, NEW p \in Pids, proc[p].kind = "server",
           NEW s \in (ComingUp \union HasPort) \ {"starting"}, Advance(p, s),
           listener' \in Pids \union {Nobody},
           \A q \in Pids : q # p => (listener' = q <=> listener = q),
           listener' = p <=> s \in HasPort,
           dbLock' \in [Prefixes -> Pids \union {Nobody, Stale}],
           \A q \in Pids, f \in Prefixes : dbLock'[f] = q =>
               dbLock[f] = q \/ (q = p /\ f = proc[p].prefix),
           discovery' \in [Prefixes -> Pids \union {Nobody}]
    PROVE  ServersGood'
<1> DEFINE r == [proc[p] EXCEPT !.phase = s]
<1>1. proc[p] \in ProcRecord /\ GoodProcess(proc[p], listener = p, LocksOf(p))
  BY DEF ServersGood
<1>2. r \in ProcRecord /\ r.kind = "server" /\ r.phase = s /\ r.prefix = proc[p].prefix
  BY <1>1 DEF ProcRecord, ComingUp, HasPort
<1>3. proc' = [proc EXCEPT ![p] = r]
  BY DEF Advance
<1> HIDE DEF r
<1>4. proc[p].prefix \in Prefixes
  BY <1>1, GoneIs DEF GoodProcess
<1>5. \A f \in LocksOf(p)' : f = proc[p].prefix
  BY <1>1 DEF LocksOf, GoodProcess
<1>6. GoodProcess(r, listener' = p, LocksOf(p)')
  BY <1>2, <1>4, <1>5 DEF GoodProcess, ComingUp, HasPort
<1> QED  BY <1>3, <1>6, OneProcess, ZenonT(60)

LEMMA LeaveLockLeaves ==
    ASSUME ServersGood, NEW p \in Pids, LeaveLock(p)
    PROVE  /\ dbLock' \in [Prefixes -> Pids \union {Nobody, Stale}]
           /\ \A q \in Pids, f \in Prefixes : dbLock'[f] = q => q # p /\ dbLock[f] = q
  BY AutostartAssumption DEF ServersGood, LeaveLock

\* A server is of its prefix and holds no other lock; it has the port from the
\* moment it binds it.
LEMMA ServerIs ==
    ASSUME ServersGood, NEW p \in Pids, proc[p].kind = "server"
    PROVE  /\ proc[p].prefix \in Prefixes
           /\ proc[p].phase \in ComingUp \union HasPort
           /\ listener = p <=> proc[p].phase \in HasPort
           /\ \A f \in Prefixes : dbLock[f] = p =>
                 f = proc[p].prefix /\ proc[p].phase # "starting"
<1>1. GoodProcess(proc[p], listener = p, LocksOf(p))
  BY DEF ServersGood
<1> QED  BY <1>1, GoneIs DEF GoodProcess, LocksOf

LEMMA ServerLocksKeeps ==
    ASSUME ServersGood, NEW p \in Pids, ServerLocks(p)
    PROVE  ServersGood'
<1>1. /\ proc[p].kind = "server" /\ proc[p].phase = "starting"
      /\ proc[p].prefix \in Prefixes /\ listener # p
      /\ \A f \in Prefixes : dbLock[f] # p
      /\ discovery' \in [Prefixes -> Pids \union {Nobody}]
  BY ServerIs DEF ServerLocks, Phase, HasPort, ServersGood
<1>2. CASE /\ dbLock' = [dbLock EXCEPT ![proc[p].prefix] = p]
           /\ Advance(p, "opening") /\ UNCHANGED listener
  <2>1. /\ dbLock' \in [Prefixes -> Pids \union {Nobody, Stale}]
        /\ \A q \in Pids, f \in Prefixes : dbLock'[f] = q =>
              dbLock[f] = q \/ (q = p /\ f = proc[p].prefix)
        /\ listener' \in Pids \union {Nobody}
    BY <1>1, <1>2 DEF ServersGood
  <2>2. PICK s \in (ComingUp \union HasPort) \ {"starting"} : s = "opening"
    BY DEF ComingUp
  <2> QED  BY <1>1, <1>2, <2>1, <2>2, AdvanceKeepsServers DEF HasPort
<1>3. CASE Dead(p) /\ UNCHANGED dbLock
  BY <1>1, <1>3, DeadKeepsServers DEF ServersGood
<1> QED  BY <1>2, <1>3 DEF ServerLocks

LEMMA ServerBindsKeeps ==
    ASSUME ServersGood, NEW p \in Pids, ServerBinds(p)
    PROVE  ServersGood'
<1>1. /\ proc[p].kind = "server" /\ proc[p].phase = "opening"
      /\ proc[p].prefix \in Prefixes
      /\ \A f \in Prefixes : dbLock[f] = p => f = proc[p].prefix
  BY ServerIs DEF ServerBinds, Phase
<1>2. CASE /\ listener = Nobody /\ listener' = p /\ Advance(p, "bound")
           /\ UNCHANGED <<discovery, dbLock>>
  <2>1. /\ dbLock' \in [Prefixes -> Pids \union {Nobody, Stale}] /\ dbLock' = dbLock
        /\ discovery' \in [Prefixes -> Pids \union {Nobody}]
        /\ \A q \in Pids : q # p => (listener' = q <=> listener = q)
    BY <1>2, AutostartAssumption DEF ServersGood
  <2>2. PICK s \in (ComingUp \union HasPort) \ {"starting"} : s = "bound"
    BY DEF HasPort
  <2> QED  BY <1>1, <1>2, <2>1, <2>2, AdvanceKeepsServers DEF HasPort
<1>3. CASE /\ Dead(p)
           /\ discovery' = [discovery EXCEPT ![proc[p].prefix] = Nobody]
           /\ dbLock' = [dbLock EXCEPT ![proc[p].prefix] = Nobody]
  <2>1. /\ dbLock' \in [Prefixes -> Pids \union {Nobody, Stale}]
        /\ discovery' \in [Prefixes -> Pids \union {Nobody}]
        /\ \A q \in Pids, f \in Prefixes : dbLock'[f] = q => q # p /\ dbLock[f] = q
    BY <1>1, <1>3, AutostartAssumption DEF ServersGood
  <2> QED  BY <1>3, <2>1, DeadKeepsServers
<1> QED  BY <1>2, <1>3 DEF ServerBinds

\* A server that has the port begins to serve or to stop.
LEMMA ServingKeeps ==
    ASSUME ServersGood, NEW p \in Pids, proc[p].kind = "server",
           proc[p].phase \in HasPort, NEW s \in HasPort, Advance(p, s),
           UNCHANGED <<listener, dbLock>>,
           discovery' \in [Prefixes -> Pids \union {Nobody}]
    PROVE  ServersGood'
<1>1. /\ s \in (ComingUp \union HasPort) \ {"starting"}
      /\ listener' = p /\ listener' = listener /\ dbLock' = dbLock
      /\ listener' \in Pids \union {Nobody}
      /\ dbLock' \in [Prefixes -> Pids \union {Nobody, Stale}]
  BY ServerIs DEF HasPort, ServersGood
<1> QED  BY <1>1, AdvanceKeepsServers

LEMMA ServerExitsKeeps ==
    ASSUME ServersGood, NEW p \in Pids, ServerExits(p)
    PROVE  ServersGood'
<1>1. /\ proc[p].kind = "server" /\ proc[p].prefix \in Prefixes
      /\ \A f \in Prefixes : dbLock[f] = p => f = proc[p].prefix
      /\ Dead(p) /\ dbLock' = [dbLock EXCEPT ![proc[p].prefix] = Nobody]
      /\ discovery' = discovery
  BY ServerIs DEF ServerExits, Phase
<1>2. /\ dbLock' \in [Prefixes -> Pids \union {Nobody, Stale}]
      /\ discovery' \in [Prefixes -> Pids \union {Nobody}]
      /\ \A q \in Pids, f \in Prefixes : dbLock'[f] = q => q # p /\ dbLock[f] = q
  BY <1>1, AutostartAssumption DEF ServersGood
<1> QED  BY <1>1, <1>2, DeadKeepsServers

LEMMA OtherStartsKeeps ==
    ASSUME ServersGood, NEW p \in Pids, OtherStarts(p)
    PROVE  ServersGood'
<1>1. /\ proc[p].kind = "none" /\ UNCHANGED listener
      /\ discovery' \in [Prefixes -> Pids \union {Nobody}]
      /\ listener' \in Pids \union {Nobody}
  BY AutostartAssumption DEF OtherStarts, Alive, ServersGood
<1>2. listener # p /\ \A f \in Prefixes : dbLock[f] # p
  BY <1>1, GoneIs DEF ServersGood, GoodProcess, LocksOf, HasPort
<1>3. CASE /\ proc' = [proc EXCEPT ![p] = Process("other", Nobody, "none")]
           /\ UNCHANGED dbLock
  <2> DEFINE s == Process("other", Nobody, "none")
  <2>1. s \in ProcRecord /\ s.kind = "other" /\ s.phase = "none"
    BY DEF Process, ProcRecord
  <2> HIDE DEF s
  <2>2. LocksOf(p)' = {}
    BY <1>2, <1>3 DEF LocksOf
  <2>3. GoodProcess(s, listener' = p, LocksOf(p)')
    BY <1>1, <1>2, <2>1, <2>2 DEF GoodProcess, HasPort
  <2>4. proc' = [proc EXCEPT ![p] = s] /\ dbLock' = dbLock
        /\ dbLock' \in [Prefixes -> Pids \union {Nobody, Stale}]
    BY <1>3 DEF ServersGood, s
  <2> QED  BY <1>1, <2>3, <2>4, OneProcess
<1>4. ASSUME NEW f \in Prefixes,
             proc' = [proc EXCEPT ![p] = Process("embedded", f, "open")],
             dbLock' = [dbLock EXCEPT ![f] = p]
      PROVE  ServersGood'
  <2> DEFINE s == Process("embedded", f, "open")
  <2>1. s \in ProcRecord /\ s.kind = "embedded" /\ s.phase = "open" /\ s.prefix = f
    BY DEF Process, ProcRecord
  <2>2. proc' = [proc EXCEPT ![p] = s]
    BY <1>4
  <2> HIDE DEF s
  <2>3. /\ dbLock' \in [Prefixes -> Pids \union {Nobody, Stale}]
        /\ \A q \in Pids, g \in Prefixes : q # p => (dbLock'[g] = q => dbLock[g] = q)
        /\ LocksOf(p)' \subseteq {f}
    BY <1>2, <1>4 DEF ServersGood, LocksOf
  <2>4. GoodProcess(s, listener' = p, LocksOf(p)')
    BY <1>1, <1>2, <2>1, <2>3 DEF GoodProcess, HasPort
  <2> QED  BY <1>1, <2>2, <2>3, <2>4, OneProcess
<1> QED  BY <1>3, <1>4 DEF OtherStarts

LEMMA ServerKeepsServers ==
    ASSUME ServersGood, NEW p \in Pids, ServerStep(p)
    PROVE  ServersGood'
<1>1. ASSUME ServerAdvertises(p) PROVE ServersGood'
  <2>1. /\ proc[p].kind = "server" /\ proc[p].phase \in HasPort
        /\ discovery' \in [Prefixes -> Pids \union {Nobody}]
    BY <1>1, ServerIs DEF ServerAdvertises, Phase, HasPort, ServersGood
  <2>2. PICK s \in HasPort : s = "serving"
    BY DEF HasPort
  <2> QED  BY <1>1, <2>1, <2>2, ServingKeeps DEF ServerAdvertises
<1>2. ASSUME ServerStops(p) PROVE ServersGood'
  <2>1. /\ proc[p].kind = "server" /\ proc[p].phase \in HasPort
        /\ discovery' \in [Prefixes -> Pids \union {Nobody}]
    BY <1>2, ServerIs DEF ServerStops, Phase, HasPort, ServersGood
  <2>2. PICK s \in HasPort : s = "stopping"
    BY DEF HasPort
  <2> QED  BY <1>2, <2>1, <2>2, ServingKeeps DEF ServerStops
<1>3. ASSUME Crash(p) PROVE ServersGood'
  <2>1. discovery' \in [Prefixes -> Pids \union {Nobody}]
    BY <1>3 DEF Crash, ServersGood
  <2> QED  BY <1>3, <2>1, DeadKeepsServers, LeaveLockLeaves DEF Crash
<1> QED  BY <1>1, <1>2, <1>3, ServerLocksKeeps, ServerBindsKeeps, ServerExitsKeeps,
            OtherStartsKeeps
         DEF ServerStep

-----------------------------------------------------------------------------
(* What clients do to the processes.                                       *)

LEMMA TerminateKeepsServers ==
    ASSUME ServersGood, NEW p \in Pids, Terminate(p)
    PROVE  ServersGood'
<1>1. CASE /\ proc[p].kind = "server" /\ proc[p].phase \in {"bound", "serving"}
           /\ proc' = [proc EXCEPT ![p].phase = "stopping"]
           /\ discovery' = [discovery EXCEPT ![proc[p].prefix] = Nobody]
           /\ UNCHANGED <<listener, dbLock, signalled>>
  <2>1. discovery' \in [Prefixes -> Pids \union {Nobody}]
    BY <1>1 DEF ServersGood
  <2>2. PICK s \in HasPort : s = "stopping"
    BY DEF HasPort
  <2> QED  BY <1>1, <2>1, <2>2, ServingKeeps DEF Advance, HasPort
<1>2. CASE Dead(p) /\ LeaveLock(p) /\ UNCHANGED discovery
  <2>1. discovery' \in [Prefixes -> Pids \union {Nobody}]
    BY <1>2 DEF ServersGood
  <2> QED  BY <1>2, <2>1, DeadKeepsServers, LeaveLockLeaves
<1>3. CASE UNCHANGED <<proc, listener, discovery, dbLock, signalled>>
  BY <1>3 DEF ServersGood, LocksOf
<1> QED  BY <1>1, <1>2, <1>3 DEF Terminate

LEMMA ClearDbLockClears ==
    ASSUME ServersGood, NEW p \in Pids, proc' = [proc EXCEPT ![p] = Gone],
           NEW c, client[c].prefix \in Prefixes, ClearDbLock(c)
    PROVE  /\ dbLock' \in [Prefixes -> Pids \union {Nobody, Stale}]
           /\ \A q \in Pids, g \in Prefixes : dbLock'[g] = q => q # p /\ dbLock[g] = q
<1>1. proc'[p].kind = "none"
  BY GoneIs DEF ServersGood
<1> QED  BY <1>1, AutostartAssumption DEF ServersGood, ClearDbLock

\* Being left behind changes nothing for the server.
LEMMA LeaveBehindKeepsServers ==
    ASSUME ServersGood, NEW c \in Clients, LeaveBehind(c),
           UNCHANGED <<listener, discovery, dbLock>>
    PROVE  ServersGood'
<1>1. ASSUME NEW q \in Pids
      PROVE  /\ proc'[q] \in ProcRecord /\ proc'[q].kind = proc[q].kind
             /\ proc'[q].prefix = proc[q].prefix /\ proc'[q].phase = proc[q].phase
  <2>1. proc[q] \in ProcRecord
    BY DEF ServersGood
  <2>2. PICK l \in BOOLEAN : proc'[q] = [proc[q] EXCEPT !.left = l]
    <3>1. proc[q].left \in BOOLEAN /\ ComesUpFor(c, q) \in BOOLEAN
      BY <2>1 DEF ProcRecord, ComesUpFor
    <3>2. proc'[q] = [proc[q] EXCEPT !.left = @ \/ ComesUpFor(c, q)]
      BY DEF LeaveBehind
    <3> QED  BY <3>1, <3>2
  <2> QED  BY <2>1, <2>2 DEF ProcRecord
<1>2. proc' \in [Pids -> ProcRecord]
  <2>1. proc' = [q \in Pids |-> proc'[q]]
    BY DEF LeaveBehind
  <2> QED  BY <1>1, <2>1
<1>3. ASSUME NEW q \in Pids
      PROVE  GoodProcess(proc'[q], listener' = q, LocksOf(q)')
  <2>1. GoodProcess(proc[q], listener = q, LocksOf(q)) /\ LocksOf(q)' = LocksOf(q)
    BY DEF ServersGood, LocksOf
  <2> QED  BY <1>1, <2>1 DEF GoodProcess
<1> QED  BY <1>2, <1>3 DEF ServersGood

LEMMA ClientKeepsServers ==
    ASSUME ClientsGood, ServersGood, NEW c \in Clients,
           Ensure(c) \/ ClientStep(c) \/ ClientDies(c)
    PROVE  ServersGood'
<1>0. GoodCall(c, client[c], startLock)
  BY DEF ClientsGood
<1>1. ASSUME UNCHANGED <<proc, listener, discovery, dbLock>>
      PROVE  ServersGood'
  BY <1>1 DEF ServersGood, LocksOf
<1>2. ASSUME Probe(c) PROVE ServersGood'
  <2>1. client[c].pid \in Pids
    BY <1>0, <1>2 DEF Probe, At, GoodCall
  <2> QED  BY <1>1, <1>2, <2>1, TerminateKeepsServers DEF Probe
<1>3. ASSUME Spawn(c) PROVE ServersGood'
  <2>1. client[c].prefix \in Prefixes
    BY <1>0, <1>3 DEF Spawn, At, GoodCall
  <2>2. PICK p \in Pids : /\ ~Alive(p)
                         /\ proc' = [proc EXCEPT ![p] =
                               Process("server", client[c].prefix, "starting")]
    BY <1>3 DEF Spawn
  <2>3. listener # p /\ \A f \in Prefixes : dbLock[f] # p
    BY <2>2, GoneIs, AutostartAssumption DEF ServersGood, GoodProcess, LocksOf, HasPort, Alive
  <2>4. UNCHANGED <<listener, dbLock, discovery>>
    BY <1>3 DEF Spawn
  <2> DEFINE s == Process("server", client[c].prefix, "starting")
  <2>5. s \in ProcRecord /\ s.kind = "server" /\ s.phase = "starting" /\ s.prefix \in Prefixes
    BY <2>1 DEF Process, ProcRecord
  <2>6. proc' = [proc EXCEPT ![p] = s]
    BY <2>2
  <2> HIDE DEF s
  <2>7. LocksOf(p)' = {}
    BY <2>3, <2>4 DEF LocksOf
  <2>8. GoodProcess(s, listener' = p, LocksOf(p)')
    BY <2>3, <2>4, <2>5, <2>7 DEF GoodProcess, HasPort, ComingUp
  <2>9. /\ listener' \in Pids \union {Nobody}
        /\ dbLock' \in [Prefixes -> Pids \union {Nobody, Stale}] /\ dbLock' = dbLock
        /\ discovery' \in [Prefixes -> Pids \union {Nobody}]
    BY <2>4 DEF ServersGood
  <2> QED  BY <2>4, <2>6, <2>8, <2>9, OneProcess
<1>4. ASSUME PollTimesOut(c) PROVE ServersGood'
  <2>1. client[c].pid \in Pids /\ client[c].prefix \in Prefixes
    BY <1>0, <1>4 DEF PollTimesOut, At, GoodCall
  <2>2. Dead(client[c].pid) /\ ClearDbLock(c) /\ UNCHANGED discovery
    BY <1>4 DEF PollTimesOut
  <2>3. proc' = [proc EXCEPT ![client[c].pid] = Gone]
    BY <2>2 DEF Dead
  <2>4. discovery' \in [Prefixes -> Pids \union {Nobody}]
    BY <2>2 DEF ServersGood
  <2> QED  BY <2>1, <2>2, <2>3, <2>4, ClearDbLockClears, DeadKeepsServers
<1>5. ASSUME Advertise(c) PROVE ServersGood'
  <2>1. client[c].pid \in Pids
    BY <1>0, <1>5 DEF Advertise, At, GoodCall
  <2> QED  BY <1>5, <2>1 DEF Advertise, ServersGood, LocksOf
<1>6. ASSUME PollHealthy(c) \/ ClientDies(c) PROVE ServersGood'
  BY <1>6, LeaveBehindKeepsServers DEF PollHealthy, ClientDies
<1> QED  BY <1>1, <1>2, <1>3, <1>4, <1>5, <1>6
         DEF Ensure, ClientStep, Find, Acquire, AcquireFails, Recheck, Refind, WaitDown,
             CheckAgain, LookForRestart, AwaitRestart, WriteFails, SpawnFails,
             ServersUnchanged

-----------------------------------------------------------------------------
(* Servers on their way up, and servers that serve.                        *)

\* No server starts in this step: what comes up was coming up before, what
\* serves was coming up or serving, of the same prefix, and what was left
\* behind stays so.
NoneStarts ==
    \A q \in Pids : proc'[q].phase \in ComingUp \union Up =>
        /\ proc'[q].prefix = proc[q].prefix
        /\ proc[q].left => proc'[q].left
        /\ proc[q].phase \in ComingUp \union Up
        /\ proc'[q].phase \in ComingUp => proc[q].phase \in ComingUp

\* The clients that poll go on polling.
LEMMA PolledStays ==
    ASSUME Polled, NoneStarts,
           \A c \in Clients : client[c].pc = "poll" => client'[c] = client[c]
    PROVE  Polled'
  BY DEF Polled, NoneStarts

\* A client that polls or is about to spawn holds the startup lock of its
\* prefix.
LEMMA SearcherHoldsLock ==
    ASSUME ClientsGood, NEW c \in Clients, client[c].pc = "poll" \/ Searched(client[c])
    PROVE  startLock[client[c].prefix] = c
<1>1. GoodCall(c, client[c], startLock)
  BY DEF ClientsGood
<1> QED  BY <1>1 DEF GoodCall, Locked, Searched

\* Nobody begins to search in this step, and who polls goes on polling or has
\* no server any more.
LEMMA AloneStays ==
    ASSUME ClientsGood, Polled, Alone, NoneStarts,
           \A c \in Clients : Searched(client'[c]) =>
               /\ Searched(client[c]) /\ client'[c].prefix = client[c].prefix
               /\ client[c].pc = "poll" =>
                     \/ client'[c].pc = "poll" /\ client'[c].pid = client[c].pid
                     \/ \A q \in Pids : client[c].pid = q => proc'[q].phase \notin Up
    PROVE  Alone'
<1> SUFFICES ASSUME NEW c \in Clients, NEW p \in Pids, Searched(client'[c]),
                    proc'[p].prefix = client'[c].prefix, proc'[p].phase \in Up,
                    ~proc'[p].left
             PROVE  client'[c].pc = "poll" /\ client'[c].pid = p
  BY DEF Alone
<1>1. /\ Searched(client[c]) /\ client'[c].prefix = client[c].prefix
      /\ proc[p].prefix = client[c].prefix /\ ~proc[p].left
      /\ proc[p].phase \in ComingUp \union Up
  BY DEF NoneStarts
<1>2. client[c].pc = "poll" /\ client[c].pid = p
  <2>1. CASE proc[p].phase \in Up
    BY <1>1, <2>1 DEF Alone
  <2>2. CASE proc[p].phase \in ComingUp
    <3>1. PICK d \in Clients : /\ client[d].pc = "poll" /\ client[d].pid = p
                              /\ client[d].prefix = proc[p].prefix
      BY <1>1, <2>2 DEF Polled
    <3>2. c = d
      BY <1>1, <3>1, SearcherHoldsLock
    <3> QED  BY <3>1, <3>2
  <2> QED  BY <1>1, <2>1, <2>2
<1> QED  BY <1>2

LEMMA NoneStartsWithout ==
    ASSUME ServersGood, NEW p \in Pids, NEW s, proc' = [proc EXCEPT ![p] = s],
           \/ s.phase \notin ComingUp \union Up
           \/ /\ s.prefix = proc[p].prefix /\ s.left = proc[p].left
              /\ proc[p].phase \in ComingUp \union Up
              /\ s.phase \in ComingUp => proc[p].phase \in ComingUp
    PROVE  NoneStarts
<1>1. proc \in [Pids -> ProcRecord]
  BY DEF ServersGood
<1>2. proc'[p] = s /\ \A q \in Pids : q # p => proc'[q] = proc[q]
  BY <1>1
<1> QED  BY <1>2 DEF NoneStarts

LEMMA DeadStartsNone ==
    ASSUME ServersGood, NEW p \in Pids, Dead(p)
    PROVE  NoneStarts
<1>1. Gone.phase \notin ComingUp \union Up
  BY GoneIs DEF ComingUp, Up
<1> QED  BY <1>1, NoneStartsWithout DEF Dead

LEMMA AdvanceStartsNone ==
    ASSUME ServersGood, NEW p \in Pids, NEW s \in {"opening", "bound", "serving", "stopping"},
           proc[p].phase \in ComingUp \union Up \/ s = "stopping",
           s = "opening" => proc[p].phase \in ComingUp,
           proc' = [proc EXCEPT ![p].phase = s]
    PROVE  NoneStarts
<1> DEFINE r == [proc[p] EXCEPT !.phase = s]
<1>1. proc[p] \in ProcRecord
  BY DEF ServersGood
<1>2. /\ r.phase = s /\ r.prefix = proc[p].prefix /\ r.left = proc[p].left
      /\ proc' = [proc EXCEPT ![p] = r]
  BY <1>1 DEF ProcRecord
<1> HIDE DEF r
<1>3. s = "stopping" => r.phase \notin ComingUp \union Up
  BY <1>2 DEF ComingUp, Up
<1>4. s \in ComingUp => s = "opening"
  BY DEF ComingUp
<1> QED  BY <1>2, <1>3, <1>4, NoneStartsWithout

\* Processes start no servers.
LEMMA ServerStartsNone ==
    ASSUME ServersGood, NEW p \in Pids, ServerStep(p)
    PROVE  NoneStarts
<1>1. ASSUME ServerLocks(p) PROVE NoneStarts
  <2>1. proc[p].phase \in ComingUp
    BY <1>1 DEF ServerLocks, Phase, ComingUp
  <2>2. CASE Advance(p, "opening")
    BY <2>1, <2>2, AdvanceStartsNone DEF Advance
  <2> QED  BY <1>1, <2>2, DeadStartsNone DEF ServerLocks
<1>2. ASSUME ServerBinds(p) PROVE NoneStarts
  <2>1. proc[p].phase \in ComingUp
    BY <1>2 DEF ServerBinds, Phase, ComingUp
  <2>2. CASE Advance(p, "bound")
    BY <2>1, <2>2, AdvanceStartsNone DEF Advance
  <2> QED  BY <1>2, <2>2, DeadStartsNone DEF ServerBinds
<1>3. ASSUME ServerAdvertises(p) PROVE NoneStarts
  <2>1. proc[p].phase \in Up
    BY <1>3 DEF ServerAdvertises, Phase, Up
  <2> QED  BY <1>3, <2>1, AdvanceStartsNone DEF ServerAdvertises, Advance
<1>4. ASSUME ServerStops(p) PROVE NoneStarts
  BY <1>4, AdvanceStartsNone DEF ServerStops, Advance
<1>5. ASSUME OtherStarts(p) PROVE NoneStarts
  <2>1. ASSUME NEW kind, NEW f, NEW phase \in {"none", "open"},
               proc' = [proc EXCEPT ![p] = Process(kind, f, phase)]
        PROVE  NoneStarts
    <3>1. Process(kind, f, phase).phase \notin ComingUp \union Up
      BY DEF Process, ComingUp, Up
    <3> QED  BY <2>1, <3>1, NoneStartsWithout
  <2> QED  BY <1>5, <2>1 DEF OtherStarts
<1> QED  BY <1>1, <1>2, <1>3, <1>4, <1>5, DeadStartsNone DEF ServerStep, ServerExits, Crash

\* What a client does to the processes ends servers or tells them to stop;
\* only Spawn starts one.
LEMMA TerminateStartsNone ==
    ASSUME ServersGood, NEW p \in Pids, Terminate(p)
    PROVE  NoneStarts
<1>1. CASE proc' = [proc EXCEPT ![p].phase = "stopping"]
  BY <1>1, AdvanceStartsNone
<1>2. CASE UNCHANGED proc
  BY <1>2 DEF NoneStarts
<1> QED  BY <1>1, <1>2, DeadStartsNone DEF Terminate

\* A server that is still coming up when its client stops polling for it, and
\* that the client does not kill, is left behind.
LEMMA LeaveBehindLeaves ==
    ASSUME ServersGood, NEW c \in Clients, LeaveBehind(c)
    PROVE  /\ NoneStarts
           /\ \A q \in Pids : /\ proc'[q].phase = proc[q].phase
                              /\ proc'[q].prefix = proc[q].prefix
           /\ \A q \in Pids : /\ client[c].pc = "poll" /\ client[c].pid = q
                              /\ proc[q].prefix = client[c].prefix
                              /\ proc[q].phase \in ComingUp
                              => proc'[q].left
<1>1. ASSUME NEW q \in Pids
      PROVE  /\ proc'[q].phase = proc[q].phase /\ proc'[q].prefix = proc[q].prefix
             /\ proc[q].left => proc'[q].left
             /\ /\ client[c].pc = "poll" /\ client[c].pid = q
                /\ proc[q].prefix = client[c].prefix
                /\ proc[q].phase \in ComingUp
                => proc'[q].left
  <2>1. proc[q] \in ProcRecord
    BY DEF ServersGood
  <2>2. proc'[q] = [proc[q] EXCEPT !.left = @ \/ ComesUpFor(c, q)]
    BY DEF LeaveBehind
  <2>3. /\ proc'[q].phase = proc[q].phase /\ proc'[q].prefix = proc[q].prefix
        /\ proc'[q].left = (proc[q].left \/ ComesUpFor(c, q))
    BY <2>1, <2>2 DEF ProcRecord
  <2> QED  BY <2>3 DEF ComesUpFor, At, ComingUp
<1> QED  BY <1>1 DEF NoneStarts

LEMMA LeaveBehindKeepsPolled ==
    ASSUME ServersGood, Polled, NEW c \in Clients, LeaveBehind(c),
           \A d \in Clients : d # c => client'[d] = client[d]
    PROVE  Polled'
<1> SUFFICES ASSUME NEW q \in Pids, proc'[q].phase \in ComingUp, ~proc'[q].left
             PROVE  \E d \in Clients : /\ client'[d].pc = "poll" /\ client'[d].pid = q
                                       /\ client'[d].prefix = proc'[q].prefix
  BY DEF Polled
<1>1. proc[q].phase \in ComingUp /\ ~proc[q].left /\ proc'[q].prefix = proc[q].prefix
  BY LeaveBehindLeaves DEF NoneStarts
<1>2. PICK d \in Clients : /\ client[d].pc = "poll" /\ client[d].pid = q
                          /\ client[d].prefix = proc[q].prefix
  BY <1>1 DEF Polled
<1>3. d # c
  BY <1>1, <1>2, LeaveBehindLeaves
<1> QED  BY <1>1, <1>2, <1>3

\* A client that polls alone decides about the server it has spawned, and one
\* that has heard nothing under its lock spawns the only one to serve.
LEMMA ClientKeepsPolled ==
    ASSUME ClientsGood, ServersGood, Polled, Alone, NEW c \in Clients,
           Ensure(c) \/ ClientStep(c) \/ ClientDies(c)
    PROVE  Polled' /\ Alone'
<1>0. /\ client \in [Clients -> ClientRecord] /\ proc \in [Pids -> ProcRecord]
      /\ GoodCall(c, client[c], startLock)
  BY DEF ClientsGood, ServersGood
<1>1. ASSUME NEW k, client' = [client EXCEPT ![c] = k], client[c].pc # "poll", NoneStarts,
             Searched(k) => Searched(client[c]) /\ k.prefix = client[c].prefix
      PROVE  Polled' /\ Alone'
  <2>1. client'[c] = k /\ \A d \in Clients : d # c => client'[d] = client[d]
    BY <1>0, <1>1
  <2>2. Polled'
    BY <1>1, <2>1, PolledStays
  <2>3. ASSUME NEW d \in Clients, Searched(client'[d])
        PROVE  /\ Searched(client[d]) /\ client'[d].prefix = client[d].prefix
               /\ client[d].pc = "poll" =>
                     client'[d].pc = "poll" /\ client'[d].pid = client[d].pid
    BY <1>1, <2>1, <2>3
  <2> QED  BY <1>1, <2>2, <2>3, AloneStays
<1>2. ASSUME UNCHANGED proc PROVE NoneStarts
  BY <1>2 DEF NoneStarts
<1>3. ASSUME NEW pc, Go(c, pc), client[c].pc # "poll", NoneStarts,
             pc \notin {"look for restart", "await restart", "spawn", "poll"}
      PROVE  Polled' /\ Alone'
  <2> DEFINE k == [client[c] EXCEPT !.pc = pc]
  <2>1. k.pc = pc /\ client' = [client EXCEPT ![c] = k]
    BY <1>0, <1>3 DEF Go, ClientRecord
  <2> HIDE DEF k
  <2>2. ~Searched(k)
    BY <1>3, <2>1 DEF Searched
  <2> QED  BY <1>1, <1>3, <2>1, <2>2
<1>4. ASSUME NEW how, NEW h, Return(c, how, h), client[c].pc # "poll", UNCHANGED proc
      PROVE  Polled' /\ Alone'
  <2> DEFINE k == [Idle EXCEPT !.healthy = h, !.met = client[c].met, !.result = how]
  <2>1. k.pc = "idle" /\ client' = [client EXCEPT ![c] = k]
    BY <1>4 DEF Return, Idle
  <2> HIDE DEF k
  <2>2. ~Searched(k)
    BY <2>1 DEF Searched
  <2> QED  BY <1>1, <1>2, <1>4, <2>1, <2>2
<1>5. ASSUME Probe(c) PROVE Polled' /\ Alone'
  <2>1. client[c].pid \in Pids /\ client[c].pc # "poll" /\ Go(c, "wait down")
    BY <1>0, <1>5 DEF Probe, At, GoodCall
  <2>2. Terminate(client[c].pid) \/ UNCHANGED proc
    BY <1>5 DEF Probe
  <2>3. NoneStarts
    BY <1>2, <2>1, <2>2, TerminateStartsNone
  <2> QED  BY <1>3, <2>1, <2>3
<1>6. ASSUME Spawn(c) PROVE Polled' /\ Alone'
  <2>1. PICK p \in Pids :
          /\ proc' = [proc EXCEPT ![p] = Process("server", client[c].prefix, "starting")]
          /\ client' = [client EXCEPT ![c].pc = "poll", ![c].pid = p,
                                      ![c].attempt = @ + 1]
    BY <1>6 DEF Spawn
  <2>2. client[c].pc = "spawn"
    BY <1>6 DEF Spawn, At
  <2>3. /\ client'[c].pc = "poll" /\ client'[c].pid = p
        /\ client'[c].prefix = client[c].prefix /\ client'[c].unheard = client[c].unheard
    <3> DEFINE k == [client[c] EXCEPT !.pc = "poll", !.pid = p, !.attempt = @ + 1]
    <3>1. client[c] \in ClientRecord
      BY <1>0
    <3>2. client' = [client EXCEPT ![c] = k]
      BY <1>0, <2>1
    <3>3. /\ k.pc = "poll" /\ k.pid = p /\ k.prefix = client[c].prefix
          /\ k.unheard = client[c].unheard
      BY <3>1 DEF ClientRecord
    <3> HIDE DEF k
    <3> QED  BY <1>0, <3>2, <3>3
  <2>4. \A d \in Clients : d # c => client'[d] = client[d]
    BY <1>0, <2>1
  <2>5. /\ proc'[p].prefix = client[c].prefix /\ proc'[p].phase = "starting"
        /\ \A q \in Pids : q # p => proc'[q] = proc[q]
    BY <1>0, <2>1 DEF Process
  <2>6. Polled'
    BY <2>2, <2>3, <2>4, <2>5 DEF Polled
  <2>7. Alone'
    <3> SUFFICES ASSUME NEW d \in Clients, NEW q \in Pids, Searched(client'[d]),
                        proc'[q].prefix = client'[d].prefix, proc'[q].phase \in Up
                 PROVE  proc'[q].left \/ (client'[d].pc = "poll" /\ client'[d].pid = q)
      BY DEF Alone
    <3>1. q # p /\ proc'[q] = proc[q]
      BY <2>5 DEF Up
    <3>2. CASE d = c
      BY <2>2, <2>3, <3>1, <3>2 DEF Alone, Searched
    <3>3. CASE d # c
      BY <2>4, <3>1, <3>3 DEF Alone
    <3> QED  BY <3>2, <3>3
  <2> QED  BY <2>6, <2>7
<1>7. ASSUME CheckAgain(c) PROVE Polled' /\ Alone'
  <2>1. client[c].pc = "check again" /\ proc' = proc
    BY <1>7 DEF CheckAgain, At, ServersUnchanged
  <2>2. CASE Return(c, "returned", TRUE)
    BY <1>4, <2>1, <2>2
  <2>3. CASE client' = [client EXCEPT ![c].pc = "look for restart", ![c].unheard = Healthy]
    \* A silent port has no server, unless one was not heard.
    <3>1. \A d \in Clients : d # c => client'[d] = client[d]
      BY <1>0, <2>3
    <3>2. Polled'
      BY <1>2, <2>1, <3>1, PolledStays
    <3>3. client'[c].unheard = Healthy
      BY <1>0, <2>3 DEF ClientRecord
    <3>4. ASSUME NEW p \in Pids, ~Healthy
          PROVE  proc[p].phase \notin Up
      <4>1. GoodProcess(proc[p], listener = p, LocksOf(p))
        BY DEF ServersGood
      <4> QED  BY <3>4, <4>1, AutostartAssumption DEF GoodProcess, HasPort, Healthy, Up
    <3>5. Alone'
      <4> SUFFICES ASSUME NEW d \in Clients, NEW p \in Pids, Searched(client'[d]),
                          proc'[p].prefix = client'[d].prefix, proc'[p].phase \in Up
                   PROVE  proc'[p].left \/ (client'[d].pc = "poll" /\ client'[d].pid = p)
        BY DEF Alone
      <4>1. CASE d = c
        BY <2>1, <3>3, <3>4, <4>1 DEF Searched
      <4>2. CASE d # c
        BY <2>1, <3>1, <4>2 DEF Alone
      <4> QED  BY <4>1, <4>2
    <3> QED  BY <3>2, <3>5
  <2> QED  BY <1>7, <2>2, <2>3 DEF CheckAgain
<1>8. ASSUME LookForRestart(c) \/ AwaitRestart(c) PROVE Polled' /\ Alone'
  <2>1. client[c].pc \in {"look for restart", "await restart"} /\ proc' = proc
    BY <1>8 DEF LookForRestart, AwaitRestart, At, ServersUnchanged
  <2>2. CASE Return(c, "returned", TRUE)
    BY <1>4, <2>1, <2>2
  <2>3. ASSUME NEW k, client' = [client EXCEPT ![c] = k], k.unheard = client[c].unheard,
               k.prefix = client[c].prefix
        PROVE  Polled' /\ Alone'
    <3>1. Searched(k) => Searched(client[c])
      BY <2>1, <2>3 DEF Searched
    <3> QED  BY <1>1, <1>2, <2>1, <2>3, <3>1
  <2>4. ASSUME NEW pc, client' = [client EXCEPT ![c].pc = pc]
        PROVE  Polled' /\ Alone'
    <3> DEFINE k == [client[c] EXCEPT !.pc = pc]
    <3>1. /\ client' = [client EXCEPT ![c] = k] /\ k.unheard = client[c].unheard
          /\ k.prefix = client[c].prefix
      BY <1>0, <2>4 DEF ClientRecord
    <3> QED  BY <2>3, <3>1
  <2>5. ASSUME NEW pc, NEW pid, client' = [client EXCEPT ![c].pc = pc, ![c].pid = pid]
        PROVE  Polled' /\ Alone'
    <3> DEFINE k == [client[c] EXCEPT !.pc = pc, !.pid = pid]
    <3>1. /\ client' = [client EXCEPT ![c] = k] /\ k.unheard = client[c].unheard
          /\ k.prefix = client[c].prefix
      BY <1>0, <2>5 DEF ClientRecord
    <3> QED  BY <2>3, <3>1
  <2> QED  BY <1>8, <2>2, <2>4, <2>5 DEF LookForRestart, AwaitRestart
<1>9. ASSUME PollHealthy(c) \/ ClientDies(c) PROVE Polled' /\ Alone'
  <2>1. LeaveBehind(c)
    BY <1>9 DEF PollHealthy, ClientDies
  <2>2. ~Searched(client'[c]) /\ \A d \in Clients : d # c => client'[d] = client[d]
    BY <1>0, <1>9 DEF PollHealthy, ClientDies, Die, Go, Searched, ClientRecord, Idle
  <2>3. NoneStarts
    BY <2>1, LeaveBehindLeaves
  <2>4. Alone'
    BY <2>2, <2>3, AloneStays
  <2> QED  BY <2>1, <2>2, <2>4, LeaveBehindKeepsPolled
<1>10. ASSUME PollTimesOut(c) PROVE Polled' /\ Alone'
  \* Its server is dead.
  <2>1. client[c].pid \in Pids /\ client[c].pc = "poll"
    BY <1>0, <1>10 DEF PollTimesOut, At, GoodCall
  <2>2. Dead(client[c].pid)
    BY <1>10 DEF PollTimesOut
  <2>3. NoneStarts
    BY <2>1, <2>2, DeadStartsNone
  <2>4. proc'[client[c].pid].phase \notin ComingUp \union Up
    BY <1>0, <2>1, <2>2, GoneIs DEF Dead, ComingUp, Up
  <2>5. \A d \in Clients : d # c => client'[d] = client[d]
    BY <1>0, <1>10 DEF PollTimesOut, AfterAttempt, Return
  <2>6. Polled'
    BY <2>1, <2>3, <2>4, <2>5 DEF Polled, NoneStarts
  <2>7. Searched(client'[c]) => Searched(client[c]) /\ client'[c].prefix = client[c].prefix
    <3>1. CASE client' = [client EXCEPT ![c].pc = "spawn", ![c].pid = Nobody]
      BY <1>0, <2>1, <3>1 DEF Searched, ClientRecord
    <3>2. CASE Return(c, "threw", FALSE)
      BY <1>0, <3>2 DEF Searched, Return, Idle
    <3> QED  BY <1>10, <3>1, <3>2 DEF PollTimesOut, AfterAttempt
  <2>8. Alone'
    BY <2>3, <2>4, <2>5, <2>7, AloneStays
  <2> QED  BY <2>6, <2>8
<1>11. ASSUME Ensure(c) PROVE Polled' /\ Alone'
  <2>1. PICK k : /\ client' = [client EXCEPT ![c] = k] /\ k.pc \in {"find", "lock again"}
                 /\ client[c].pc = "idle" /\ proc' = proc
    BY <1>11 DEF Ensure, At, Idle
  <2>2. ~Searched(k)
    BY <2>1 DEF Searched
  <2> QED  BY <1>1, <1>2, <2>1, <2>2
<1>12. ASSUME Find(c) PROVE Polled' /\ Alone'
  <2>1. client[c].pc = "find" /\ proc' = proc
    BY <1>12 DEF Find, At, ServersUnchanged
  <2>2. CASE Return(c, "returned", TRUE)
    BY <1>4, <2>1, <2>2
  <2>3. CASE client' = [client EXCEPT ![c].pc = "lock", ![c].met = TRUE]
    <3> DEFINE k == [client[c] EXCEPT !.pc = "lock", !.met = TRUE]
    <3>1. k.pc = "lock" /\ client' = [client EXCEPT ![c] = k]
      BY <1>0, <2>3 DEF ClientRecord
    <3> HIDE DEF k
    <3>2. ~Searched(k)
      BY <3>1 DEF Searched
    <3> QED  BY <1>1, <1>2, <2>1, <3>1, <3>2
  <2> QED  BY <1>12, <2>2, <2>3 DEF Find
<1>13. ASSUME Refind(c) \/ WaitDown(c) PROVE Polled' /\ Alone'
  <2>1. client[c].pc \in {"refind", "wait down"} /\ proc' = proc
    BY <1>13 DEF Refind, WaitDown, At, ServersUnchanged
  <2>2. CASE Return(c, "returned", TRUE)
    BY <1>4, <2>1, <2>2
  <2>3. ASSUME NEW pc \in {"probe", "wait down", "lock again"}, NEW pid,
               client' = [client EXCEPT ![c].pc = pc, ![c].pid = pid]
        PROVE  Polled' /\ Alone'
    <3> DEFINE k == [client[c] EXCEPT !.pc = pc, !.pid = pid]
    <3>1. k.pc = pc /\ client' = [client EXCEPT ![c] = k]
      BY <1>0, <2>3 DEF ClientRecord
    <3> HIDE DEF k
    <3>2. ~Searched(k)
      BY <3>1 DEF Searched
    <3> QED  BY <1>1, <1>2, <2>1, <3>1, <3>2
  <2>4. CASE Refind(c)
    <3>1. PICK f \in FoundRecords :
              \/ Return(c, "returned", TRUE)
              \/ client' = [client EXCEPT ![c].pid = discovery[f], ![c].pc =
                     IF Alive(discovery[f]) THEN "probe" ELSE "wait down"]
      BY <2>4 DEF Refind
    <3>2. PICK pc \in {"probe", "wait down"} :
              pc = IF Alive(discovery[f]) THEN "probe" ELSE "wait down"
      OBVIOUS
    <3>3. CASE client' = [client EXCEPT ![c].pid = discovery[f], ![c].pc = pc]
      <4>1. client' = [client EXCEPT ![c].pc = pc, ![c].pid = discovery[f]]
        BY <1>0, <3>3 DEF ClientRecord
      <4> QED  BY <2>3, <4>1
    <3> QED  BY <2>2, <3>1, <3>2, <3>3
  <2> QED  BY <1>13, <2>3, <2>4 DEF WaitDown
<1>14. ASSUME Acquire(c) \/ Recheck(c) PROVE Polled' /\ Alone'
  <2>1. client[c].pc # "poll" /\ proc' = proc
    BY <1>14 DEF Acquire, Recheck, At, ServersUnchanged
  <2>2. \/ Go(c, "recheck") \/ Go(c, "check again") \/ Go(c, "refind")
        \/ Return(c, "returned", FALSE)
    BY <1>14 DEF Acquire, Recheck
  <2> QED  BY <1>2, <1>3, <1>4, <2>1, <2>2
<1>15. ASSUME AcquireFails(c) \/ Advertise(c) \/ WriteFails(c) PROVE Polled' /\ Alone'
  BY <1>4, <1>15 DEF AcquireFails, Advertise, WriteFails, At, ServersUnchanged
<1>16. ASSUME SpawnFails(c) PROVE Polled' /\ Alone'
  <2> DEFINE k == [Idle EXCEPT !.result = "died"]
  <2>1. client' = [client EXCEPT ![c] = k] /\ k.pc = "idle"
    BY <1>16 DEF SpawnFails, Die, Idle
  <2> HIDE DEF k
  <2>2. client[c].pc # "poll" /\ proc' = proc /\ ~Searched(k)
    BY <1>16, <2>1 DEF SpawnFails, At, ServersUnchanged, Searched
  <2> QED  BY <1>1, <1>2, <2>1, <2>2
<1> QED  BY <1>5, <1>6, <1>7, <1>8, <1>9, <1>10, <1>11, <1>12, <1>13, <1>14, <1>15, <1>16
         DEF ClientStep

-----------------------------------------------------------------------------
(* The lock directories that clients remove.                               *)

\* What may be said of a live process that has lost its lock directory.
Excused(b) ==
    \/ b.phase \in {"stopping", "open"} \/ b.left
    \/ b.phase \in {"bound", "serving"} /\ b.unheard

\* A live process that loses its lock to a client is on its way out, was left
\* behind, was not heard, or never wanted the port.
LEMMA ClientRobsNobody ==
    ASSUME StartsInv, NEW c \in Clients, PollTimesOut(c)
    PROVE  robbed' \subseteq Robbery /\ NoServerRobbed'
<1>1. /\ client[c].pc = "poll" /\ client[c].pid \in Pids /\ client[c].prefix \in Prefixes
      /\ client[c].unheard \in BOOLEAN
  BY DEF StartsInv, ClientsGood, PollTimesOut, At, GoodCall, Locked, ClientRecord
<1> DEFINE f == client[c].prefix
           q == client[c].pid
           Taken(p) == [phase |-> proc'[p].phase, left |-> proc'[p].left,
                        unheard |-> client[c].unheard]
<1>2. /\ robbed' = robbed \union
             {Taken(p) : p \in {r \in Pids : dbLock[f] = r /\ proc'[r].kind # "none"}}
      /\ proc' = [proc EXCEPT ![q] = Gone]
  BY DEF PollTimesOut, ClearDbLock, Dead
<1>3. ASSUME NEW p \in Pids, dbLock[f] = p, proc'[p].kind # "none"
      PROVE  Taken(p) \in Robbery /\ Excused(Taken(p))
  <2>1. p # q /\ proc'[p] = proc[p] /\ proc[p] \in ProcRecord
    BY <1>1, <1>2, <1>3, GoneIs DEF StartsInv, ServersGood
  <2>2. GoodProcess(proc[p], listener = p, LocksOf(p)) /\ f \in LocksOf(p)
    BY <1>1, <1>3 DEF StartsInv, ServersGood, LocksOf
  <2>3. /\ proc[p].prefix = f /\ proc[p].left \in BOOLEAN
        /\ proc[p].phase \in {"opening", "bound", "serving", "stopping", "open"}
    BY <2>1, <2>2, <1>3 DEF GoodProcess, ComingUp, HasPort, ProcRecord
  <2>4. proc[p].phase = "opening" => proc[p].left
    <3> SUFFICES ASSUME proc[p].phase = "opening", ~proc[p].left PROVE FALSE
      BY <2>3
    <3>1. PICK d \in Clients : /\ client[d].pc = "poll" /\ client[d].pid = p
                              /\ client[d].prefix = f
      BY <2>3 DEF StartsInv, Polled, ComingUp
    <3>2. startLock[f] = d /\ startLock[f] = c
      BY <1>1, <3>1, SearcherHoldsLock DEF StartsInv
    <3> QED  BY <2>1, <3>1, <3>2
  <2>5. proc[p].phase \in {"bound", "serving"} => proc[p].left \/ client[c].unheard
    BY <1>1, <2>1, <2>3 DEF StartsInv, Alone, Searched, Up
  <2>6. Taken(p) \in Robbery
    BY <1>1, <2>1, <2>3 DEF Robbery
  <2>7. /\ Taken(p).phase = proc[p].phase /\ Taken(p).left = proc[p].left
        /\ Taken(p).unheard = client[c].unheard
    BY <2>1
  <2> HIDE DEF Taken
  <2>8. Excused(Taken(p))
    BY <2>3, <2>4, <2>5, <2>7 DEF Excused
  <2> QED  BY <2>6, <2>8
<1> HIDE DEF f, q, Taken
<1>4. robbed \subseteq Robbery /\ \A b \in robbed : Excused(b)
  BY DEF StartsInv, Counters, NoServerRobbed, Excused
<1>5. robbed' \subseteq Robbery /\ \A b \in robbed' : Excused(b)
  BY <1>2, <1>3, <1>4
<1> QED  BY <1>5 DEF NoServerRobbed, Excused

LEMMA RestKeeps ==
    ASSUME StartsInv, Next
    PROVE  Counters' /\ NoServerRobbed'
<1>1. CASE \E c \in Clients : PollTimesOut(c)
  <2> PICK c \in Clients : PollTimesOut(c)
    BY <1>1
  <2>1. UNCHANGED <<ensures, faults>> /\ signalled' \subseteq {"SIGTERM", "SIGKILL"}
    BY DEF PollTimesOut, StartsInv, Counters
  <2>2. robbed' \subseteq Robbery /\ NoServerRobbed'
    BY ClientRobsNobody
  <2> QED  BY <2>1, <2>2 DEF StartsInv, Counters
<1>2. CASE ~\E c \in Clients : PollTimesOut(c)
  <2>1. /\ ensures' \in 0..MaxEnsures /\ faults' \in 0..MaxFaults
        /\ signalled' \subseteq {"SIGTERM", "SIGKILL"} /\ robbed' = robbed
    <3>1. ASSUME NEW c \in Clients, Ensure(c) \/ ClientStep(c) \/ ClientDies(c)
          PROVE  /\ ensures' \in 0..MaxEnsures /\ faults' \in 0..MaxFaults
                 /\ signalled' \subseteq {"SIGTERM", "SIGKILL"} /\ robbed' = robbed
      <4>1. CASE Ensure(c)
        BY <4>1, AutostartAssumption DEF StartsInv, Counters, Ensure
      <4>2. CASE Probe(c)
        BY <4>2 DEF StartsInv, Counters, Probe, Terminate
      <4>3. CASE Spawn(c) \/ PollHealthy(c) \/ Advertise(c)
        BY <4>3 DEF StartsInv, Counters, Spawn, PollHealthy, Advertise
      <4>4. CASE ClientDies(c)
        BY <4>4, AutostartAssumption DEF StartsInv, Counters, ClientDies
      <4> QED
        BY <1>2, <3>1, <4>1, <4>2, <4>3, <4>4
        DEF StartsInv, Counters, ClientStep, Find, Acquire, AcquireFails, Recheck, Refind, WaitDown,
            CheckAgain, LookForRestart, AwaitRestart, WriteFails, SpawnFails, ServersUnchanged
    <3>2. ASSUME NEW p \in Pids, ServerStep(p)
          PROVE  /\ ensures' = ensures /\ faults' \in 0..MaxFaults
                 /\ signalled' = signalled /\ robbed' = robbed
      BY <3>2, AutostartAssumption
      DEF StartsInv, Counters, ServerStep, ServerLocks, ServerBinds, ServerAdvertises, ServerStops,
          ServerExits, Crash, OtherStarts, ClientsUnchanged
    <3> QED  BY <3>1, <3>2 DEF Next, StartsInv, Counters
  <2> QED  BY <2>1 DEF StartsInv, Counters, NoServerRobbed
<1> QED  BY <1>1, <1>2

-----------------------------------------------------------------------------
LEMMA StartsInitially == Init => StartsInv
<1> SUFFICES ASSUME Init PROVE StartsInv
  OBVIOUS
<1>1. ClientsGood
  <2>1. \A c \in Clients : GoodCall(c, Idle, startLock)
    BY IdleIs, AutostartAssumption DEF Init, GoodCall, Locked
  <2> QED  BY <2>1, IdleIs DEF Init, ClientsGood
<1>2. ServersGood
  <2>1. \A p \in Pids : listener # p /\ LocksOf(p) = {}
    BY AutostartAssumption DEF Init, LocksOf
  <2>2. \A p \in Pids : GoodProcess(Gone, listener = p, LocksOf(p))
    BY <2>1, GoneIs DEF GoodProcess, HasPort
  <2> QED  BY <2>2, GoneIs DEF Init, ServersGood
<1>3. Polled /\ Alone
  BY GoneIs DEF Init, Polled, Alone, ComingUp, Up
<1>4. Counters /\ NoServerRobbed
  <2>1. 0 \in 0..MaxEnsures /\ 0 \in 0..MaxFaults
    BY AutostartAssumption
  <2> QED  BY <2>1 DEF Init, Counters, NoServerRobbed
<1> QED  BY <1>1, <1>2, <1>3, <1>4 DEF StartsInv

LEMMA StartsPreserved == StartsInv /\ [Next]_vars => StartsInv'
<1> SUFFICES ASSUME StartsInv, [Next]_vars PROVE StartsInv'
  OBVIOUS
<1>1. CASE UNCHANGED vars
  <2>1. ClientsGood' /\ Polled' /\ Alone'
    BY <1>1 DEF StartsInv, ClientsGood, Polled, Alone, vars
  <2>2. ServersGood'
    BY <1>1 DEF StartsInv, ServersGood, LocksOf, vars
  <2>3. Counters' /\ NoServerRobbed'
    BY <1>1 DEF StartsInv, Counters, NoServerRobbed, vars
  <2> QED  BY <2>1, <2>2, <2>3 DEF StartsInv
<1>2. CASE Next
  <2>1. Counters' /\ NoServerRobbed'
    BY <1>2, RestKeeps
  <2>2. ASSUME NEW c \in Clients, Ensure(c) \/ ClientStep(c) \/ ClientDies(c)
        PROVE  ClientsGood' /\ ServersGood' /\ Polled' /\ Alone'
    <3>1. ClientsGood'
      <4>1. CASE ClientDies(c)
        BY <4>1, DieKeepsClients DEF StartsInv, ClientDies, At
      <4> QED  BY <2>2, <4>1, EnsureKeepsClients, ClientKeepsClients DEF StartsInv
    <3>2. ServersGood'
      BY <2>2, ClientKeepsServers DEF StartsInv
    <3>3. Polled' /\ Alone'
      BY <2>2, ClientKeepsPolled DEF StartsInv
    <3> QED  BY <3>1, <3>2, <3>3
  <2>3. ASSUME NEW p \in Pids, ServerStep(p)
        PROVE  ClientsGood' /\ ServersGood' /\ Polled' /\ Alone'
    <3>1. UNCHANGED <<client, startLock>>
      BY <2>3 DEF ServerStep, ServerLocks, ServerBinds, ServerAdvertises, ServerStops,
                  ServerExits, Crash, OtherStarts, ClientsUnchanged
    <3>2. ClientsGood' /\ ServersGood'
      BY <2>3, <3>1, ServerKeepsServers DEF StartsInv, ClientsGood
    <3>3. NoneStarts
      BY <2>3, ServerStartsNone DEF StartsInv
    <3>4. Polled' /\ Alone'
      BY <3>1, <3>3, PolledStays, AloneStays DEF StartsInv
    <3> QED  BY <3>2, <3>4
  <2> QED  BY <1>2, <2>1, <2>2, <2>3 DEF Next, StartsInv
<1> QED  BY <1>1, <1>2

\* What the inductive invariant says holds in every reachable state.
THEOREM StartsInvariance == Spec => []StartsInv
BY StartsInitially, StartsPreserved, PTL DEF Spec

LEMMA InvariantTypes == StartsInv => TypeOK
<1> SUFFICES ASSUME StartsInv PROVE TypeOK
  OBVIOUS
<1>1. client \in [Clients -> ClientRecord] /\ proc \in [Pids -> ProcRecord]
  BY DEF StartsInv, ClientsGood, ServersGood
<1>2. listener # Nobody => proc[listener].phase \in {"bound", "serving", "stopping"}
  BY DEF StartsInv, ServersGood, GoodProcess, HasPort
<1>3. \A f \in Prefixes : startLock[f] \in Clients =>
          client[startLock[f]].prefix = f /\ client[startLock[f]].pc \notin
              {"idle", "find", "lock", "lock again"}
  <2> SUFFICES ASSUME NEW f \in Prefixes, startLock[f] \in Clients
               PROVE  client[startLock[f]].prefix = f /\ client[startLock[f]].pc \notin
                          {"idle", "find", "lock", "lock again"}
    OBVIOUS
  <2>1. PICK c \in Clients : startLock[f] = c
    BY DEF StartsInv, ClientsGood
  <2>2. GoodCall(c, client[c], startLock)
    BY DEF StartsInv, ClientsGood
  <2> QED  BY <2>1, <2>2 DEF GoodCall, Locked
<1> QED  BY <1>1, <1>2, <1>3
         DEF StartsInv, ClientsGood, ServersGood, Counters, TypeOK, ClientRecord, ProcRecord,
             Robbery

\* Two servers of a prefix on their way up would have one client polling for
\* both.
LEMMA OneAtATime == StartsInv => OneServerStarting
<1> SUFFICES ASSUME StartsInv, NEW f \in Prefixes
             PROVE  Cardinality({p \in Pids :
                                    /\ proc[p].prefix = f /\ ~proc[p].left
                                    /\ proc[p].phase \in {"starting", "opening"}}) <= 1
  BY DEF OneServerStarting
<1> DEFINE S == {p \in Pids : /\ proc[p].prefix = f /\ ~proc[p].left
                              /\ proc[p].phase \in {"starting", "opening"}}
<1>1. ASSUME NEW p \in S, NEW q \in S PROVE p = q
  <2>1. PICK c \in Clients : client[c].pc = "poll" /\ client[c].pid = p /\ client[c].prefix = f
    BY DEF StartsInv, Polled, ComingUp
  <2>2. PICK d \in Clients : client[d].pc = "poll" /\ client[d].pid = q /\ client[d].prefix = f
    BY DEF StartsInv, Polled, ComingUp
  <2>3. startLock[f] = c /\ startLock[f] = d
    BY <2>1, <2>2, SearcherHoldsLock DEF StartsInv
  <2> QED  BY <2>1, <2>2, <2>3
<1> HIDE DEF S
<1>2. CASE S = {}
  BY <1>2, FS_EmptySet DEF S
<1>3. CASE S # {}
  <2>1. PICK p \in S : S = {p}
    BY <1>1, <1>3
  <2>2. Cardinality(S) = 1
    BY <2>1, FS_Singleton
  <2> QED  BY <2>2 DEF S
<1> QED  BY <1>2, <1>3

\* Clients that start servers for each other do no harm to one another's: for
\* any clients, prefixes, pids, attempts and faults, and whichever probes go
\* unanswered, a live server that is starting or serving loses its database
\* lock to a client only if it was left behind by another or was not heard when
\* the client probed it under its lock; and of the servers of a prefix that
\* were not left behind one at most is coming up (ensureServer(),
\* clearDbLock()).
THEOREM StartingIsSound == Spec => []StartsSound
<1>1. StartsInv => StartsSound
  BY InvariantTypes, OneAtATime DEF StartsInv, StartsSound
<1> QED  BY <1>1, StartsInvariance, PTL

\* ensureServer() returns only after a probe that was answered, or to a client
\* that met a server of another prefix and then found the port silent.
THEOREM ReturnsAreServed == Spec => []ReturnsServed
<1>1. StartsInv => ReturnsServed
  BY DEF StartsInv, ClientsGood, GoodCall, ReturnsServed
<1> QED  BY <1>1, StartsInvariance, PTL

-----------------------------------------------------------------------------
(* Watch.                                                                  *)

\* On its way to a reindex that has not begun yet.
Announced == raised \union pending \union queued

ReadsFollowed ==
    \A r \in runs : \A f \in Files \ r.unread :
        r.read[f] # disk[f] => f \in Announced \union unseen \/ teardown # "no"

SingleFlight == \A r, s \in runs : r = s

\* A watcher that is closed has nothing pending.
ClosedIsQuiet == teardown # "no" => ~timer

\* The event of a file the filters drop counts for nothing.
IgnoredUnseen == raised \intersect Ignored \subseteq unseen

WatchInv ==
    /\ WatchTypeOK /\ SingleFlight /\ ReadsFollowed /\ NothingForgotten /\ ClosedIsQuiet
    /\ IgnoredUnseen

-----------------------------------------------------------------------------
LEMMA BeginType ==
    ASSUME WatchTypeOK, NEW id \in Nat
    PROVE  Begin(id) \in Runs /\ Begin(id).unread = Files
BY DEF WatchTypeOK, Begin, Runs

LEMMA WatchInitially == WatchInit => WatchInv
<1> SUFFICES ASSUME WatchInit PROVE WatchInv
    OBVIOUS
<1>1. /\ disk \in [Files -> Versions] /\ indexed \in [Files -> Versions]
      /\ edits \in 0..MaxEdits /\ failures \in 0..MaxFailures
      /\ \A f \in Files : indexed[f] # disk[f] => f \in unseen
    BY WatchAssumption DEF WatchInit, Versions
<1>2. WatchTypeOK
    BY <1>1 DEF WatchInit, WatchTypeOK
<1>. QED
    BY <1>1, <1>2 DEF WatchInit, WatchInv, SingleFlight, ReadsFollowed, NothingForgotten, ClosedIsQuiet,
               IgnoredUnseen

LEMMA ReadyKeeps ==
    ASSUME WatchInv, WatcherReady
    PROVE  WatchInv'
<1>1. WatchTypeOK'
    BY DEF WatchInv, WatchTypeOK, WatcherReady
<1>2. ReadsFollowed' /\ NothingForgotten'
    BY DEF WatchInv, ReadsFollowed, NothingForgotten, Announced, WatcherReady
<1>. QED
    BY <1>1, <1>2 DEF WatchInv, SingleFlight, ClosedIsQuiet, IgnoredUnseen, WatcherReady

LEMMA EditKeeps ==
    ASSUME WatchInv, NEW f \in Files, Edit(f)
    PROVE  WatchInv'
<1>1. disk' \in [Files -> Versions] /\ edits' \in 0..MaxEdits
    BY WatchAssumption DEF WatchInv, WatchTypeOK, Edit, Versions
<1>2. \A g \in Files : g # f => disk'[g] = disk[g]
    BY DEF WatchInv, WatchTypeOK, Edit
<1>3. /\ f \in raised' \union unseen' /\ raised \subseteq raised' /\ raised' \subseteq Files
      /\ unseen' \subseteq Files /\ unseen \subseteq unseen' \union {f}
    BY DEF WatchInv, WatchTypeOK, Edit
<1>4. UNCHANGED <<ready, indexed, pending, timer, runs, queued, started, teardown, failures, outcome>>
    BY DEF Edit
<1>5. WatchTypeOK'
    BY <1>1, <1>3, <1>4 DEF WatchInv, WatchTypeOK
<1>6. ReadsFollowed'
    BY <1>2, <1>3, <1>4 DEF WatchInv, ReadsFollowed, Announced
<1>7. NothingForgotten'
    BY <1>2, <1>3, <1>4 DEF WatchInv, NothingForgotten
<1>8. IgnoredUnseen'
    BY DEF WatchInv, IgnoredUnseen, Edit
<1>. QED
    BY <1>4, <1>5, <1>6, <1>7, <1>8 DEF WatchInv, SingleFlight, ClosedIsQuiet

LEMMA RawEventKeeps ==
    ASSUME WatchInv, NEW f \in Files, RawEvent(f)
    PROVE  WatchInv'
<1>1. WatchTypeOK'
    BY DEF WatchInv, WatchTypeOK, RawEvent
<1>2. Announced \subseteq Announced' \union unseen' \/ teardown # "no"
  <2>1. f \in Ignored => f \in unseen
      BY DEF WatchInv, IgnoredUnseen, RawEvent
  <2> QED
      BY <2>1 DEF Announced, RawEvent
<1>3. ReadsFollowed'
    BY <1>2 DEF WatchInv, ReadsFollowed, RawEvent
<1>4. NothingForgotten'
    BY <1>2 DEF WatchInv, NothingForgotten, Announced, RawEvent
<1>. QED
    BY <1>1, <1>3, <1>4 DEF WatchInv, SingleFlight, ClosedIsQuiet, IgnoredUnseen, RawEvent

LEMMA FlushKeeps ==
    ASSUME WatchInv, Flush
    PROVE  WatchInv'
<1>0. teardown = "no" /\ teardown' = "no"
    BY DEF WatchInv, ClosedIsQuiet, Flush
<1>1. CASE runs # {}
    <2>1. runs' = runs /\ queued' = queued \union pending
        BY <1>1 DEF Flush, Schedule
    <2>2. WatchTypeOK'
        BY <1>1, <2>1 DEF WatchInv, WatchTypeOK, Flush, Schedule
    <2>. QED
        BY <2>1, <2>2, <1>0
        DEF WatchInv, SingleFlight, ReadsFollowed, NothingForgotten, ClosedIsQuiet, IgnoredUnseen, Announced, Flush
<1>2. CASE runs = {}
    <2>1. runs' = {Begin(started + 1)} /\ queued' = queued
        BY <1>2 DEF Flush, Schedule
    <2>2. Begin(started + 1) \in Runs /\ Begin(started + 1).unread = Files
        BY BeginType DEF WatchInv, WatchTypeOK
    <2>3. queued = {} /\ started' \in Nat
        BY <1>2 DEF WatchInv, WatchTypeOK, Flush, Schedule
    <2>4. WatchTypeOK'
        BY <2>1, <2>2, <2>3 DEF WatchInv, WatchTypeOK, Flush
    <2>. QED
        BY <2>1, <2>2, <2>3, <2>4, <1>0
        DEF WatchInv, SingleFlight, ReadsFollowed, NothingForgotten, ClosedIsQuiet, IgnoredUnseen, Flush
<1>. QED
    BY <1>1, <1>2

LEMMA ReadFileKeeps ==
    ASSUME WatchInv, NEW r \in runs, NEW f \in Files, ReadFile(r, f)
    PROVE  WatchInv'
<1> DEFINE s == [r EXCEPT !.unread = @ \ {f}, !.read[f] = disk[f]]
<1>1. runs = {r} /\ r \in Runs
    BY DEF WatchInv, SingleFlight, WatchTypeOK
<1>2. runs' = {s}
    BY <1>1 DEF ReadFile
<1>3. s \in Runs /\ s.unread = r.unread \ {f}
    BY <1>1 DEF Runs, WatchInv, WatchTypeOK
<1>4. \A g \in Files : s.read[g] = IF g = f THEN disk[f] ELSE r.read[g]
    BY <1>1 DEF Runs
<1> HIDE DEF s
<1>5. WatchTypeOK'
    BY <1>1, <1>2, <1>3 DEF WatchInv, WatchTypeOK, ReadFile
<1>6. ReadsFollowed'
    BY <1>1, <1>2, <1>3, <1>4 DEF WatchInv, ReadsFollowed, Announced, ReadFile
<1>7. NothingForgotten'
    BY <1>1, <1>2, <1>3, <1>4 DEF WatchInv, NothingForgotten, ReadFile
<1>. QED
    BY <1>2, <1>5, <1>6, <1>7 DEF WatchInv, SingleFlight, ClosedIsQuiet, IgnoredUnseen, ReadFile

\* The end of a reindex: none runs any more, or one that has yet to read all.
LEMMA ContinueStarts ==
    ASSUME WatchInv, NEW r \in runs, Continue(r)
    PROVE  /\ queued' = {}
           /\ runs' \subseteq Runs
           /\ SingleFlight'
           /\ queued # {} => runs' # {}
           /\ \A s \in runs' : s.unread = Files
<1>1. runs = {r} /\ r.id \in Nat
    BY DEF WatchInv, SingleFlight, WatchTypeOK, Runs
<1>2. Begin(r.id) \in Runs /\ Begin(r.id).unread = Files
    BY <1>1, BeginType DEF WatchInv
<1>. QED
    BY <1>1, <1>2 DEF Continue, SingleFlight

LEMMA RunSucceedsKeeps ==
    ASSUME WatchInv, NEW r \in runs, RunSucceeds(r)
    PROVE  WatchInv'
<1>1. r \in Runs /\ r.unread = {}
    BY DEF WatchInv, WatchTypeOK, RunSucceeds
<1>2. Continue(r)
    BY DEF RunSucceeds
<1>3. /\ queued' = {} /\ runs' \subseteq Runs /\ SingleFlight'
      /\ queued # {} => runs' # {}
      /\ \A s \in runs' : s.unread = Files
    BY <1>2, ContinueStarts
<1>4. WatchTypeOK'
    BY <1>1, <1>3 DEF WatchInv, WatchTypeOK, RunSucceeds, Runs
<1>5. ReadsFollowed'
    BY <1>3 DEF ReadsFollowed
<1>6. NothingForgotten'
    BY <1>1, <1>3 DEF WatchInv, ReadsFollowed, NothingForgotten, Announced, RunSucceeds
<1>. QED
    BY <1>3, <1>4, <1>5, <1>6 DEF WatchInv, ClosedIsQuiet, IgnoredUnseen, RunSucceeds

LEMMA RunFailsKeeps ==
    ASSUME WatchInv, NEW r \in runs, RunFails(r)
    PROVE  WatchInv'
<1>1. Continue(r) /\ outcome' = "failed"
    BY DEF RunFails
<1>2. /\ queued' = {} /\ runs' \subseteq Runs /\ SingleFlight'
      /\ queued # {} => runs' # {}
      /\ \A s \in runs' : s.unread = Files
    BY <1>1, ContinueStarts
<1>3. indexed' \in [Files -> Versions]
    BY DEF WatchInv, WatchTypeOK, Runs, RunFails
<1>4. failures' \in 0..MaxFailures
    BY WatchAssumption DEF WatchInv, WatchTypeOK, RunFails
<1>5. WatchTypeOK'
    BY <1>1, <1>2, <1>3, <1>4 DEF WatchInv, WatchTypeOK, RunFails
<1>. QED
    BY <1>1, <1>2, <1>5 DEF WatchInv, ReadsFollowed, NothingForgotten, ClosedIsQuiet, IgnoredUnseen, RunFails

LEMMA TeardownKeeps ==
    ASSUME WatchInv, Sigint \/ AdapterClosed
    PROVE  WatchInv'
<1>1. teardown' \in {"watcher", "done"} /\ ~timer' /\ pending' = {}
    BY DEF WatchInv, WatchTypeOK, ClosedIsQuiet, Sigint, AdapterClosed
<1>2. UNCHANGED <<ready, disk, indexed, unseen, raised, runs, queued, started, edits, failures, outcome>>
    BY DEF Sigint, AdapterClosed
<1>3. timer' \in BOOLEAN
    BY DEF WatchInv, WatchTypeOK, Sigint, AdapterClosed
<1>4. WatchTypeOK'
    BY <1>1, <1>2, <1>3 DEF WatchInv, WatchTypeOK
<1>. QED
    BY <1>1, <1>2, <1>4
    DEF WatchInv, SingleFlight, ReadsFollowed, NothingForgotten, ClosedIsQuiet, IgnoredUnseen

LEMMA WatchStutters == WatchInv /\ UNCHANGED watchVars => WatchInv'
<1>1. WatchTypeOK /\ UNCHANGED watchVars => WatchTypeOK'
    BY DEF WatchTypeOK, watchVars
<1>2. NothingForgotten /\ UNCHANGED watchVars => NothingForgotten'
    BY DEF NothingForgotten, watchVars
<1>. QED
    BY <1>1, <1>2 DEF WatchInv, SingleFlight, ReadsFollowed, ClosedIsQuiet, IgnoredUnseen, Announced, watchVars

LEMMA WatchPreserved == WatchInv /\ [WatchNext]_watchVars => WatchInv'
<1> SUFFICES ASSUME WatchInv, [WatchNext]_watchVars PROVE WatchInv'
    OBVIOUS
<1>1. ASSUME NEW r \in runs, NEW f \in Files, ReadFile(r, f) PROVE WatchInv'
    BY <1>1, ReadFileKeeps
<1>2. ASSUME NEW r \in runs, RunSucceeds(r) \/ RunFails(r) PROVE WatchInv'
    BY <1>2, RunSucceedsKeeps, RunFailsKeeps
<1>. QED
    BY <1>1, <1>2, ReadyKeeps, EditKeeps, RawEventKeeps, FlushKeeps, TeardownKeeps, WatchStutters
    DEF WatchNext, RunStep

\* What the inductive invariant holds in every reachable state.
THEOREM WatchInvariance == WatchSpec => []WatchInv
BY WatchInitially, WatchPreserved, PTL DEF WatchSpec

LEMMA SingleFlightCounts == SingleFlight => NeverInterleaves
<1> SUFFICES ASSUME SingleFlight PROVE Cardinality(runs) <= 1
    BY DEF NeverInterleaves
<1>1. CASE runs = {}
    BY <1>1, FS_EmptySet
<1>2. CASE runs # {}
    <2> PICK r \in runs : runs = {r}
        BY <1>2 DEF SingleFlight
    <2>. QED
        BY FS_Singleton
<1>. QED
    BY <1>1, <1>2

\* Reindexes never overlap, and every announced change the index is behind on is
\* on its way to one, for any number of files, filters, edits and failures
\* (createReindexScheduler(), executeWatch(), createFileWatcher()).
THEOREM WatcherSound == WatchSpec => []WatchSound
<1>1. WatchInv => WatchSound
    BY SingleFlightCounts DEF WatchInv, WatchSound
<1>. QED
    BY <1>1, WatchInvariance, PTL

\* A watcher that is being closed starts no reindex any more: the only ones are
\* those the loop of drive() still owes to what was queued.
THEOREM ClosedWatcherStartsNothing == WatchSpec => NoRunAfterClose
<1>1. WatchInv /\ [WatchNext]_watchVars => (teardown # "no" /\ runs = {} => runs' = {})
    BY DEF WatchInv, ClosedIsQuiet, WatchNext, RunStep, WatcherReady, Edit, RawEvent, Flush, ReadFile,
           RunSucceeds, RunFails, Sigint, AdapterClosed, watchVars
<1>2. WatchInv /\ [WatchNext]_watchVars => [teardown # "no" /\ runs = {} => runs' = {}]_watchVars
    BY <1>1
<1>. QED
    BY <1>2, WatchInvariance, PTL DEF WatchSpec, NoRunAfterClose

-----------------------------------------------------------------------------
(* Settings: what each setting is read as, once and again.                 *)

AtMostOne(S) == \A x, y \in S : x = y
Port == "LADYBUG_SERVER_PORT"
Bytes == "LADYBUG_GRPC_MAX_MESSAGE_BYTES"
Mode == "LADYBUG_RUNTIME_MODE"

LEMMA TheOnly ==
    ASSUME NEW S, AtMostOne(S), NEW x \in S PROVE S = {x} /\ (CHOOSE y \in S : TRUE) = x
BY DEF AtMostOne

LEMMA RawIs ==
    ASSUME NEW v, NEW raw, IsRaw(v, raw)
    PROVE  \/ raw = Unset \/ raw = Empty \/ raw = Blank
           \/ raw.is = "number" /\ raw = Number(raw.n) /\ raw.n \in Int
           \/ raw.is = "text" /\ raw = Text(raw.text) /\ IsText(v, raw.text)
BY DEF IsRaw

LEMMA ParsedOnce ==
    ASSUME NEW v, NEW raw, IsRaw(v, raw)
    PROVE  AtMostOne(Parsed(raw)) /\ Parsed(raw) \subseteq Int
BY RawIs DEF AtMostOne, Parsed, Unset, Empty, Blank, Number, Text

LEMMA ServerIntegersAre ==
    /\ ServerIntegers \subseteq IntegerVars /\ IntegerVars \subseteq Variables
    /\ Port \in ServerIntegers /\ Bytes \in ServerIntegers
    /\ "LADYBUG_DB_LOCK_STALE_MS" \in ServerIntegers /\ "LADYBUG_DB_LOCK_RETRIES" \in ServerIntegers
BY DEF ServerIntegers, IntegerVars, Defaults, Variables, Port, Bytes

LEMMA IntegerOnce ==
    ASSUME NEW env, IsEnvironment(env), NEW v \in IntegerVars
    PROVE  AtMostOne(Integer(env, v))
<1>1. AtMostOne(Parsed(env[v]))
    BY ParsedOnce, ServerIntegersAre DEF IsEnvironment
<1>. QED
    BY <1>1 DEF Integer, AtMostOne

\* Where the manager can read an integer, limits.ts reads the same one.
LEMMA SameInteger ==
    ASSUME NEW env, IsEnvironment(env), NEW v \in IntegerVars, v # Port
    PROVE  Configured(env, v) = Integer(env, v)
BY DEF Configured, Integer, Given, AtMost, Port

LEMMA OneOfOnce ==
    ASSUME NEW raw, NEW words, NEW default
    PROVE  AtMostOne(OneOf(raw, words, default))
BY DEF AtMostOne, OneOf, Text

LEMMA EmbeddingOnce ==
    ASSUME NEW env, IsEnvironment(env) PROVE AtMostOne(LoadEmbedding(env))
<1>1. AtMostOne(Provider(env))
    BY OneOfOnce DEF Provider
<1>2. AtMostOne(OneOf(env["HF_DTYPE"], {"fp32", "fp16", "q8"}, "q8"))
    BY OneOfOnce
<1>3. AtMostOne(OneOf(env["HF_POOLING"], {"cls", "mean"}, "cls"))
    BY OneOfOnce
<1>4. AtMostOne(Integer(env, "HF_DIMENSIONS"))
    BY IntegerOnce DEF IntegerVars, Defaults
<1>. QED
    BY <1>1, <1>2, <1>3, <1>4 DEF LoadEmbedding, AtMostOne

LEMMA OllamaOnce ==
    ASSUME NEW env, IsEnvironment(env) PROVE AtMostOne(LoadOllama(env))
<1>1. AtMostOne(OllamaUrl(env["OLLAMA_URL"]))
    BY DEF OllamaUrl, AtMostOne
<1>2. AtMostOne(Integer(env, "OLLAMA_DIMENSIONS"))
    BY IntegerOnce DEF IntegerVars, Defaults
<1>. QED
    BY <1>1, <1>2 DEF LoadOllama, AtMostOne

LEMMA IsPrefixText == ASSUME NEW t, IsText("TYPOCOP_PREFIX", t) PROVE PrefixText(t)
BY DEF IsText

\* What the prefix validator lets through, it lets through again unchanged.
LEMMA PrefixOnce ==
    ASSUME NEW raw, IsRaw("TYPOCOP_PREFIX", raw), NEW p \in LoadPrefix(raw)
    PROVE  LoadPrefix(raw) = {p} /\ LoadPrefix(Text(p)) = {p}
<1>1. PrefixText(DefaultPrefix) /\ Validate(DefaultPrefix).valid /\ Normalize(DefaultPrefix) = DefaultPrefix
    <2>1. PrefixText(DefaultPrefix)
        BY DEF PrefixText, DefaultPrefix
    <2>3. Normalize(DefaultPrefix) = DefaultPrefix
        <3>1. \A q : PrefixText(q) /\ q.tail = TRUE => Normalize(q) = q
            BY DEF PrefixText, Normalize
        <3>. QED
            BY <2>1, <3>1 DEF DefaultPrefix
    <2>2. Validate(DefaultPrefix) = [valid |-> TRUE, suggestion |-> {}]
        BY PrefixAssumption DEF DefaultPrefix, Validate
    <2>. QED
        BY <2>1, <2>2, <2>3
<1>2. \A q : LoadPrefix(Text(q)) = IF Validate(q).valid THEN {Normalize(q)} ELSE {}
    BY DEF LoadPrefix, Text, Given, Unset, Empty, Blank
<1>3. \A q : PrefixText(q) /\ Validate(q).valid => Validate(Normalize(q)).valid /\ Normalize(Normalize(q)) = Normalize(q)
    BY DEF PrefixText, Validate, Normalize
<1>4. CASE ~Given(raw)
    <2>1. LoadPrefix(raw) = {DefaultPrefix}
        BY <1>4 DEF LoadPrefix
    <2>2. p = DefaultPrefix
        BY <2>1
    <2>. QED
        BY <1>1, <1>2, <2>1, <2>2
<1>5. CASE Given(raw)
    <2>1. raw.is = "text" /\ raw = Text(raw.text) /\ PrefixText(raw.text)
        <3>1. raw # Blank /\ raw.is # "number"
            BY <1>5 DEF LoadPrefix
        <3>. QED
            <4>1. raw.is = "text" /\ raw = Text(raw.text) /\ IsText("TYPOCOP_PREFIX", raw.text)
                BY <1>5, <3>1, RawIs DEF Given
            <4>2. PrefixText(raw.text)
                BY <4>1, IsPrefixText
            <4>. QED
                BY <4>1, <4>2
    <2>2. LoadPrefix(raw) = IF Validate(raw.text).valid THEN {Normalize(raw.text)} ELSE {}
        BY <1>2, <2>1
    <2>3. Validate(raw.text).valid /\ p = Normalize(raw.text)
        BY <2>2
    <2>. QED
        BY <1>2, <1>3, <2>1, <2>2, <2>3
<1>. QED
    BY <1>4, <1>5

LEMMA PathAgain ==
    ASSUME NEW v \in PathVars, NEW raw, IsRaw(v, raw), NEW name, NEW prefix, NEW other,
           ConfiguredPath(raw, Path(prefix, name)) # Blank
    PROVE  LET path == ConfiguredPath(raw, Path(prefix, name))
           IN  Given(path) /\ ConfiguredPath(path, other) = path
<1> DEFINE path == ConfiguredPath(raw, Path(prefix, name))
<1>1. CASE ~Given(raw)
    <2>1. path = Text(Path(prefix, name))
        BY <1>1 DEF ConfiguredPath
    <2>2. Given(Text(Path(prefix, name)))
        BY DEF Given, Text, Unset, Empty
    <2>3. ConfiguredPath(Text(Path(prefix, name)), other) = Text(Path(prefix, name))
        BY <2>2 DEF ConfiguredPath, Path, Text
    <2>. QED
        BY <2>1, <2>2, <2>3
<1>2. CASE Given(raw) /\ raw.is # "text"
    BY <1>2 DEF ConfiguredPath
<1>3. CASE Given(raw) /\ raw.is = "text"
    <2> DEFINE t == raw.text
               u == [home |-> FALSE, under |-> IF t.home THEN "home" ELSE t.under, name |-> t.name]
    <2>2. path = Text(u)
        BY <1>3 DEF ConfiguredPath, Path
    <2>3. Given(Text(u))
        BY DEF Given, Text, Unset, Empty
    <2>4. ConfiguredPath(Text(u), other) = Text(u)
        <3>1. ConfiguredPath(Text(u), other) = Text(Path(IF u.home THEN "home" ELSE u.under, u.name))
            BY <2>3 DEF ConfiguredPath, Text
        <3>2. ~u.home
            OBVIOUS
        <3>. QED
            BY <3>1, <3>2 DEF Path
    <2>. QED
        BY <2>2, <2>3, <2>4
<1>. QED
    BY <1>1, <1>2, <1>3

-----------------------------------------------------------------------------
(* Settings: the configuration as its parts, and the environment of a      *)
(* server.                                                                 *)

Modes(env) == {m \in OneOf(env[Mode], {"server", "client"}, "server") : \A v \in ServerIntegers : Integer(env, v) # {}}
Urls(env) == UNION {ServerUrl(env["LADYBUG_SERVER_URL"], m) : m \in OneOf(env[Mode], {"server", "client"}, "server")}

\* What loadLadybugDBConfig() makes of an environment whose mode and url it has read.
Database(env, prefix, mode, url) ==
    [dbPath    |-> ConfiguredPath(env["LADYBUGDB_PATH"], Path(prefix, "db")),
     lockPath  |-> ConfiguredPath(env["LADYBUG_SERVER_LOCK_PATH"], Path(prefix, "lock")),
     discoveryPath |-> ConfiguredPath(env["LADYBUG_SERVER_DISCOVERY_PATH"], Path(prefix, "discovery")),
     mode |-> mode, url |-> url,
     host |-> Word(env["LADYBUG_SERVER_HOST"], Text("loopback")),
     token |-> Word(env["LADYBUG_SERVER_AUTH_TOKEN"], Empty),
     autostart |-> ParseBoolean(env["LADYBUG_SERVER_AUTOSTART"]),
     integer |-> [v \in ServerIntegers |-> CHOOSE n \in Integer(env, v) : TRUE]]

LEMMA DatabaseLoaded ==
    ASSUME NEW env, NEW prefix
    PROVE  LoadLadybugDB(env, prefix) = {Database(env, prefix, mode, url) : mode \in Modes(env), url \in Urls(env)}
BY DEF LoadLadybugDB, Database, Modes, Urls, Mode

\* Everything a process is configured with.
Config(env, p, o, e, d) ==
    [prefix |-> p, ollama |-> o, embedding |-> e, db |-> d,
     source |-> IF \E v \in SourceVars : env[v] # Unset THEN "environment" ELSE "default"]

LEMMA ConfigLoaded ==
    ASSUME NEW env
    PROVE  \A c : c \in Load(env) <=>
               \E p \in LoadPrefix(env["TYPOCOP_PREFIX"]), o \in LoadOllama(env), e \in LoadEmbedding(env) :
                   \E d \in LoadLadybugDB(env, p) : c = Config(env, p, o, e, d)
BY DEF Load, Config

\* The environment in which a connection server reads its settings.
Told(env, args) == [ArgEnvOverrides(env, args) EXCEPT ![Mode] = Text("server")]

LEMMA ToldIs ==
    ASSUME NEW env, DOMAIN env = Variables, NEW args
    PROVE  /\ Told(env, args)[Mode] = Text("server")
           /\ \A v \in Variables \ {Mode} :
                  /\ v \notin DOMAIN args => Told(env, args)[v] = env[v]
                  /\ v \in DOMAIN args => Told(env, args)[v] = IF Given(args[v]) THEN args[v] ELSE env[v]
<1>1. Mode \in Variables
    BY DEF Mode, Variables
<1>2. DOMAIN ArgEnvOverrides(env, args) = Variables
    BY DEF ArgEnvOverrides
<1>. QED
    BY <1>1, <1>2 DEF Told, ArgEnvOverrides

LEMMA ServerLoadsTold == ASSUME NEW env, NEW args PROVE ServerLoads(env, args) = Load(Told(env, args))
BY DEF ServerLoads, Told, Mode

\* One integer that is read: its value.
LEMMA IntegerRead ==
    ASSUME NEW env, IsEnvironment(env), NEW v \in IntegerVars, Integer(env, v) # {}
    PROVE  LET n == CHOOSE n \in Integer(env, v) : TRUE
           IN  /\ Integer(env, v) = {n} /\ n \in Int /\ n >= AtLeast(v) /\ AtMost(v, n)
<1>1. PICK n : n \in Integer(env, v)
    OBVIOUS
<1>2. Integer(env, v) = {n} /\ (CHOOSE y \in Integer(env, v) : TRUE) = n
    BY <1>1, IntegerOnce, TheOnly
<1>3. n \in Int /\ n >= AtLeast(v) /\ AtMost(v, n)
    <2>1. CASE Given(env[v])
        <3>1. Parsed(env[v]) \subseteq Int
            BY ParsedOnce, ServerIntegersAre DEF IsEnvironment
        <3>. QED
            BY <1>1, <2>1, <3>1 DEF Integer
    <2>2. CASE ~Given(env[v])
        <3>1. n = Defaults[v]
            BY <1>1, <2>2 DEF Integer
        <3>. QED
            BY <3>1 DEF IntegerVars, Defaults, AtLeast, AtMost, Least
    <2>. QED
        BY <2>1, <2>2
<1>. QED
    BY <1>2, <1>3

\* A number on the command line is read as it is.
LEMMA NumberRead ==
    ASSUME NEW env, NEW v, NEW n \in Int, env[v] = Number(n), n >= AtLeast(v), AtMost(v, n)
    PROVE  Integer(env, v) = {n}
<1>1. Given(Number(n)) /\ Parsed(Number(n)) = {n}
    BY DEF Given, Parsed, Number, Unset, Empty, Blank
<1>. QED
    BY <1>1 DEF Integer

-----------------------------------------------------------------------------
(* Settings: the client that spawns.                                       *)

\* The settings of a client that is about to spawn a server, and of that server.
ClientReads(env, c) ==
    /\ IsEnvironment(env) /\ c \in Load(env)
    /\ c.db.mode = "client" /\ FactoryAccepts(c)
    /\ c.db.url.text.port \notin {{}, {0}}
UrlPort(c) == CHOOSE n \in c.db.url.text.port : TRUE
ServerOf(c) ==
    [c EXCEPT !.source = "environment", !.db.mode = "server", !.db.host = Text(c.db.url.text.host),
              !.db.integer["LADYBUG_SERVER_PORT"] = UrlPort(c)]

\* The parts of a client's settings.
ClientParts(env, c, p, o, e, url) ==
    /\ p \in LoadPrefix(env["TYPOCOP_PREFIX"]) /\ o \in LoadOllama(env) /\ e \in LoadEmbedding(env)
    /\ "client" \in Modes(env) /\ url \in Urls(env)
    /\ c = Config(env, p, o, e, Database(env, p, "client", url))

LEMMA ClientHasParts ==
    ASSUME NEW env, NEW c, ClientReads(env, c)
    PROVE  \E p, o, e, url : ClientParts(env, c, p, o, e, url)
<1>1. PICK p \in LoadPrefix(env["TYPOCOP_PREFIX"]), o \in LoadOllama(env), e \in LoadEmbedding(env) :
          \E d \in LoadLadybugDB(env, p) : c = Config(env, p, o, e, d)
    BY ConfigLoaded DEF ClientReads
<1>2. PICK d \in LoadLadybugDB(env, p) : c = Config(env, p, o, e, d)
    BY <1>1
<1>3. PICK mode \in Modes(env), url \in Urls(env) : d = Database(env, p, mode, url)
    BY <1>2, DatabaseLoaded
<1>4. mode = "client"
    BY <1>2, <1>3 DEF ClientReads, Config, Database
<1>. QED
    BY <1>1, <1>2, <1>3, <1>4 DEF ClientParts

LEMMA ModeOnce ==
    ASSUME NEW env, NEW m \in Modes(env)
    PROVE  OneOf(env[Mode], {"server", "client"}, "server") = {m}
<1>1. AtMostOne(OneOf(env[Mode], {"server", "client"}, "server"))
    BY OneOfOnce
<1>. QED
    BY <1>1, TheOnly DEF Modes

OnePort(ports) == \A m, n \in ports : m = n /\ n \in Nat /\ n <= 65535

LEMMA UrlText ==
    ASSUME NEW v \in UrlVars, NEW t, IsText(v, t)
    PROVE  OnePort(t.port)
BY DEF IsText, OnePort

\* The url of a client is one of the grpc scheme, with one port.
LEMMA ClientUrl ==
    ASSUME NEW env, IsEnvironment(env), "client" \in Modes(env), NEW url \in Urls(env), url.text.port \notin {{}, {0}}
    PROVE  /\ url = UrlGiven(env["LADYBUG_SERVER_URL"], DefaultUrl)
           /\ \E n \in Nat : n >= 1 /\ n <= 65535 /\ n = CHOOSE y \in url.text.port : TRUE
           /\ url.text.port = {CHOOSE y \in url.text.port : TRUE}
<1>1. url \in ServerUrl(env["LADYBUG_SERVER_URL"], "client")
    BY ModeOnce DEF Urls
<1>2. url = UrlGiven(env["LADYBUG_SERVER_URL"], DefaultUrl) /\ url.is = "text"
    BY <1>1 DEF ServerUrl, IsUrl
<1>3. OnePort(url.text.port)
    <2>1. CASE Given(env["LADYBUG_SERVER_URL"])
        <3>1. "LADYBUG_SERVER_URL" \in UrlVars /\ "LADYBUG_SERVER_URL" \in Variables
            BY DEF UrlVars, Variables
        <3>2. url = env["LADYBUG_SERVER_URL"] /\ IsRaw("LADYBUG_SERVER_URL", url)
            BY <1>2, <2>1, <3>1 DEF UrlGiven, IsEnvironment
        <3>3. IsText("LADYBUG_SERVER_URL", url.text)
            BY <1>2, <3>2, RawIs DEF Unset, Empty, Blank, Number
        <3>. QED
            BY <3>1, <3>3, UrlText
    <2>2. CASE ~Given(env["LADYBUG_SERVER_URL"])
        <3>1. url = Text(DefaultUrl)
            BY <1>2, <2>2 DEF UrlGiven
        <3>2. url.text.port = {7617}
            BY <3>1 DEF Text, DefaultUrl
        <3>. QED
            BY <3>2 DEF OnePort
    <2>. QED
        BY <2>1, <2>2
<1>4. PICK n : n \in url.text.port
    OBVIOUS
<1>5. url.text.port = {n} /\ (CHOOSE y \in url.text.port : TRUE) = n
    BY <1>3, <1>4, TheOnly DEF OnePort, AtMostOne
<1>6. n \in Nat /\ n <= 65535
    BY <1>3, <1>4 DEF OnePort
<1>7. n # 0
    BY <1>5
<1>. QED
    BY <1>2, <1>5, <1>6, <1>7

ArgVars == {"LADYBUGDB_PATH", "TYPOCOP_PREFIX", "LADYBUG_SERVER_HOST", Port, "LADYBUG_SERVER_AUTH_TOKEN", Bytes,
            "LADYBUG_SERVER_DISCOVERY_PATH"}

\* What the server is told by its arguments, and what it inherits.
LEMMA ToldByArgs ==
    ASSUME NEW env, NEW c, ClientReads(env, c)
    PROVE  LET told == Told(env, SpawnArgs(c)) IN
           /\ told[Mode] = Text("server")
           /\ \A v \in Variables \ (ArgVars \union {Mode}) : told[v] = env[v]
           /\ \A v \in ArgVars : told[v] = IF Given(SpawnArgs(c)[v]) THEN SpawnArgs(c)[v] ELSE env[v]
<1>1. DOMAIN SpawnArgs(c) = ArgVars
    BY DEF SpawnArgs, ArgVars, Port, Bytes
<1>2. ArgVars \subseteq Variables \ {Mode}
    BY DEF ArgVars, Variables, IntegerVars, Defaults, PathVars, Mode, Port, Bytes
<1>. QED
    BY <1>1, <1>2, ToldIs DEF ClientReads, IsEnvironment

LEMMA ArgsAre ==
    ASSUME NEW c, c.db.url.text.port # {}
    PROVE  /\ SpawnArgs(c)["LADYBUGDB_PATH"] = c.db.dbPath
           /\ SpawnArgs(c)["TYPOCOP_PREFIX"] = Text(c.prefix)
           /\ SpawnArgs(c)["LADYBUG_SERVER_HOST"] = Text(c.db.url.text.host)
           /\ SpawnArgs(c)[Port] = Number(UrlPort(c))
           /\ SpawnArgs(c)["LADYBUG_SERVER_AUTH_TOKEN"] = c.db.token
           /\ SpawnArgs(c)[Bytes] = Number(c.db.integer[Bytes])
           /\ SpawnArgs(c)["LADYBUG_SERVER_DISCOVERY_PATH"] = c.db.discoveryPath
BY DEF SpawnArgs, Port, Bytes, UrlPort

LEMMA ClientConfig ==
    ASSUME NEW env, NEW c, NEW p, NEW o, NEW e, NEW url, ClientParts(env, c, p, o, e, url)
    PROVE  /\ c.prefix = p /\ c.ollama = o /\ c.embedding = e
           /\ c.db = Database(env, p, "client", url)
           /\ c.db.url = url
           /\ c.db.dbPath = ConfiguredPath(env["LADYBUGDB_PATH"], Path(p, "db"))
           /\ c.db.discoveryPath = ConfiguredPath(env["LADYBUG_SERVER_DISCOVERY_PATH"], Path(p, "discovery"))
           /\ c.db.token = Word(env["LADYBUG_SERVER_AUTH_TOKEN"], Empty)
           /\ \A v \in ServerIntegers : c.db.integer[v] = CHOOSE n \in Integer(env, v) : TRUE
BY DEF ClientParts, Config, Database

LEMMA TextsAndNumbersAreGiven == /\ \A t : Given(Text(t))
                                 /\ \A n : Given(Number(n))
BY DEF Given, Text, Number, Unset, Empty

LEMMA ServerPaths ==
    ASSUME NEW env, NEW c, ClientReads(env, c), NEW p, NEW o, NEW e, NEW url, ClientParts(env, c, p, o, e, url)
    PROVE  LET told == Told(env, SpawnArgs(c)) IN
           /\ ConfiguredPath(told["LADYBUGDB_PATH"], Path(p, "db")) = c.db.dbPath
           /\ ConfiguredPath(told["LADYBUG_SERVER_DISCOVERY_PATH"], Path(p, "discovery")) = c.db.discoveryPath
           /\ told["LADYBUG_SERVER_LOCK_PATH"] = env["LADYBUG_SERVER_LOCK_PATH"]
<1> DEFINE told == Told(env, SpawnArgs(c))
<1>1. c.db.dbPath # Blank /\ c.db.discoveryPath # Blank
    <2>1. Blank \notin {c.db.dbPath, c.db.host, c.db.lockPath, c.db.discoveryPath}
        BY DEF ClientReads, FactoryAccepts
    <2>. QED
        BY <2>1
<1>2. /\ IsRaw("LADYBUGDB_PATH", env["LADYBUGDB_PATH"])
      /\ IsRaw("LADYBUG_SERVER_DISCOVERY_PATH", env["LADYBUG_SERVER_DISCOVERY_PATH"])
    BY DEF ClientReads, IsEnvironment, Variables, PathVars
<1>3. "LADYBUGDB_PATH" \in PathVars /\ "LADYBUG_SERVER_DISCOVERY_PATH" \in PathVars
    BY DEF PathVars
<1>4. Given(c.db.dbPath) /\ ConfiguredPath(c.db.dbPath, Path(p, "db")) = c.db.dbPath
    BY <1>1, <1>2, <1>3, PathAgain, ClientConfig
<1>5. Given(c.db.discoveryPath) /\ ConfiguredPath(c.db.discoveryPath, Path(p, "discovery")) = c.db.discoveryPath
    BY <1>1, <1>2, <1>3, PathAgain, ClientConfig
<1>6. c.db.url.text.port # {}
    BY DEF ClientReads
<1>7. told["LADYBUGDB_PATH"] = c.db.dbPath
    BY <1>4, <1>6, ArgsAre, ToldByArgs DEF ArgVars
<1>8. told["LADYBUG_SERVER_DISCOVERY_PATH"] = c.db.discoveryPath
    BY <1>5, <1>6, ArgsAre, ToldByArgs DEF ArgVars
<1>9. told["LADYBUG_SERVER_LOCK_PATH"] = env["LADYBUG_SERVER_LOCK_PATH"]
    BY ToldByArgs DEF ArgVars, Variables, PathVars, Mode, Port, Bytes
<1>. QED
    BY <1>4, <1>5, <1>7, <1>8, <1>9

LEMMA ServerWords ==
    ASSUME NEW env, NEW c, ClientReads(env, c), NEW p, NEW o, NEW e, NEW url, ClientParts(env, c, p, o, e, url)
    PROVE  LET told == Told(env, SpawnArgs(c)) IN
           /\ told["TYPOCOP_PREFIX"] = Text(p)
           /\ Word(told["LADYBUG_SERVER_HOST"], Text("loopback")) = Text(url.text.host)
           /\ Word(told["LADYBUG_SERVER_AUTH_TOKEN"], Empty) = c.db.token
<1> DEFINE told == Told(env, SpawnArgs(c))
           token == env["LADYBUG_SERVER_AUTH_TOKEN"]
<1>1. c.db.url.text.port # {}
    BY DEF ClientReads
<1>2. told["TYPOCOP_PREFIX"] = Text(p)
    BY <1>1, ArgsAre, ToldByArgs, ClientConfig, TextsAndNumbersAreGiven DEF ArgVars
<1>3. told["LADYBUG_SERVER_HOST"] = Text(url.text.host)
    BY <1>1, ArgsAre, ToldByArgs, ClientConfig, TextsAndNumbersAreGiven DEF ArgVars
<1>4. told["LADYBUG_SERVER_AUTH_TOKEN"] = IF Given(c.db.token) THEN c.db.token ELSE token
    BY <1>1, ArgsAre, ToldByArgs DEF ArgVars
<1>5. c.db.token = Word(token, Empty)
    BY ClientConfig
<1>6. Word(told["LADYBUG_SERVER_AUTH_TOKEN"], Empty) = c.db.token
    BY <1>4, <1>5 DEF Word, Given
<1>. QED
    BY <1>2, <1>3, <1>6, TextsAndNumbersAreGiven DEF Word

\* The server reads the integers of the client, but for its port.
LEMMA ServerIntegersRead ==
    ASSUME NEW env, NEW c, ClientReads(env, c), NEW p, NEW o, NEW e, NEW url, ClientParts(env, c, p, o, e, url),
           NEW v \in ServerIntegers
    PROVE  LET told == Told(env, SpawnArgs(c)) IN
           Integer(told, v) = {IF v = Port THEN UrlPort(c) ELSE c.db.integer[v]}
<1> DEFINE told == Told(env, SpawnArgs(c))
<1>1. c.db.url.text.port # {}
    BY DEF ClientReads
<1>2. /\ Integer(env, v) = {c.db.integer[v]} /\ c.db.integer[v] \in Int
      /\ c.db.integer[v] >= AtLeast(v) /\ AtMost(v, c.db.integer[v])
    <2>1. Integer(env, v) # {}
        BY DEF ClientParts, Modes
    <2>2. v \in IntegerVars /\ IsEnvironment(env)
        BY ServerIntegersAre DEF ClientReads
    <2>3. c.db.integer[v] = CHOOSE n \in Integer(env, v) : TRUE
        BY ClientConfig
    <2> HIDE DEF told
    <2>. QED
        BY <2>1, <2>2, <2>3, IntegerRead
<1>3. CASE v = Port
    <2>1. told[v] = Number(UrlPort(c))
        BY <1>1, <1>3, ArgsAre, ToldByArgs, TextsAndNumbersAreGiven DEF ArgVars
    <2>2. PICK n \in Nat : n >= 1 /\ n <= 65535 /\ n = UrlPort(c)
        BY ClientUrl, ClientConfig DEF UrlPort, ClientReads, ClientParts
    <2>3. AtLeast(v) = 1 /\ AtMost(v, n)
        BY <1>3, <2>2 DEF AtLeast, AtMost, Least, Port
    <2>. QED
        BY <1>3, <2>1, <2>2, <2>3, NumberRead
<1>4. CASE v = Bytes
    <2>1. told[v] = Number(c.db.integer[v])
        BY <1>1, <1>4, ArgsAre, ToldByArgs, TextsAndNumbersAreGiven DEF ArgVars
    <2>2. v # Port
        BY <1>4 DEF Bytes, Port
    <2>. QED
        BY <1>2, <2>1, <2>2, NumberRead
<1>5. CASE v \notin {Port, Bytes}
    <2>1. v \in Variables \ (ArgVars \union {Mode})
        BY <1>5, ServerIntegersAre DEF ServerIntegers, IntegerVars, Defaults, ArgVars, Mode
    <2>2. told[v] = env[v]
        BY <2>1, ToldByArgs
    <2>. QED
        BY <1>2, <1>5, <2>2 DEF Integer
<1>. QED
    BY <1>3, <1>4, <1>5

-----------------------------------------------------------------------------
(* Settings: the server that is spawned.                                   *)

\* The records of the manager, and what EXCEPT makes of them.
Db(d, l, f, m, u, h, t, a, i) ==
    [dbPath |-> d, lockPath |-> l, discoveryPath |-> f, mode |-> m, url |-> u, host |-> h, token |-> t,
     autostart |-> a, integer |-> i]
Full(p, o, e, d, s) == [prefix |-> p, ollama |-> o, embedding |-> e, db |-> d, source |-> s]

DbWith(r, m, h, v, n) == [r EXCEPT !.mode = m, !.host = h, !.integer[v] = n]
FullWith(r, s, m, h, v, n) == [r EXCEPT !.source = s, !.db.mode = m, !.db.host = h, !.db.integer[v] = n]

LEMMA DbChanged ==
    ASSUME NEW d, NEW l, NEW f, NEW m, NEW u, NEW h, NEW t, NEW a, NEW i, NEW m2, NEW h2, NEW v, NEW n
    PROVE  DbWith(Db(d, l, f, m, u, h, t, a, i), m2, h2, v, n) = Db(d, l, f, m2, u, h2, t, a, [i EXCEPT ![v] = n])
<1> DEFINE r == Db(d, l, f, m, u, h, t, a, i)
           r1 == [r EXCEPT !.mode = m2]
           r2 == [r1 EXCEPT !.host = h2]
           r3 == [r2 EXCEPT !.integer = [i EXCEPT ![v] = n]]
<1>1. r1 = Db(d, l, f, m2, u, h, t, a, i)
    BY DEF Db
<1>2. r2 = Db(d, l, f, m2, u, h2, t, a, i)
    <2> HIDE DEF r1
    <2>. QED
        BY <1>1 DEF Db
<1>3. r3 = Db(d, l, f, m2, u, h2, t, a, [i EXCEPT ![v] = n])
    <2> HIDE DEF r2
    <2>. QED
        BY <1>2 DEF Db
<1>4. r2.integer = i
    BY <1>2 DEF Db
<1>5. [r EXCEPT !.mode = m2, !.host = h2, !.integer[v] = n] = [r2 EXCEPT !.integer[v] = n]
    OBVIOUS
<1>6. [r2 EXCEPT !.integer[v] = n] = [r2 EXCEPT !.integer = [@ EXCEPT ![v] = n]]
    <2> HIDE DEF r2
    <2>. QED
        OBVIOUS
<1>7. [r2 EXCEPT !.integer = [@ EXCEPT ![v] = n]] = r3
    <2> HIDE DEF r2
    <2>. QED
        BY <1>4
<1>. QED
    BY <1>3, <1>5, <1>6, <1>7 DEF DbWith

LEMMA FullChanged ==
    ASSUME NEW p, NEW o, NEW e, NEW d, NEW s, NEW s2, NEW m2, NEW h2, NEW v, NEW n
    PROVE  FullWith(Full(p, o, e, d, s), s2, m2, h2, v, n) = Full(p, o, e, DbWith(d, m2, h2, v, n), s2)
<1> DEFINE r == Full(p, o, e, d, s)
           d3 == [d EXCEPT !.mode = m2, !.host = h2, !.integer[v] = n]
           r1 == [r EXCEPT !.source = s2]
<1>1. r1 = Full(p, o, e, d, s2) /\ r1.db = d
    BY DEF Full
<1>2. [r EXCEPT !.source = s2, !.db.mode = m2, !.db.host = h2, !.db.integer[v] = n]
      = [r1 EXCEPT !.db = [@ EXCEPT !.mode = m2, !.host = h2, !.integer[v] = n]]
    <2>1. [r EXCEPT !.source = s2, !.db.mode = m2, !.db.host = h2, !.db.integer[v] = n]
          = [r1 EXCEPT !.db.mode = m2, !.db.host = h2, !.db.integer[v] = n]
        OBVIOUS
    <2>2. [r1 EXCEPT !.db.mode = m2, !.db.host = h2, !.db.integer[v] = n]
          = [[r1 EXCEPT !.db.mode = m2, !.db.host = h2] EXCEPT !.db.integer[v] = n]
        OBVIOUS
    <2>3. \A x : [x EXCEPT !.db.mode = m2, !.db.host = h2] = [x EXCEPT !.db = [@ EXCEPT !.mode = m2, !.host = h2]]
        OBVIOUS
    <2>4. \A x : [x EXCEPT !.db.integer[v] = n] = [x EXCEPT !.db = [@ EXCEPT !.integer[v] = n]]
        OBVIOUS
    <2>5. \A x, y : [[x EXCEPT !.db = y] EXCEPT !.db = [@ EXCEPT !.integer[v] = n]] = [x EXCEPT !.db = [y EXCEPT !.integer[v] = n]]
        OBVIOUS
    <2> DEFINE y == [r1.db EXCEPT !.mode = m2, !.host = h2]
               a == [r1 EXCEPT !.db.mode = m2, !.db.host = h2]
               z == [y EXCEPT !.integer[v] = n]
    <2>6. z = [r1.db EXCEPT !.mode = m2, !.host = h2, !.integer[v] = n]
        OBVIOUS
    <2>7. a = [r1 EXCEPT !.db = y]
        BY <2>3
    <2>8. [a EXCEPT !.db.integer[v] = n] = [a EXCEPT !.db = [@ EXCEPT !.integer[v] = n]]
        BY <2>4
    <2>9. [[r1 EXCEPT !.db = y] EXCEPT !.db = [@ EXCEPT !.integer[v] = n]] = [r1 EXCEPT !.db = z]
        BY <2>5
    <2>10. [a EXCEPT !.db.integer[v] = n] = [r1 EXCEPT !.db = z]
        <3> HIDE DEF r1, a, y, z
        <3>. QED
            BY <2>7, <2>8, <2>9
    <2>11. [r EXCEPT !.source = s2, !.db.mode = m2, !.db.host = h2, !.db.integer[v] = n] = [a EXCEPT !.db.integer[v] = n]
        OBVIOUS
    <2>12. [r1 EXCEPT !.db = z] = [r1 EXCEPT !.db = [@ EXCEPT !.mode = m2, !.host = h2, !.integer[v] = n]]
        OBVIOUS
    <2> HIDE DEF r1, a, y, z
    <2>. QED
        BY <2>10, <2>11, <2>12
<1>3. [r1 EXCEPT !.db = [@ EXCEPT !.mode = m2, !.host = h2, !.integer[v] = n]] = [r1 EXCEPT !.db = d3]
    <2> HIDE DEF r1
    <2>. QED
        BY <1>1
<1>4. [r1 EXCEPT !.db = d3] = Full(p, o, e, d3, s2)
    <2> HIDE DEF r1, d3
    <2>. QED
        BY <1>1 DEF Full
<1>. QED
    BY <1>2, <1>3, <1>4 DEF FullWith, DbWith

LEMMA Inherited ==
    ASSUME NEW env, NEW c, ClientReads(env, c)
    PROVE  LET told == Told(env, SpawnArgs(c)) IN
           /\ LoadOllama(told) = LoadOllama(env)
           /\ LoadEmbedding(told) = LoadEmbedding(env)
           /\ told["LADYBUG_SERVER_URL"] = env["LADYBUG_SERVER_URL"]
           /\ told["LADYBUG_SERVER_AUTOSTART"] = env["LADYBUG_SERVER_AUTOSTART"]
<1> DEFINE told == Told(env, SpawnArgs(c))
           names == {"OLLAMA_ENABLED", "OLLAMA_URL", "OLLAMA_DIMENSIONS", "EMBEDDING_PROVIDER", "HF_DTYPE", "HF_POOLING",
                     "HF_DIMENSIONS", "LADYBUG_SERVER_URL", "LADYBUG_SERVER_AUTOSTART"}
<1>1. names \subseteq Variables \ (ArgVars \union {Mode})
    BY DEF Variables, IntegerVars, Defaults, UrlVars, ArgVars, Mode, Port, Bytes
<1>2. \A v \in names : told[v] = env[v]
    BY <1>1, ToldByArgs
<1>3. /\ told["OLLAMA_ENABLED"] = env["OLLAMA_ENABLED"] /\ told["OLLAMA_URL"] = env["OLLAMA_URL"]
      /\ told["OLLAMA_DIMENSIONS"] = env["OLLAMA_DIMENSIONS"] /\ told["HF_DIMENSIONS"] = env["HF_DIMENSIONS"]
      /\ told["EMBEDDING_PROVIDER"] = env["EMBEDDING_PROVIDER"] /\ told["HF_DTYPE"] = env["HF_DTYPE"]
      /\ told["HF_POOLING"] = env["HF_POOLING"] /\ told["LADYBUG_SERVER_URL"] = env["LADYBUG_SERVER_URL"]
      /\ told["LADYBUG_SERVER_AUTOSTART"] = env["LADYBUG_SERVER_AUTOSTART"]
    BY <1>2
<1> HIDE DEF told, names
<1>4. Integer(told, "OLLAMA_DIMENSIONS") = Integer(env, "OLLAMA_DIMENSIONS")
    BY <1>3 DEF Integer
<1>5. Integer(told, "HF_DIMENSIONS") = Integer(env, "HF_DIMENSIONS")
    BY <1>3 DEF Integer
<1>6. Provider(told) = Provider(env)
    BY <1>3 DEF Provider
<1>7. LoadOllama(told) = LoadOllama(env)
    BY <1>3, <1>4 DEF LoadOllama
<1>8. LoadEmbedding(told) = LoadEmbedding(env)
    BY <1>3, <1>5, <1>6 DEF LoadEmbedding
<1>. QED
    BY <1>3, <1>7, <1>8 DEF told

LEMMA ServerModeAndUrl ==
    ASSUME NEW env, NEW c, ClientReads(env, c), NEW p, NEW o, NEW e, NEW url, ClientParts(env, c, p, o, e, url)
    PROVE  LET told == Told(env, SpawnArgs(c)) IN Modes(told) = {"server"} /\ Urls(told) = {url}
<1> DEFINE told == Told(env, SpawnArgs(c))
<1>1. told[Mode] = Text("server") /\ told["LADYBUG_SERVER_URL"] = env["LADYBUG_SERVER_URL"]
    BY ToldByArgs, Inherited
<1>2. \A v \in ServerIntegers : Integer(told, v) # {}
    BY ServerIntegersRead
<1>3. url = UrlGiven(env["LADYBUG_SERVER_URL"], DefaultUrl)
    BY ClientUrl, ClientConfig DEF ClientReads, ClientParts
<1> HIDE DEF told
<1>4. OneOf(told[Mode], {"server", "client"}, "server") = {"server"}
    BY <1>1, TextsAndNumbersAreGiven DEF OneOf, Text
<1>5. Modes(told) = {"server"}
    BY <1>2, <1>4 DEF Modes
<1>6. ServerUrl(told["LADYBUG_SERVER_URL"], "server") = {url}
    BY <1>1, <1>3 DEF ServerUrl
<1>7. Urls(told) = {url}
    BY <1>4, <1>6 DEF Urls
<1>. QED
    BY <1>5, <1>7 DEF told

LEMMA ServerDatabase ==
    ASSUME NEW env, NEW c, ClientReads(env, c), NEW p, NEW o, NEW e, NEW url, ClientParts(env, c, p, o, e, url)
    PROVE  LoadLadybugDB(Told(env, SpawnArgs(c)), p)
               = {DbWith(c.db, "server", Text(url.text.host), Port, UrlPort(c))}
<1> DEFINE told == Told(env, SpawnArgs(c))
           lock == ConfiguredPath(env["LADYBUG_SERVER_LOCK_PATH"], Path(p, "lock"))
           auto == ParseBoolean(env["LADYBUG_SERVER_AUTOSTART"])
           ints == [c.db.integer EXCEPT ![Port] = UrlPort(c)]
           read == [v \in ServerIntegers |-> CHOOSE n \in Integer(told, v) : TRUE]
<1>1. LoadLadybugDB(told, p) = {Database(told, p, "server", url)}
    <2>1. Modes(told) = {"server"} /\ Urls(told) = {url}
        BY ServerModeAndUrl
    <2> HIDE DEF told
    <2>. QED
        BY <2>1, DatabaseLoaded
<1>2. read = ints
    <2>1. c.db.integer = [v \in ServerIntegers |-> CHOOSE n \in Integer(env, v) : TRUE]
        <3>1. c.db = Database(env, p, "client", url)
            BY ClientConfig
        <3>2. Database(env, p, "client", url).integer = [v \in ServerIntegers |-> CHOOSE n \in Integer(env, v) : TRUE]
            BY DEF Database
        <3>. QED
            BY <3>1, <3>2
    <2>2. \A v \in ServerIntegers : Integer(told, v) = {IF v = Port THEN UrlPort(c) ELSE c.db.integer[v]}
        BY ServerIntegersRead
    <2>3. \A v \in ServerIntegers : read[v] = IF v = Port THEN UrlPort(c) ELSE c.db.integer[v]
        <3> HIDE DEF told
        <3>. QED
            BY <2>2
    <2>4. ints = [v \in ServerIntegers |-> IF v = Port THEN UrlPort(c) ELSE c.db.integer[v]]
        BY <2>1
    <2> HIDE DEF told
    <2>. QED
        BY <2>2, <2>3, <2>4
<1>3. /\ ConfiguredPath(told["LADYBUGDB_PATH"], Path(p, "db")) = c.db.dbPath
      /\ ConfiguredPath(told["LADYBUG_SERVER_DISCOVERY_PATH"], Path(p, "discovery")) = c.db.discoveryPath
      /\ told["LADYBUG_SERVER_LOCK_PATH"] = env["LADYBUG_SERVER_LOCK_PATH"]
    BY ServerPaths
<1>4. /\ Word(told["LADYBUG_SERVER_HOST"], Text("loopback")) = Text(url.text.host)
      /\ Word(told["LADYBUG_SERVER_AUTH_TOKEN"], Empty) = c.db.token
    BY ServerWords
<1>5. told["LADYBUG_SERVER_AUTOSTART"] = env["LADYBUG_SERVER_AUTOSTART"]
    BY Inherited
<1> HIDE DEF told, read, ints
<1>6. Database(told, p, "server", url)
      = Db(c.db.dbPath, lock, c.db.discoveryPath, "server", url, Text(url.text.host), c.db.token, auto, read)
    BY <1>3, <1>4, <1>5 DEF Database, Db, read
<1>7. c.db = Db(c.db.dbPath, lock, c.db.discoveryPath, "client", url, c.db.host, c.db.token, auto, c.db.integer)
    <2>1. c.db = Database(env, p, "client", url)
        BY ClientConfig
    <2>2. LET r == Database(env, p, "client", url)
          IN  r = Db(r.dbPath, lock, r.discoveryPath, "client", url, r.host, r.token, auto, r.integer)
        BY DEF Database, Db
    <2>. QED
        BY <2>1, <2>2
<1>8. DbWith(c.db, "server", Text(url.text.host), Port, UrlPort(c))
      = Db(c.db.dbPath, lock, c.db.discoveryPath, "server", url, Text(url.text.host), c.db.token, auto, ints)
    BY <1>7, DbChanged DEF ints
<1>. QED
    BY <1>1, <1>2, <1>6, <1>8 DEF told

LEMMA ServerConfig ==
    ASSUME NEW env, NEW c, ClientReads(env, c)
    PROVE  ServerLoads(env, SpawnArgs(c)) = {ServerOf(c)}
<1> DEFINE told == Told(env, SpawnArgs(c))
<1>1. PICK p, o, e, url : ClientParts(env, c, p, o, e, url)
    BY ClientHasParts
<1> DEFINE d == DbWith(c.db, "server", Text(url.text.host), Port, UrlPort(c))
<1>2. LoadPrefix(told["TYPOCOP_PREFIX"]) = {p}
    <2>1. IsRaw("TYPOCOP_PREFIX", env["TYPOCOP_PREFIX"])
        BY DEF ClientReads, IsEnvironment, Variables
    <2>2. p \in LoadPrefix(env["TYPOCOP_PREFIX"]) /\ told["TYPOCOP_PREFIX"] = Text(p)
        BY <1>1, ServerWords DEF ClientParts
    <2> HIDE DEF told
    <2>. QED
        BY <2>1, <2>2, PrefixOnce
<1>3. LoadOllama(told) = {o} /\ LoadEmbedding(told) = {e}
    <2>1. LoadOllama(env) = {o} /\ LoadEmbedding(env) = {e}
        BY <1>1, OllamaOnce, EmbeddingOnce, TheOnly DEF ClientParts, ClientReads
    <2>2. LoadOllama(told) = LoadOllama(env) /\ LoadEmbedding(told) = LoadEmbedding(env)
        BY Inherited
    <2>. QED
        BY <2>1, <2>2
<1>4. LoadLadybugDB(told, p) = {d}
    BY <1>1, ServerDatabase
<1>5. Config(told, p, o, e, d) = Full(p, o, e, d, "environment")
    <2>1. told["TYPOCOP_PREFIX"] = Text(p)
        BY <1>1, ServerWords
    <2>2. "TYPOCOP_PREFIX" \in SourceVars
        BY DEF SourceVars, Variables
    <2>3. Text(p) # Unset
        BY DEF Text, Unset
    <2>4. \E v \in SourceVars : told[v] # Unset
        BY <2>1, <2>2, <2>3
    <2> HIDE DEF told, d
    <2>. QED
        BY <2>4 DEF Config, Full
<1>6. Load(told) = {Full(p, o, e, d, "environment")}
    <2> HIDE DEF told, d
    <2>1. \A x : x \in Load(told) <=> x = Config(told, p, o, e, d)
        <3>1. \A x : x \in Load(told) <=>
                  \E p1 \in LoadPrefix(told["TYPOCOP_PREFIX"]), o1 \in LoadOllama(told), e1 \in LoadEmbedding(told) :
                      \E d1 \in LoadLadybugDB(told, p1) : x = Config(told, p1, o1, e1, d1)
            BY ConfigLoaded
        <3>. QED
            BY <1>2, <1>3, <1>4, <3>1
    <2>. QED
        BY <1>5, <2>1
<1>7. ServerOf(c) = Full(p, o, e, d, "environment")
    <2>1. c = Full(p, o, e, c.db, c.source)
        BY <1>1 DEF ClientParts, Config, Full
    <2>2. c.db.url = url
        BY <1>1, ClientConfig
    <2>3. FullWith(c, "environment", "server", Text(url.text.host), Port, UrlPort(c))
          = Full(p, o, e, d, "environment")
        BY <2>1, FullChanged
    <2>. QED
        BY <2>2, <2>3 DEF ServerOf, FullWith, Port
<1>. QED
    BY <1>6, <1>7, ServerLoadsTold

\* limits.ts reads what the manager reads.
LEMMA LimitsAgree ==
    ASSUME NEW env, IsEnvironment(env), NEW c \in Load(env)
    PROVE  /\ \A r \in Limits(env) :
                  /\ c.db.integer[Bytes] = r.bytes
                  /\ c.db.integer["LADYBUG_DB_LOCK_STALE_MS"] = r.stale
                  /\ c.db.integer["LADYBUG_DB_LOCK_RETRIES"] = r.retries
           /\ Limits(env) # {}
<1> DEFINE three == {Bytes, "LADYBUG_DB_LOCK_STALE_MS", "LADYBUG_DB_LOCK_RETRIES"}
<1>1. PICK p, d : d \in LoadLadybugDB(env, p) /\ c.db = d
    BY ConfigLoaded DEF Config
<1>2. PICK mode \in Modes(env), url \in Urls(env) : d = Database(env, p, mode, url)
    BY <1>1, DatabaseLoaded
<1>3. ASSUME NEW v \in three PROVE Configured(env, v) = {c.db.integer[v]}
    <2>1. v \in ServerIntegers /\ v \in IntegerVars /\ v # Port
        BY ServerIntegersAre DEF Bytes, Port
    <2>2. Integer(env, v) # {}
        BY <2>1 DEF Modes
    <2>3. Database(env, p, mode, url).integer[v] = CHOOSE n \in Integer(env, v) : TRUE
        BY <2>1 DEF Database
    <2>4. Integer(env, v) = {CHOOSE n \in Integer(env, v) : TRUE}
        BY <2>1, <2>2, IntegerRead
    <2>. QED
        BY <1>1, <1>2, <2>1, <2>3, <2>4, SameInteger
<1>4. /\ Configured(env, "LADYBUG_GRPC_MAX_MESSAGE_BYTES") = {c.db.integer[Bytes]}
      /\ Configured(env, "LADYBUG_DB_LOCK_STALE_MS") = {c.db.integer["LADYBUG_DB_LOCK_STALE_MS"]}
      /\ Configured(env, "LADYBUG_DB_LOCK_RETRIES") = {c.db.integer["LADYBUG_DB_LOCK_RETRIES"]}
    BY <1>3 DEF Bytes
<1> DEFINE limits(b, l, r) ==
               [bytes |-> b, budget |-> PayloadBudget(b), page |-> PageSize(b), stale |-> l, retries |-> r,
                batch |-> OrDefault(env["EMBEDDING_BATCH_SIZE"], 16), batching |-> Flag(env["EMBEDDING_ENABLE_BATCH"]),
                cache |-> OrDefault(env["EMBEDDING_CACHE_MAX_ENTRIES"], 200000)]
<1>5. Limits(env) = {limits(b, l, r) : b \in Configured(env, "LADYBUG_GRPC_MAX_MESSAGE_BYTES"),
                         l \in Configured(env, "LADYBUG_DB_LOCK_STALE_MS"), r \in Configured(env, "LADYBUG_DB_LOCK_RETRIES")}
    BY DEF Limits
<1>6. \A b, l, r : limits(b, l, r).bytes = b /\ limits(b, l, r).stale = l /\ limits(b, l, r).retries = r
    OBVIOUS
<1> DEFINE b0 == c.db.integer[Bytes]
           l0 == c.db.integer["LADYBUG_DB_LOCK_STALE_MS"]
           r0 == c.db.integer["LADYBUG_DB_LOCK_RETRIES"]
<1>7. Limits(env) = {limits(b0, l0, r0)}
    <2> HIDE DEF limits, b0, l0, r0
    <2>. QED
        BY <1>4, <1>5 DEF b0, l0, r0
<1>8. limits(b0, l0, r0).bytes = b0 /\ limits(b0, l0, r0).stale = l0 /\ limits(b0, l0, r0).retries = r0
    BY <1>6
<1> HIDE DEF limits, three
<1>. QED
    BY <1>7, <1>8

\* What is loaded is what the manager and limits.ts make of the environment.
SettingsInv ==
    /\ environment \in Environments
    /\ loaded \subseteq {[config |-> Load(environment), limits |-> Limits(environment)]}

LEMMA SettingsInvAgrees == SettingsInv => SpawnedServerAgrees
<1> SUFFICES ASSUME SettingsInv, NEW l \in loaded
             PROVE  /\ \A c \in {c \in l.config : c.db.mode = "client" /\ FactoryAccepts(c)} :
                           c.db.url.text.port \notin {{}, {0}} => ServerLoads(environment, SpawnArgs(c)) = {ServerOf(c)}
                    /\ \A c \in l.config, r \in l.limits :
                           /\ c.db.integer["LADYBUG_GRPC_MAX_MESSAGE_BYTES"] = r.bytes
                           /\ c.db.integer["LADYBUG_DB_LOCK_STALE_MS"] = r.stale
                           /\ c.db.integer["LADYBUG_DB_LOCK_RETRIES"] = r.retries
                    /\ l.config # {} => l.limits # {}
    BY DEF SpawnedServerAgrees, ServerOf, UrlPort
<1>1. IsEnvironment(environment)
    BY EnvironmentsAssumption DEF SettingsInv
<1>2. l.config = Load(environment) /\ l.limits = Limits(environment)
    BY DEF SettingsInv
<1>3. ASSUME NEW c \in l.config, c.db.mode = "client", FactoryAccepts(c), c.db.url.text.port \notin {{}, {0}}
      PROVE  ServerLoads(environment, SpawnArgs(c)) = {ServerOf(c)}
    BY <1>1, <1>2, <1>3, ServerConfig DEF ClientReads
<1>4. ASSUME NEW c \in l.config
      PROVE  /\ \A r \in l.limits :
                    /\ c.db.integer["LADYBUG_GRPC_MAX_MESSAGE_BYTES"] = r.bytes
                    /\ c.db.integer["LADYBUG_DB_LOCK_STALE_MS"] = r.stale
                    /\ c.db.integer["LADYBUG_DB_LOCK_RETRIES"] = r.retries
             /\ l.limits # {}
    BY <1>1, <1>2, LimitsAgree DEF Bytes
<1>. QED
    BY <1>3, <1>4

\* A spawned server loads the settings of the client that spawned it, whatever
\* the environment the client was started in, and limits.ts reads the numbers
\* the manager reads (spawnConnectionServer(), applyArgEnvOverrides()).
THEOREM SpawnedServersAlwaysAgree == SettingsSpec => []SpawnedServerAgrees
<1>1. SettingsInit => SettingsInv
    BY DEF SettingsInit, SettingsInv
<1>2. SettingsInv /\ [LoadSettings]_settingsVars => SettingsInv'
    BY DEF SettingsInv, LoadSettings, settingsVars
<1>. QED
    BY <1>1, <1>2, SettingsInvAgrees, PTL DEF SettingsSpec
=============================================================================
