--------------------------- MODULE ConnectionProofs ---------------------------
(***************************************************************************)
(* Proofs about the two ends of a connection and what passes between them  *)
(* when it is made, each for any values of its constants.                  *)
(*                                                                         *)
(* ServerLifecycle: what clients and successors may rely on in the two     *)
(* files a server leaves in the file system (LifecycleSound).  A process   *)
(* reads nothing of another's state, and of the two names only whether     *)
(* they are its own.  The inductive invariant is therefore one predicate,  *)
(* Good(s, l, d), of the state s of a process, of l: the lock directory is *)
(* the one it made, and of d: the discovery file is the one it wrote.  It  *)
(* only gets easier when l or d become false, which is all the other       *)
(* processes can do to it.                                                 *)
(*                                                                         *)
(* RemoteClient: no channel is leaked and none is opened after a quiet     *)
(* close, and a call is sent again over a newer bundle, and only if it is  *)
(* worth it.  None of this is inductive without what a reconnect under way *)
(* stands between (ConnectingInv): the bundle it makes is newer than the   *)
(* current one and than that of every call that may still join it          *)
(* (CallInv).                                                              *)
(***************************************************************************)
EXTENDS ServerLifecycle, RemoteClient, TLAPS

-----------------------------------------------------------------------------
(* The server.                                                             *)

\* A process that has exited has left nothing behind, with the exceptions of
\* NoOrphans.
LeftNothing(s, l, d) ==
    s.life = "exited" /\ s.db # "none" =>
        /\ l => s.shutdown \in {"cleanup", "unlock"}
        /\ d => s.early \/ s.stuck

\* How far startup has come, and what it owns by then.
StartupOf(s, l, d) ==
    /\ s.startup = "locking" => ~l
    /\ s.startup \in {"locking", "opening"} =>
           s.db = "none" /\ s.shutdown = "none" /\ ~s.net
    /\ s.startup \notin {"locking", "opening"} => s.db # "none"
    /\ d => s.startup \in {"advertised", "up"}
    /\ ~s.net => \/ s.startup \in {"locking", "opening", "aborting"}
                 \/ s.shutdown = "done"

\* How far shutdown() has come, and what is left by then.
ShutdownOf(s, l, d) ==
    /\ /\ s.startup \in {"binding", "advertising", "advertised", "up"}
       /\ s.shutdown \in {"none", "unadvertise", "stopping"}
       => s.db = "open"
    /\ s.cleanedUp <=> s.shutdown \in {"cleanup", "unlock", "done"}
    /\ s.shutdown = "done" => ~l
    /\ d /\ s.shutdown \notin {"none", "unadvertise"} => s.early \/ s.stuck
    /\ s.shutdown # "none" /\ ~s.early => s.startup = "up"

Good(s, l, d) ==
    /\ s \in State
    /\ s.life = "down" => s = Fresh /\ ~l /\ ~d
    /\ s.hardExit => s.shutdown \notin {"none", "done"}
    /\ s.startup # "none" <=> s.life = "alive"
    /\ LeftNothing(s, l, d)
    /\ s.life = "alive" => StartupOf(s, l, d) /\ ShutdownOf(s, l, d)

IInv ==
    /\ srv \in [Servers -> State]
    /\ lockDir \in Servers \union {None}
    /\ discovery \in Servers \union {None}
    /\ faults \in 0..MaxFaults
    /\ \A p \in Servers : Good(srv[p], lockDir = p, discovery = p)

-----------------------------------------------------------------------------
(* One process at a time.                                                  *)

\* Losing a name never hurts.
LEMMA LosingIsHarmless ==
    ASSUME NEW s, NEW l, NEW d, NEW l2, NEW d2, Good(s, l, d),
           l2 => l, d2 => d
    PROVE  Good(s, l2, d2)
  BY DEF Good, LeftNothing, StartupOf, ShutdownOf

\* What is left to show of a step of process p: that its own state is good.
LEMMA OneStep ==
    ASSUME IInv, NEW p \in Servers, NEW s,
           srv' = [srv EXCEPT ![p] = s],
           lockDir' \in {lockDir, None, p}, discovery' \in {discovery, None, p},
           faults' \in 0..MaxFaults,
           Good(s, lockDir' = p, discovery' = p)
    PROVE  IInv'
<1>1. s \in State
  BY DEF Good
<1>2. srv' \in [Servers -> State]
  BY <1>1 DEF IInv
<1>3. lockDir' \in Servers \union {None} /\ discovery' \in Servers \union {None}
  BY DEF IInv
<1>4. ASSUME NEW q \in Servers
      PROVE  Good(srv'[q], lockDir' = q, discovery' = q)
  <2>1. CASE q = p
    BY <2>1 DEF IInv
  <2>2. CASE q # p
    <3>1. /\ srv'[q] = srv[q]
          /\ lockDir' = q => lockDir = q
          /\ discovery' = q => discovery = q
      BY <2>2, ServersAssumption DEF IInv
    <3>2. Good(srv[q], lockDir = q, discovery = q)
      BY DEF IInv
    <3> QED  BY <3>1, <3>2, LosingIsHarmless, ZenonT(60)
  <2> QED  BY <2>1, <2>2
<1> QED  BY <1>2, <1>3, <1>4 DEF IInv

\* A killed process has no obligations.
LEMMA KilledGood ==
    ASSUME NEW s, NEW l, NEW d
    PROVE  Good(Gone(s, "killed"), l, d)
  BY DEF Gone, Fresh, State, Good, LeftNothing

LEMMA FreshIs ==
    /\ Fresh \in State /\ Fresh.life = "down" /\ Fresh.startup = "none"
    /\ Fresh.shutdown = "none" /\ Fresh.db = "none" /\ ~Fresh.hardExit
    /\ ~Fresh.cleanedUp /\ ~Fresh.net
  BY DEF Fresh, State

\* A process that exits.
LEMMA ExitedGood ==
    ASSUME NEW s \in State, NEW l, NEW d,
           s.db # "none" =>
               /\ l => s.shutdown \in {"cleanup", "unlock"}
               /\ d => s.early \/ s.stuck
    PROVE  Good(Gone(s, "exited"), l, d)
<1> DEFINE g == Gone(s, "exited")
           shut == IF s.shutdown \in {"cleanup", "unlock"}
                   THEN s.shutdown ELSE "none"
           base == IF s.db = "none" THEN "none" ELSE "closed"
<1>1. PICK f \in State : f = Fresh
  BY FreshIs
<1>2. f.startup = "none" /\ f.hardExit = FALSE
  BY <1>1, FreshIs DEF State
<1>3. g = [f EXCEPT !.life = "exited", !.early = s.early, !.stuck = s.stuck,
                    !.shutdown = shut, !.db = base]
  BY <1>1 DEF Gone
<1>4. /\ shut \in {"none", "cleanup", "unlock"} /\ base \in {"none", "closed"}
      /\ s.early \in BOOLEAN /\ s.stuck \in BOOLEAN
  BY DEF State
<1> HIDE DEF g, shut, base
<1>5. /\ g \in State /\ g.life = "exited" /\ g.startup = "none"
      /\ g.hardExit = FALSE /\ g.early = s.early /\ g.stuck = s.stuck
      /\ g.shutdown = shut /\ g.db = base
  BY <1>2, <1>3, <1>4, ZenonT(60) DEF State
<1>6. Good(g, l, d)
  BY <1>5 DEF Good, LeftNothing, shut, base
<1> QED  BY <1>6 DEF g

-----------------------------------------------------------------------------
(* Startup.                                                                *)

LEMMA StartKeeps ==
    ASSUME IInv, NEW p \in Servers, Start(p)
    PROVE  IInv'
<1> DEFINE s == [srv[p] EXCEPT !.life = "alive", !.startup = "locking"]
<1>1. srv[p] = Fresh /\ lockDir # p /\ discovery # p
  BY DEF Start, IInv, Good
<1>2. srv' = [srv EXCEPT ![p] = s]
  BY DEF Start, IInv, State
<1>3. Good(s, FALSE, FALSE)
  BY <1>1, FreshIs, ZenonT(60) DEF Good, State, LeftNothing, StartupOf, ShutdownOf
<1>4. /\ lockDir' = lockDir /\ discovery' = discovery
      /\ faults' \in 0..MaxFaults
  BY DEF Start, IInv
<1>5. Good(s, lockDir' = p, discovery' = p)
  BY <1>1, <1>3, <1>4, LosingIsHarmless
<1> HIDE DEF s
<1> QED  BY <1>2, <1>4, <1>5, OneStep

\* The steps that only take startup further.
LEMMA AcquireLockKeeps ==
    ASSUME IInv, NEW p \in Servers, AcquireLock(p)
    PROVE  IInv'
<1> DEFINE s == [srv[p] EXCEPT !.startup = "opening", !.holds = TRUE]
<1>1. /\ srv' = [srv EXCEPT ![p] = s] /\ lockDir' = p
      /\ discovery' = discovery /\ faults' \in 0..MaxFaults
  BY DEF AcquireLock, IInv, State
<1>2. Good(srv[p], lockDir = p, discovery = p)
      /\ srv[p].life = "alive" /\ srv[p].startup = "locking"
  BY DEF IInv, AcquireLock, Starting, Alive
<1>3. Good(s, TRUE, discovery = p)
  BY <1>2, ZenonT(60) DEF Good, State, LeftNothing, StartupOf, ShutdownOf
<1>4. Good(s, lockDir' = p, discovery' = p)
  BY <1>1, <1>3, LosingIsHarmless
<1> HIDE DEF s
<1> QED  BY <1>1, <1>4, OneStep

LEMMA OpenedKeeps ==
    ASSUME IInv, NEW p \in Servers, Opened(p)
    PROVE  IInv'
<1> DEFINE s == [srv[p] EXCEPT !.startup = "binding", !.db = "open",
                              !.net = TRUE]
<1>1. /\ srv' = [srv EXCEPT ![p] = s]
      /\ lockDir' = lockDir /\ discovery' = discovery /\ faults' \in 0..MaxFaults
  BY DEF Opened, IInv, State
<1>2. Good(srv[p], lockDir = p, discovery = p)
      /\ srv[p].life = "alive" /\ srv[p].startup = "opening"
  BY DEF IInv, Opened, Starting, Alive
<1>3. Good(s, lockDir = p, discovery = p)
  BY <1>2, ZenonT(60) DEF Good, State, LeftNothing, StartupOf, ShutdownOf
<1>4. Good(s, lockDir' = p, discovery' = p)
  BY <1>1, <1>3, LosingIsHarmless
<1> HIDE DEF s
<1> QED  BY <1>1, <1>4, OneStep

LEMMA BoundKeeps ==
    ASSUME IInv, NEW p \in Servers, Bound(p)
    PROVE  IInv'
<1> DEFINE s == [srv[p] EXCEPT !.startup = "advertising"]
<1>1. /\ srv' = [srv EXCEPT ![p] = s]
      /\ lockDir' = lockDir /\ discovery' = discovery /\ faults' \in 0..MaxFaults
  BY DEF Bound, IInv, State
<1>2. Good(srv[p], lockDir = p, discovery = p)
      /\ srv[p].life = "alive" /\ srv[p].startup = "binding"
  BY DEF IInv, Bound, Starting, Alive
<1>3. Good(s, lockDir = p, discovery = p)
  BY <1>2, ZenonT(60) DEF Good, State, LeftNothing, StartupOf, ShutdownOf
<1>4. Good(s, lockDir' = p, discovery' = p)
  BY <1>1, <1>3, LosingIsHarmless
<1> HIDE DEF s
<1> QED  BY <1>1, <1>4, OneStep

\* The advertisement is the last thing startup writes.
LEMMA AdvertiseKeeps ==
    ASSUME IInv, NEW p \in Servers, Advertise(p)
    PROVE  IInv'
<1> DEFINE s == [srv[p] EXCEPT !.startup = "advertised"]
<1>1. /\ srv' = [srv EXCEPT ![p] = s]
      /\ lockDir' = lockDir /\ discovery' = p /\ faults' \in 0..MaxFaults
  BY DEF Advertise, IInv, State
<1>2. Good(srv[p], lockDir = p, discovery = p)
      /\ srv[p].life = "alive" /\ srv[p].startup = "advertising"
  BY DEF IInv, Advertise, Starting, Alive
<1>3. Good(s, lockDir = p, TRUE)
  BY <1>2, ZenonT(60) DEF Good, State, LeftNothing, StartupOf, ShutdownOf
<1>4. Good(s, lockDir' = p, discovery' = p)
  BY <1>1, <1>3, LosingIsHarmless
<1> HIDE DEF s
<1> QED  BY <1>1, <1>4, OneStep

LEMMA StartedKeeps ==
    ASSUME IInv, NEW p \in Servers, Started(p)
    PROVE  IInv'
<1> DEFINE s == [srv[p] EXCEPT !.startup = "up", !.idleTimer = IdleTtl]
<1>1. /\ srv' = [srv EXCEPT ![p] = s]
      /\ lockDir' = lockDir /\ discovery' = discovery /\ faults' \in 0..MaxFaults
  BY DEF Started, IInv, State
<1>2. Good(srv[p], lockDir = p, discovery = p)
      /\ srv[p].life = "alive" /\ srv[p].startup = "advertised"
  BY DEF IInv, Started, Starting, Alive
<1>3. Good(s, lockDir = p, discovery = p)
  BY <1>2, ServersAssumption, ZenonT(60) DEF Good, State, LeftNothing, StartupOf, ShutdownOf
<1>4. Good(s, lockDir' = p, discovery' = p)
  BY <1>1, <1>3, LosingIsHarmless
<1> HIDE DEF s
<1> QED  BY <1>1, <1>4, OneStep

\* Startup that fails gives up for good.
LEMMA StartupFailsKeeps ==
    ASSUME IInv, NEW p \in Servers, StartupFails(p)
    PROVE  IInv'
<1> DEFINE a == [srv[p] EXCEPT !.startup = "aborting", !.net = FALSE]
           s == BeginClose(a)
<1>1. /\ srv' = [srv EXCEPT ![p] = s]
      /\ lockDir' = lockDir /\ discovery' = discovery
      /\ faults' \in 0..MaxFaults
  BY DEF StartupFails, IInv
<1>2. Good(srv[p], lockDir = p, discovery = p)
      /\ srv[p].life = "alive" /\ srv[p].startup \in {"binding", "advertising"}
  BY DEF IInv, StartupFails, Starting, Alive
<1>3. Good(a, lockDir = p, discovery = p) /\ a.life = "alive"
      /\ a.startup = "aborting"
  BY <1>2, ZenonT(60) DEF Good, State, LeftNothing, StartupOf, ShutdownOf
<1> HIDE DEF a
<1>4. CASE a.db = "open"
  <2>1. s = [a EXCEPT !.db = "closing connection"]
    BY <1>4 DEF BeginClose
  <2> HIDE DEF s
  <2>2. Good(s, lockDir = p, discovery = p)
    BY <1>3, <2>1, ZenonT(60) DEF Good, State, LeftNothing, StartupOf, ShutdownOf
  <2>3. Good(s, lockDir' = p, discovery' = p)
    BY <1>1, <2>2, LosingIsHarmless
  <2> QED  BY <1>1, <2>3, OneStep
<1>5. CASE a.db # "open"
  <2>1. s = a
    BY <1>5 DEF BeginClose
  <2> HIDE DEF s
  <2>2. Good(s, lockDir' = p, discovery' = p)
    BY <1>1, <1>3, <2>1, LosingIsHarmless
  <2> QED  BY <1>1, <2>2, OneStep
<1> QED  BY <1>4, <1>5

\* The lock is taken, or the database cannot be opened: the process has
\* nothing of its own yet.
LEMMA NothingOpenedKeeps ==
    ASSUME IInv, NEW p \in Servers, LockFails(p) \/ OpenFails(p)
    PROVE  IInv'
<1>1. /\ srv' = [srv EXCEPT ![p] = Gone(srv[p], "exited")]
      /\ lockDir' \in {lockDir, None} /\ discovery' = discovery
      /\ faults' \in 0..MaxFaults
  BY DEF LockFails, OpenFails, IInv
<1>2. srv[p] \in State /\ srv[p].db = "none"
  BY DEF LockFails, OpenFails, Starting, Alive, IInv, Good, StartupOf
<1>3. Good(Gone(srv[p], "exited"), lockDir' = p, discovery' = p)
  BY <1>2, ExitedGood
<1> QED  BY <1>1, <1>3, OneStep

\* A cleanup either removes both names, or has been begun before.
LEMMA CleanupSyncGood ==
    ASSUME IInv, NEW p \in Servers, CleanupSync(p), srv[p].life = "alive",
           srv[p].startup = "aborting" \/ srv[p].hardExit,
           srv' = [srv EXCEPT ![p] =
                      Gone([@ EXCEPT !.cleanedUp = TRUE], "exited")],
           UNCHANGED faults
    PROVE  IInv'
<1> DEFINE s == [srv[p] EXCEPT !.cleanedUp = TRUE]
<1>1. /\ srv' = [srv EXCEPT ![p] = Gone(s, "exited")]
      /\ lockDir' \in {lockDir, None} /\ discovery' \in {discovery, None}
      /\ faults' \in 0..MaxFaults
  BY DEF CleanupSync, IInv
<1>2. Good(srv[p], lockDir = p, discovery = p)
  BY DEF IInv
<1>3. /\ s \in State /\ s.db = srv[p].db /\ s.shutdown = srv[p].shutdown
      /\ s.early = srv[p].early /\ s.stuck = srv[p].stuck
  BY <1>2 DEF Good, State
<1> HIDE DEF s
<1>4. Good(Gone(s, "exited"), lockDir' = p, discovery' = p)
  <2>1. CASE srv[p].cleanedUp
    <3>1. lockDir' = lockDir /\ discovery' = discovery
      BY <2>1 DEF CleanupSync
    <3>2. /\ lockDir = p => s.shutdown \in {"cleanup", "unlock"}
          /\ discovery = p => s.early \/ s.stuck
      BY <1>2, <1>3, <2>1 DEF Good, StartupOf, ShutdownOf
    <3> QED  BY <1>3, <3>1, <3>2, ExitedGood
  <2>2. CASE ~srv[p].cleanedUp
    <3>1. lockDir' # p /\ discovery' # p
      BY <2>2, ServersAssumption DEF CleanupSync
    <3> QED  BY <1>3, <3>1, ExitedGood
  <2> QED  BY <2>1, <2>2
<1> QED  BY <1>1, <1>4, OneStep

LEMMA StartupAbortedKeeps ==
    ASSUME IInv, NEW p \in Servers, StartupAborted(p)
    PROVE  IInv'
  BY CleanupSyncGood DEF StartupAborted, Starting, Alive

LEMMA HardExitKeeps ==
    ASSUME IInv, NEW p \in Servers, HardExit(p)
    PROVE  IInv'
  BY CleanupSyncGood DEF HardExit, Alive

-----------------------------------------------------------------------------
(* Shutdown.                                                               *)

LEMMA BeginShutdownGood ==
    ASSUME NEW s, NEW l, NEW d, Good(s, l, d), s.life = "alive",
           s.shutdown = "none", s.startup \notin {"locking", "opening"}
    PROVE  Good(BeginShutdown(s), l, d)
<1> DEFINE b == BeginShutdown(s)
           e == (s.startup # "up")
<1>1. b = [s EXCEPT !.shutdown = "unadvertise", !.idleTimer = FALSE,
                    !.hardExit = TRUE, !.early = e]
  BY DEF BeginShutdown
<1>2. e \in BOOLEAN /\ s \in State
  BY DEF Good
<1> HIDE DEF b, e
<1>3. /\ b \in State /\ b.life = s.life /\ b.startup = s.startup
      /\ b.shutdown = "unadvertise" /\ b.db = s.db /\ b.net = s.net
      /\ b.cleanedUp = s.cleanedUp /\ b.early = e /\ b.stuck = s.stuck
  BY <1>1, <1>2 DEF State
<1>4. Good(b, l, d)
  BY <1>3 DEF e, Good, LeftNothing, StartupOf, ShutdownOf
<1> QED  BY <1>4 DEF b

LEMMA ShutdownKeeps ==
    ASSUME IInv, NEW p \in Servers, Shutdown(p)
    PROVE  IInv'
<1>1. /\ srv' = [srv EXCEPT ![p] = BeginShutdown(srv[p])]
      /\ lockDir' = lockDir /\ discovery' = discovery /\ faults' \in 0..MaxFaults
  BY DEF Shutdown, IInv
<1>2. Good(srv[p], lockDir = p, discovery = p)
      /\ srv[p].life = "alive" /\ srv[p].shutdown = "none"
      /\ srv[p].startup \notin {"locking", "opening"}
  BY DEF IInv, Shutdown, CanShutdown, Starting, Alive
<1>3. Good(BeginShutdown(srv[p]), lockDir' = p, discovery' = p)
  BY <1>1, <1>2, BeginShutdownGood
<1> QED  BY <1>1, <1>3, OneStep

LEMMA FatalKeeps ==
    ASSUME IInv, NEW p \in Servers, Fatal(p)
    PROVE  IInv'
<1> DEFINE s == [srv[p] EXCEPT !.fatal = TRUE]
           t == IF s.shutdown = "none" THEN BeginShutdown(s) ELSE s
<1>1. /\ srv' = [srv EXCEPT ![p] = t]
      /\ lockDir' = lockDir /\ discovery' = discovery /\ faults' \in 0..MaxFaults
  BY DEF Fatal, IInv
<1>2. Good(srv[p], lockDir = p, discovery = p)
      /\ srv[p].life = "alive" /\ srv[p].net
  BY DEF IInv, Fatal, Alive
<1>3. /\ Good(s, lockDir = p, discovery = p) /\ s.life = "alive"
      /\ s.startup \notin {"locking", "opening"}
  <2>1. /\ s \in State /\ s.life = srv[p].life
        /\ s.startup = srv[p].startup /\ s.shutdown = srv[p].shutdown
        /\ s.db = srv[p].db /\ s.net = srv[p].net
        /\ s.cleanedUp = srv[p].cleanedUp /\ s.early = srv[p].early
        /\ s.stuck = srv[p].stuck /\ s.hardExit = srv[p].hardExit
    BY <1>2 DEF Good, State
  <2> HIDE DEF s
  <2> QED  BY <1>2, <2>1 DEF Good, LeftNothing, StartupOf, ShutdownOf
<1> HIDE DEF s
<1>4. Good(t, lockDir' = p, discovery' = p)
  BY <1>1, <1>3, BeginShutdownGood
<1> HIDE DEF t
<1> QED  BY <1>1, <1>4, OneStep

LEMMA CompromisedKeeps ==
    ASSUME IInv, NEW p \in Servers, Compromised(p)
    PROVE  IInv'
<1> DEFINE s == [srv[p] EXCEPT !.fatal = TRUE, !.holds = FALSE]
           t == IF ~s.net THEN Gone(s, "exited")
                ELSE IF s.shutdown = "none" THEN BeginShutdown(s) ELSE s
<1>1. /\ srv' = [srv EXCEPT ![p] = t] /\ lockDir # p
      /\ lockDir' = lockDir /\ discovery' = discovery /\ faults' \in 0..MaxFaults
  BY DEF Compromised, IInv
<1>2. Good(srv[p], lockDir = p, discovery = p) /\ srv[p].life = "alive"
  BY DEF IInv, Compromised, Alive
<1>3. /\ Good(s, lockDir = p, discovery = p) /\ s.life = "alive" /\ s \in State
      /\ s.net => s.startup \notin {"locking", "opening"}
  <2>1. /\ s \in State /\ s.life = srv[p].life
        /\ s.startup = srv[p].startup /\ s.shutdown = srv[p].shutdown
        /\ s.db = srv[p].db /\ s.net = srv[p].net
        /\ s.cleanedUp = srv[p].cleanedUp /\ s.early = srv[p].early
        /\ s.stuck = srv[p].stuck /\ s.hardExit = srv[p].hardExit
    BY <1>2 DEF Good, State
  <2> HIDE DEF s
  <2> QED  BY <1>2, <2>1 DEF Good, LeftNothing, StartupOf, ShutdownOf
<1> HIDE DEF s
<1>4. CASE s.net
  <2>1. Good(t, lockDir' = p, discovery' = p)
    BY <1>1, <1>3, <1>4, BeginShutdownGood
  <2> HIDE DEF t
  <2> QED  BY <1>1, <2>1, OneStep
<1>5. CASE ~s.net
  <2>1. s.db # "none" /\ discovery = p => s.early \/ s.stuck
    BY <1>3, <1>5 DEF Good, StartupOf, ShutdownOf
  <2>2. Good(Gone(s, "exited"), lockDir' = p, discovery' = p)
    BY <1>1, <1>3, <2>1, ExitedGood
  <2>3. srv' = [srv EXCEPT ![p] = Gone(s, "exited")]
    BY <1>1, <1>5
  <2> HIDE DEF t
  <2> QED  BY <1>1, <2>2, <2>3, OneStep
<1> QED  BY <1>4, <1>5

\* Taking the discovery file away, or failing to.
LEMMA RemoveDiscoveryKeeps ==
    ASSUME IInv, NEW p \in Servers, NEW s, RemoveDiscovery(p, s),
           UNCHANGED lockDir, s \in State,
           Good(s, lockDir = p, FALSE),
           Good([s EXCEPT !.stuck = TRUE], lockDir = p, discovery = p)
    PROVE  IInv'
<1>1. CASE /\ discovery' = None /\ srv' = [srv EXCEPT ![p] = s]
           /\ UNCHANGED faults
  <2>1. discovery' # p /\ faults' \in 0..MaxFaults
    BY <1>1, ServersAssumption DEF IInv
  <2>2. Good(s, lockDir' = p, discovery' = p)
    BY <2>1, LosingIsHarmless
  <2> QED  BY <1>1, <2>1, <2>2, OneStep
<1>2. CASE /\ faults < MaxFaults /\ faults' = faults + 1
           /\ srv' = [srv EXCEPT ![p] = [s EXCEPT !.stuck = TRUE]]
           /\ UNCHANGED discovery
  <2> DEFINE t == [s EXCEPT !.stuck = TRUE]
  <2>1. faults' \in 0..MaxFaults
    BY <1>2, ServersAssumption DEF IInv
  <2>2. Good(t, lockDir' = p, discovery' = p) /\ srv' = [srv EXCEPT ![p] = t]
    BY <1>2
  <2> HIDE DEF t
  <2> QED  BY <1>2, <2>1, <2>2, OneStep
<1> QED  BY <1>1, <1>2 DEF RemoveDiscovery

LEMMA UnadvertiseKeeps ==
    ASSUME IInv, NEW p \in Servers, Unadvertise(p)
    PROVE  IInv'
<1> DEFINE s == [srv[p] EXCEPT !.shutdown = "stopping"]
<1>1. Good(srv[p], lockDir = p, discovery = p)
      /\ srv[p].life = "alive" /\ srv[p].shutdown = "unadvertise"
  BY DEF IInv, Unadvertise, Stopping, Alive
<1>2. s \in State /\ Good(s, lockDir = p, FALSE)
  BY <1>1, ZenonT(60) DEF Good, State, LeftNothing, StartupOf, ShutdownOf
<1>3. Good([s EXCEPT !.stuck = TRUE], lockDir = p, discovery = p)
  BY <1>1, ZenonT(60) DEF Good, State, LeftNothing, StartupOf, ShutdownOf
<1>4. RemoveDiscovery(p, s) /\ UNCHANGED lockDir
  BY DEF Unadvertise
<1> HIDE DEF s
<1> QED  BY <1>2, <1>3, <1>4, RemoveDiscoveryKeeps

LEMMA CleanupDiscoveryKeeps ==
    ASSUME IInv, NEW p \in Servers, CleanupDiscovery(p)
    PROVE  IInv'
<1> DEFINE s == [srv[p] EXCEPT !.shutdown = "unlock"]
<1>1. Good(srv[p], lockDir = p, discovery = p)
      /\ srv[p].life = "alive" /\ srv[p].shutdown = "cleanup"
  BY DEF IInv, CleanupDiscovery, Stopping, Alive
<1>2. s \in State /\ Good(s, lockDir = p, FALSE)
  BY <1>1, ZenonT(60) DEF Good, State, LeftNothing, StartupOf, ShutdownOf
<1>3. Good([s EXCEPT !.stuck = TRUE], lockDir = p, discovery = p)
  BY <1>1, ZenonT(60) DEF Good, State, LeftNothing, StartupOf, ShutdownOf
<1>4. RemoveDiscovery(p, s) /\ UNCHANGED lockDir
  BY DEF CleanupDiscovery
<1> HIDE DEF s
<1> QED  BY <1>2, <1>3, <1>4, RemoveDiscoveryKeeps

\* The close of the database, behind shutdown() or behind a failed startup.
LEMMA StoppedKeeps ==
    ASSUME IInv, NEW p \in Servers, Stopped(p)
    PROVE  IInv'
<1> DEFINE a == [srv[p] EXCEPT !.shutdown = "closing"]
           s == BeginClose(a)
<1>1. /\ srv' = [srv EXCEPT ![p] = s]
      /\ lockDir' = lockDir /\ discovery' = discovery
      /\ faults' \in 0..MaxFaults
  BY DEF Stopped, IInv
<1>2. Good(srv[p], lockDir = p, discovery = p)
      /\ srv[p].life = "alive" /\ srv[p].shutdown = "stopping"
  BY DEF IInv, Stopped, Stopping, Alive
<1>3. /\ Good(a, lockDir = p, discovery = p) /\ a.life = "alive"
      /\ a.shutdown = "closing"
  BY <1>2, ZenonT(60) DEF Good, State, LeftNothing, StartupOf, ShutdownOf
<1> HIDE DEF a
<1>4. Good(s, lockDir' = p, discovery' = p)
  <2>1. CASE a.db = "open"
    <3>1. s = [a EXCEPT !.db = "closing connection"]
      BY <2>1 DEF BeginClose
    <3> HIDE DEF s
    <3>2. Good(s, lockDir = p, discovery = p)
      BY <1>3, <3>1, ZenonT(60) DEF Good, State, LeftNothing, StartupOf, ShutdownOf
    <3> QED  BY <1>1, <3>2
  <2>2. CASE a.db # "open"
    BY <1>1, <1>3, <2>2 DEF BeginClose
  <2> QED  BY <2>1, <2>2
<1> HIDE DEF s
<1> QED  BY <1>1, <1>4, OneStep

LEMMA ConnectionClosedKeeps ==
    ASSUME IInv, NEW p \in Servers, ConnectionClosed(p)
    PROVE  IInv'
<1> DEFINE s == [srv[p] EXCEPT !.db = "releasing lock"]
<1>1. /\ srv' = [srv EXCEPT ![p] = s]
      /\ lockDir' = lockDir /\ discovery' = discovery /\ faults' \in 0..MaxFaults
  BY DEF ConnectionClosed, IInv, State
<1>2. Good(srv[p], lockDir = p, discovery = p)
      /\ srv[p].life = "alive" /\ srv[p].db = "closing connection"
  BY DEF IInv, ConnectionClosed, Alive
<1>3. Good(s, lockDir = p, discovery = p)
  BY <1>2, ZenonT(60) DEF Good, State, LeftNothing, StartupOf, ShutdownOf
<1>4. Good(s, lockDir' = p, discovery' = p)
  BY <1>1, <1>3, LosingIsHarmless
<1> HIDE DEF s
<1> QED  BY <1>1, <1>4, OneStep

LEMMA DatabaseClosedKeeps ==
    ASSUME IInv, NEW p \in Servers, DatabaseClosed(p)
    PROVE  IInv'
<1> DEFINE s == [srv[p] EXCEPT !.db = "closed"]
<1>1. /\ srv' = [srv EXCEPT ![p] = s]
      /\ lockDir' = lockDir /\ discovery' = discovery /\ faults' \in 0..MaxFaults
  BY DEF DatabaseClosed, IInv, State
<1>2. Good(srv[p], lockDir = p, discovery = p)
      /\ srv[p].life = "alive" /\ srv[p].db = "closing database"
  BY DEF IInv, DatabaseClosed, Alive
<1>3. Good(s, lockDir = p, discovery = p)
  BY <1>2, ZenonT(60) DEF Good, State, LeftNothing, StartupOf, ShutdownOf
<1>4. Good(s, lockDir' = p, discovery' = p)
  BY <1>1, <1>3, LosingIsHarmless
<1> HIDE DEF s
<1> QED  BY <1>1, <1>4, OneStep

LEMMA LockReleasedKeeps ==
    ASSUME IInv, NEW p \in Servers, LockReleased(p)
    PROVE  IInv'
<1>1. Good(srv[p], lockDir = p, discovery = p)
      /\ srv[p].life = "alive" /\ srv[p].db = "releasing lock"
  BY DEF IInv, LockReleased, Alive
<1>2. discovery' = discovery /\ faults' \in 0..MaxFaults
  BY DEF LockReleased, IInv
<1>3. CASE srv[p].holds /\ lockDir' = None
           /\ srv' = [srv EXCEPT ![p].db = "closing database",
                                 ![p].holds = FALSE]
  <2> DEFINE s == [srv[p] EXCEPT !.db = "closing database", !.holds = FALSE]
  <2>1. srv' = [srv EXCEPT ![p] = s]
    BY <1>3 DEF IInv, State
  <2>2. Good(s, lockDir = p, discovery = p)
    BY <1>1, ZenonT(60) DEF Good, State, LeftNothing, StartupOf, ShutdownOf
  <2>3. Good(s, lockDir' = p, discovery' = p)
    BY <1>2, <1>3, <2>2, LosingIsHarmless, ServersAssumption
  <2> HIDE DEF s
  <2> QED  BY <1>2, <1>3, <2>1, <2>3, OneStep
<1>4. CASE srv' = [srv EXCEPT ![p].db = "failed"] /\ lockDir' = lockDir
  <2> DEFINE s == [srv[p] EXCEPT !.db = "failed"]
  <2>1. srv' = [srv EXCEPT ![p] = s]
    BY <1>4 DEF IInv, State
  <2>2. Good(s, lockDir = p, discovery = p)
    BY <1>1, ZenonT(60) DEF Good, State, LeftNothing, StartupOf, ShutdownOf
  <2>3. Good(s, lockDir' = p, discovery' = p)
    BY <1>2, <1>4, <2>2
  <2> HIDE DEF s
  <2> QED  BY <1>2, <1>4, <2>1, <2>3, OneStep
<1> QED  BY <1>3, <1>4 DEF LockReleased

\* The close is over or its time is up: the cleanup is marked as done.
LEMMA CloseEndsKeeps ==
    ASSUME IInv, NEW p \in Servers, CloseEnds(p)
    PROVE  IInv'
<1> DEFINE s == [srv[p] EXCEPT !.shutdown = "cleanup", !.cleanedUp = TRUE]
<1>1. Good(srv[p], lockDir = p, discovery = p)
      /\ srv[p].life = "alive" /\ srv[p].shutdown = "closing"
  BY DEF IInv, CloseEnds, Stopping, Alive
<1>2. ~srv[p].cleanedUp
  BY <1>1 DEF Good, ShutdownOf
<1>3. /\ srv' = [srv EXCEPT ![p] = s]
      /\ lockDir' = lockDir /\ discovery' = discovery
      /\ faults' \in 0..MaxFaults
  BY <1>2 DEF CloseEnds, IInv
<1>4. Good(s, lockDir = p, discovery = p)
  BY <1>1, ZenonT(60) DEF Good, State, LeftNothing, StartupOf, ShutdownOf
<1>5. Good(s, lockDir' = p, discovery' = p)
  BY <1>3, <1>4
<1> HIDE DEF s
<1> QED  BY <1>3, <1>5, OneStep

LEMMA CleanupLockKeeps ==
    ASSUME IInv, NEW p \in Servers, CleanupLock(p)
    PROVE  IInv'
<1> DEFINE s == [srv[p] EXCEPT !.shutdown = "done", !.hardExit = FALSE,
                               !.net = FALSE]
<1>1. Good(srv[p], lockDir = p, discovery = p)
      /\ srv[p].life = "alive" /\ srv[p].shutdown = "unlock"
  BY DEF IInv, CleanupLock, Stopping, Alive
<1>2. /\ srv' = [srv EXCEPT ![p] = s] /\ lockDir' = None
      /\ discovery' = discovery /\ faults' \in 0..MaxFaults
  BY DEF CleanupLock, Finished, IInv
<1>3. Good(s, FALSE, discovery = p)
  BY <1>1, ZenonT(60) DEF Good, State, LeftNothing, StartupOf, ShutdownOf
<1>4. Good(s, lockDir' = p, discovery' = p)
  BY <1>2, <1>3, LosingIsHarmless, ServersAssumption
<1> HIDE DEF s
<1> QED  BY <1>2, <1>4, OneStep

\* The process exits after shutdown().
LEMMA ExitKeeps ==
    ASSUME IInv, NEW p \in Servers, Exit(p)
    PROVE  IInv'
<1>1. Good(srv[p], lockDir = p, discovery = p)
      /\ srv[p].life = "alive" /\ srv[p].shutdown = "done"
  BY DEF IInv, Exit, Stopping, Alive
<1>2. /\ srv' = [srv EXCEPT ![p] = Gone(srv[p], "exited")]
      /\ lockDir' = lockDir /\ discovery' = discovery
      /\ faults' \in 0..MaxFaults
  BY DEF Exit, IInv
<1>3. /\ srv[p] \in State /\ lockDir # p
      /\ discovery = p => srv[p].early \/ srv[p].stuck
  BY <1>1 DEF Good, ShutdownOf
<1>4. Good(Gone(srv[p], "exited"), lockDir' = p, discovery' = p)
  BY <1>2, <1>3, ExitedGood
<1> QED  BY <1>2, <1>4, OneStep

LEMMA KillKeeps ==
    ASSUME IInv, NEW p \in Servers, Kill(p)
    PROVE  IInv'
<1>1. /\ srv' = [srv EXCEPT ![p] = Gone(srv[p], "killed")]
      /\ lockDir' = lockDir /\ discovery' = discovery
  BY DEF Kill
<1>2. faults' \in 0..MaxFaults
  <2>1. faults \in 0..MaxFaults
    BY DEF IInv
  <2> QED  BY <2>1, ServersAssumption DEF Kill
<1>3. Good(Gone(srv[p], "killed"), lockDir' = p, discovery' = p)
  BY KilledGood
<1> QED  BY <1>1, <1>2, <1>3, OneStep

-----------------------------------------------------------------------------
(* The theorem.                                                            *)

LEMMA InitHolds ==
    ASSUME Init
    PROVE  IInv
<1>1. ASSUME NEW p \in Servers
      PROVE  Good(srv[p], lockDir = p, discovery = p)
  <2>1. srv[p] = Fresh /\ lockDir # p /\ discovery # p
    BY ServersAssumption DEF Init
  <2> QED  BY <2>1, FreshIs DEF Good, LeftNothing
<1>2. srv \in [Servers -> State] /\ faults \in 0..MaxFaults
  BY FreshIs, ServersAssumption DEF Init
<1> QED  BY <1>1, <1>2 DEF Init, IInv

LEMMA NextKeeps ==
    ASSUME IInv, [Next]_vars
    PROVE  IInv'
<1>1. CASE UNCHANGED vars
  BY <1>1 DEF vars, IInv
<1>2. ASSUME NEW p \in Servers, StartupStep(p) PROVE IInv'
  BY <1>2, AcquireLockKeeps, NothingOpenedKeeps, OpenedKeeps, BoundKeeps,
     AdvertiseKeeps, StartedKeeps, StartupFailsKeeps, StartupAbortedKeeps
     DEF StartupStep
<1>3. ASSUME NEW p \in Servers, ShutdownStep(p) PROVE IInv'
  BY <1>3, UnadvertiseKeeps, StoppedKeeps, CloseEndsKeeps,
     CleanupDiscoveryKeeps, CleanupLockKeeps DEF ShutdownStep
<1>4. ASSUME NEW p \in Servers, CloseStep(p) PROVE IInv'
  BY <1>4, ConnectionClosedKeeps, LockReleasedKeeps, DatabaseClosedKeeps
     DEF CloseStep
<1>5. ASSUME NEW p \in Servers,
             Start(p) \/ Shutdown(p) \/ Fatal(p) \/ Compromised(p)
                \/ HardExit(p) \/ Exit(p) \/ Kill(p)
      PROVE  IInv'
  BY <1>5, StartKeeps, ShutdownKeeps, FatalKeeps, CompromisedKeeps,
     HardExitKeeps, ExitKeeps, KillKeeps
<1> QED  BY <1>1, <1>2, <1>3, <1>4, <1>5 DEF Next

\* The life of every process, and what it has left in the file system, stay
\* consistent: IInv holds in every reachable state.
THEOREM Invariance == Spec => []IInv
<1>1. Init => IInv
  BY InitHolds
<1>2. IInv /\ [Next]_vars => IInv'
  BY NextKeeps
<1> QED  BY <1>1, <1>2, PTL DEF Spec

\* However servers start, stop, fail and overlap: one that exits leaves neither
\* lock directory nor advertisement behind, and one that is advertised and
\* alive has its database open, with the named exceptions.
THEOREM FilesTellTheTruth == Spec => []LifecycleSound
<1>1. IInv => LifecycleSound
  <2> SUFFICES ASSUME IInv PROVE LifecycleSound
    OBVIOUS
  <2>1. ASSUME NEW p \in Servers
        PROVE  Good(srv[p], lockDir = p, discovery = p)
    BY DEF IInv
  <2>2. TypeOK
    BY <2>1 DEF IInv, TypeOK, Good
  <2>3. NoOrphans
    BY <2>1 DEF NoOrphans, Good, LeftNothing
  <2>4. AdvertisedServes
    BY <2>1 DEF AdvertisedServes, Alive, Good, StartupOf, ShutdownOf
  <2> QED  BY <2>2, <2>3, <2>4 DEF LifecycleSound
<1> QED  BY <1>1, Invariance, PTL

-----------------------------------------------------------------------------
(* The adapter of a client.                                                *)

\* What is waited for: a first bundle, or a newer one than the current one,
\* which only close() takes away meanwhile.
ConnectingInv ==
    /\ connecting.for = "nothing" => connecting = Nothing
    /\ connecting.for = "initialize" =>
          /\ connecting.next = 1 /\ connecting.previous = NoBundle /\ 1 \in open
          /\ clients = NoBundle /\ closed = "no"
    /\ connecting.for = "reconnect" =>
          /\ connecting.next = made /\ connecting.previous < made
          /\ connecting.next \in open
          /\ clients \in {connecting.previous, NoBundle}
          /\ clients = NoBundle => closed = "racing"

ClientsInv == clients <= made /\ (made = 0 => connecting = Nothing /\ closed = "no")

Pending(k) == k.pc \in {"sent", "running"}

\* A call knows bundles that have been made, older ones than a reconnect makes;
\* w is what is connecting, and m how many bundles have been made.
CallInv(k, w, m) ==
    /\ k.attempt = 2 => k.worthIt
    /\ k.attempt = 1 /\ k.outcome = "error" => ~k.worthIt
    /\ k.pc # "idle" => k.attempt \in {1, 2} /\ k.outcome = "none"
    /\ Pending(k) => /\ k.bundle <= m
                     /\ w.for = "reconnect" => k.bundle < w.next
                     /\ k.attempt = 2 => k.bundle > k.failedOn
    /\ k.pc = "reconnecting" => /\ k.attempt = 1 /\ k.worthIt
                                /\ k.failedOn < w.next

AdapterInv ==
    /\ AdapterTypeOK /\ NoLeakedChannel /\ ClosedStaysClosed
    /\ ConnectingInv /\ ClientsInv
    /\ \A c \in Callers : CallInv(call[c], connecting, made)

-----------------------------------------------------------------------------
\* The client's rule and the flag of the error classes agree.
Errors == ServerErrors \union {DeadlineExceeded, Unavailable}

LEMMA TransientIsRetryable ==
    \A e \in Errors : e.retryable \in BOOLEAN /\ (IsTransient(e) <=> e.retryable = TRUE)
<1>1. \A e \in Errors : IsTransient(e) <=> e.retryable = TRUE
    BY DEF Errors, ServerErrors, DeadlineExceeded, Unavailable, IsTransient
<1>2. \A n, s : [name |-> n, status |-> s, retryable |-> TRUE].retryable = TRUE
    OBVIOUS
<1>3. \A n, s : [name |-> n, status |-> s, retryable |-> FALSE].retryable = FALSE
    OBVIOUS
<1>4. \A e \in Errors : e.retryable \in BOOLEAN
    BY <1>2, <1>3, Zenon DEF Errors, ServerErrors, DeadlineExceeded, Unavailable
<1>. QED
    BY <1>1, <1>4

LEMMA SettledOK ==
    ASSUME NEW k \in Calls, NEW how \in {"ok", "error", "closed", "unconnected"}
    PROVE  /\ Settled(k, how) \in Calls
           /\ Settled(k, how).pc = "idle" /\ Settled(k, how).outcome = how
           /\ Settled(k, how).attempt = k.attempt /\ Settled(k, how).worthIt = k.worthIt
<1> DEFINE a == [k EXCEPT !.pc = "idle"]
           b == [a EXCEPT !.bundle = NoBundle]
           c == [b EXCEPT !.failedOn = NoBundle]
           d == [c EXCEPT !.outcome = how]
<1>0. Settled(k, how) = d
    BY Zenon DEF Settled
<1>1. a \in Calls /\ a.pc = "idle" /\ a.attempt = k.attempt /\ a.worthIt = k.worthIt
    BY DEF Calls
<1> HIDE DEF a
<1>2. b \in Calls /\ b.pc = a.pc /\ b.attempt = a.attempt /\ b.worthIt = a.worthIt
    BY <1>1 DEF Calls
<1> HIDE DEF b
<1>3. c \in Calls /\ c.pc = b.pc /\ c.attempt = b.attempt /\ c.worthIt = b.worthIt
    BY <1>2 DEF Calls
<1> HIDE DEF c
<1>4. d \in Calls /\ d.pc = c.pc /\ d.attempt = c.attempt /\ d.worthIt = c.worthIt /\ d.outcome = how
    BY <1>3 DEF Calls
<1> HIDE DEF d
<1>. QED
    BY <1>0, <1>1, <1>2, <1>3, <1>4

LEMMA SentAgainOK ==
    ASSUME NEW k \in Calls, NEW bundle \in Bundles
    PROVE  LET s == SentAgain(k, bundle)
           IN  /\ s \in Calls /\ s.pc = "sent" /\ s.attempt = 2 /\ s.bundle = bundle
               /\ s.failedOn = k.failedOn /\ s.worthIt = k.worthIt /\ s.outcome = k.outcome
<1> DEFINE a == [k EXCEPT !.pc = "sent"]
           b == [a EXCEPT !.attempt = 2]
           c == [b EXCEPT !.bundle = bundle]
<1>0. SentAgain(k, bundle) = c
    BY Zenon DEF SentAgain
<1>1. /\ a \in Calls /\ a.pc = "sent"
      /\ a.failedOn = k.failedOn /\ a.worthIt = k.worthIt /\ a.outcome = k.outcome
    BY DEF Calls
<1> HIDE DEF a
<1>2. /\ b \in Calls /\ b.pc = a.pc /\ b.attempt = 2
      /\ b.failedOn = a.failedOn /\ b.worthIt = a.worthIt /\ b.outcome = a.outcome
    BY <1>1 DEF Calls
<1> HIDE DEF b
<1>3. /\ c \in Calls /\ c.pc = b.pc /\ c.attempt = b.attempt /\ c.bundle = bundle
      /\ c.failedOn = b.failedOn /\ c.worthIt = b.worthIt /\ c.outcome = b.outcome
    BY <1>2 DEF Calls
<1> HIDE DEF c
<1>. QED
    BY <1>0, <1>1, <1>2, <1>3

LEMMA NotedOK ==
    ASSUME NEW k \in Calls, NEW e \in Errors
    PROVE  LET n == Noted(k, e)
           IN  /\ n \in Calls /\ n.pc = k.pc /\ n.attempt = k.attempt /\ n.outcome = k.outcome
               /\ n.bundle = k.bundle
               /\ k.attempt = 1 => n.failedOn = k.bundle /\ n.worthIt = e.retryable
               /\ k.attempt # 1 => n = k
<1>1. CASE k.attempt # 1
    BY <1>1 DEF Noted
<1>2. CASE k.attempt = 1
    <2> DEFINE a == [k EXCEPT !.worthIt = e.retryable]
               b == [a EXCEPT !.failedOn = k.bundle]
    <2>0. Noted(k, e) = b
        BY <1>2, Zenon DEF Noted
    <2>1. PICK r \in BOOLEAN : r = e.retryable
        BY TransientIsRetryable
    <2>2. a = [k EXCEPT !.worthIt = r]
        BY <2>1, Zenon
    <2>3. /\ a \in Calls /\ a.pc = k.pc /\ a.attempt = k.attempt /\ a.outcome = k.outcome
          /\ a.bundle = k.bundle /\ a.worthIt = r
        BY <2>2 DEF Calls
    <2> HIDE DEF a
    <2>4. k.bundle \in Bundles \union {NoBundle}
        BY DEF Calls
    <2>5. /\ b \in Calls /\ b.pc = a.pc /\ b.attempt = a.attempt /\ b.outcome = a.outcome
          /\ b.bundle = a.bundle /\ b.worthIt = a.worthIt /\ b.failedOn = k.bundle
        BY <2>3, <2>4 DEF Calls
    <2> HIDE DEF b
    <2>. QED
        BY <1>2, <2>0, <2>1, <2>3, <2>5
<1>. QED
    BY <1>1, <1>2

LEMMA FirstAttemptOK ==
    ASSUME NEW k \in Calls, k.left > 0, NEW bundle \in Bundles \union {NoBundle}
    PROVE  LET f == FirstAttempt(k, bundle)
           IN  /\ f \in Calls /\ f.pc = "idle" /\ f.attempt = 1 /\ f.bundle = bundle
               /\ f.worthIt = FALSE /\ f.outcome = "none"
<1> DEFINE a == [FreshCall EXCEPT !.left = k.left - 1]
           b == [a EXCEPT !.attempt = 1]
           c == [b EXCEPT !.bundle = bundle]
<1>0. FirstAttempt(k, bundle) = c
    BY Zenon DEF FirstAttempt
<1>1. FreshCall \in Calls /\ FreshCall.pc = "idle" /\ FreshCall.worthIt = FALSE /\ FreshCall.outcome = "none"
    BY CallersAssumption DEF FreshCall, Calls
<1>2. k.left - 1 \in 0..MaxCalls
    BY CallersAssumption DEF Calls
<1>3. a \in Calls /\ a.pc = "idle" /\ a.worthIt = FALSE /\ a.outcome = "none"
    BY <1>1, <1>2 DEF Calls
<1> HIDE DEF a
<1>4. b \in Calls /\ b.pc = "idle" /\ b.worthIt = FALSE /\ b.outcome = "none" /\ b.attempt = 1
    BY <1>3 DEF Calls
<1> HIDE DEF b
<1>5. c \in Calls /\ c.pc = "idle" /\ c.worthIt = FALSE /\ c.outcome = "none" /\ c.attempt = 1 /\ c.bundle = bundle
    BY <1>4 DEF Calls
<1> HIDE DEF c
<1>. QED
    BY <1>0, <1>5

LEMMA InitIInv == AdapterInit => AdapterInv
BY CallersAssumption DEF AdapterInit, AdapterInv, AdapterTypeOK, NoLeakedChannel, ClosedStaysClosed, ConnectingInv,
    ClientsInv, CallInv, Pending, FreshCall, Nothing, Calls, NoBundle, Bundles

-----------------------------------------------------------------------------
\* A call that is left alone goes on being sound while bundles are made and
\* a reconnect begins, or what it waits for ends.
LEMMA LeftAlone ==
    ASSUME NEW k \in Calls, NEW w, NEW m \in Nat, CallInv(k, w, m), NEW x, NEW n \in Nat, n >= m,
           k.pc # "reconnecting" \/ x = w,
           x = w \/ x.for # "reconnect" \/ (x.next \in Nat /\ x.next > m)
    PROVE  CallInv(k, x, n)
<1>1. k.pc # "reconnecting" \/ (x = w /\ k.pc = "reconnecting")
    OBVIOUS
<1>2. k.bundle \in Nat /\ k.failedOn \in Nat
    BY DEF Calls, Bundles, NoBundle
<1>3. Pending(k) => k.bundle <= n /\ (x.for = "reconnect" => k.bundle < x.next)
    <2>1. Pending(k) => k.bundle <= m /\ (w.for = "reconnect" => k.bundle < w.next)
        BY DEF CallInv
    <2>. QED
        BY <1>2, <2>1
<1>. QED
    BY <1>1, <1>3, Zenon DEF CallInv

\* A call that has settled is sound when what it tells its caller is.
LEMMA SettledIsSound ==
    ASSUME NEW k \in Calls, NEW how \in {"ok", "error", "closed", "unconnected"}, NEW w, NEW m,
           k.attempt = 2 => k.worthIt,
           k.attempt = 1 /\ how = "error" => ~k.worthIt
    PROVE  /\ Settled(k, how) \in Calls /\ Settled(k, how).pc = "idle"
           /\ CallInv(Settled(k, how), w, m)
<1> DEFINE s == Settled(k, how)
<1>1. s \in Calls /\ s.pc = "idle" /\ s.outcome = how /\ s.attempt = k.attempt /\ s.worthIt = k.worthIt
    BY SettledOK
<1> HIDE DEF s
<1>2. ~Pending(s) /\ s.pc # "reconnecting"
    BY <1>1 DEF Pending
<1>3. CallInv(s, w, m)
    BY <1>1, <1>2, Zenon DEF CallInv
<1>. QED
    BY <1>1, <1>3 DEF s

LEMMA InitializeKeeps ==
    ASSUME AdapterInv, Initialize
    PROVE  AdapterInv'
<1>1. connecting' = [for |-> "initialize", next |-> 1, previous |-> NoBundle]
    BY DEF Initialize
<1>2. connecting = Nothing /\ clients = NoBundle /\ open = {} /\ closed = "no"
    BY DEF AdapterInv, AdapterTypeOK, ClientsInv, Initialize, Bundles, NoBundle
<1>4. AdapterTypeOK'
    BY <1>1, <1>2 DEF AdapterInv, AdapterTypeOK, Initialize, Bundles, NoBundle, Nothing
<1>5. NoLeakedChannel' /\ ClosedStaysClosed' /\ ConnectingInv' /\ ClientsInv'
    BY <1>1, <1>2 DEF AdapterInv, NoLeakedChannel, ClosedStaysClosed, ConnectingInv, ClientsInv, Initialize, NoBundle
<1>6. ASSUME NEW c \in Callers PROVE CallInv(call[c], connecting, made)'
    <2>1. call' = call /\ call[c] \in Calls /\ call[c].pc # "reconnecting" /\ CallInv(call[c], connecting, made)
        BY <1>2 DEF AdapterInv, AdapterTypeOK, Initialize, Nothing
    <2>. QED
        BY <1>1, <1>2, <2>1, LeftAlone DEF AdapterInv, Initialize, Nothing
<1>. QED
    BY <1>4, <1>5, <1>6 DEF AdapterInv

LEMMA ConnectedKeeps ==
    ASSUME AdapterInv, Connected
    PROVE  AdapterInv'
<1>1. /\ connecting' = Nothing /\ clients' = connecting.next /\ connecting.next \in 1..made
      /\ connecting.next \in Bundles /\ made' = made /\ closed' = closed
    BY DEF AdapterInv, AdapterTypeOK, ConnectingInv, ClientsInv, Connected, Bundles, NoBundle, Nothing
<1>2. open' = {connecting.next}
    <2>1. open' = open \ {connecting.previous} /\ open \subseteq 1..made
        BY DEF AdapterInv, AdapterTypeOK, Connected
    <2>2. CASE connecting.for = "initialize"
        <3>1. connecting.next = 1 /\ connecting.previous = NoBundle /\ clients = NoBundle /\ 1 \in open
            BY <2>2 DEF AdapterInv, ConnectingInv
        <3>2. open \subseteq {1} /\ NoBundle \notin open
            BY <2>1, <3>1 DEF AdapterInv, NoLeakedChannel, NoBundle
        <3>. QED
            BY <2>1, <3>1, <3>2
    <2>3. CASE connecting.for = "reconnect"
        <3>1. /\ connecting.previous < made /\ connecting.next = made /\ made \in open
              /\ clients \in {connecting.previous, NoBundle} /\ (clients = NoBundle => closed = "racing")
            BY <2>3 DEF AdapterInv, ConnectingInv
        <3>2. open \subseteq {clients, made} /\ NoBundle \notin open
            BY <2>1, <3>1 DEF AdapterInv, NoLeakedChannel, NoBundle
        <3>. QED
            BY <2>1, <3>1, <3>2 DEF AdapterInv, AdapterTypeOK
    <2>. QED
        BY <2>2, <2>3 DEF AdapterInv, AdapterTypeOK, Connected
<1>3. ASSUME NEW c \in Callers
      PROVE  /\ call[c].pc = "reconnecting" => call'[c] = SentAgain(call[c], connecting.next)
             /\ call[c].pc # "reconnecting" => call'[c] = call[c]
    BY <1>1 DEF Connected, Resume
<1>4. call' = [c \in Callers |-> call'[c]]
    BY DEF Connected, Resume
<1>5. ASSUME NEW c \in Callers
      PROVE  call'[c] \in Calls /\ call'[c].pc # "reconnecting" /\ CallInv(call'[c], connecting', made')
    <2>1. call[c] \in Calls /\ CallInv(call[c], connecting, made)
        BY DEF AdapterInv, AdapterTypeOK
    <2>2. CASE call[c].pc # "reconnecting"
        BY <1>1, <1>3, <2>1, <2>2, LeftAlone DEF AdapterInv, AdapterTypeOK, Nothing
    <2>3. CASE call[c].pc = "reconnecting"
        <3> DEFINE k == call[c]
                   s == SentAgain(k, connecting.next)
        <3>1. /\ s \in Calls /\ s.pc = "sent" /\ s.attempt = 2 /\ s.bundle = connecting.next
              /\ s.failedOn = k.failedOn /\ s.worthIt = k.worthIt /\ s.outcome = k.outcome
            BY <1>1, <2>1, SentAgainOK
        <3>2. call'[c] = s
            BY <1>3, <2>3
        <3>3. k.attempt = 1 /\ k.worthIt /\ k.failedOn < connecting.next /\ k.outcome = "none"
            BY <2>1, <2>3 DEF CallInv
        <3> HIDE DEF s, k
        <3>4. s.bundle <= made' /\ s.bundle > s.failedOn /\ connecting'.for # "reconnect"
            <4>1. s.failedOn < connecting.next
                BY <3>1, <3>3
            <4>2. s.bundle \in Nat /\ s.failedOn \in Nat
                BY <3>1 DEF Calls, Bundles, NoBundle
            <4>. QED
                BY <1>1, <3>1, <4>1, <4>2 DEF AdapterInv, AdapterTypeOK, Nothing
        <3>5. CallInv(s, connecting', made')
            BY <3>1, <3>3, <3>4, Zenon DEF CallInv
        <3>. QED
            BY <3>1, <3>2, <3>5
    <2>. QED
        BY <2>2, <2>3
<1>6. AdapterTypeOK'
    BY <1>1, <1>2, <1>4, <1>5 DEF AdapterInv, AdapterTypeOK, Connected, Bundles, NoBundle, Nothing
<1>7. NoLeakedChannel' /\ ClosedStaysClosed' /\ ConnectingInv' /\ ClientsInv'
    BY <1>1, <1>2 DEF AdapterInv, AdapterTypeOK, NoLeakedChannel, ClosedStaysClosed, ConnectingInv, ClientsInv, Connected, NoBundle, Nothing
<1>. QED
    BY <1>5, <1>6, <1>7 DEF AdapterInv

LEMMA ConnectFailsKeeps ==
    ASSUME AdapterInv, ConnectFails
    PROVE  AdapterInv'
<1>1. connecting' = Nothing /\ clients' = clients /\ made' = made /\ closed' = closed
    BY DEF ConnectFails
<1>2. /\ open' \subseteq 1..made
      /\ clients # NoBundle => clients \in open'
      /\ open' \subseteq {clients, NoBundle} \union (IF clients = NoBundle /\ closed = "no" THEN {1} ELSE {})
    <2>1. open \subseteq 1..made /\ made \in Nat
        BY DEF AdapterInv, AdapterTypeOK
    <2>2. CASE connecting.for = "initialize"
        BY <2>1, <2>2 DEF AdapterInv, ConnectingInv, NoLeakedChannel, ConnectFails, NoBundle
    <2>3. CASE connecting.for = "reconnect"
        BY <2>1, <2>3 DEF AdapterInv, AdapterTypeOK, ConnectingInv, NoLeakedChannel, ConnectFails, NoBundle
    <2>. QED
        BY <2>2, <2>3 DEF AdapterInv, AdapterTypeOK, ConnectFails
<1>3. ASSUME NEW c \in Callers
      PROVE  /\ call[c].pc = "reconnecting" => call'[c] = Settled(call[c], "unconnected")
             /\ call[c].pc # "reconnecting" => call'[c] = call[c]
    BY DEF ConnectFails, Resume
<1>4. call' = [c \in Callers |-> call'[c]]
    BY DEF ConnectFails, Resume
<1>5. ASSUME NEW c \in Callers
      PROVE  call'[c] \in Calls /\ call'[c].pc # "reconnecting" /\ CallInv(call'[c], connecting', made')
    <2>1. call[c] \in Calls /\ CallInv(call[c], connecting, made)
        BY DEF AdapterInv, AdapterTypeOK
    <2>2. CASE call[c].pc # "reconnecting"
        BY <1>1, <1>3, <2>1, <2>2, LeftAlone DEF AdapterInv, AdapterTypeOK, Nothing
    <2>3. CASE call[c].pc = "reconnecting"
        <3>1. call[c].attempt = 1
            BY <2>1, <2>3 DEF CallInv
        <3>. QED
            BY <1>3, <2>1, <2>3, <3>1, SettledIsSound
    <2>. QED
        BY <2>2, <2>3
<1>6. AdapterTypeOK'
    BY <1>1, <1>2, <1>4, <1>5 DEF AdapterInv, AdapterTypeOK, ConnectFails, Bundles, NoBundle, Nothing
<1>7. NoLeakedChannel' /\ ClosedStaysClosed' /\ ConnectingInv' /\ ClientsInv'
    BY <1>1, <1>2 DEF AdapterInv, AdapterTypeOK, NoLeakedChannel, ClosedStaysClosed, ConnectingInv, ClientsInv, NoBundle, Nothing
<1>. QED
    BY <1>5, <1>6, <1>7 DEF AdapterInv

\* The five variables that decide about bundles stay as they are.
Bundle == <<clients, open, made, connecting, closed>>

\* An action of one call c that leaves the bundles alone.
LEMMA OnlyCallKeeps ==
    ASSUME AdapterInv, UNCHANGED Bundle, serverUp' \in BOOLEAN, crashes' \in 0..MaxCrashes,
           call' \in [Callers -> Calls],
           \A d \in Callers : \/ call'[d] = call[d]
                              \/ /\ call'[d].pc = "reconnecting" => connecting.for = "reconnect"
                                 /\ CallInv(call'[d], connecting, made)
    PROVE  AdapterInv'
<1>1. clients' = clients /\ open' = open /\ made' = made /\ connecting' = connecting /\ closed' = closed
    BY DEF Bundle
<1>2. \A d \in Callers : call'[d].pc = "reconnecting" => connecting.for = "reconnect"
    BY DEF AdapterInv, AdapterTypeOK
<1>3. AdapterTypeOK'
    BY <1>1, <1>2 DEF AdapterInv, AdapterTypeOK, Bundles
<1>4. NoLeakedChannel' /\ ClosedStaysClosed' /\ ConnectingInv' /\ ClientsInv'
    BY <1>1 DEF AdapterInv, NoLeakedChannel, ClosedStaysClosed, ConnectingInv, ClientsInv
<1>5. \A d \in Callers : CallInv(call'[d], connecting', made')
    BY <1>1 DEF AdapterInv
<1>. QED
    BY <1>3, <1>4, <1>5 DEF AdapterInv

\* An action of one call c.
LEMMA OneCall ==
    ASSUME call \in [Callers -> Calls], NEW c \in Callers, NEW x \in Calls,
           call' = [call EXCEPT ![c] = x]
    PROVE  /\ call' \in [Callers -> Calls] /\ call'[c] = x
           /\ \A d \in Callers : d # c => call'[d] = call[d]
OBVIOUS

LEMMA CallKeeps ==
    ASSUME AdapterInv, NEW c \in Callers, Call(c)
    PROVE  AdapterInv'
<1> DEFINE k == FirstAttempt(call[c], clients)
<1>1. /\ k \in Calls /\ k.pc = "idle" /\ k.attempt = 1 /\ k.bundle = clients
      /\ k.worthIt = FALSE /\ k.outcome = "none"
    <2>1. call[c] \in Calls /\ call[c].left > 0 /\ clients \in Bundles \union {NoBundle}
        BY DEF AdapterInv, AdapterTypeOK, Call
    <2>. QED
        BY <2>1, FirstAttemptOK
<1>2. call' = [call EXCEPT ![c] = IF clients = NoBundle THEN Settled(k, "closed") ELSE [k EXCEPT !.pc = "sent"]]
    BY DEF Call
<1>3. UNCHANGED <<Bundle, serverUp, crashes>>
    BY DEF Call, Bundle
<1> HIDE DEF k
<1>4. PICK x : x = IF clients = NoBundle THEN Settled(k, "closed") ELSE [k EXCEPT !.pc = "sent"]
    OBVIOUS
<1>5. x \in Calls /\ x.pc # "reconnecting" /\ CallInv(x, connecting, made)
    <2>1. CASE clients = NoBundle
        <3>1. x = Settled(k, "closed")
            BY <1>4, <2>1
        <3>. QED
            BY <1>1, <3>1, SettledIsSound
    <2>2. CASE clients # NoBundle
        <3>1. x = [k EXCEPT !.pc = "sent"]
            BY <1>4, <2>2
        <3>2. /\ x \in Calls /\ x.pc = "sent" /\ x.attempt = 1 /\ x.bundle = clients
              /\ x.worthIt = FALSE /\ x.outcome = "none"
            BY <1>1, <3>1 DEF Calls
        <3>3. x.bundle <= made /\ (connecting.for = "reconnect" => x.bundle < connecting.next)
            BY <2>2, <3>2 DEF AdapterInv, AdapterTypeOK, ConnectingInv, NoLeakedChannel
        <3>. QED
            BY <3>2, <3>3 DEF CallInv, Pending
    <2>. QED
        BY <2>1, <2>2
<1>6. call' \in [Callers -> Calls] /\ \A d \in Callers : call'[d] = IF d = c THEN x ELSE call[d]
    BY <1>2, <1>4, <1>5 DEF AdapterInv, AdapterTypeOK
<1>. QED
    BY <1>3, <1>5, <1>6, OnlyCallKeeps DEF AdapterInv, AdapterTypeOK

LEMMA DeliverKeeps ==
    ASSUME AdapterInv, NEW c \in Callers, Deliver(c)
    PROVE  AdapterInv'
<1>1. PICK x : x = [call[c] EXCEPT !.pc = "running"]
    OBVIOUS
<1>2. call[c] \in Calls /\ call[c].pc = "sent" /\ CallInv(call[c], connecting, made)
    BY DEF AdapterInv, AdapterTypeOK, Deliver
<1>3. /\ x \in Calls /\ x.pc = "running" /\ x.attempt = call[c].attempt /\ x.bundle = call[c].bundle
      /\ x.failedOn = call[c].failedOn /\ x.worthIt = call[c].worthIt /\ x.outcome = call[c].outcome
    BY <1>1, <1>2 DEF Calls
<1>4. Pending(x) /\ Pending(call[c]) /\ x.pc # "idle" /\ x.pc # "reconnecting"
    BY <1>2, <1>3 DEF Pending
<1>5. CallInv(x, connecting, made)
    BY <1>2, <1>3, <1>4 DEF CallInv
<1>6. call' = [call EXCEPT ![c] = x] /\ UNCHANGED <<Bundle, serverUp, crashes>>
    BY <1>1 DEF Deliver, Bundle
<1>7. call' \in [Callers -> Calls] /\ \A d \in Callers : call'[d] = IF d = c THEN x ELSE call[d]
    BY <1>3, <1>6 DEF AdapterInv, AdapterTypeOK
<1>. QED
    BY <1>3, <1>5, <1>6, <1>7, OnlyCallKeeps DEF AdapterInv, AdapterTypeOK

LEMMA AnswerKeeps ==
    ASSUME AdapterInv, NEW c \in Callers, Answer(c)
    PROVE  AdapterInv'
<1>1. PICK x : x = Settled(call[c], "ok")
    OBVIOUS
<1>2. call[c] \in Calls /\ CallInv(call[c], connecting, made)
    BY DEF AdapterInv, AdapterTypeOK
<1>3. x \in Calls /\ x.pc = "idle" /\ CallInv(x, connecting, made)
    <2>1. call[c].attempt = 2 => call[c].worthIt
        BY <1>2 DEF CallInv
    <2>. QED
        BY <1>1, <1>2, <2>1, SettledIsSound
<1>4. call' = [call EXCEPT ![c] = x] /\ UNCHANGED <<Bundle, serverUp, crashes>>
    BY <1>1 DEF Answer, Bundle
<1>5. call' \in [Callers -> Calls] /\ \A d \in Callers : call'[d] = IF d = c THEN x ELSE call[d]
    BY <1>3, <1>4 DEF AdapterInv, AdapterTypeOK
<1>. QED
    BY <1>3, <1>4, <1>5, OnlyCallKeeps DEF AdapterInv, AdapterTypeOK

LEMMA CloseKeeps ==
    ASSUME AdapterInv, Close
    PROVE  AdapterInv'
<1>1. /\ clients' = NoBundle /\ open' = open \ {clients} /\ UNCHANGED <<made, connecting, call, serverUp, crashes>>
      /\ clients # NoBundle /\ clients \in open /\ open \subseteq 1..made
      /\ closed' = IF connecting.for = "reconnect" THEN "racing" ELSE IF closed = "no" THEN "quiet" ELSE closed
    BY DEF AdapterInv, AdapterTypeOK, NoLeakedChannel, Close
<1>2. CASE connecting.for = "reconnect"
    <2>1. connecting.next = made /\ connecting.previous < made /\ made \in open /\ clients = connecting.previous
        BY <1>1, <1>2 DEF AdapterInv, ConnectingInv
    <2>2. closed' = "racing" /\ open \subseteq {clients, made}
        BY <1>1, <1>2, <2>1 DEF AdapterInv, NoLeakedChannel
    <2>3. AdapterTypeOK'
        BY <1>1, <2>2 DEF AdapterInv, AdapterTypeOK, Bundles
    <2>4. open' \subseteq {made} /\ made \in open' /\ NoBundle \notin open'
        BY <1>1, <2>1, <2>2 DEF AdapterInv, AdapterTypeOK, NoBundle
    <2>5. NoLeakedChannel'
        BY <1>1, <2>1, <2>4 DEF NoLeakedChannel
    <2>6. ClosedStaysClosed' /\ ClientsInv'
        <3>1. made' # 0
            BY <1>1 DEF AdapterInv, AdapterTypeOK
        <3>2. ClosedStaysClosed'
            BY <2>2 DEF ClosedStaysClosed
        <3>3. ClientsInv'
            BY <1>1, <3>1 DEF AdapterInv, AdapterTypeOK, ClientsInv, NoBundle
        <3>. QED
            BY <1>1, <2>2, <3>1, <3>2, <3>3
    <2>7. ConnectingInv'
        BY <1>1, <1>2, <2>1, <2>2, <2>4 DEF ConnectingInv
    <2>. QED
        BY <1>1, <2>3, <2>5, <2>6, <2>7 DEF AdapterInv
<1>3. CASE connecting.for # "reconnect"
    <2>1. connecting = Nothing /\ connecting.for = "nothing" /\ closed' # "no" /\ closed' \in {"quiet", "racing"}
        BY <1>1, <1>3 DEF AdapterInv, AdapterTypeOK, ConnectingInv, Nothing
    <2>2. open' = {}
        BY <1>1, <2>1 DEF AdapterInv, NoLeakedChannel, Nothing, NoBundle
    <2>3. AdapterTypeOK'
        BY <1>1, <2>1, <2>2 DEF AdapterInv, AdapterTypeOK, Bundles
    <2>4. NoLeakedChannel' /\ ClosedStaysClosed' /\ ConnectingInv' /\ ClientsInv'
        BY <1>1, <2>1, <2>2 DEF AdapterInv, AdapterTypeOK, NoLeakedChannel, ClosedStaysClosed, ConnectingInv, ClientsInv, NoBundle
    <2>. QED
        BY <1>1, <2>3, <2>4 DEF AdapterInv
<1>. QED
    BY <1>2, <1>3

-----------------------------------------------------------------------------
(* A failed attempt                                                        *)

\* What a call that waits for a reconnect has to be.
LEMMA WaitingIsSound ==
    ASSUME NEW k \in Calls, k.attempt = 1, k.worthIt = TRUE, k.outcome = "none",
           NEW w, NEW m, k.failedOn < w.next
    PROVE  LET x == [k EXCEPT !.pc = "reconnecting"]
           IN  x \in Calls /\ x.pc = "reconnecting" /\ CallInv(x, w, m)
<1> DEFINE x == [k EXCEPT !.pc = "reconnecting"]
<1>1. /\ x \in Calls /\ x.pc = "reconnecting" /\ x.attempt = 1 /\ x.worthIt = TRUE
      /\ x.outcome = "none" /\ x.failedOn = k.failedOn
    BY DEF Calls
<1> HIDE DEF x
<1>2. ~Pending(x) /\ x.failedOn < w.next
    BY <1>1 DEF Pending
<1>3. CallInv(x, w, m)
    BY <1>1, <1>2, Zenon DEF CallInv
<1>. QED
    BY <1>1, <1>3 DEF x

\* A call settles, or joins the reconnect under way.
LEMMA OneSettlesOrJoins ==
    ASSUME AdapterInv, NEW c \in Callers, NEW x \in Calls, CallInv(x, connecting, made),
           x.pc = "reconnecting" => connecting.for = "reconnect",
           call' = [call EXCEPT ![c] = x], UNCHANGED <<Bundle, serverUp, crashes>>
    PROVE  AdapterInv'
<1>1. call' \in [Callers -> Calls] /\ \A d \in Callers : call'[d] = IF d = c THEN x ELSE call[d]
    BY DEF AdapterInv, AdapterTypeOK
<1>. QED
    BY <1>1, OnlyCallKeeps DEF AdapterInv, AdapterTypeOK

\* A call begins a reconnect.
LEMMA OneReconnects ==
    ASSUME AdapterInv, NEW c \in Callers, NEW k \in Calls,
           k.attempt = 1, k.worthIt = TRUE, k.outcome = "none", k.failedOn <= made,
           connecting.for = "nothing", clients # NoBundle,
           made' = made + 1, open' = open \union {made + 1},
           connecting' = [for |-> "reconnect", next |-> made + 1, previous |-> clients],
           call' = [call EXCEPT ![c] = [k EXCEPT !.pc = "reconnecting"]],
           UNCHANGED <<clients, serverUp, crashes, closed>>
    PROVE  AdapterInv'
<1>1. PICK x : x = [k EXCEPT !.pc = "reconnecting"]
    OBVIOUS
<1>2. /\ made \in Nat /\ connecting = Nothing /\ clients \in open /\ open \subseteq 1..made
      /\ connecting'.for = "reconnect" /\ connecting'.next = made + 1 /\ connecting'.previous = clients
    BY DEF AdapterInv, AdapterTypeOK, ConnectingInv, NoLeakedChannel
<1>3. x \in Calls /\ x.pc = "reconnecting" /\ CallInv(x, connecting', made')
    <2>1. k.failedOn < connecting'.next
        BY <1>2 DEF Calls, Bundles, NoBundle
    <2>. QED
        BY <1>1, <2>1, WaitingIsSound
<1>4. call' \in [Callers -> Calls] /\ \A d \in Callers : call'[d] = IF d = c THEN x ELSE call[d]
    BY <1>1, <1>3 DEF AdapterInv, AdapterTypeOK
<1>5. ASSUME NEW d \in Callers PROVE CallInv(call'[d], connecting', made')
    <2>1. CASE d = c
        BY <1>3, <1>4, <2>1
    <2>2. CASE d # c
        <3>1. call[d] \in Calls /\ call[d].pc # "reconnecting" /\ CallInv(call[d], connecting, made)
            BY DEF AdapterInv, AdapterTypeOK
        <3>2. made' >= made /\ made' \in Nat /\ connecting'.next > made /\ connecting'.next \in Nat
            BY <1>2
        <3>3. CallInv(call[d], connecting', made')
            BY <1>2, <3>1, <3>2, LeftAlone
        <3>. QED
            BY <1>4, <2>2, <3>3
    <2>. QED
        BY <2>1, <2>2
<1>6. AdapterTypeOK'
    BY <1>2, <1>4 DEF AdapterInv, AdapterTypeOK, Bundles, NoBundle
<1>7. NoLeakedChannel' /\ ClosedStaysClosed'
    BY <1>2 DEF AdapterInv, NoLeakedChannel, ClosedStaysClosed, Nothing, NoBundle
<1>8. ConnectingInv' /\ ClientsInv'
    BY <1>2 DEF AdapterInv, ConnectingInv, ClientsInv
<1>. QED
    BY <1>5, <1>6, <1>7, <1>8 DEF AdapterInv

LEMMA FailKeeps ==
    ASSUME AdapterInv, NEW c \in Callers, NEW e \in Errors, call[c].pc \in {"sent", "running"},
           Fail(c, e), UNCHANGED <<clients, serverUp, crashes, closed>>
    PROVE  AdapterInv'
<1> DEFINE k == Noted(call[c], e)
<1>1. call[c] \in Calls /\ CallInv(call[c], connecting, made) /\ call[c].attempt \in {1, 2} /\ Pending(call[c])
    BY DEF AdapterInv, AdapterTypeOK, CallInv, Pending
<1>2. /\ k \in Calls /\ k.attempt = call[c].attempt /\ k.outcome = "none"
      /\ k.attempt = 1 => k.failedOn = call[c].bundle /\ k.worthIt = e.retryable
      /\ k.attempt = 2 => k.worthIt
    <2>1. call[c].outcome = "none" /\ (call[c].attempt = 2 => call[c].worthIt)
        BY <1>1 DEF CallInv
    <2>. QED
        BY <1>1, <2>1, NotedOK
<1>3. \/ k.attempt = 1 /\ IsTransient(e) /\ Reconnect(c, k)
      \/ /\ k.attempt = 2 \/ ~IsTransient(e)
         /\ call' = [call EXCEPT ![c] = Settled(k, "error")]
         /\ UNCHANGED <<open, made, connecting>>
    BY DEF Fail
<1>4. call[c].bundle <= made /\ (connecting.for = "reconnect" => call[c].bundle < connecting.next)
    BY <1>1 DEF CallInv
<1>5. (IsTransient(e) <=> e.retryable = TRUE) /\ e.retryable \in BOOLEAN
    BY TransientIsRetryable
<1> HIDE DEF k
<1>6. CASE (k.attempt = 2 \/ ~IsTransient(e)) /\ call' = [call EXCEPT ![c] = Settled(k, "error")]
           /\ UNCHANGED <<open, made, connecting>>
    <2>1. k.attempt = 1 => ~k.worthIt
        BY <1>2, <1>5, <1>6
    <2>2. Settled(k, "error") \in Calls /\ Settled(k, "error").pc = "idle" /\ CallInv(Settled(k, "error"), connecting, made)
        BY <1>2, <2>1, SettledIsSound
    <2>. QED
        BY <1>6, <2>2, OneSettlesOrJoins DEF Bundle
<1>7. CASE k.attempt = 1 /\ IsTransient(e) /\ Reconnect(c, k)
    <2>1. k.worthIt = TRUE /\ k.failedOn = call[c].bundle
        BY <1>2, <1>5, <1>7
    <2>2. CASE /\ connecting.for = "reconnect"
               /\ call' = [call EXCEPT ![c] = [k EXCEPT !.pc = "reconnecting"]]
               /\ UNCHANGED <<open, made, connecting>>
        <3>1. PICK x : x = [k EXCEPT !.pc = "reconnecting"]
            OBVIOUS
        <3>2. x \in Calls /\ CallInv(x, connecting, made)
            BY <1>2, <1>4, <1>7, <2>1, <2>2, <3>1, WaitingIsSound
        <3>. QED
            BY <2>2, <3>1, <3>2, OneSettlesOrJoins DEF Bundle
    <2>3. CASE /\ connecting.for = "nothing" /\ clients = NoBundle
               /\ call' = [call EXCEPT ![c] = Settled(k, "closed")]
               /\ UNCHANGED <<open, made, connecting>>
        <3>1. Settled(k, "closed") \in Calls /\ Settled(k, "closed").pc = "idle" /\ CallInv(Settled(k, "closed"), connecting, made)
            BY <1>2, <1>7, SettledIsSound
        <3>. QED
            BY <2>3, <3>1, OneSettlesOrJoins DEF Bundle
    <2>4. CASE /\ connecting.for = "nothing" /\ clients # NoBundle
               /\ made' = made + 1
               /\ open' = open \union {made + 1}
               /\ connecting' = [for |-> "reconnect", next |-> made + 1, previous |-> clients]
               /\ call' = [call EXCEPT ![c] = [k EXCEPT !.pc = "reconnecting"]]
        BY <1>2, <1>4, <1>7, <2>1, <2>4, OneReconnects
    <2>. QED
        BY <1>7, <2>2, <2>3, <2>4 DEF Reconnect
<1>. QED
    BY <1>3, <1>6, <1>7

LEMMA FailuresKeep ==
    ASSUME AdapterInv, NEW c \in Callers, Refuse(c) \/ Deadline(c) \/ Lost(c)
    PROVE  AdapterInv'
<1>1. PICK e \in Errors : Fail(c, e)
    BY DEF Refuse, Deadline, Lost, Errors
<1>2. call[c].pc \in {"sent", "running"} /\ UNCHANGED <<clients, serverUp, crashes, closed>>
    BY DEF Refuse, Deadline, Lost
<1>. QED
    BY <1>1, <1>2, FailKeeps

LEMMA ServerKeeps ==
    ASSUME AdapterInv, ServerCrash \/ ServerStart
    PROVE  AdapterInv'
<1>1. UNCHANGED Bundle /\ call' = call /\ serverUp' \in BOOLEAN
    BY DEF ServerCrash, ServerStart, Bundle
<1>2. crashes' \in 0..MaxCrashes
    BY CallersAssumption DEF AdapterInv, AdapterTypeOK, ServerCrash, ServerStart
<1>. QED
    BY <1>1, <1>2, OnlyCallKeeps DEF AdapterInv, AdapterTypeOK

-----------------------------------------------------------------------------
LEMMA NextIInv == AdapterInv /\ [AdapterNext]_adapterVars => AdapterInv'
<1> SUFFICES ASSUME AdapterInv, [AdapterNext]_adapterVars PROVE AdapterInv'
    OBVIOUS
<1>1. CASE UNCHANGED adapterVars
    <2>1. UNCHANGED Bundle /\ call' = call /\ serverUp' = serverUp /\ crashes' = crashes
        BY <1>1 DEF adapterVars, Bundle
    <2>. QED
        BY <2>1, OnlyCallKeeps DEF AdapterInv, AdapterTypeOK
<1>2. CASE Initialize
    BY <1>2, InitializeKeeps
<1>3. CASE Connected
    BY <1>3, ConnectedKeeps
<1>4. CASE ConnectFails
    BY <1>4, ConnectFailsKeeps
<1>5. CASE Close
    BY <1>5, CloseKeeps
<1>6. CASE ServerCrash \/ ServerStart
    BY <1>6, ServerKeeps
<1>7. ASSUME NEW c \in Callers, Call(c) PROVE AdapterInv'
    BY <1>7, CallKeeps
<1>8. ASSUME NEW c \in Callers, Deliver(c) PROVE AdapterInv'
    BY <1>8, DeliverKeeps
<1>9. ASSUME NEW c \in Callers, Answer(c) PROVE AdapterInv'
    BY <1>9, AnswerKeeps
<1>10. ASSUME NEW c \in Callers, Refuse(c) \/ Deadline(c) \/ Lost(c) PROVE AdapterInv'
    BY <1>10, FailuresKeep
<1>. QED
    BY <1>1, <1>2, <1>3, <1>4, <1>5, <1>6, <1>7, <1>8, <1>9, <1>10 DEF AdapterNext

\* The inductive invariant holds in every reachable state.
THEOREM AdapterInvariance == AdapterSpec => []AdapterInv
BY InitIInv, NextIInv, PTL DEF AdapterSpec

\* Whatever reconnects, failures and close() do in whatever order, no channel
\* is leaked, and an adapter closed while nothing reconnects stays closed
\* (reconnect(), close()).
THEOREM BundlesStaySound == AdapterSpec => []BundlesSound
<1>1. AdapterInv => BundlesSound
    BY DEF AdapterInv, BundlesSound
<1>. QED
    BY <1>1, AdapterInvariance, PTL

\* A call is sent again only over a newer bundle, and only when the server's
\* error, or the channel's, was worth it (callWithReconnect(), errors.ts).
THEOREM RetriesStaySound == AdapterSpec => []RetriesSound
<1>1. AdapterInv => RetryOnFreshBundle
    <2> SUFFICES ASSUME AdapterInv, NEW c \in Callers, call[c].pc \in {"sent", "running"}, call[c].attempt = 2
                 PROVE  call[c].bundle > call[c].failedOn
        BY DEF RetryOnFreshBundle
    <2>1. CallInv(call[c], connecting, made) /\ Pending(call[c])
        BY DEF AdapterInv, Pending
    <2>. QED
        BY <2>1 DEF CallInv
<1>2. AdapterInv => RetriedIffRetryable
    <2> SUFFICES ASSUME AdapterInv, NEW c \in Callers
                 PROVE  /\ call[c].attempt = 2 => call[c].worthIt
                        /\ call[c].attempt = 1 /\ call[c].outcome = "error" => ~call[c].worthIt
        BY DEF RetriedIffRetryable
    <2>1. CallInv(call[c], connecting, made)
        BY DEF AdapterInv
    <2>. QED
        BY <2>1 DEF CallInv
<1>3. AdapterInv => RetriesSound
    BY <1>1, <1>2 DEF RetriesSound
<1>. QED
    BY <1>3, AdapterInvariance, PTL
=============================================================================
