--------------------------- MODULE RequestService ---------------------------
(***************************************************************************)
(* What the connection server's request scheduler promises its callers,    *)
(* with no queue, priority, slot or timer in sight: a call is accepted     *)
(* only while the service is open, an accepted call is answered once, and  *)
(* a drain() is reported done only when the service is closed and nothing  *)
(* accepted is left without an answer.  Scheduler implements this.         *)
(***************************************************************************)
CONSTANTS Requests, Drains

VARIABLES
    open,      \* new calls are still accepted
    phase,     \* per call: "new", "pending" or "answered"
    reported   \* the drain() calls told that the service is drained

svars == <<open, phase, reported>>

STypeOK ==
    /\ open \in BOOLEAN
    /\ phase \in [Requests -> {"new", "pending", "answered"}]
    /\ reported \subseteq Drains

SInit ==
    /\ open = TRUE
    /\ phase = [r \in Requests |-> "new"]
    /\ reported = {}

Pending == {r \in Requests : phase[r] = "pending"}

Accept(r) ==
    /\ open
    /\ phase[r] = "new"
    /\ phase' = [phase EXCEPT ![r] = "pending"]
    /\ UNCHANGED <<open, reported>>

Refuse(r) ==
    /\ phase[r] = "new"
    /\ phase' = [phase EXCEPT ![r] = "answered"]
    /\ UNCHANGED <<open, reported>>

\* Answer the calls in S and report the drains in D, which is allowed only
\* when that leaves nothing pending behind a closed door.
Answer(S, D) ==
    /\ S \subseteq Pending
    /\ D # {} => ~open /\ S = Pending
    /\ phase' = [r \in Requests |-> IF r \in S THEN "answered" ELSE phase[r]]
    /\ reported' = reported \union D
    /\ UNCHANGED open

\* Close the door; a drain() that finds nothing pending is done at once.
Close(D) ==
    /\ D # {} => Pending = {}
    /\ open' = FALSE
    /\ reported' = reported \union D
    /\ UNCHANGED phase

SNext ==
    \/ \E r \in Requests : Accept(r) \/ Refuse(r)
    \/ \E S \in SUBSET Requests, D \in SUBSET Drains : Answer(S, D)
    \/ \E D \in SUBSET Drains : Close(D)

SSpec == SInit /\ [][SNext]_svars
=============================================================================
