----------------------------- MODULE RemoteStore -----------------------------
(***************************************************************************)
(* A write or a read of a client process, from the remote adapters         *)
(* (src/infrastructure/remote-transport/remote-adapters) over the gRPC     *)
(* services and the router of the connection server                        *)
(* (src/apps/ladybug-server/services, router.ts) and its scheduler to the  *)
(* statements the database executes, and back.                             *)
(*                                                                         *)
(* Scheduler models the scheduler in detail, RemoteClient the reconnect;   *)
(* here they are as much as it takes to ask what a caller knows of the     *)
(* database once its call has returned: an attempt whose deadline passes   *)
(* stays in the queue or goes on running, and the call is sent once more   *)
(* with the same request id.                                               *)
(*                                                                         *)
(* Every method of the remote adapters is here but RunCypherWrite: its     *)
(* statement is the caller's, and nothing in src/ calls it.                *)
(***************************************************************************)
EXTENDS GraphStore

CONSTANTS
    Clients,    \* client processes, each with one call at a time
    Ops,        \* the calls each of them may make
    MaxCalls,   \* bound on the calls of each of them
    MaxSlots,   \* bound on serverMaxConcurrency
    MaxQueue,   \* serverMaxQueue
    MaxFaults   \* bound on crashes and failing statements

\* The methods of the remote adapters, each of which sends one request.
GraphMethods ==
    {"CreateNode", "CreateNodes", "CreateRelationship", "CreateRelationships",
     "QueryNodes", "QueryRelationships", "RunCypher", "DeleteNodesByLabel",
     "DeleteRelationshipsByType"}
VectorMethods ==
    {"CreateTables", "IndexSymbol", "IndexSymbols", "SemanticSearch", "DeleteAll"}

ASSUME StoreAssumption ==
    /\ \A c \in Clients : \A op \in Ops[c] :
          /\ op = [kind |-> op.kind, on |-> op.on, rows |-> op.rows,
                   prefix |-> op.prefix, limit |-> op.limit]
          /\ op.kind \in GraphMethods \union VectorMethods
          /\ Len(op.rows) \in Nat /\ DOMAIN op.rows = 1..Len(op.rows)
    /\ MaxCalls \in [Clients -> Nat]
    /\ MaxSlots \in Nat \ {0} /\ MaxQueue \in Nat \ {0} /\ MaxFaults \in Nat

VARIABLES
    db,       \* what the database holds
    slots,    \* serverMaxConcurrency
    call,     \* the call of each client
    queue,    \* the scheduler's queue
    running,  \* the operations that hold a slot
    faults

vars == <<db, slots, call, queue, running, faults>>

Blank == "blank"    \* a text that is empty after trim()
NoCount == [counted |-> FALSE, n |-> 0]

IsWrite(op) == op.kind \notin Reads

\* The services enqueue these as interactive_read, the rest as
\* background_write.
GraphReads == {"QueryNodes", "QueryRelationships", "RunCypher"}
VectorReads == {"SemanticSearch"}
Rank(op) == IF op.kind \in GraphReads \union VectorReads THEN 0 ELSE 1

NoCall == [pc |-> "idle", op |-> [kind |-> "none"], n |-> 0, attempt |-> 0,
           outcome |-> "none", standing |-> FALSE]

Init ==
    /\ db = Empty
    /\ slots \in 1..MaxSlots
    /\ call = [c \in Clients |-> NoCall]
    /\ queue = <<>>
    /\ running = {}
    /\ faults = 0

-----------------------------------------------------------------------------
(* The router                                                              *)

\* validateEmbedding()
Sound(row) ==
    \A p \in row : p[1] = "embedding" => p[2] \notin {"empty", "not finite", "wrong length"}

\* routeGraphOp(): CreateNode alone does not look at the id of its row.
AcceptsGraph(op) ==
    /\ op.on # Blank
    /\ op.kind = "CreateNodes" =>
          \A i \in DOMAIN op.rows : op.rows[i].key # Blank
    /\ op.kind \in {"CreateRelationship", "CreateRelationships"} =>
          \A i \in DOMAIN op.rows :
              op.rows[i].key[1] # Blank /\ op.rows[i].key[2] # Blank

\* routeVectorOp(): the only row of a search is its query.
AcceptsVector(op) ==
    /\ op.kind \in {"IndexSymbol", "IndexSymbols"} =>
          \A i \in DOMAIN op.rows :
              op.rows[i].key # Blank /\ Sound(op.rows[i].val)
    /\ op.kind = "SemanticSearch" =>
          op.limit > 0 /\ \A i \in DOMAIN op.rows : Sound(op.rows[i].val)

\* validateMetadata(): the id and the timeout of a request of the adapters are
\* always there, the prefix is the one the client is configured with.
AcceptsMetadata(op) == op.prefix = "own"

\* What is not answered INVALID_ARGUMENT before it reaches the scheduler.
Accepts(op) ==
    /\ AcceptsMetadata(op)
    /\ op.kind \in GraphMethods => AcceptsGraph(op)
    /\ op.kind \in VectorMethods => AcceptsVector(op)

-----------------------------------------------------------------------------
(* The client                                                              *)

Settled(c, how) ==
    call' = [call EXCEPT ![c].pc = "idle", ![c].outcome = how, ![c].attempt = 0]

\* A method of an adapter: the request and its id are built once.
Call(c) ==
    /\ call[c].pc = "idle" /\ call[c].n < MaxCalls[c]
    /\ \E op \in Ops[c] :
          call' = [call EXCEPT ![c] = [NoCall EXCEPT !.pc = "sent", !.op = op,
                                       !.n = call[c].n + 1, !.attempt = 1]]
    /\ UNCHANGED <<db, slots, queue, running, faults>>

\* callWithReconnect(): after a transient error of the first attempt.
Failed(k) ==
    IF k.attempt = 1 THEN [k EXCEPT !.pc = "reconnecting"]
    ELSE [k EXCEPT !.pc = "idle", !.outcome = "error", !.attempt = 0]

Resend(c) ==
    /\ call[c].pc = "reconnecting"
    /\ call' = [call EXCEPT ![c].pc = "sent", ![c].attempt = 2]
    /\ UNCHANGED <<db, slots, queue, running, faults>>

ReconnectFails(c) ==
    /\ call[c].pc = "reconnecting"
    /\ Settled(c, "error")
    /\ UNCHANGED <<db, slots, queue, running, faults>>

\* The deadline passes.  What has not arrived by then never does, what has
\* arrived stays where it is.
Deadline(c) ==
    /\ call[c].pc \in {"sent", "arrived", "answered"}
    /\ call' = [call EXCEPT ![c] = Failed(@)]
    /\ UNCHANGED <<db, slots, queue, running, faults>>

Receive(c) ==
    /\ call[c].pc = "answered"
    /\ Settled(c, call[c].outcome)
    /\ UNCHANGED <<db, slots, queue, running, faults>>

-----------------------------------------------------------------------------
(* The scheduler                                                           *)

Waits(e) ==
    LET k == call[e.id[1]]
    IN  k.pc = "arrived" /\ k.n = e.id[2] /\ k.attempt = e.attempt

Insert(q, e) ==
    LET before == {i \in DOMAIN q : Rank(q[i].op) <= Rank(e.op)}
        n == Cardinality(before)
    IN  SubSeq(q, 1, n) \o <<e>> \o SubSeq(q, n + 1, Len(q))

\* tryExecuteNext(), of which at most one call can be started at a time.
TryExecuteNext(q, r) ==
    IF q # <<>> /\ Cardinality(r) < slots
    THEN queue' = Tail(q) /\ running' = r \union {Head(q)}
    ELSE queue' = q /\ running' = r

\* The handler of the service: refused by the router or by a full queue, or
\* enqueued.
Arrive(c) ==
    /\ call[c].pc = "sent"
    /\ LET k == call[c]
           e == [id |-> <<c, k.n>>, attempt |-> k.attempt, op |-> k.op,
                 timed |-> FALSE, count |-> NoCount]
       IN  \/ /\ ~Accepts(k.op)
              /\ Settled(c, "invalid")
              /\ UNCHANGED <<queue, running>>
           \/ /\ Accepts(k.op) /\ Len(queue) >= MaxQueue
              /\ call' = [call EXCEPT ![c] = Failed(@)]
              /\ UNCHANGED <<queue, running>>
           \/ /\ Accepts(k.op) /\ Len(queue) < MaxQueue
              /\ call' = [call EXCEPT ![c].pc = "arrived"]
              /\ TryExecuteNext(Insert(queue, e), running)
    /\ UNCHANGED <<db, slots, faults>>

\* Regression: the last entry with the id is removed.
RemoveLast(q, id) ==
    LET i == CHOOSE n \in DOMAIN q :
                q[n].id = id /\ \A m \in DOMAIN q : q[m].id = id => m <= n
    IN  SubSeq(q, 1, i - 1) \o SubSeq(q, i + 1, Len(q))

\* removeFromQueue(): the first entry with the id the client chose.
RemoveFromQueue(q, id) ==
    LET i == CHOOSE n \in DOMAIN q :
                q[n].id = id /\ \A m \in DOMAIN q : q[m].id = id => n <= m
    IN  SubSeq(q, 1, i - 1) \o SubSeq(q, i + 1, Len(q))

\* The attempts whose timers are armed.
Untimed == {e \in running \union {queue[i] : i \in DOMAIN queue} : ~e.timed}

\* Regression: an operation that times out gives its slot back although it
\* still runs.
TimeoutFreesSlot(e) ==
    /\ ~\E f \in Untimed : f.id = e.id /\ f.attempt < e.attempt
    /\ call' = IF Waits(e) THEN [call EXCEPT ![e.id[1]] = Failed(@)] ELSE call
    /\ IF e \in running
       THEN /\ queue' = IF queue = <<>> THEN queue ELSE Tail(queue)
            /\ running' = (running \ {e}) \union {[e EXCEPT !.timed = TRUE]}
                             \union (IF queue = <<>> THEN {} ELSE {Head(queue)})
       ELSE /\ queue' = RemoveFromQueue(queue, e.id)
            /\ UNCHANGED running
    /\ UNCHANGED <<db, slots, faults>>

\* A timer of the scheduler.  Every attempt of a call has the same timeout, so
\* the timer of the first one fires before that of the second.
Timeout(e) ==
    /\ ~\E f \in Untimed : f.id = e.id /\ f.attempt < e.attempt
    /\ call' = IF Waits(e) THEN [call EXCEPT ![e.id[1]] = Failed(@)] ELSE call
    /\ IF e \in running
       THEN /\ running' = (running \ {e}) \union {[e EXCEPT !.timed = TRUE]}
            /\ UNCHANGED queue
       ELSE /\ queue' = RemoveFromQueue(queue, e.id)
            /\ UNCHANGED running
    /\ UNCHANGED <<db, slots, faults>>

-----------------------------------------------------------------------------
(* The execution                                                           *)

\* The slot is given back and the caller told, unless nobody waits any more.
Answer(e, k, how) ==
    IF Waits(e) /\ ~e.timed
    THEN [k EXCEPT ![e.id[1]].pc = "answered", ![e.id[1]].outcome = how]
    ELSE k

\* A deletion counts first, in a statement of its own.
Count(e) ==
    /\ e.op.kind \in Deletions /\ ~e.count.counted
    /\ running' = (running \ {e}) \union
          {[e EXCEPT !.count = [counted |-> TRUE, n |-> CountRows(db, e.op)]]}
    /\ UNCHANGED <<db, slots, call, queue, faults>>

\* The (last) statement of e succeeds.  The write of the current call of e's
\* client stands, that of every other client may be overwritten.
Execute(e) ==
    /\ HasTable(e.op)
    /\ e.op.kind \in Deletions => e.count.counted
    /\ db' = Effect(db, e.op)
    /\ LET mine(c) == e.id[1] = c
           current(c) == mine(c) /\ e.id[2] = call[c].n
           standing(c) == IF current(c) THEN TRUE ELSE
                          IF mine(c) \/ ~IsWrite(e.op) THEN call[c].standing
                          ELSE FALSE
       IN  call' = Answer(e, [c \in Clients |->
                                 [call[c] EXCEPT !.standing = standing(c)]], "ok")
    /\ TryExecuteNext(queue, running \ {e})
    /\ UNCHANGED <<slots, faults>>

\* A statement fails: always on a table there is not, otherwise as a fault.
Fail(e) ==
    /\ \/ ~HasTable(e.op) /\ UNCHANGED faults
       \/ HasTable(e.op) /\ faults < MaxFaults /\ faults' = faults + 1
    /\ call' = Answer(e, call, "error")
    /\ TryExecuteNext(queue, running \ {e})
    /\ UNCHANGED <<db, slots>>

\* The server process ends and another one takes its place: what was queued
\* or running is lost, what was executed is not.
Crash ==
    /\ faults < MaxFaults /\ faults' = faults + 1
    /\ queue' = <<>> /\ running' = {}
    /\ call' = [c \in Clients |-> IF call[c].pc \in {"arrived", "answered"}
                                  THEN Failed(call[c]) ELSE call[c]]
    /\ UNCHANGED <<db, slots>>

Next ==
    \/ \E c \in Clients : \/ Call(c) \/ Resend(c) \/ ReconnectFails(c)
                          \/ Deadline(c) \/ Receive(c) \/ Arrive(c)
    \/ \E e \in Untimed : Timeout(e)
    \/ \E e \in running : Count(e) \/ Execute(e) \/ Fail(e)
    \/ Crash

Spec == Init /\ [][Next]_vars

-----------------------------------------------------------------------------
Acknowledged(c) ==
    call[c].pc = "idle" /\ call[c].outcome = "ok" /\ IsWrite(call[c].op)

\* What the caller of a write is told is true: once it has been acknowledged,
\* and until another client writes, executing it again would change nothing,
\* whichever attempt was lost, timed out, ran twice or ran late.
InForce(c) == Effect(db, call[c].op) = db

\* With one slot the scheduler keeps that promise: an attempt that was given
\* up is out of the way before anything its client sends later is executed
\* (a retry is harmless because the writes are idempotent).
AcknowledgedInForce ==
    slots = 1 =>
        \A c \in Clients : Acknowledged(c) /\ call[c].standing => InForce(c)

\* The same for any serverMaxConcurrency.
WritesSerialised ==
    \A c \in Clients : Acknowledged(c) /\ call[c].standing => InForce(c)

\* The queue is searched by the id the client sent, which both attempts of a
\* call have: the timer of one never removes the other.  Whoever waits for an
\* attempt that has arrived has it queued or running with its timer armed.
CallerNotForgotten ==
    \A c \in Clients :
        call[c].pc = "arrived" =>
            \E e \in Untimed : e.id = <<c, call[c].n>> /\ e.attempt = call[c].attempt

\* The per-row call that a row of a batch stands for.
RowOp(op, i) ==
    [op EXCEPT !.rows = <<op.rows[i]>>,
               !.kind = CASE op.kind = "CreateNodes" -> "CreateNode"
                          [] op.kind = "CreateRelationships" -> "CreateRelationship"
                          [] op.kind = "IndexSymbols" -> "IndexSymbol"]

\* What the per-row calls of a batch make of a database, in their order.
RowByRow(d, op) ==
    LET after[i \in 0..Len(op.rows)] ==
            IF i = 0 THEN d ELSE Effect(after[i - 1], RowOp(op, i))
    IN  after[Len(op.rows)]

\* A row that its call would be accepted with; a batch has no blank id, which
\* the per-row CreateNode lets through.
RowSound(op, i) ==
    /\ Accepts(RowOp(op, i))
    /\ op.kind = "CreateNodes" => op.rows[i].key # Blank

\* The rows of a batch are whole: nodes with the same columns, merged into
\* records that have no others, and relationships with all that their type
\* declares.  So they are in the pipeline, whose records of a label all have
\* the label's columns.
WholeRows(d, op) ==
    /\ op.kind = "CreateNodes" =>
          /\ \A i \in DOMAIN op.rows : Columns(op.rows[i].val) = BatchColumns(op)
          /\ \A n \in d.node :
                n.label = op.on /\ (\E i \in DOMAIN op.rows : op.rows[i].key = n.key)
                    => Columns(n.val) \subseteq BatchColumns(op)
    /\ op.kind = "CreateRelationships" =>
          \A i \in DOMAIN op.rows : RelSchemaProps(op.on) \subseteq Columns(op.rows[i].val)

\* A batch is accepted when each of its rows would be, and when they are whole
\* it has the effect they would have one by one, although it sets columns where
\* they replace records.
BatchIsRows ==
    \A c \in Clients :
        LET op == call[c].op
        IN  op.kind \in Batches /\ op.prefix = "own" /\ op.on # Blank =>
                /\ Accepts(op) <=> \A i \in DOMAIN op.rows : RowSound(op, i)
                /\ WholeRows(db, op) => Effect(db, op) = RowByRow(db, op)

\* The same of any rows, as the port promises of its batch methods ("the
\* stored result is identical either way").
AnyBatchIsRows ==
    \A c \in Clients :
        LET op == call[c].op
        IN  op.kind \in Batches => Effect(db, op) = RowByRow(db, op)

\* Whatever runs beside what, no two records have one key, no relationship
\* outlives a node it ends at, and none has a column its type does not declare.
StoreConsistent == Consistent(db)
=============================================================================
