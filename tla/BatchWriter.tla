----------------------------- MODULE BatchWriter -----------------------------
(***************************************************************************)
(* How the indexer writes the rows of one label, type or index:            *)
(* src/application/indexing/persistence-helpers.ts.  Rows are cut into     *)
(* batches by what they measure, and a batch the server answers with gRPC  *)
(* code 8 is halved until it fits.                                         *)
(*                                                                         *)
(* A row has a length when the writer measures it (its JSON text, in       *)
(* UTF-16 units) and one on the wire, in bytes; a job gives both of them   *)
(* summed up to each row.  A batch is the interval of its rows.  The       *)
(* server may answer any call with a failure, and with code 8 both when    *)
(* the message is too large and when its queue is full                     *)
(* (remote-transport/errors.ts).                                           *)
(***************************************************************************)
EXTENDS Integers, Sequences

CONSTANT Jobs \* the groups of rows there may be to write

VARIABLES
    job,      \* the rows, and whether the adapter has a batch operation
    cut,      \* the cutting: the batches so far, the current one and its bytes
    parts,    \* the batches not begun yet
    halves,   \* what is left to write of the batch that is being written
    part,     \* that batch
    sent,     \* the batches the server has written, in order
    reported, \* the rows counted by onRows
    full,     \* has a full queue answered?
    outcome   \* what came of it

writerVars == <<job, cut, parts, halves, part, sent, reported, full, outcome>>
writing == <<parts, halves, part, sent, reported, full>>

Overhead == 2  \* JSON_ARRAY_OVERHEAD_BYTES
Separator == 1 \* JSON_ARRAY_SEPARATOR_BYTES

Batch(first, last) == [first |-> first, last |-> last]
NoBatch == Batch(1, 0)
SizeOf(b) == b.last - b.first + 1

\* A JSON array: its brackets, its rows and the commas between them.
ArrayOf(upTo, b) == Overhead + (upTo[b.last] - upTo[b.first - 1]) + (SizeOf(b) - 1) * Separator
Measured(b) == ArrayOf(job.chars, b)
OnWire(b) == ArrayOf(job.bytes, b)

IsJob(j) ==
    /\ j.n \in Nat /\ {j.maxBytes, j.maxCount, j.limit} \subseteq Nat /\ j.batched \in BOOLEAN
    /\ j.chars \in [0..j.n -> Nat] /\ j.bytes \in [0..j.n -> Nat]
    /\ \A i, k \in 0..j.n : i <= k => j.chars[i] <= j.chars[k]

ASSUME JobsAssumption == \A j \in Jobs : IsJob(j)

WriterStarts ==
    /\ cut = [out |-> <<>>, first |-> 1, next |-> 1, bytes |-> Overhead]
    /\ parts = <<>> /\ halves = <<>> /\ part = NoBatch
    /\ sent = <<>> /\ reported = 0 /\ full = FALSE /\ outcome = "cutting"

WriterInit == job \in Jobs /\ WriterStarts

-----------------------------------------------------------------------------
(* chunkByBudget: the current batch has the rows from first to next - 1    *)

CurrentIsEmpty == cut.first = cut.next
Gap == IF CurrentIsEmpty THEN 0 ELSE Separator
Flushed == IF CurrentIsEmpty THEN cut.out ELSE Append(cut.out, Batch(cut.first, cut.next - 1))
Chars == job.chars[cut.next] - job.chars[cut.next - 1]

Budgeted == job.maxBytes > Overhead /\ job.maxCount > 0
Cutting == outcome = "cutting" /\ job.batched /\ Budgeted /\ cut.next <= job.n
Oversized == Overhead + Chars > job.maxBytes
Exceeds == cut.bytes + Gap + Chars > job.maxBytes \/ cut.next - cut.first >= job.maxCount

\* A row that is over the budget by itself is a batch by itself.
PlaceAlone ==
    /\ Cutting /\ Oversized
    /\ cut' = [out |-> Append(Flushed, Batch(cut.next, cut.next)), first |-> cut.next + 1, next |-> cut.next + 1,
               bytes |-> Overhead]
    /\ UNCHANGED <<job, outcome, writing>>

PlaceInNext ==
    /\ Cutting /\ ~Oversized /\ Exceeds
    /\ cut' = [out |-> Flushed, first |-> cut.next, next |-> cut.next + 1, bytes |-> Overhead + Chars]
    /\ UNCHANGED <<job, outcome, writing>>

PlaceInCurrent ==
    /\ Cutting /\ ~Oversized /\ ~Exceeds
    /\ cut' = [cut EXCEPT !.next = @ + 1, !.bytes = @ + Gap + Chars]
    /\ UNCHANGED <<job, outcome, writing>>

\* The batches are cut, or there is nothing to cut, or there is no way to.
CutEnds ==
    /\ outcome = "cutting"
    /\ IF job.n = 0 THEN outcome' = "done" /\ UNCHANGED parts
       ELSE IF ~job.batched THEN outcome' = "rowByRow" /\ UNCHANGED parts
       ELSE IF ~Budgeted THEN outcome' = "failed" /\ UNCHANGED parts
       ELSE cut.next > job.n /\ outcome' = "inBatches" /\ parts' = Flushed
    /\ UNCHANGED <<job, cut, halves, part, sent, reported, full>>

-----------------------------------------------------------------------------
(* writeWithAdaptiveSplit, for one batch after the other                   *)

BeginPart ==
    /\ outcome = "inBatches" /\ halves = <<>>
    /\ IF parts = <<>> THEN outcome' = "done" /\ UNCHANGED <<parts, halves, part>>
       ELSE /\ part' = Head(parts) /\ halves' = <<Head(parts)>> /\ parts' = Tail(parts)
            /\ UNCHANGED outcome
    /\ UNCHANGED <<job, cut, sent, reported, full>>

Sending == outcome = "inBatches" /\ halves # <<>>

\* The rows of a batch are counted when all of it is written.
Written ==
    /\ Sending /\ OnWire(Head(halves)) <= job.limit
    /\ sent' = Append(sent, Head(halves)) /\ halves' = Tail(halves)
    /\ reported' = IF Len(halves) = 1 THEN reported + SizeOf(part) ELSE reported
    /\ UNCHANGED <<job, cut, parts, part, full, outcome>>

\* Regression: the row in the middle is in neither half.
HalvesAroundTheMiddle(b) ==
    LET midpoint == SizeOf(b) \div 2 IN <<Batch(b.first, b.first + midpoint - 1), Batch(b.first + midpoint + 1, b.last)>>

Halves(b) ==
    LET midpoint == SizeOf(b) \div 2 IN <<Batch(b.first, b.first + midpoint - 1), Batch(b.first + midpoint, b.last)>>

\* Code 8: the message is too large, or the queue is full.
Exhausted ==
    /\ Sending
    /\ full' = (full \/ OnWire(Head(halves)) <= job.limit)
    /\ IF SizeOf(Head(halves)) <= 1 THEN outcome' = "rowRefused" /\ UNCHANGED halves
       ELSE halves' = Halves(Head(halves)) \o Tail(halves) /\ UNCHANGED outcome
    /\ UNCHANGED <<job, cut, parts, part, sent, reported>>

\* Any other error ends the group.
Failed == Sending /\ outcome' = "failed" /\ UNCHANGED <<job, cut, writing>>

-----------------------------------------------------------------------------
(* Row by row, where the adapter has no batch operation                    *)

NextRow == Batch(reported + 1, reported + 1)

WriteRow ==
    /\ outcome = "rowByRow"
    /\ IF reported = job.n THEN outcome' = "done" /\ UNCHANGED <<sent, reported>>
       ELSE \/ /\ OnWire(NextRow) <= job.limit /\ sent' = Append(sent, NextRow) /\ reported' = reported + 1
               /\ UNCHANGED outcome
            \/ outcome' = "failed" /\ UNCHANGED <<sent, reported>>
    /\ UNCHANGED <<job, cut, parts, halves, part, full>>

WriterNext ==
    \/ PlaceAlone \/ PlaceInNext \/ PlaceInCurrent \/ CutEnds
    \/ BeginPart \/ Written \/ Exhausted \/ Failed \/ WriteRow

WriterSpec == WriterInit /\ [][WriterNext]_writerVars

-----------------------------------------------------------------------------

SentRows == IF sent = <<>> THEN 0 ELSE sent[Len(sent)].last

\* However the rows are cut into batches, refused for their size and halved,
\* each is sent once and in order up to the first that cannot be, in messages
\* the server takes, of no more rows than are allowed and, but for a row sent
\* alone, within the budget; the rows reported are never more than were sent;
\* no error is reported exactly if all were; and one is reported for a single
\* row only where that row is too large or a queue was full
\* (writeWithAdaptiveSplit(), chunkByBudget()).
EveryRowWritten ==
    /\ \A i \in 1..Len(sent) :
           LET b == sent[i] IN
           /\ b.first = (IF i = 1 THEN 1 ELSE sent[i - 1].last + 1) /\ b.first <= b.last
           /\ OnWire(b) <= job.limit
           /\ SizeOf(b) = 1 \/ (job.batched /\ SizeOf(b) <= job.maxCount /\ Measured(b) <= job.maxBytes)
    /\ reported <= SentRows /\ SentRows <= job.n
    /\ outcome = "done" => SentRows = job.n /\ reported = job.n
    /\ outcome = "rowRefused" =>
           SentRows < job.n /\ (full \/ OnWire(Batch(SentRows + 1, SentRows + 1)) > job.limit)
    /\ outcome = "failed" => SentRows < job.n
=============================================================================
