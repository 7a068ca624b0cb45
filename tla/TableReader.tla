----------------------------- MODULE TableReader -----------------------------
(***************************************************************************)
(* How the export reads one table: fetchPagedRows of                       *)
(* src/application/export-render/graph-reader.ts.  The rows are asked for  *)
(* page by page, in the order of their ids, and a page the server answers  *)
(* with gRPC code 8 is asked for again in half the size.  There is no      *)
(* transaction around the pages: between two of them an indexer may add    *)
(* rows and remove rows, anywhere in the order.                            *)
(***************************************************************************)
EXTENDS Integers, Sequences, SequencesExt

CONSTANTS
    Rows,      \* the rows there may be
    Tables,    \* what a table may hold at first
    PageSizes, \* what a caller may ask for
    MaxChanges \* bound on the rows added and removed

VARIABLES
    initialTable,    \* the table when the reading began
    initialPageSize, \* what was asked for
    table,           \* the table as it is
    rows,            \* what has been read
    skip,            \* where the next page begins
    pageSize,        \* how many rows it may have
    fetch,           \* "fetching", "fetched" or "failed"
    changes,         \* the rows added and removed since the reading began
    removed          \* was one removed?

readerVars == <<initialTable, initialPageSize, table, rows, skip, pageSize, fetch, changes, removed>>

ASSUME TablesAssumption == Tables \subseteq Seq(Rows) /\ PageSizes \subseteq Int /\ MaxChanges \in Nat

\* A page size that is not positive is refused.
ReaderStarts ==
    /\ table = initialTable /\ pageSize = initialPageSize
    /\ rows = <<>> /\ skip = 0 /\ changes = 0 /\ removed = FALSE
    /\ fetch = IF initialPageSize <= 0 THEN "failed" ELSE "fetching"

ReaderInit == initialTable \in Tables /\ initialPageSize \in PageSizes /\ ReaderStarts

-----------------------------------------------------------------------------
(* The reader                                                              *)

\* SKIP skip LIMIT pageSize
Page == SubSeq(table, skip + 1, IF skip + pageSize > Len(table) THEN Len(table) ELSE skip + pageSize)

\* Regression: a page that was asked for in a smaller size looks short.
IsLastOfInitialSize == Len(Page) < initialPageSize

IsLast == Len(Page) < pageSize

ReadPage ==
    /\ fetch = "fetching"
    /\ rows' = rows \o Page
    /\ IF IsLast THEN fetch' = "fetched" /\ UNCHANGED skip
       ELSE skip' = skip + Len(Page) /\ UNCHANGED fetch
    /\ UNCHANGED <<initialTable, initialPageSize, table, pageSize, changes, removed>>

\* Code 8: the page is too large for a message, or the queue is full.
PageExhausted ==
    /\ fetch = "fetching"
    /\ IF pageSize = 1 THEN fetch' = "failed" /\ UNCHANGED pageSize
       ELSE pageSize' = pageSize \div 2 /\ UNCHANGED fetch
    /\ UNCHANGED <<initialTable, initialPageSize, table, rows, skip, changes, removed>>

PageFails ==
    /\ fetch = "fetching" /\ fetch' = "failed"
    /\ UNCHANGED <<initialTable, initialPageSize, table, rows, skip, pageSize, changes, removed>>

-----------------------------------------------------------------------------
(* An indexer beside it                                                    *)

Changing ==
    /\ fetch = "fetching" /\ changes < MaxChanges /\ changes' = changes + 1
    /\ UNCHANGED <<initialTable, initialPageSize, rows, skip, pageSize, fetch>>

AddRow == Changing /\ UNCHANGED removed /\ \E i \in 1..(Len(table) + 1), r \in Rows : table' = InsertAt(table, i, r)

RemoveRow == Changing /\ removed' = TRUE /\ \E i \in 1..Len(table) : table' = RemoveAt(table, i)

ReaderNext == ReadPage \/ PageExhausted \/ PageFails \/ AddRow \/ RemoveRow

ReaderSpec == ReaderInit /\ [][ReaderNext]_readerVars

-----------------------------------------------------------------------------

\* A table read in pages is read whole: row by row as it is if it does not
\* change, and with every row it had at the start if rows are only added,
\* wherever they come in the order and however often a page is refused and
\* asked for in half the size (fetchPagedRows()).
WholeTableRead ==
    fetch = "fetched" =>
        /\ changes = 0 => rows = initialTable
        /\ ~removed => \A i \in DOMAIN initialTable : \E k \in DOMAIN rows : rows[k] = initialTable[i]
=============================================================================
