-------------------------- MODULE IncrementalIndex --------------------------
(***************************************************************************)
(* Incremental indexing: runIndexingPipeline and runPhase2                 *)
(* (src/application/indexing/pipeline.ts) as the CLI drives them           *)
(* (src/apps/cli/executor.ts).                                             *)
(*                                                                         *)
(* A run walks the tree, classifies every file against the parse cache,    *)
(* parses what is new or changed, deletes and rewrites the rows of those   *)
(* files and, last, saves the cache.  The user edits files between any two *)
(* steps, and a run may die, or a database write may fail, at any of them; *)
(* a batch write may stop half-way.  The adapters are the embedded ones,   *)
(* which delete by file, or the remote ones of client mode, which do not;  *)
(* embeddings are enabled; PARSE_VERSION does not change.                  *)
(***************************************************************************)
EXTENDS Naturals, FiniteSets

CONSTANTS
    Files,      \* numbered in the order in which the walk finds them
    Names,      \* the names a symbol may have
    Contents,   \* what a file may contain
    Defines,    \* the names of the symbols each content declares
    Calls,      \* the calls in each content, pairs <<caller, callee>>
    Broken,     \* the contents on which the parser or the extraction throws
    Modes,      \* of "incremental", "full" (--full) and "refresh" (--refresh)
    Adapters,   \* of "embedded" and "remote"
    MaxEdits,   \* bound on edits of the tree
    MaxFaults   \* bound on runs that die and on cache saves that fail

ASSUME TreeAssumption ==
    /\ Files \subseteq Nat /\ IsFiniteSet(Files)
    /\ Defines \in [Contents -> SUBSET Names]
    /\ Calls \in [Contents -> SUBSET (Names \X Names)]
    /\ Broken \subseteq Contents
    /\ "absent" \notin Contents
    /\ Modes \subseteq {"incremental", "full", "refresh"}
    /\ Adapters \subseteq {"embedded", "remote"}

ASSUME BoundAssumption == MaxEdits \in Nat /\ MaxFaults \in Nat

VARIABLES
    disk,      \* the content of each file
    cache,     \* parse-cache.json: the content each entry was parsed from
    suspect,   \* files whose mtime is not the one their entry records
    symbols,   \* the Symbol nodes: the content each row was written from
    vectors,   \* the embedding rows, likewise
    edges,     \* the CALLS relationships
    run,       \* the run in progress
    edits, faults

tables == <<symbols, vectors, edges>>

\* What the properties remember: whether the last run was an incremental one
\* that returned its result on a tree nobody has touched since its walk; whether
\* the database was written since the cache was last saved; and whether, since
\* the last --refresh, something has happened that an incremental run does not
\* recover from: an edit while it was, a --refresh that died before clear() had
\* removed the cache, or a remote run that had rows to delete.
VARIABLES settled, torn, exposed

ghosts == <<settled, torn, exposed>>
vars == <<disk, cache, suspect, symbols, vectors, edges, run, edits, faults,
          settled, torn, exposed>>

Absent == "absent"
Tree == [Files -> Contents \union {Absent}]
Keys == Files \X Names
Phases == {"idle", "wipe graph", "wipe vectors", "wipe cache", "walk",
           "classify", "parse", "delete symbols", "delete vectors",
           "write vectors", "write symbols", "write edges", "save"}

Idle == [phase |-> "idle", mode |-> "none", adapter |-> "none",
         walked |-> {}, suspects |-> {}, changed |-> {}, added |-> {},
         removed |-> {}, fresh |-> {},
         merged |-> [f \in Files |-> Absent], touched |-> {}, clean |-> TRUE]

TypeOK ==
    /\ disk \in Tree /\ cache \in Tree
    /\ suspect \subseteq Files
    /\ symbols \in [Keys -> Contents \union {Absent}]
    /\ vectors \in [Keys -> Contents \union {Absent}]
    /\ edges \subseteq Keys \X Keys
    /\ run.phase \in Phases
    /\ run.mode \in Modes \union {"none"}
    /\ run.adapter \in Adapters \union {"none"}
    /\ run.merged \in Tree
    /\ \A s \in {"walked", "suspects", "changed", "added", "removed",
                 "fresh", "touched"} : run[s] \subseteq Files
    /\ edits \in 0..MaxEdits /\ faults \in 0..MaxFaults
    /\ {settled, torn, exposed, run.clean} \subseteq BOOLEAN
    /\ run.added \intersect run.changed = {}
    /\ run.removed \intersect run.walked = {}

Init ==
    /\ disk \in {t \in Tree : \E f \in Files : t[f] # Absent}
    /\ cache = [f \in Files |-> Absent]
    /\ suspect = {}
    /\ symbols = [k \in Keys |-> Absent]
    /\ vectors = symbols
    /\ edges = {}
    /\ run = Idle
    /\ edits = 0 /\ faults = 0
    /\ settled = FALSE /\ torn = FALSE /\ exposed = FALSE

-----------------------------------------------------------------------------
\* The rows of file f when its content is c.
RowsOf(f, c) == IF c = Absent THEN {} ELSE {f} \X Defines[c]

\* All rows of a tree.
Rows(tree) == UNION {RowsOf(f, tree[f]) : f \in Files}

\* resolveHints and selectSingle: a call goes to the symbol of that name in
\* the same file, otherwise to the first in walk order, never to the caller.
Targets(tree, caller, callee) ==
    LET named == {k \in Rows(tree) : k[2] = callee} \ {caller}
        local == {k \in named : k[1] = caller[1]}
    IN  IF local # {} THEN local
        ELSE {k \in named : \A other \in named : k[1] <= other[1]}

\* The resolved calls.  A call whose caller is not a symbol of the file is
\* dropped.
Resolve(tree) ==
    {e \in Rows(tree) \X Rows(tree) :
        \E callee \in Names :
            /\ <<e[1][2], callee>> \in Calls[tree[e[1][1]]]
            /\ e[2] \in Targets(tree, e[1], callee)}

\* MERGE the given rows of tree into a table.
Upsert(table, rows, tree) ==
    [k \in Keys |-> IF k \in rows THEN tree[k[1]] ELSE table[k]]

\* Drop the rows of the given files from a table.
DeleteByFilePaths(table, files) ==
    [k \in Keys |-> IF k[1] \in files THEN Absent ELSE table[k]]

\* DETACH DELETE takes the edges at both ends along.
Detach(links, files) ==
    {e \in links : e[1][1] \notin files /\ e[2][1] \notin files}

\* Relationships are MERGEd between nodes that MATCH.
Linkable(links) ==
    {e \in links : symbols[e[1]] # Absent /\ symbols[e[2]] # Absent}

Go(phase) == run' = [run EXCEPT !.phase = phase]
At(phase) == run.phase = phase

\* The run has a delta plan; it follows it if the adapters delete by file.
Incremental == run.mode = "incremental"
DeltaActive == Incremental /\ run.adapter = "embedded"

\* The files whose rows the run inserts, those rows, and the files whose rows
\* are to go.
InsertScope == IF DeltaActive THEN run.changed \union run.added ELSE Files
RowsToInsert == {k \in Rows(run.merged) : k[1] \in InsertScope}
RowsToDelete == run.removed \union run.changed
LeavesRows == Incremental /\ ~DeltaActive /\ RowsToDelete # {}

-----------------------------------------------------------------------------
\* The user writes, replaces or removes a file; its mtime changes.
Edit(f) ==
    /\ edits < MaxEdits
    /\ \E c \in (Contents \union {Absent}) \ {disk[f]} :
          disk' = [disk EXCEPT ![f] = c]
    /\ suspect' = suspect \union {f}
    /\ run' = IF At("idle") THEN run
              ELSE [run EXCEPT !.touched = @ \union {f}]
    /\ edits' = edits + 1
    /\ settled' = FALSE
    /\ exposed' = (exposed \/ torn)
    /\ UNCHANGED <<cache, tables, faults, torn>>

\* executeIndexingPipeline: --refresh empties the database and the cache
\* before the pipeline runs.
StartRun(mode, adapter) ==
    /\ At("idle")
    /\ run' = [Idle EXCEPT !.mode = mode, !.adapter = adapter, !.phase =
                  IF mode = "refresh" THEN "wipe graph" ELSE "walk"]
    /\ settled' = FALSE
    /\ UNCHANGED <<disk, cache, suspect, tables, edits, faults, torn, exposed>>

WipeGraph ==
    /\ At("wipe graph")
    /\ symbols' = [k \in Keys |-> Absent]
    /\ edges' = {}
    /\ torn' = TRUE
    /\ Go("wipe vectors")
    /\ UNCHANGED <<disk, cache, suspect, vectors, edits, faults, settled, exposed>>

WipeVectors ==
    /\ At("wipe vectors")
    /\ vectors' = [k \in Keys |-> Absent]
    /\ Go("wipe cache")
    /\ UNCHANGED <<disk, cache, suspect, symbols, edges, edits, faults, ghosts>>

WipeCache ==
    /\ At("wipe cache")
    /\ cache' = [f \in Files |-> Absent]
    /\ torn' = FALSE /\ exposed' = FALSE
    /\ Go("walk")
    /\ UNCHANGED <<disk, suspect, tables, edits, faults, settled>>

\* The run returns its result.
Return ==
    /\ run' = Idle
    /\ settled' = (Incremental /\ run.touched = {})

\* A tree without files, or without symbols, is a result as well: the run has
\* written nothing, deleted nothing and saved nothing.
ReturnEarly == Return

\* walkFileTree: the files and their mtimes as they are now.  An empty tree
\* ends the run.
Walk ==
    /\ At("walk")
    /\ LET walked == {f \in Files : disk[f] # Absent}
       IN  IF walked = {}
           THEN ReturnEarly
           ELSE /\ run' = [run EXCEPT
                      !.phase = IF Incremental THEN "classify" ELSE "parse",
                      !.walked = walked,
                      !.suspects = suspect,
                      !.touched = {},
                      !.clean = ~torn /\ ~exposed]
                /\ UNCHANGED settled
    /\ UNCHANGED <<disk, cache, suspect, tables, edits, faults, torn, exposed>>

\* currentHash: an entry whose mtime matches is trusted, otherwise the file is
\* read now; a file that can no longer be read has no hash.
CurrentHash(f) ==
    IF cache[f] # Absent /\ f \notin run.suspects THEN cache[f] ELSE disk[f]

\* classifyFiles
Classify ==
    /\ At("classify")
    /\ run' = [run EXCEPT
           !.phase = "parse",
           !.added = {f \in run.walked : cache[f] = Absent},
           !.changed = {f \in run.walked : cache[f] # Absent
                                           /\ CurrentHash(f) # cache[f]},
           !.removed = {f \in Files \ run.walked : cache[f] # Absent}]
    /\ UNCHANGED <<disk, cache, suspect, tables, edits, faults, ghosts>>

\* extractAllSymbolsWithPerFile on the files to parse, as they are now, and
\* the merge in walk order: a file that was not parsed, or whose parse was
\* skipped, contributes its cached entry, if it has one.  A run without
\* symbols ends here.
Parse ==
    /\ At("parse")
    /\ LET toParse == IF Incremental THEN run.changed \union run.added
                      ELSE run.walked
           fresh == {f \in toParse : disk[f] \notin Broken \union {Absent}}
           reused == IF Incremental THEN run.walked \ fresh ELSE {}
           merged == [f \in Files |-> IF f \in fresh THEN disk[f]
                                      ELSE IF f \in reused THEN cache[f]
                                      ELSE Absent]
       IN  IF Rows(merged) = {}
           THEN ReturnEarly
           ELSE /\ run' = [run EXCEPT
                      !.phase = IF DeltaActive THEN "delete symbols"
                                ELSE "write vectors",
                      !.fresh = fresh,
                      !.merged = merged]
                /\ UNCHANGED settled
    /\ UNCHANGED <<disk, cache, suspect, tables, edits, faults, torn, exposed>>

-----------------------------------------------------------------------------
\* deleteSymbolsByFilePaths(removed and changed files)
DeleteSymbols ==
    /\ At("delete symbols")
    /\ symbols' = DeleteByFilePaths(symbols, RowsToDelete)
    /\ edges' = Detach(edges, RowsToDelete)
    /\ torn' = TRUE
    /\ Go("delete vectors")
    /\ UNCHANGED <<disk, cache, suspect, vectors, edits, faults, settled, exposed>>

\* deleteByFilePaths on the embeddings
DeleteVectors ==
    /\ At("delete vectors")
    /\ vectors' = DeleteByFilePaths(vectors, RowsToDelete)
    /\ Go("write vectors")
    /\ UNCHANGED <<disk, cache, suspect, symbols, edges, edits, faults, ghosts>>

\* Regression: only the vectors of new files are written.
WriteVectorsOfAdded ==
    /\ At("write vectors")
    /\ vectors' = Upsert(vectors, {k \in RowsToInsert : k[1] \notin run.changed},
                         run.merged)
    /\ torn' = TRUE
    /\ Go("write symbols")
    /\ UNCHANGED <<disk, cache, suspect, symbols, edges, edits, faults, settled, exposed>>

\* writeVectorEntries
WriteVectors ==
    /\ At("write vectors")
    /\ vectors' = Upsert(vectors, RowsToInsert, run.merged)
    /\ torn' = TRUE
    /\ Go("write symbols")
    /\ UNCHANGED <<disk, cache, suspect, symbols, edges, edits, faults, settled, exposed>>

\* storeInDatabases, the Symbol nodes
WriteSymbols ==
    /\ At("write symbols")
    /\ symbols' = Upsert(symbols, RowsToInsert, run.merged)
    /\ Go("write edges")
    /\ UNCHANGED <<disk, cache, suspect, vectors, edges, edits, faults, ghosts>>

\* Regression: only the edges of the inserted symbols are written.
WriteEdgesOfInserted ==
    /\ At("write edges")
    /\ edges' = edges \union
          Linkable({e \in Resolve(run.merged) : e[1][1] \in InsertScope})
    /\ Go("save")
    /\ UNCHANGED <<disk, cache, suspect, symbols, vectors, edits, faults, ghosts>>

\* storeInDatabases, the relationships: always the whole resolved set.
WriteEdges ==
    /\ At("write edges")
    /\ edges' = edges \union Linkable(Resolve(run.merged))
    /\ Go("save")
    /\ UNCHANGED <<disk, cache, suspect, symbols, vectors, edits, faults, ghosts>>

\* saveCache() after the database writes of an incremental run, whether or not
\* it has followed the delta plan.  A full run saves nothing.
SaveCache ==
    /\ At("save")
    /\ Return
    /\ IF Incremental
       THEN /\ cache' = run.merged
            /\ suspect' = (suspect \ run.fresh) \union run.touched
            /\ torn' = FALSE
            /\ exposed' = (LeavesRows \/ (exposed /\ ~run.clean))
       ELSE /\ exposed' = (exposed \/ run.touched # {})
            /\ UNCHANGED <<cache, suspect, torn>>
    /\ UNCHANGED <<disk, tables, edits, faults>>

\* A failed save is logged and the run still succeeds.
SaveFails ==
    /\ At("save") /\ Incremental
    /\ faults < MaxFaults
    /\ Return
    /\ exposed' = (exposed \/ run.touched # {} \/ LeavesRows)
    /\ faults' = faults + 1
    /\ UNCHANGED <<disk, cache, suspect, tables, edits, torn>>

\* The process dies or a database write throws, between two steps or with
\* some of the rows of a batch write stored.
Abort ==
    /\ ~At("idle")
    /\ faults < MaxFaults
    /\ \E part \in SUBSET (IF At("write vectors") \/ At("write symbols")
                           THEN RowsToInsert ELSE {}) :
          /\ vectors' = IF At("write vectors")
                        THEN Upsert(vectors, part, run.merged) ELSE vectors
          /\ symbols' = IF At("write symbols")
                        THEN Upsert(symbols, part, run.merged) ELSE symbols
          /\ torn' = (torn \/ part # {})
    /\ \E part \in SUBSET (IF At("write edges")
                           THEN Linkable(Resolve(run.merged)) ELSE {}) :
          edges' = edges \union part
    /\ exposed' = (exposed \/ run.phase \in {"wipe vectors", "wipe cache"}
                           \/ (torn' /\ run.touched # {}))
    /\ run' = Idle
    /\ faults' = faults + 1
    /\ UNCHANGED <<disk, cache, suspect, edits, settled>>

-----------------------------------------------------------------------------
Next ==
    \/ \E f \in Files : Edit(f)
    \/ \E mode \in Modes, adapter \in Adapters : StartRun(mode, adapter)
    \/ WipeGraph \/ WipeVectors \/ WipeCache
    \/ Walk \/ Classify \/ Parse
    \/ DeleteSymbols \/ DeleteVectors
    \/ WriteVectors \/ WriteSymbols \/ WriteEdges
    \/ SaveCache \/ SaveFails \/ Abort

Spec == Init /\ [][Next]_vars

-----------------------------------------------------------------------------
\* File f has in both tables exactly the rows its content on disk calls for.
Indexed(f) ==
    \A n \in Names :
        LET row == IF n \in {k[2] : k \in RowsOf(f, disk[f])}
                   THEN disk[f] ELSE Absent
        IN  symbols[<<f, n>>] = row /\ vectors[<<f, n>>] = row

Readable(f) == disk[f] \notin Broken

\* The tree has a symbol to index.  A run that finds none returns before its
\* deletes, so that the rows of the files that went are there until the next
\* run that finds one.
SomethingToIndex == \E f \in Files : Readable(f) /\ RowsOf(f, disk[f]) # {}

\* Incremental indexing converges: whatever runs, edits, deaths, failed saves
\* and half-written batches came before, an incremental run that returns and
\* had something to index leaves exactly the rows a fresh index of the tree
\* would have, in the graph and in the vector table, for every file the parser
\* accepts.  The situations an incremental run does not recover from are
\* excepted until the next --refresh; one of them is a remote run that should
\* have deleted rows, its own result included.
RowsConverge ==
    At("idle") /\ settled /\ ~exposed /\ SomethingToIndex =>
        \A f \in Files : Readable(f) => Indexed(f)

\* The delta write loses no relationship: the edges DETACH DELETE took from
\* files that were not re-indexed are back when the run returns.
EdgesRestored ==
    At("idle") /\ settled /\ ~exposed /\ SomethingToIndex
               /\ (\A f \in Files : Readable(f)) =>
        Resolve(disk) \subseteq edges

\* A completed incremental run has brought nodes, vectors and relationships to
\* what the tree calls for.
Converged == TypeOK /\ RowsConverge /\ EdgesRestored

\* The cache is never ahead of the database: it only ever changes to entries
\* whose rows the database already holds.  A run that inserts everything keeps
\* this in every situation, one that follows the delta plan unless it was
\* exposed.
EntriesAreHeld ==
    cache' # cache /\ (~exposed \/ run.adapter = "remote") =>
        \A f \in Files : \A k \in RowsOf(f, cache'[f]) :
            symbols[k] = cache'[f] /\ vectors[k] = cache'[f]
CacheBehindDatabase == [][EntriesAreHeld]_vars

\* What the documentation of the pipeline promises without exception: a
\* completed incremental run leaves what a full index would have written.
IncrementalEqualsFull ==
    At("idle") /\ settled /\ SomethingToIndex =>
        \A f \in Files : Readable(f) => Indexed(f)
=============================================================================
