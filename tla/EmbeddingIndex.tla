--------------------------- MODULE EmbeddingIndex ---------------------------
(***************************************************************************)
(* Phase 6 of the indexing pipeline and the vectors it leaves in the       *)
(* database: buildSearchIndex (src/application/indexing/search/index.ts),  *)
(* the embedding cache beside it (src/infrastructure/cache/                *)
(* embedding-cache.ts) and the vector part of the delta write              *)
(* (src/application/indexing/pipeline.ts).                                 *)
(*                                                                         *)
(* A file holds one symbol.  The text that is embedded for a symbol names  *)
(* its directory, not its file: two files with the same content share it.  *)
(* The symbols whose contents are coupled form one cluster, which is       *)
(* embedded too.  An embedding may fail (null, timeout or exception), a    *)
(* batch may fail as a whole, the cache may fail to be saved, and the      *)
(* model named by the settings changes between runs.  Edits during a run   *)
(* and half-done database writes are the subject of IncrementalIndex.      *)
(***************************************************************************)
EXTENDS Naturals, FiniteSets, Sequences

CONSTANTS
    Files,       \* numbered in the order of the walk
    Contents,    \* what a file may hold
    Coupled,     \* the contents whose symbols form a cluster
    Dims,        \* the dimensions of each model
    Cap,         \* EMBEDDING_CACHE_MAX_ENTRIES
    BatchSize,   \* EMBEDDING_BATCH_SIZE
    Concurrency, \* EMBEDDING_CONCURRENCY
    Modes,       \* of "incremental" and "refresh"
    MaxRuns,     \* bound on the runs
    MaxEdits,    \* bound on the edits of the tree
    MaxFaults    \* bound on failed embeddings, batches and cache saves

ASSUME FilesAreNumbered == Files \subseteq Nat \ {0} /\ IsFiniteSet(Files)
ASSUME ModesAreKnown == Modes \subseteq {"incremental", "refresh"}
ASSUME BoundsArePositive == {Cap, BatchSize, Concurrency} \subseteq Nat \ {0}

VARIABLES
    tree,      \* the content of each file
    model,     \* the model the settings name
    parsed,    \* the parse cache: the content each entry was parsed from
    manifest,  \* embedding-cache.json: <<text, vector>> pairs, oldest first
    stored,    \* the rows of the vector table, by id
    run,       \* the run in progress
    unvouched, \* the parse cache does not vouch for the rows stored (ghost)
    lost,      \* the tree was edited in that state (ghost)
    runs, edits, faults

embeddingVars == <<tree, model, parsed, manifest, stored, run, unvouched, lost, runs, edits, faults>>

Absent == "absent"
ClusterId == 0
NoVector == [text |-> Absent]
Models == DOMAIN Dims
Vector(text, m) == [text |-> text, model |-> m]

\* What an embedding adapter may answer: embedText gives the vector, or null
\* for whatever went wrong; embedTexts gives each text its own vector, or null
\* where it was not valid input or its row has another width.
EmbedText(text, m) == {Vector(text, m), NoVector}
EmbedTexts(texts, m) ==
    {[i \in DOMAIN texts |-> IF i \in rejected THEN NoVector ELSE Vector(texts[i], m)] :
        rejected \in SUBSET DOMAIN texts}

-----------------------------------------------------------------------------
(* Lists                                                                   *)

\* How many of S come before i, the k-th of S, and the places of a list that
\* are picked, in their order.
Rank(i, S) == Cardinality({j \in S : j < i})
Nth(S, k) == CHOOSE i \in S : Rank(i, S) = k - 1
Picked(list, places) == [k \in 1..Cardinality(places) |-> list[Nth(places, k)]]

-----------------------------------------------------------------------------
(* Jobs                                                                    *)

Present(t) == {f \in Files : t[f] # Absent}
Members(t) == {f \in Present(t) : t[f] \in Coupled}

\* formatSymbolForEmbedding and formatClusterForEmbedding, the id of the row
\* and the file its metadata names: a cluster's is that of its first symbol.
SymbolJob(t, f) == [id |-> f, text |-> <<t[f]>>, file |-> f]
ClusterJob(t) ==
    [id |-> ClusterId, file |-> Nth(Members(t), 1),
     text |-> <<"cluster">> \o Picked(t, Members(t))]

\* All symbols in the order of the walk, then the clusters of two or more.
Jobs(t) ==
    [k \in 1..Cardinality(Present(t)) |-> SymbolJob(t, Nth(Present(t), k))]
        \o (IF Cardinality(Members(t)) >= 2 THEN <<ClusterJob(t)>> ELSE <<>>)

-----------------------------------------------------------------------------
(* FileEmbeddingCache                                                      *)

Entries(list) == {list[k] : k \in DOMAIN list}
Texts(entries) == {e[1] : e \in Entries(entries)}

\* get: an entry of other dimensions is a miss.
Get(entries, text, dims) ==
    {e[2] : e \in {e \in Entries(entries) : e[1] = text /\ Dims[e[2].model] = dims}}

\* setMany: an overwritten entry is deleted first and so moves to the end; the
\* oldest beyond the cap go.
Latest(entries) ==
    Picked(entries, {k \in DOMAIN entries :
                        \A later \in DOMAIN entries : later > k => entries[later][1] # entries[k][1]})
EvictToCap(entries) ==
    IF Len(entries) <= Cap THEN entries ELSE SubSeq(entries, Len(entries) - Cap + 1, Len(entries))
SetMany(entries, incoming) == EvictToCap(Latest(entries \o incoming))

\* Regression: prune keeps what is dead.
PruneNothing(entries, live) == entries

Prune(entries, live) == Picked(entries, {k \in DOMAIN entries : entries[k][1] \in live})

-----------------------------------------------------------------------------
(* Runs                                                                    *)

Idle == [phase |-> "idle", mode |-> "none", model |-> "none", tree |-> [f \in Files |-> Absent],
         jobs |-> <<>>, cache |-> <<>>, hits |-> {}, settled |-> <<>>, items |-> {}, batches |-> {}]

EmbeddingInit ==
    /\ tree \in [Files -> Contents \union {Absent}]
    /\ model \in Models
    /\ parsed = [f \in Files |-> Absent]
    /\ manifest = <<>>
    /\ stored = [id \in Files \union {ClusterId} |-> NoVector]
    /\ run = Idle
    /\ unvouched = FALSE /\ lost = FALSE
    /\ runs = 0 /\ edits = 0 /\ faults = 0

At(phase) == run.phase = phase
Fault == faults < MaxFaults /\ faults' = faults + 1

\* The user edits a file, or names another model in the settings.
Edit(f) ==
    /\ At("idle") /\ edits < MaxEdits
    /\ \E c \in (Contents \union {Absent}) \ {tree[f]} : tree' = [tree EXCEPT ![f] = c]
    /\ edits' = edits + 1
    /\ lost' = (lost \/ unvouched)
    /\ UNCHANGED <<model, parsed, manifest, stored, run, unvouched, runs, faults>>

SwapModel ==
    /\ At("idle")
    /\ model' \in Models \ {model}
    /\ UNCHANGED <<tree, parsed, manifest, stored, run, unvouched, lost, runs, edits, faults>>

\* Consecutive batches of the misses, by their position among the misses.
BatchesOf(misses) ==
    LET batch(i) == Rank(i, misses) \div BatchSize
    IN  {{j \in misses : batch(j) = batch(i)} : i \in misses}

\* The cache lookups: every job is a hit, or a miss that keeps its index.
Lookup(jobs, cache, dims, batching) ==
    LET found == [i \in DOMAIN jobs |-> Get(cache, jobs[i].text, dims)]
        misses == {i \in DOMAIN jobs : found[i] = {}}
    IN  [hits    |-> DOMAIN jobs \ misses,
         settled |-> [i \in DOMAIN jobs |-> IF found[i] = {} THEN NoVector ELSE CHOOSE v \in found[i] : TRUE],
         items   |-> IF batching THEN {} ELSE misses,
         batches |-> IF batching THEN BatchesOf(misses) ELSE {}]

\* A run: --refresh empties the tables and the parse cache, not the embedding
\* cache; the manifest is loaded; Phase 6 looks every job up.  A tree without
\* symbols ends the run at once.
StartRun(mode, batching) ==
    /\ At("idle") /\ runs < MaxRuns
    /\ Present(tree) # {}
    /\ LET found == Lookup(Jobs(tree), manifest, Dims[model], batching)
       IN  run' = [phase |-> "embed", mode |-> mode, model |-> model, tree |-> tree, jobs |-> Jobs(tree),
                   cache |-> manifest, hits |-> found.hits, settled |-> found.settled,
                   items |-> found.items, batches |-> found.batches]
    /\ IF mode = "refresh"
       THEN /\ stored' = [id \in DOMAIN stored |-> NoVector]
            /\ parsed' = [f \in Files |-> Absent]
            /\ unvouched' = TRUE
       ELSE UNCHANGED <<stored, parsed, unvouched>>
    /\ runs' = runs + 1
    /\ UNCHANGED <<tree, model, manifest, lost, edits, faults>>

\* mapWithConcurrency: the first few unanswered items are in flight and are
\* answered in any order.  A null, a timeout and an exception are all failures.
InFlight == {i \in run.items : Rank(i, run.items) < Concurrency}

ItemSettles(i) ==
    /\ At("embed") /\ i \in InFlight
    /\ \E answer \in EmbedText(run.jobs[i].text, run.model) :
          /\ IF answer = NoVector THEN Fault ELSE UNCHANGED faults
          /\ run' = [run EXCEPT !.items = @ \ {i}, !.settled[i] = answer]
    /\ UNCHANGED <<tree, model, parsed, manifest, stored, unvouched, lost, runs, edits>>

\* Regression: the rows of a batch go to its jobs in the order they come, the
\* rejected texts left out.
Compacted(settled, rows) ==
    LET good == {i \in DOMAIN rows : rows[i] # NoVector}
    IN  [i \in DOMAIN settled |->
            IF i \notin DOMAIN rows THEN settled[i]
            ELSE IF Rank(i, DOMAIN rows) < Cardinality(good)
                 THEN rows[Nth(good, Rank(i, DOMAIN rows) + 1)] ELSE NoVector]

\* The row of a job goes to the place of the job.
Scattered(settled, rows) ==
    [i \in DOMAIN settled |-> IF i \in DOMAIN rows THEN rows[i] ELSE settled[i]]

\* runBatched: the rows of a batch go back to the indices of its jobs.
BatchAnswers(b) ==
    /\ At("embed") /\ b \in run.batches
    /\ \E rows \in EmbedTexts([i \in b |-> run.jobs[i].text], run.model) :
          /\ IF NoVector \in {rows[i] : i \in b} THEN Fault ELSE UNCHANGED faults
          /\ run' = [run EXCEPT !.batches = @ \ {b}, !.settled = Scattered(@, rows)]
    /\ UNCHANGED <<tree, model, parsed, manifest, stored, unvouched, lost, runs, edits>>

\* A failed batch is tried item by item, once.
BatchFails(b) ==
    /\ At("embed") /\ b \in run.batches
    /\ Fault
    /\ run' = [run EXCEPT !.batches = @ \ {b}, !.items = @ \union b]
    /\ UNCHANGED <<tree, model, parsed, manifest, stored, unvouched, lost, runs, edits>>

\* Every job is settled: what was embedded now is recorded in the cache, which
\* is then pruned to the texts of this run.
Fresh == Picked([i \in DOMAIN run.jobs |-> <<run.jobs[i].text, run.settled[i]>>],
                {i \in DOMAIN run.jobs : run.settled[i] # NoVector /\ i \notin run.hits})

WriteBack ==
    /\ At("embed") /\ run.items = {} /\ run.batches = {}
    /\ LET recorded == IF Fresh = <<>> THEN run.cache ELSE SetMany(run.cache, Fresh)
       IN  run' = [run EXCEPT !.phase = "flush",
                       !.cache = Prune(recorded, {run.jobs[i].text : i \in DOMAIN run.jobs})]
    /\ UNCHANGED <<tree, model, parsed, manifest, stored, unvouched, lost, runs, edits, faults>>

\* flush: a rename replaces the manifest; when it fails the run goes on.
Flush ==
    /\ At("flush")
    /\ manifest' = run.cache
    /\ run' = [run EXCEPT !.phase = "write"]
    /\ UNCHANGED <<tree, model, parsed, stored, unvouched, lost, runs, edits, faults>>

FlushFails ==
    /\ At("flush") /\ Fault
    /\ run' = [run EXCEPT !.phase = "write"]
    /\ UNCHANGED <<tree, model, parsed, manifest, stored, unvouched, lost, runs, edits>>

\* The run dies before it writes to the database.
Dies ==
    /\ run.phase \in {"embed", "flush"} /\ Fault
    /\ run' = Idle
    /\ UNCHANGED <<tree, model, parsed, manifest, stored, unvouched, lost, runs, edits>>

\* classifyFiles, with respect to the parse cache.
Removed == {f \in Files : parsed[f] # Absent /\ run.tree[f] = Absent}
Changed == {f \in Files : parsed[f] # Absent /\ run.tree[f] \notin {Absent, parsed[f]}}
Added   == {f \in Files : parsed[f] = Absent /\ run.tree[f] # Absent}
Delta == run.mode = "incremental"

\* inVectorScope: the file the metadata names, a cluster's too, is in the scope.
InVectorScope(job) == Delta => job.file \in Changed \union Added

\* The file_path column of a row, as it was written.
FilePath(row) == IF row = NoVector THEN {} ELSE {row.file}

\* deleteByFilePaths(removed and changed files)
Deleted(id) == Delta /\ FilePath(stored[id]) \intersect (Removed \union Changed) # {}

\* The delta delete and the vector write; a job without an embedding has no row.
\* Last the parse cache is saved, by an incremental run.
WriteVectors ==
    /\ At("write")
    /\ stored' = [id \in DOMAIN stored |->
          LET written == {i \in DOMAIN run.jobs : run.jobs[i].id = id /\ run.settled[i] # NoVector
                                                  /\ InVectorScope(run.jobs[i])}
          IN  IF written # {}
              THEN [text |-> run.settled[CHOOSE i \in written : TRUE].text,
                    model |-> run.settled[CHOOSE i \in written : TRUE].model,
                    file |-> run.jobs[CHOOSE i \in written : TRUE].file]
              ELSE IF Deleted(id) THEN NoVector ELSE stored[id]]
    /\ run' = [run EXCEPT !.phase = "idle"]
    /\ IF Delta THEN parsed' = run.tree /\ unvouched' = FALSE ELSE UNCHANGED <<parsed, unvouched>>
    /\ UNCHANGED <<tree, model, manifest, lost, runs, edits, faults>>

EmbeddingNext ==
    \/ \E f \in Files : Edit(f)
    \/ SwapModel
    \/ \E mode \in Modes, batching \in BOOLEAN : StartRun(mode, batching)
    \/ \E i \in DOMAIN run.jobs : ItemSettles(i)
    \/ \E b \in run.batches : BatchAnswers(b) \/ BatchFails(b)
    \/ WriteBack \/ Flush \/ FlushFails \/ Dies \/ WriteVectors

EmbeddingSpec == EmbeddingInit /\ [][EmbeddingNext]_embeddingVars

-----------------------------------------------------------------------------
\* Whatever hit the cache, was embedded alone, in a batch or after a failed
\* batch, and in whatever order the answers came: every result of the run is
\* the vector of its own job's text, as wide as the model of the run.
ResultsAligned ==
    ~At("idle") => \A i \in DOMAIN run.jobs :
        run.settled[i] # NoVector =>
            /\ run.settled[i].text = run.jobs[i].text
            /\ Dims[run.settled[i].model] = Dims[run.model]

\* A cache that was saved holds exactly the vectors of the run that saved it,
\* unless the cap took some: nothing dead is kept, nothing embedded is lost, so
\* that the next run over the same corpus embeds only what failed.
CacheTracksCorpus ==
    [][manifest' # manifest =>
         LET usable == {run.jobs[i].text : i \in {i \in DOMAIN run.jobs : run.settled[i] # NoVector}}
             all    == {run.jobs[i].text : i \in DOMAIN run.jobs}
         IN  /\ Texts(manifest') \subseteq all
             /\ Cardinality(Texts(manifest)) + Cardinality(usable) <= Cap => usable \subseteq Texts(manifest')
             /\ Len(manifest') <= Cap]_embeddingVars

\* A row of the vector table is never the vector of a text its symbol no longer
\* has, and no removed file keeps one, however many embeddings failed: the
\* symbol then has no vector.  A tree edited while the parse cache did not
\* vouch for the database is excepted.
NoStaleVector ==
    At("idle") /\ ~lost /\ ~unvouched =>
        \A f \in Files : stored[f] # NoVector => parsed[f] # Absent /\ stored[f].text = <<parsed[f]>>

\* Vectors belong to the texts they are stored and returned for.
VectorsSound == ResultsAligned /\ NoStaleVector

\* What the comment on inVectorScope says: clusters are always written again.
ClusterVectorCurrent ==
    At("idle") /\ ~lost /\ parsed = tree /\ Cardinality(Members(tree)) >= 2 =>
        stored[ClusterId] \in {NoVector} \/ stored[ClusterId].text = ClusterJob(tree).text
=============================================================================
