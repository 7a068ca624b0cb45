----------------------- MODULE IncrementalIndexProofs -----------------------
(***************************************************************************)
(* Proofs about IncrementalIndex: a completed incremental run has brought  *)
(* the nodes, the vectors and the relationships to what the tree calls     *)
(* for, unless it was exposed (Converged), and the parse cache is never    *)
(* ahead of the database (CacheBehindDatabase).  And about BatchWriter, which writes the rows of *)
(* such a run: each is sent once and in order (EveryRowWritten).           *)
(*                                                                         *)
(* The inductive invariant IInv says what the two tables may hold between  *)
(* runs (Recoverable: rows a next incremental run will bring up to date),  *)
(* what a run knows of the tree after its walk, and what the tables hold   *)
(* at each of its phases.                                                  *)
(*                                                                         *)
(* The inductive invariant WriterInv says that the batches cut so far have *)
(* the rows before the current batch (CutInv), and that the batches sent,  *)
(* the halves left of the batch in hand and the batches not begun are all  *)
(* the rows (BatchesInv); Covers says of a sequence of batches that it has *)
(* the rows from one to another, each once and in order.                   *)
(***************************************************************************)
EXTENDS IncrementalIndex, BatchWriter, SequenceTheorems, TLAPS

-----------------------------------------------------------------------------
(* Types.                                                                  *)

Table == [Keys -> Contents \union {Absent}]

RunRecord ==
    [phase : Phases, mode : Modes \union {"none"},
     adapter : Adapters \union {"none"},
     walked : SUBSET Files, suspects : SUBSET Files,
     changed : SUBSET Files, added : SUBSET Files,
     removed : SUBSET Files, fresh : SUBSET Files, merged : Tree,
     touched : SUBSET Files, clean : BOOLEAN]

Typed ==
    /\ disk \in Tree /\ cache \in Tree
    /\ suspect \subseteq Files
    /\ symbols \in Table /\ vectors \in Table
    /\ edges \subseteq Keys \X Keys
    /\ run \in RunRecord
    /\ edits \in 0..MaxEdits /\ faults \in 0..MaxFaults
    /\ settled \in BOOLEAN /\ torn \in BOOLEAN /\ exposed \in BOOLEAN

-----------------------------------------------------------------------------
(* What a table holds for a file.                                          *)

\* The row under name n of a file whose content is c.
Row(c, n) == IF c # Absent /\ n \in Defines[c] THEN c ELSE Absent

\* The table holds for f exactly the rows of content c.
Exact(table, f, c) == \A n \in Names : table[<<f, n>>] = Row(c, n)

\* The table holds for f rows under names that c declares, of any content.
Within(table, f, c) ==
    \A n \in Names : Row(c, n) = Absent => table[<<f, n>>] = Absent

\* What the parser makes of file f.
Seen(f) == IF disk[f] \in Broken THEN Absent ELSE disk[f]

Holds(table, tree) == \A f \in Files : Exact(table, f, tree[f])

\* A next incremental run brings the table up to date: it trusts the entries
\* of unchanged files and overwrites, without a delete, the rows of files that
\* have no entry.
Recoverable(table) ==
    \A f \in Files :
        /\ cache[f] # Absent /\ disk[f] = cache[f] => Exact(table, f, cache[f])
        /\ cache[f] = Absent => Within(table, f, Seen(f))

-----------------------------------------------------------------------------
(* The inductive invariant.                                                *)

\* An entry is of a content that parsed, and is current unless its mtime
\* says otherwise.
CacheSound ==
    \A f \in Files :
        /\ cache[f] \notin Broken
        /\ f \notin suspect /\ cache[f] # Absent => disk[f] = cache[f]

\* A run whose result is that of its delta plan: it follows the plan, or the
\* plan deletes nothing.
Exacting == Incremental /\ (DeltaActive \/ RowsToDelete = {})

\* Phases of a run before its first write, and those after its parse.
Unwritten ==
    \/ run.phase \in {"idle", "wipe graph", "walk", "classify", "parse",
                      "delete symbols"}
    \/ At("write vectors") /\ ~DeltaActive
Deleting == run.phase \in {"delete symbols", "delete vectors"}
Writing == run.phase \in {"write vectors", "write symbols", "write edges",
                          "save"}
Parsed == Deleting \/ Writing
Walked == Parsed \/ run.phase \in {"classify", "parse"}
Classified == Incremental /\ (At("parse") \/ Parsed)

PhaseInv ==
    /\ settled => At("idle")
    /\ ~Classified => run.changed = {} /\ run.added = {} /\ run.removed = {}
    /\ Deleting => DeltaActive
    /\ At("classify") => Incremental
    /\ At("wipe vectors") => \A k \in Keys : symbols[k] = Absent
    /\ At("wipe cache") =>
           \A k \in Keys : symbols[k] = Absent /\ vectors[k] = Absent
    /\ ~Unwritten => torn
    /\ Walked /\ Unwritten /\ run.clean => ~torn /\ ~exposed
    /\ Walked /\ ~run.clean /\ ~exposed => torn /\ run.touched = {}

UnwrittenInv ==
    Unwritten /\ ~exposed =>
        /\ Recoverable(symbols) /\ Recoverable(vectors)
        /\ ~torn => Holds(symbols, cache) /\ Holds(vectors, cache)

\* What the walk found is still so for the files nobody has touched.
WalkInv ==
    Walked =>
        \A f \in Files \ run.touched :
            /\ f \in run.walked <=> disk[f] # Absent
            /\ f \notin run.suspects /\ cache[f] # Absent => disk[f] = cache[f]

ClassInv ==
    Classified =>
        /\ run.added = {f \in run.walked : cache[f] = Absent}
        /\ run.removed = {f \in Files \ run.walked : cache[f] # Absent}
        /\ run.changed \subseteq {f \in run.walked : cache[f] # Absent}
        /\ \A f \in run.walked \ run.touched :
              cache[f] # Absent => (f \in run.changed <=> disk[f] # cache[f])

\* The files the run parses.
ToParse == IF Incremental THEN run.changed \union run.added ELSE run.walked

ParseInv ==
    Parsed =>
        /\ run.fresh \subseteq ToParse
        /\ \A f \in run.fresh : run.merged[f] \notin Broken \union {Absent}
        /\ \A f \in Files \ run.fresh :
              run.merged[f] = IF Incremental /\ f \in run.walked
                              THEN cache[f] ELSE Absent
        /\ \A f \in Files \ run.touched :
              /\ f \in run.fresh => run.merged[f] = disk[f]
              /\ f \in ToParse \ run.fresh => disk[f] \in Broken

\* The files whose rows the delta write leaves alone.
Unchanged == run.walked \ (run.changed \union run.added)

\* A table half-way through a delta write, after its delete, and before it.
Between(table) ==
    \A f \in Files :
        /\ f \in Unchanged => Exact(table, f, cache[f])
        /\ cache[f] = Absent => Within(table, f, run.merged[f])
Deleted(table) ==
    Between(table) /\ \A f \in RowsToDelete : Exact(table, f, Absent)
Before(table) ==
    /\ run.clean => Holds(table, cache)
    /\ ~run.clean /\ ~exposed => Recoverable(table)

DeltaInv ==
    Exacting /\ (run.clean \/ ~exposed) =>
        /\ At("delete vectors") => Deleted(symbols) /\ Before(vectors)
        /\ At("write vectors") =>
              IF DeltaActive THEN Deleted(symbols) /\ Deleted(vectors)
              ELSE Before(symbols) /\ Before(vectors)
        /\ At("write symbols") => Deleted(symbols) /\ Holds(vectors, run.merged)
        /\ run.phase \in {"write edges", "save"} =>
              Holds(symbols, run.merged) /\ Holds(vectors, run.merged)
        /\ At("save") => Resolve(run.merged) \subseteq edges

\* Any other run only adds rows.
FullInv ==
    ~Exacting /\ Writing /\ ~exposed /\ run.touched = {} =>
        Recoverable(symbols) /\ Recoverable(vectors)

\* An incremental run that inserts everything has every row of its merged tree.
HasAll(table) == \A k \in Rows(run.merged) : table[k] = run.merged[k[1]]
WholeInv ==
    Incremental /\ ~DeltaActive =>
        /\ run.phase \in {"write symbols", "write edges", "save"} =>
              HasAll(vectors)
        /\ run.phase \in {"write edges", "save"} => HasAll(symbols)

Converges == RowsConverge /\ EdgesRestored

IInv ==
    /\ Typed /\ CacheSound
    /\ PhaseInv /\ UnwrittenInv /\ WalkInv /\ ClassInv /\ ParseInv
    /\ DeltaInv /\ FullInv /\ WholeInv /\ Converges

-----------------------------------------------------------------------------
(* Rows, tables and resolved calls.                                        *)

\* Only declared symbols are rows, and every row is a key.
LEMMA RowsAreKeys ==
    ASSUME NEW tree \in Tree
    PROVE  /\ Rows(tree) \subseteq Keys
           /\ \A f \in Files, n \in Names :
                 <<f, n>> \in Rows(tree) <=>
                    tree[f] # Absent /\ n \in Defines[tree[f]]
<1>1. ASSUME NEW f \in Files
      PROVE  /\ RowsOf(f, tree[f]) \subseteq {f} \X Names
             /\ \A n \in Names : <<f, n>> \in RowsOf(f, tree[f]) <=>
                                  tree[f] # Absent /\ n \in Defines[tree[f]]
  BY TreeAssumption DEF Tree, RowsOf
<1>2. \A k : k \in Rows(tree) <=> \E f \in Files : k \in RowsOf(f, tree[f])
  BY DEF Rows
<1>3. Rows(tree) \subseteq Keys
  BY <1>1, <1>2 DEF Keys
<1>4. ASSUME NEW f \in Files, NEW n \in Names
      PROVE  <<f, n>> \in Rows(tree) <=> <<f, n>> \in RowsOf(f, tree[f])
  BY <1>1, <1>2
<1> QED  BY <1>1, <1>3, <1>4

\* Both ends of a resolved call are rows of the tree.
LEMMA ResolvedEndsAreRows ==
    ASSUME NEW tree \in Tree
    PROVE  /\ Resolve(tree) \subseteq Rows(tree) \X Rows(tree)
           /\ Resolve(tree) \subseteq Keys \X Keys
  BY RowsAreKeys DEF Resolve

\* A table that holds the rows of a tree links every resolved call of it.
LEMMA HeldRowsLink ==
    ASSUME NEW tree \in Tree, Holds(symbols, tree)
    PROVE  Linkable(Resolve(tree)) = Resolve(tree)
<1> SUFFICES ASSUME NEW e \in Resolve(tree)
             PROVE  symbols[e[1]] # Absent /\ symbols[e[2]] # Absent
  BY DEF Linkable
<1>1. ASSUME NEW k \in Rows(tree) PROVE symbols[k] # Absent
  <2>1. PICK f \in Files, n \in Names : k = <<f, n>>
    BY RowsAreKeys DEF Keys
  <2>2. symbols[<<f, n>>] = Row(tree[f], n)
    BY DEF Holds, Exact
  <2>3. tree[f] # Absent /\ n \in Defines[tree[f]]
    BY <2>1, RowsAreKeys
  <2> QED  BY <2>1, <2>2, <2>3 DEF Row
<1>2. e[1] \in Rows(tree) /\ e[2] \in Rows(tree)
  BY ResolvedEndsAreRows
<1> QED  BY <1>1, <1>2

LEMMA UpsertTyped ==
    ASSUME NEW table \in Table, NEW tree \in Tree, NEW rows \in SUBSET Keys
    PROVE  Upsert(table, rows, tree) \in Table
  BY DEF Upsert, Table, Tree, Keys

LEMMA DeleteRow ==
    ASSUME NEW table, NEW files, NEW f \in Files, NEW n \in Names
    PROVE  DeleteByFilePaths(table, files)[<<f, n>>] =
              IF f \in files THEN Absent ELSE table[<<f, n>>]
  BY DEF DeleteByFilePaths, Keys

LEMMA DeleteTyped ==
    ASSUME NEW table \in Table, NEW files
    PROVE  DeleteByFilePaths(table, files) \in Table
  BY DEF DeleteByFilePaths, Table

\* The table of a file that declares nothing.
LEMMA ExactOrWithin ==
    ASSUME NEW table, NEW f, NEW c
    PROVE  /\ Exact(table, f, c) => Within(table, f, c)
           /\ Exact(table, f, Absent) => Within(table, f, c)
           /\ Within(table, f, Absent) <=> Exact(table, f, Absent)
           /\ Exact(table, f, Absent) <=>
                 \A n \in Names : table[<<f, n>>] = Absent
  BY DEF Exact, Within, Row

\* A table that agrees with the cache can be brought up to date, whatever the
\* tree has become.
LEMMA HeldCacheRecovers ==
    ASSUME NEW table, Holds(table, cache)
    PROVE  Recoverable(table)
  BY ExactOrWithin DEF Holds, Recoverable

-----------------------------------------------------------------------------
(* The delta write.                                                        *)

\* What each file is to a delta write.
LEMMA Plan ==
    ASSUME Typed, ClassInv, ParseInv, Incremental, Parsed, NEW f \in Files
    PROVE  /\ f \in Unchanged =>
                 run.merged[f] = cache[f] /\ f \notin RowsToDelete
           /\ f \notin run.walked => run.merged[f] = Absent
           /\ f \notin run.walked /\ cache[f] # Absent => f \in RowsToDelete
           /\ f \in run.walked =>
                 f \in Unchanged \/ f \in run.changed \/ f \in run.added
           /\ f \in run.added <=> f \in run.walked /\ cache[f] = Absent
           /\ f \in run.changed \/ f \in run.added => f \in InsertScope
           /\ f \in run.changed => f \in RowsToDelete
  BY DEF Typed, RunRecord, ClassInv, ParseInv, Classified, ToParse, Unchanged,
         RowsToDelete, InsertScope

\* The files nobody has touched since the walk.
LEMMA PlanUntouched ==
    ASSUME Typed, CacheSound, WalkInv, ClassInv, ParseInv, Incremental, Parsed,
           NEW f \in Files \ run.touched
    PROVE  /\ cache[f] # Absent /\ disk[f] = cache[f] => f \in Unchanged
           /\ f \in Unchanged => cache[f] # Absent /\ disk[f] = cache[f]
           /\ cache[f] = Absent => run.merged[f] = Seen(f)
           /\ disk[f] \notin Broken => run.merged[f] = disk[f]
  BY TreeAssumption DEF Typed, RunRecord, WalkInv, ClassInv, ParseInv, Classified, Walked,
         ToParse, Unchanged, Seen

LEMMA RowsToInsertAre ==
    ASSUME Typed, NEW f \in Files, NEW n \in Names
    PROVE  /\ RowsToInsert \subseteq Keys
           /\ <<f, n>> \in RowsToInsert <=>
                 f \in InsertScope /\ Row(run.merged[f], n) # Absent
           /\ Row(run.merged[f], n) # Absent =>
                 Row(run.merged[f], n) = run.merged[f]
  BY RowsAreKeys DEF Typed, RunRecord, RowsToInsert, Row

\* Deleting the rows of changed and removed files.
LEMMA DeleteGives ==
    ASSUME Typed, CacheSound, WalkInv, ClassInv, ParseInv, Incremental, Parsed,
           run.clean \/ ~exposed, ~run.clean => run.touched = {},
           NEW table, Before(table)
    PROVE  Deleted(DeleteByFilePaths(table, RowsToDelete))
<1> DEFINE result == DeleteByFilePaths(table, RowsToDelete)
<1>1. ASSUME NEW f \in RowsToDelete PROVE Exact(result, f, Absent)
  <2>1. f \in Files
    BY DEF Typed, RunRecord, RowsToDelete
  <2> QED  BY <2>1, DeleteRow, ExactOrWithin
<1>2. ASSUME NEW f \in Files, NEW c, f \notin RowsToDelete
      PROVE  /\ Exact(result, f, c) <=> Exact(table, f, c)
             /\ Within(result, f, c) <=> Within(table, f, c)
  BY <1>2, DeleteRow DEF Exact, Within
<1>3. ASSUME NEW f \in Unchanged PROVE Exact(result, f, cache[f])
  <2>1. f \in Files /\ f \notin RowsToDelete
    BY Plan DEF Typed, RunRecord, Unchanged
  <2>2. Exact(table, f, cache[f])
    <3>1. CASE run.clean
      BY <3>1, <2>1 DEF Before, Holds
    <3>2. CASE ~run.clean
      BY <3>2, <2>1, PlanUntouched DEF Before, Recoverable
    <3> QED  BY <3>1, <3>2
  <2> QED  BY <1>2, <2>1, <2>2
<1>4. ASSUME NEW f \in Files, cache[f] = Absent
      PROVE  Within(result, f, run.merged[f])
  <2>1. Within(table, f, run.merged[f])
    <3>1. CASE run.clean
      BY <3>1, <1>4, ExactOrWithin DEF Before, Holds
    <3>2. CASE ~run.clean
      BY <3>2, <1>4, PlanUntouched DEF Before, Recoverable
    <3> QED  BY <3>1, <3>2
  <2>2. CASE f \in RowsToDelete
    BY <2>2, <1>1, ExactOrWithin
  <2>3. CASE f \notin RowsToDelete
    BY <2>3, <2>1, <1>2
  <2> QED  BY <2>2, <2>3
<1> QED  BY <1>1, <1>3, <1>4 DEF Deleted, Between

\* Without changed and removed files there is nothing to delete.
LEMMA NothingToDelete ==
    ASSUME Typed, CacheSound, WalkInv, ClassInv, ParseInv, Incremental, Parsed,
           run.clean \/ ~exposed, ~run.clean => run.touched = {},
           NEW table \in Table, Before(table), RowsToDelete = {}
    PROVE  Deleted(table)
<1>1. DeleteByFilePaths(table, RowsToDelete) = table
  BY DEF DeleteByFilePaths, Table
<1>2. Deleted(DeleteByFilePaths(table, RowsToDelete))
  BY DeleteGives
<1> QED  BY <1>1, <1>2

\* Some of the rows to insert, on top of the delete.
LEMMA PartialUpsert ==
    ASSUME Typed, ClassInv, ParseInv, Incremental, Parsed,
           NEW table, Deleted(table), NEW some \in SUBSET RowsToInsert
    PROVE  Between(Upsert(table, some, run.merged))
<1> DEFINE result == Upsert(table, some, run.merged)
<1>1. ASSUME NEW f \in Unchanged PROVE Exact(result, f, cache[f])
  <2>1. f \in Files /\ run.merged[f] = cache[f]
    BY Plan DEF Typed, RunRecord, Unchanged
  <2>2. ASSUME NEW n \in Names
        PROVE  \/ result[<<f, n>>] = table[<<f, n>>]
               \/ result[<<f, n>>] = Row(cache[f], n)
    BY <2>1, RowsToInsertAre DEF Upsert, Keys
  <2>3. Exact(table, f, cache[f])
    BY <2>1 DEF Deleted, Between
  <2> QED  BY <2>2, <2>3 DEF Exact
<1>2. ASSUME NEW f \in Files, cache[f] = Absent
      PROVE  Within(result, f, run.merged[f])
  <2>1. Within(table, f, run.merged[f])
    BY <1>2 DEF Deleted, Between
  <2>2. \A n \in Names : Row(run.merged[f], n) = Absent =>
                            result[<<f, n>>] = table[<<f, n>>]
    BY RowsToInsertAre DEF Upsert, Keys
  <2> QED  BY <2>1, <2>2 DEF Within
<1> QED  BY <1>1, <1>2 DEF Between

\* All the rows to insert, on top of the delete: the table is that of the
\* merged tree.
LEMMA UpsertGives ==
    ASSUME Typed, ClassInv, ParseInv, Incremental, Parsed,
           NEW table, Deleted(table)
    PROVE  Holds(Upsert(table, RowsToInsert, run.merged), run.merged)
<1> DEFINE result == Upsert(table, RowsToInsert, run.merged)
<1> SUFFICES ASSUME NEW f \in Files PROVE Exact(result, f, run.merged[f])
  BY DEF Holds
<1>1. CASE f \in InsertScope
  <2>1. Within(table, f, run.merged[f])
    BY <1>1, Plan, ExactOrWithin DEF Deleted, Between
  <2>2. ASSUME NEW n \in Names
        PROVE  result[<<f, n>>] = Row(run.merged[f], n)
    <3>1. CASE Row(run.merged[f], n) = Absent
      BY <3>1, <2>1, RowsToInsertAre DEF Within, Upsert, Keys
    <3>2. CASE Row(run.merged[f], n) # Absent
      BY <3>2, <1>1, RowsToInsertAre DEF Upsert, Keys
    <3> QED  BY <3>1, <3>2
  <2> QED  BY <2>2 DEF Exact
<1>2. CASE f \notin InsertScope
  <2>1. \A n \in Names : result[<<f, n>>] = table[<<f, n>>]
    BY <1>2, RowsToInsertAre DEF Upsert, Keys
  <2>2. f \notin run.changed /\ f \notin run.added
    BY <1>2, Plan
  <2>3. Exact(table, f, run.merged[f])
    BY <2>2, Plan, ExactOrWithin DEF Deleted, Between
  <2> QED  BY <2>1, <2>3 DEF Exact
<1> QED  BY <1>1, <1>2

LEMMA HeldMergedBetween ==
    ASSUME Typed, ClassInv, ParseInv, Incremental, Parsed,
           NEW table, Holds(table, run.merged)
    PROVE  Between(table)
<1>1. Unchanged \subseteq Files
  BY DEF Typed, RunRecord, Unchanged
<1> QED  BY <1>1, Plan, ExactOrWithin DEF Holds, Between

\* A delta write that stops anywhere is brought up to date by the next one,
\* when nobody has touched a file since the walk.
LEMMA BetweenRecovers ==
    ASSUME Typed, CacheSound, WalkInv, ClassInv, ParseInv, Incremental, Parsed,
           run.touched = {}, NEW table, Between(table)
    PROVE  Recoverable(table)
  BY PlanUntouched DEF Between, Recoverable

\* A run that only adds rows adds those of files as they are on disk, and of
\* files whose rows the next incremental run deletes.
LEMMA FullUpsertRecovers ==
    ASSUME Typed, CacheSound, WalkInv, ClassInv, ParseInv, Parsed,
           run.touched = {},
           NEW table, Recoverable(table), NEW some \in SUBSET RowsToInsert
    PROVE  Recoverable(Upsert(table, some, run.merged))
<1> DEFINE result == Upsert(table, some, run.merged)
<1>1. ASSUME NEW f \in Files, NEW n \in Names, <<f, n>> \in some,
             cache[f] = Absent \/ disk[f] = cache[f]
      PROVE  /\ result[<<f, n>>] = disk[f] /\ Row(disk[f], n) = disk[f]
             /\ Seen(f) = disk[f] /\ disk[f] # Absent
  <2>1. Row(run.merged[f], n) # Absent /\ Row(run.merged[f], n) = run.merged[f]
    BY <1>1, RowsToInsertAre
  <2>2. run.merged[f] # Absent
    BY <2>1
  <2>3. run.merged[f] = disk[f] /\ disk[f] \notin Broken
    <3>1. CASE ~Incremental
      <4>1. f \in run.fresh
        BY <2>2, <3>1 DEF ParseInv
      <4> QED  BY <4>1 DEF ParseInv
    <3>2. CASE Incremental /\ cache[f] = Absent
      BY <2>2, <3>2, PlanUntouched DEF Seen
    <3>3. CASE Incremental /\ cache[f] # Absent
      <4>1. run.merged[f] = cache[f] /\ disk[f] = cache[f]
        BY <1>1, <3>3, Plan, PlanUntouched
      <4> QED  BY <4>1 DEF CacheSound
    <3> QED  BY <3>1, <3>2, <3>3
  <2> QED  BY <1>1, <2>1, <2>3 DEF Seen, Upsert, Keys
<1>2. ASSUME NEW f \in Files, NEW n \in Names, <<f, n>> \notin some
      PROVE  result[<<f, n>>] = table[<<f, n>>]
  BY <1>2 DEF Upsert, Keys
<1>3. ASSUME NEW f \in Files, cache[f] # Absent, disk[f] = cache[f]
      PROVE  Exact(result, f, cache[f])
  BY <1>1, <1>2, <1>3 DEF Exact, Recoverable
<1>4. ASSUME NEW f \in Files, cache[f] = Absent
      PROVE  Within(result, f, Seen(f))
  BY <1>1, <1>2, <1>4 DEF Within, Recoverable
<1> QED  BY <1>3, <1>4 DEF Recoverable

\* A whole insert has every row of the merged tree.
LEMMA WholeUpsertHasAll ==
    ASSUME Typed, ~DeltaActive, NEW table
    PROVE  HasAll(Upsert(table, RowsToInsert, run.merged))
<1>1. Rows(run.merged) \subseteq Keys
  BY RowsAreKeys DEF Typed, RunRecord
<1>2. RowsToInsert = Rows(run.merged)
  BY <1>1 DEF RowsToInsert, InsertScope, Keys
<1> QED  BY <1>1, <1>2 DEF HasAll, Upsert

-----------------------------------------------------------------------------
(* Frames: what the shape of a step leaves to be shown.                    *)

LEMMA IdleTyped ==
    /\ Idle \in RunRecord /\ Idle.phase = "idle" /\ Idle.mode = "none"
    /\ Idle.changed = {} /\ Idle.added = {} /\ Idle.removed = {}
<1>1. [f \in Files |-> Absent] \in Tree
  BY DEF Tree
<1> QED  BY <1>1 DEF Idle, RunRecord, Phases

\* A run that has not walked yet has no plan.
LEMMA NoPlan ==
    ASSUME run'.phase \in {"idle", "wipe graph", "wipe vectors", "wipe cache",
                           "walk"}
    PROVE  /\ WalkInv' /\ ClassInv' /\ ParseInv' /\ DeltaInv' /\ FullInv'
           /\ WholeInv'
           /\ ~Walked' /\ ~Classified' /\ ~Deleting' /\ ~At("classify")'
  BY DEF WalkInv, ClassInv, ParseInv, DeltaInv, FullInv, WholeInv, Walked, Classified,
         Parsed, Deleting, Writing, At

\* A plan is good as long as the run, the cache and the tree stand.
SamePlan ==
    /\ run'.mode = run.mode /\ run'.adapter = run.adapter
    /\ run'.walked = run.walked /\ run'.suspects = run.suspects
    /\ run'.changed = run.changed /\ run'.added = run.added
    /\ run'.removed = run.removed /\ run'.fresh = run.fresh
    /\ run'.merged = run.merged /\ run'.touched = run.touched
    /\ run'.clean = run.clean

LEMMA GoTo ==
    ASSUME run \in RunRecord, NEW p \in Phases, Go(p)
    PROVE  run' \in RunRecord /\ run'.phase = p /\ SamePlan
  BY DEF RunRecord, SamePlan, Go

LEMMA PlanStands ==
    ASSUME WalkInv, ClassInv, ParseInv, Parsed, Parsed', SamePlan,
           cache' = cache, disk' = disk
    PROVE  WalkInv' /\ ClassInv' /\ ParseInv'
<1>1. /\ Incremental' = Incremental /\ ToParse' = ToParse
      /\ Walked /\ Classified = Incremental /\ Classified' = Incremental
  BY DEF SamePlan, Incremental, ToParse, Walked, Classified
<1>2. WalkInv'
  BY <1>1 DEF SamePlan, WalkInv
<1>3. ClassInv'
  BY <1>1 DEF SamePlan, ClassInv
<1>4. ParseInv'
  BY <1>1 DEF SamePlan, ParseInv
<1> QED  BY <1>2, <1>3, <1>4

LEMMA NotSettled ==
    ASSUME settled' = FALSE
    PROVE  Converges'
  BY DEF Converges, RowsConverge, EdgesRestored

-----------------------------------------------------------------------------
(* Every action keeps the invariant.                                       *)

LEMMA EditKeeps ==
    ASSUME IInv, NEW f \in Files, Edit(f)
    PROVE  IInv'
<1> DEFINE idle == At("idle")
<1>1. PICK c \in Contents \union {Absent} : disk' = [disk EXCEPT ![f] = c]
  BY DEF Edit
<1>2. /\ suspect' = suspect \union {f} /\ settled' = FALSE
      /\ exposed' = (exposed \/ torn) /\ torn' = torn /\ cache' = cache
      /\ symbols' = symbols /\ vectors' = vectors /\ edges' = edges
      /\ edits' = edits + 1 /\ edits < MaxEdits /\ faults' = faults
  BY DEF Edit, tables
<1>3. /\ run' \in RunRecord
      /\ run'.phase = run.phase /\ run'.mode = run.mode
      /\ run'.adapter = run.adapter
      /\ run'.walked = run.walked /\ run'.suspects = run.suspects
      /\ run'.changed = run.changed /\ run'.added = run.added
      /\ run'.removed = run.removed /\ run'.fresh = run.fresh
      /\ run'.merged = run.merged /\ run'.clean = run.clean
      /\ ~idle => run'.touched = run.touched \union {f}
  <2>1. run \in RunRecord
    BY DEF IInv, Typed
  <2>2. run' = IF idle THEN run ELSE [run EXCEPT !.touched = @ \union {f}]
    BY DEF Edit
  <2> QED  BY <2>1, <2>2 DEF RunRecord
<1>4. Typed'
  <2>1. disk' \in Tree
    BY <1>1 DEF IInv, Typed, Tree
  <2>2. edits' \in 0..MaxEdits
    BY <1>2, BoundAssumption DEF IInv, Typed
  <2> QED  BY <2>1, <2>2, <1>2, <1>3 DEF IInv, Typed
<1>5. \A g \in Files : g # f => disk'[g] = disk[g]
  BY <1>1 DEF IInv, Typed, Tree
<1>6. CacheSound'
  BY <1>2, <1>5 DEF IInv, CacheSound
<1>7. /\ Unwritten' = Unwritten /\ Walked' = Walked /\ Parsed' = Parsed
      /\ Classified' = Classified /\ DeltaActive' = DeltaActive
      /\ Incremental' = Incremental /\ Exacting' = Exacting
      /\ Deleting' = Deleting /\ Writing' = Writing /\ ToParse' = ToParse
      /\ Unchanged' = Unchanged /\ RowsToDelete' = RowsToDelete
      /\ \A p : At(p)' = At(p)
  BY <1>3 DEF Unwritten, Walked, Parsed, Classified, DeltaActive, Deleting,
              Writing, At, ToParse, Unchanged, RowsToDelete, Incremental, Exacting
<1>8. PhaseInv /\ (settled => idle)
  BY DEF IInv, PhaseInv
<1>9. PhaseInv'
  BY <1>2, <1>3, <1>7, <1>8 DEF PhaseInv, At
<1>10. UnwrittenInv'
  <2> SUFFICES ASSUME Unwritten, ~exposed'
               PROVE  /\ Recoverable(symbols)' /\ Recoverable(vectors)'
                      /\ ~torn' =>
                            Holds(symbols, cache)' /\ Holds(vectors, cache)'
    BY <1>7 DEF UnwrittenInv
  <2>1. Holds(symbols, cache) /\ Holds(vectors, cache)
    BY <1>2 DEF IInv, UnwrittenInv
  <2> QED  BY <2>1, <1>2, ExactOrWithin DEF Holds, Recoverable
<1>11. ~idle => \A g \in Files \ run'.touched :
                   g \in Files \ run.touched /\ disk'[g] = disk[g]
  BY <1>3, <1>5
<1>12. Walked => ~idle
  BY DEF Walked, Parsed, Deleting, Writing, At
<1>13. WalkInv'
  BY <1>2, <1>3, <1>7, <1>11, <1>12 DEF IInv, WalkInv
<1>14. ClassInv'
  <2>1. Classified => ~idle
    BY <1>12 DEF Classified, Walked, At
  <2>2. run.walked \subseteq Files
    BY DEF IInv, Typed, RunRecord
  <2> QED  BY <2>1, <2>2, <1>2, <1>3, <1>7, <1>11 DEF IInv, ClassInv
<1>15. ParseInv'
  BY <1>2, <1>3, <1>7, <1>11, <1>12 DEF IInv, ParseInv, Walked
<1>16. DeltaInv'
  <2> SUFFICES ASSUME Exacting, run.clean \/ ~exposed', Parsed
               PROVE  DeltaInv'
    BY <1>3, <1>7 DEF DeltaInv, Parsed, Deleting, Writing, At
  <2>1. run.clean
    BY <1>2, <1>8 DEF PhaseInv, Walked
  <2>2. ASSUME NEW t
        PROVE  /\ Deleted(t) => Deleted(t)'
               /\ Before(t) => Before(t)'
    BY <2>1, <1>2, <1>3, <1>7 DEF Deleted, Between, Before, Holds
  <2> QED  BY <2>1, <2>2, <1>2, <1>3, <1>7 DEF IInv, DeltaInv
<1>17. FullInv'
  BY <1>3, <1>7, <1>12 DEF FullInv, Walked, Parsed
<1>18. WholeInv'
  BY <1>2, <1>3, <1>7 DEF IInv, WholeInv, HasAll
<1> QED  BY <1>2, <1>4, <1>6, <1>9, <1>10, <1>13, <1>14, <1>15, <1>16, <1>17,
            <1>18, NotSettled DEF IInv

LEMMA StartRunKeeps ==
    ASSUME IInv, NEW mode \in Modes, NEW adapter \in Adapters,
           StartRun(mode, adapter)
    PROVE  IInv'
<1>1. /\ run' = [Idle EXCEPT !.mode = mode, !.adapter = adapter, !.phase =
                    IF mode = "refresh" THEN "wipe graph" ELSE "walk"]
      /\ settled' = FALSE /\ At("idle")
      /\ UNCHANGED <<disk, cache, suspect, symbols, vectors, edges, edits,
                     faults, torn, exposed>>
  BY DEF StartRun, tables
<1>2. /\ run' \in RunRecord /\ run'.phase \in {"wipe graph", "walk"}
      /\ run'.changed = {} /\ run'.added = {} /\ run'.removed = {}
  BY <1>1, IdleTyped DEF RunRecord, Phases
<1>3. Typed'
  BY <1>1, <1>2 DEF IInv, Typed
<1>4. CacheSound'
  BY <1>1 DEF IInv, CacheSound
<1>5. Unwritten /\ Unwritten'
  BY <1>1, <1>2 DEF Unwritten, At
<1>6. PhaseInv'
  BY <1>1, <1>2, <1>5, NoPlan DEF PhaseInv, At
<1>7. UnwrittenInv'
  BY <1>1, <1>5 DEF IInv, UnwrittenInv, Recoverable, Seen
<1> QED  BY <1>1, <1>2, <1>3, <1>4, <1>6, <1>7, NoPlan, NotSettled DEF IInv

\* --refresh: the database first, the cache last.
LEMMA WipeGraphKeeps ==
    ASSUME IInv, WipeGraph
    PROVE  IInv'
<1>1. /\ Go("wipe vectors") /\ run.phase = "wipe graph"
      /\ symbols' = [k \in Keys |-> Absent] /\ edges' = {} /\ torn' = TRUE
      /\ UNCHANGED <<disk, cache, suspect, vectors, edits, faults, settled,
                     exposed>>
  BY DEF WipeGraph, At
<1>2. run' \in RunRecord /\ run'.phase = "wipe vectors"
      /\ run'.changed = run.changed /\ run'.added = run.added
      /\ run'.removed = run.removed
  BY <1>1, GoTo DEF IInv, Typed, Phases, SamePlan
<1>3. Typed'
  BY <1>1, <1>2 DEF IInv, Typed, Table
<1>4. CacheSound'
  BY <1>1 DEF IInv, CacheSound
<1>5. ~Unwritten' /\ ~Classified
  BY <1>1, <1>2 DEF Unwritten, Classified, Parsed, Deleting, Writing, At
<1>6. PhaseInv'
  BY <1>1, <1>2, <1>5, NoPlan DEF IInv, PhaseInv, At
<1>7. UnwrittenInv'
  BY <1>5 DEF UnwrittenInv
<1>8. Converges'
  BY <1>2 DEF Converges, RowsConverge, EdgesRestored, At
<1> QED  BY <1>2, <1>3, <1>4, <1>6, <1>7, <1>8, NoPlan DEF IInv

LEMMA WipeVectorsKeeps ==
    ASSUME IInv, WipeVectors
    PROVE  IInv'
<1>1. /\ Go("wipe cache") /\ run.phase = "wipe vectors"
      /\ vectors' = [k \in Keys |-> Absent]
      /\ UNCHANGED <<disk, cache, suspect, symbols, edges, edits, faults,
                     settled, torn, exposed>>
  BY DEF WipeVectors, At, ghosts
<1>2. run' \in RunRecord /\ run'.phase = "wipe cache"
      /\ run'.changed = run.changed /\ run'.added = run.added
      /\ run'.removed = run.removed
  BY <1>1, GoTo DEF IInv, Typed, Phases, SamePlan
<1>3. Typed'
  BY <1>1, <1>2 DEF IInv, Typed, Table
<1>4. CacheSound'
  BY <1>1 DEF IInv, CacheSound
<1>5. ~Unwritten /\ ~Unwritten' /\ ~Classified
  BY <1>1, <1>2 DEF Unwritten, Classified, Parsed, Deleting, Writing, At
<1>6. PhaseInv'
  BY <1>1, <1>2, <1>5, NoPlan DEF IInv, PhaseInv, At
<1>7. UnwrittenInv'
  BY <1>5 DEF UnwrittenInv
<1>8. Converges'
  BY <1>2 DEF Converges, RowsConverge, EdgesRestored, At
<1> QED  BY <1>2, <1>3, <1>4, <1>6, <1>7, <1>8, NoPlan DEF IInv

LEMMA WipeCacheKeeps ==
    ASSUME IInv, WipeCache
    PROVE  IInv'
<1>1. /\ Go("walk") /\ run.phase = "wipe cache"
      /\ cache' = [f \in Files |-> Absent] /\ torn' = FALSE /\ exposed' = FALSE
      /\ UNCHANGED <<disk, suspect, symbols, vectors, edges, edits, faults,
                     settled>>
  BY DEF WipeCache, At, tables
<1>2. run' \in RunRecord /\ run'.phase = "walk"
      /\ run'.changed = run.changed /\ run'.added = run.added
      /\ run'.removed = run.removed
  BY <1>1, GoTo DEF IInv, Typed, Phases, SamePlan
<1>3. Typed'
  BY <1>1, <1>2 DEF IInv, Typed, Tree
<1>4. CacheSound'
  BY <1>1, TreeAssumption DEF CacheSound, Absent
<1>5. Unwritten' /\ ~Unwritten /\ ~Classified
  BY <1>1, <1>2 DEF Unwritten, Classified, Parsed, Deleting, Writing, At
<1>6. PhaseInv'
  BY <1>1, <1>2, <1>5, NoPlan DEF IInv, PhaseInv, At
<1>7. \A k \in Keys : symbols'[k] = Absent /\ vectors'[k] = Absent
  BY <1>1 DEF IInv, PhaseInv, At
<1>8. UnwrittenInv'
  BY <1>1, <1>7 DEF UnwrittenInv, Recoverable, Within, Holds, Exact, Row, Keys
<1>9. Converges'
  BY <1>2 DEF Converges, RowsConverge, EdgesRestored, At
<1> QED  BY <1>2, <1>3, <1>4, <1>6, <1>8, <1>9, NoPlan DEF IInv

\* A run that returns without having written has found nothing to index.
LEMMA ReturnEarlyKeeps ==
    ASSUME IInv, ReturnEarly, Unwritten, ~At("idle"),
           Incremental /\ run.touched = {} => ~SomethingToIndex,
           UNCHANGED <<disk, cache, suspect, tables, edits, faults, torn, exposed>>
    PROVE  IInv'
<1>1. /\ run' = Idle /\ settled' = (Incremental /\ run.touched = {})
      /\ UNCHANGED <<disk, cache, suspect, symbols, vectors, edges, edits,
                     faults, torn, exposed>>
  BY DEF ReturnEarly, Return, tables
<1>2. /\ run' \in RunRecord /\ run'.phase = "idle"
      /\ run'.changed = {} /\ run'.added = {} /\ run'.removed = {}
  BY <1>1, IdleTyped DEF IInv, Typed, PhaseInv
<1>3. Typed'
  BY <1>1, <1>2 DEF IInv, Typed
<1>4. CacheSound'
  BY <1>1 DEF IInv, CacheSound
<1>5. Unwritten'
  BY <1>2 DEF Unwritten
<1>6. PhaseInv'
  BY <1>1, <1>2, <1>5, NoPlan DEF PhaseInv, At
<1>7. UnwrittenInv'
  BY <1>1, <1>5 DEF IInv, UnwrittenInv, Recoverable, Seen
<1>8. Converges'
  <2>1. SomethingToIndex' <=> SomethingToIndex
    BY <1>1 DEF SomethingToIndex, Readable, RowsOf
  <2> QED  BY <1>1, <2>1 DEF Converges, RowsConverge, EdgesRestored
<1> QED  BY <1>2, <1>3, <1>4, <1>6, <1>7, <1>8, NoPlan DEF IInv

LEMMA WalkKeeps ==
    ASSUME IInv, Walk
    PROVE  IInv'
<1> DEFINE walked == {f \in Files : disk[f] # Absent}
<1>1. /\ run.phase = "walk"
      /\ UNCHANGED <<disk, cache, suspect, symbols, vectors, edges, edits,
                     faults, torn, exposed>>
  BY DEF Walk, At, tables
<1>2. Unwritten /\ ~At("idle")
  BY <1>1 DEF Unwritten, At
<1>3. CASE walked = {}
  <2>1. ~SomethingToIndex
    BY <1>3 DEF SomethingToIndex, RowsOf
  <2> QED  BY <1>2, <1>3, <2>1, ReturnEarlyKeeps DEF Walk
<1>4. CASE walked # {}
  <2>1. run' = [run EXCEPT
                   !.phase = IF Incremental THEN "classify" ELSE "parse",
                   !.walked = walked, !.suspects = suspect, !.touched = {},
                   !.clean = ~torn /\ ~exposed]
    BY <1>4 DEF Walk
  <2>12. settled' = settled /\ settled' = FALSE
    BY <1>1, <1>4 DEF Walk, IInv, PhaseInv, Typed, At
  <2>2. /\ run \in RunRecord /\ suspect \subseteq Files
        /\ torn \in BOOLEAN /\ exposed \in BOOLEAN
    BY DEF IInv, Typed
  <2>3. walked \in SUBSET Files /\ (~torn /\ ~exposed) \in BOOLEAN
    OBVIOUS
  <2> HIDE DEF walked
  <2>4. /\ run' \in RunRecord
        /\ run'.phase = IF Incremental THEN "classify" ELSE "parse"
        /\ run'.mode = run.mode /\ run'.adapter = run.adapter /\ run'.walked = walked
        /\ run'.suspects = suspect /\ run'.touched = {}
        /\ run'.clean = (~torn /\ ~exposed)
        /\ run'.changed = run.changed /\ run'.added = run.added
        /\ run'.removed = run.removed
    BY <2>1, <2>2, <2>3 DEF RunRecord, Phases
  <2>5. Typed'
    BY <1>1, <2>4, <2>12 DEF IInv, Typed
  <2>6. CacheSound'
    BY <1>1 DEF IInv, CacheSound
  <2>7. /\ Incremental' = Incremental /\ Unwritten' /\ Walked'
        /\ ~Classified /\ ~Classified' /\ ~Parsed' /\ ~Deleting'
        /\ ~Writing'
        /\ At("classify")' => Incremental
    BY <1>1, <2>4 DEF Incremental, Unwritten, Walked, Classified, Parsed,
                      Deleting, Writing, At
  <2>8. PhaseInv'
    BY <1>1, <2>4, <2>7, <2>12 DEF IInv, PhaseInv, At
  <2>9. UnwrittenInv'
    BY <1>1, <1>2, <2>7 DEF IInv, UnwrittenInv, Recoverable, Seen
  <2>10. WalkInv'
    BY <1>1, <2>4 DEF IInv, WalkInv, CacheSound, walked
  <2>11. ClassInv' /\ ParseInv' /\ FullInv' /\ DeltaInv' /\ WholeInv'
    BY <2>4, <2>7 DEF ClassInv, ParseInv, FullInv, DeltaInv, WholeInv, At
  <2> QED  BY <2>5, <2>6, <2>8, <2>9, <2>10, <2>11, <2>12, NotSettled DEF IInv
<1> QED  BY <1>3, <1>4

LEMMA ClassifyKeeps ==
    ASSUME IInv, Classify
    PROVE  IInv'
<1> DEFINE added == {f \in run.walked : cache[f] = Absent}
           changed == {f \in run.walked : cache[f] # Absent
                                          /\ CurrentHash(f) # cache[f]}
           removed == {f \in Files \ run.walked : cache[f] # Absent}
<1>1. /\ run.phase = "classify"
      /\ run' = [run EXCEPT !.phase = "parse", !.added = added,
                            !.changed = changed, !.removed = removed]
      /\ UNCHANGED <<disk, cache, suspect, symbols, vectors, edges, edits,
                     faults, settled, torn, exposed>>
  BY DEF Classify, At, tables, ghosts
<1>2. run \in RunRecord /\ run.walked \subseteq Files
  BY DEF IInv, Typed, RunRecord
<1>3. added \in SUBSET Files /\ changed \in SUBSET Files /\ removed \in SUBSET Files
  BY <1>2
<1> HIDE DEF added, changed, removed
<1>4. /\ run' \in RunRecord /\ run'.phase = "parse" /\ run'.mode = run.mode
      /\ run'.adapter = run.adapter
      /\ run'.walked = run.walked /\ run'.suspects = run.suspects
      /\ run'.touched = run.touched /\ run'.clean = run.clean
      /\ run'.changed = changed /\ run'.added = added /\ run'.removed = removed
  BY <1>1, <1>2, <1>3 DEF RunRecord, Phases
<1>5. Typed'
  BY <1>1, <1>4 DEF IInv, Typed
<1>6. CacheSound'
  BY <1>1 DEF IInv, CacheSound
<1>7. /\ Incremental /\ Incremental' /\ Unwritten /\ Unwritten' /\ Walked
      /\ Walked' /\ Classified' /\ ~Parsed' /\ ~Deleting' /\ ~Writing'
      /\ ~At("classify")'
  BY <1>1, <1>4 DEF IInv, PhaseInv, Incremental, Unwritten, Walked, Classified,
                    Parsed, Deleting, Writing, At
<1>8. PhaseInv'
  BY <1>1, <1>4, <1>7 DEF IInv, PhaseInv, At
<1>9. UnwrittenInv'
  BY <1>1, <1>7 DEF IInv, UnwrittenInv, Recoverable, Seen
<1>10. WalkInv'
  BY <1>1, <1>4, <1>7 DEF IInv, WalkInv
<1>11. ClassInv'
  <2>1. ASSUME NEW f \in run.walked \ run.touched, cache[f] # Absent
        PROVE  f \in changed <=> disk[f] # cache[f]
    BY <1>2, <1>7, <2>1 DEF changed, CurrentHash, IInv, WalkInv
  <2> QED  BY <1>1, <1>4, <2>1 DEF ClassInv, added, changed, removed
<1>12. ParseInv' /\ FullInv' /\ DeltaInv' /\ WholeInv'
  BY <1>4, <1>7 DEF ParseInv, FullInv, DeltaInv, WholeInv, At
<1>13. settled' = FALSE
  BY <1>1 DEF IInv, PhaseInv, Typed, At
<1> QED  BY <1>5, <1>6, <1>8, <1>9, <1>10, <1>11, <1>12, <1>13, NotSettled
         DEF IInv

LEMMA ParseKeeps ==
    ASSUME IInv, Parse
    PROVE  IInv'
<1> DEFINE fresh == {f \in ToParse : disk[f] \notin Broken \union {Absent}}
           reused == IF Incremental THEN run.walked \ fresh ELSE {}
           merged == [f \in Files |-> IF f \in fresh THEN disk[f]
                                      ELSE IF f \in reused THEN cache[f]
                                      ELSE Absent]
<1>1. /\ run.phase = "parse"
      /\ UNCHANGED <<disk, cache, suspect, symbols, vectors, edges, edits,
                     faults, torn, exposed>>
  BY DEF Parse, At, tables
<1>2. Unwritten /\ ~At("idle") /\ Walked
  BY <1>1 DEF Unwritten, Walked, At
<1>3. CASE Rows(merged) = {}
  <2>1. ASSUME Incremental, run.touched = {}, NEW f \in Files, Readable(f),
               RowsOf(f, disk[f]) # {}
        PROVE  FALSE
    <3>1. disk[f] # Absent /\ disk[f] \notin Broken
      BY <2>1 DEF RowsOf, Readable
    <3>2. f \in run.walked
      BY <1>2, <2>1, <3>1 DEF IInv, WalkInv
    <3>3. CASE f \in ToParse
      <4>1. merged[f] = disk[f]
        BY <3>1, <3>3
      <4> QED  BY <1>3, <2>1, <4>1 DEF Rows
    <3>4. CASE f \notin ToParse
      <4>1. f \notin run.added /\ f \notin run.changed /\ Classified
        BY <1>1, <2>1, <3>4 DEF ToParse, Classified, At
      <4>2. cache[f] = disk[f]
        BY <2>1, <3>2, <4>1 DEF IInv, ClassInv
      <4>3. merged[f] = disk[f]
        BY <2>1, <3>2, <3>4, <4>2
      <4> QED  BY <1>3, <2>1, <4>3 DEF Rows
    <3> QED  BY <3>3, <3>4
  <2>2. Incremental /\ run.touched = {} => ~SomethingToIndex
    BY <2>1 DEF SomethingToIndex
  <2>3. ReturnEarly
    BY <1>3 DEF Parse, ToParse
  <2> QED  BY <1>1, <1>2, <2>2, <2>3, ReturnEarlyKeeps DEF tables
<1>4. CASE Rows(merged) # {}
  <2>1. run' = [run EXCEPT
                   !.phase = IF DeltaActive THEN "delete symbols"
                             ELSE "write vectors",
                   !.fresh = fresh, !.merged = merged]
    BY <1>4 DEF Parse, ToParse
  <2>17. settled' = settled /\ settled' = FALSE
    BY <1>1, <1>4 DEF Parse, ToParse, IInv, PhaseInv, Typed, At
  <2>2. /\ run \in RunRecord /\ disk \in Tree /\ cache \in Tree
        /\ ToParse \subseteq run.walked /\ run.walked \subseteq Files
    BY <1>1 DEF IInv, Typed, RunRecord, ToParse, ClassInv, Classified, At
  <2>3. fresh \in SUBSET Files /\ fresh \subseteq ToParse
    BY <2>2
  <2>4. merged \in Tree
    BY <2>2 DEF Tree
  <2>5. /\ \A f \in fresh : merged[f] = disk[f] /\ disk[f] \notin Broken \union {Absent}
        /\ \A f \in Files \ fresh :
              merged[f] = IF Incremental /\ f \in run.walked THEN cache[f]
                          ELSE Absent
        /\ \A f \in ToParse \ fresh : disk[f] \in Broken \union {Absent}
    BY <2>2
  <2> HIDE DEF fresh, merged
  <2>6. /\ run' \in RunRecord
        /\ run'.phase = IF DeltaActive THEN "delete symbols" ELSE "write vectors"
        /\ run'.mode = run.mode /\ run'.adapter = run.adapter
        /\ run'.walked = run.walked /\ run'.suspects = run.suspects
        /\ run'.changed = run.changed /\ run'.added = run.added
        /\ run'.removed = run.removed /\ run'.touched = run.touched
        /\ run'.clean = run.clean /\ run'.fresh = fresh /\ run'.merged = merged
    BY <2>1, <2>2, <2>3, <2>4 DEF RunRecord, Phases
  <2>7. Typed'
    BY <1>1, <2>6, <2>17 DEF IInv, Typed
  <2>8. CacheSound'
    BY <1>1 DEF IInv, CacheSound
  <2>9. /\ DeltaActive' = DeltaActive /\ Unwritten' /\ Walked'
        /\ Incremental' = Incremental /\ Exacting' = Exacting
        /\ (Classified <=> Incremental) /\ (Classified' <=> Incremental)
        /\ (Deleting' <=> DeltaActive) /\ (Writing' <=> ~DeltaActive)
        /\ ~At("classify")' /\ ToParse' = ToParse
    <3>1. /\ DeltaActive' = DeltaActive /\ ToParse' = ToParse
          /\ Incremental' = Incremental /\ Exacting' = Exacting
      BY <2>6 DEF DeltaActive, ToParse, Incremental, Exacting, RowsToDelete
    <3>2. CASE DeltaActive
      BY <3>1, <3>2, <1>1, <2>6 DEF Unwritten, Walked, Classified, Parsed,
                                    Deleting, Writing, At
    <3>3. CASE ~DeltaActive
      BY <3>1, <3>3, <1>1, <2>6 DEF Unwritten, Walked, Classified, Parsed,
                                    Deleting, Writing, At
    <3> QED  BY <3>2, <3>3
  <2>10. PhaseInv'
    BY <1>1, <1>2, <2>6, <2>9, <2>17 DEF IInv, PhaseInv, At
  <2>11. UnwrittenInv'
    BY <1>1, <1>2, <2>9 DEF IInv, UnwrittenInv, Recoverable, Seen
  <2>12. WalkInv'
    BY <1>1, <1>2, <2>6, <2>9 DEF IInv, WalkInv
  <2>13. ClassInv'
    BY <1>1, <2>6, <2>9 DEF IInv, ClassInv
  <2>14. ParseInv'
    <3>1. ASSUME NEW f \in Files \ run.touched, f \in ToParse \ fresh
          PROVE  disk[f] \in Broken
      BY <1>2, <2>2, <2>5, <3>1 DEF IInv, WalkInv
    <3> QED  BY <1>1, <2>3, <2>5, <2>6, <2>9, <3>1 DEF ParseInv
  <2>15. DeltaInv'
    <3> SUFFICES ASSUME run.clean \/ ~exposed, ~DeltaActive
                 PROVE  Before(symbols)' /\ Before(vectors)'
      BY <1>1, <2>6, <2>9 DEF DeltaInv, At
    <3>1. /\ run.clean => Holds(symbols, cache) /\ Holds(vectors, cache)
          /\ ~run.clean /\ ~exposed =>
                Recoverable(symbols) /\ Recoverable(vectors)
      BY <1>2 DEF IInv, PhaseInv, UnwrittenInv
    <3> QED  BY <1>1, <2>6, <3>1 DEF Before, Holds, Recoverable, Seen
  <2>16. FullInv'
    BY <1>1, <2>9, <2>11 DEF FullInv, UnwrittenInv
  <2>18. WholeInv'
    BY <2>6 DEF WholeInv
  <2> QED  BY <2>7, <2>8, <2>10, <2>11, <2>12, <2>13, <2>14, <2>15, <2>16,
              <2>17, <2>18, NotSettled DEF IInv
<1> QED  BY <1>3, <1>4

-----------------------------------------------------------------------------
(* The database writes.                                                    *)

\* What is left to show of a step from one write to the next.
LEMMA WriteStep ==
    ASSUME IInv, Parsed,
           NEW p \in {"delete vectors", "write vectors", "write symbols",
                      "write edges", "save"}, Go(p),
           p \in {"delete vectors", "write vectors"} => DeltaActive,
           UNCHANGED <<disk, cache, suspect, edits, faults, settled, exposed>>,
           torn' = TRUE,
           symbols' \in Table, vectors' \in Table, edges' \subseteq Keys \X Keys,
           SamePlan => DeltaInv' /\ FullInv' /\ WholeInv'
    PROVE  IInv'
<1>1. run' \in RunRecord /\ run'.phase = p /\ SamePlan
  BY GoTo DEF IInv, Typed, Phases
<1>2. Typed'
  BY <1>1 DEF IInv, Typed
<1>3. CacheSound'
  BY DEF IInv, CacheSound
<1>4. (DeltaActive' <=> DeltaActive) /\ (Incremental' <=> Incremental)
  BY <1>1 DEF SamePlan, DeltaActive, Incremental
<1>5. ~Unwritten' /\ Parsed'
  BY <1>1, <1>4 DEF Unwritten, Parsed, Deleting, Writing, At
<1>6. PhaseInv'
  <2>1. (settled => At("idle")) /\ ~At("idle")
    BY DEF IInv, PhaseInv, Parsed, Deleting, Writing, At
  <2>2. ~Classified' => ~Classified
    BY <1>4, <1>5 DEF Classified
  <2>3. Walked
    BY DEF Walked
  <2> QED  BY <1>1, <1>4, <1>5, <2>1, <2>2, <2>3
           DEF IInv, PhaseInv, SamePlan, At, Deleting
<1>7. UnwrittenInv'
  BY <1>5 DEF UnwrittenInv
<1>8. WalkInv' /\ ClassInv' /\ ParseInv'
  BY <1>1, <1>5, PlanStands DEF IInv
<1>9. Converges'
  BY <1>1 DEF Converges, RowsConverge, EdgesRestored, At
<1> QED  BY <1>1, <1>2, <1>3, <1>6, <1>7, <1>8, <1>9 DEF IInv

\* What a table is, seen from the next step of the same run.
LEMMA TablesStand ==
    ASSUME SamePlan, UNCHANGED <<disk, cache, exposed>>
    PROVE  /\ \A t : /\ Deleted(t) => Deleted(t)'
                     /\ Before(t) => Before(t)'
                     /\ Recoverable(t) => Recoverable(t)'
           /\ (DeltaActive' <=> DeltaActive) /\ (Exacting' <=> Exacting)
           /\ (Incremental' <=> Incremental)
<1>1. /\ Unchanged' = Unchanged /\ RowsToDelete' = RowsToDelete
      /\ (DeltaActive' <=> DeltaActive) /\ (Exacting' <=> Exacting)
      /\ (Incremental' <=> Incremental)
  BY DEF SamePlan, Unchanged, RowsToDelete, DeltaActive, Exacting, Incremental
<1>2. ASSUME NEW t PROVE Recoverable(t) => Recoverable(t)'
  BY DEF Recoverable, Seen
<1>3. ASSUME NEW t PROVE Deleted(t) => Deleted(t)'
  BY <1>1 DEF SamePlan, Deleted, Between
<1>4. ASSUME NEW t PROVE Before(t) => Before(t)'
  BY <1>2 DEF SamePlan, Before, Holds
<1> QED  BY <1>1, <1>2, <1>3, <1>4

\* The two situations in which the rows of a delta write matter.
LEMMA CleanOrUntouched ==
    ASSUME IInv, Parsed, run.clean \/ ~exposed
    PROVE  ~run.clean => run.touched = {}
  BY DEF IInv, PhaseInv, Walked

LEMMA DeleteSymbolsKeeps ==
    ASSUME IInv, DeleteSymbols
    PROVE  IInv'
<1>1. /\ run.phase = "delete symbols" /\ Go("delete vectors")
      /\ symbols' = DeleteByFilePaths(symbols, RowsToDelete)
      /\ edges' = Detach(edges, RowsToDelete) /\ torn' = TRUE
      /\ UNCHANGED <<disk, cache, suspect, vectors, edits, faults, settled,
                     exposed>>
  BY DEF DeleteSymbols, At
<1>2. Parsed /\ Unwritten /\ DeltaActive /\ Incremental /\ Exacting /\ Walked
  BY <1>1 DEF IInv, PhaseInv, Parsed, Deleting, Unwritten, Walked, DeltaActive,
              Exacting, At
<1>3. symbols' \in Table /\ vectors' \in Table /\ edges' \subseteq Keys \X Keys
  BY <1>1, DeleteTyped DEF IInv, Typed, Detach
<1>4. ASSUME run.clean \/ ~exposed
      PROVE  Deleted(symbols)' /\ Before(vectors)'
  <2>1. run.clean => ~torn /\ ~exposed
    BY <1>2 DEF IInv, PhaseInv
  <2>2. Before(symbols) /\ Before(vectors)
    BY <1>2, <2>1, <1>4 DEF IInv, UnwrittenInv, Before
  <2>3. Deleted(DeleteByFilePaths(symbols, RowsToDelete))
    BY <1>2, <1>4, <2>2, CleanOrUntouched, DeleteGives DEF IInv
  <2>4. run \in RunRecord
    BY DEF IInv, Typed
  <2>5. SamePlan
    BY <1>1, <2>4, GoTo DEF Phases
  <2> QED  BY <1>1, <2>2, <2>3, <2>5, TablesStand
<1>5. ASSUME SamePlan PROVE DeltaInv' /\ FullInv' /\ WholeInv'
  <2>1. run'.phase = "delete vectors"
    BY <1>1, GoTo DEF IInv, Typed, Phases
  <2> QED  BY <1>1, <1>2, <1>4, <1>5, <2>1
           DEF DeltaInv, FullInv, WholeInv, Writing, At, SamePlan
<1> QED  BY <1>1, <1>2, <1>3, <1>5, WriteStep

LEMMA DeleteVectorsKeeps ==
    ASSUME IInv, DeleteVectors
    PROVE  IInv'
<1>1. /\ run.phase = "delete vectors" /\ Go("write vectors")
      /\ vectors' = DeleteByFilePaths(vectors, RowsToDelete)
      /\ UNCHANGED <<disk, cache, suspect, symbols, edges, edits, faults,
                     settled, torn, exposed>>
  BY DEF DeleteVectors, At, ghosts
<1>2. Parsed /\ DeltaActive /\ Incremental /\ Exacting /\ torn = TRUE
  BY <1>1 DEF IInv, Typed, PhaseInv, Parsed, Deleting, Unwritten, DeltaActive,
              Exacting, At
<1>3. symbols' \in Table /\ vectors' \in Table /\ edges' \subseteq Keys \X Keys
  BY <1>1, DeleteTyped DEF IInv, Typed
<1>4. run' \in RunRecord /\ run'.phase = "write vectors" /\ SamePlan
  BY <1>1, GoTo DEF IInv, Typed, Phases
<1>5. ASSUME run.clean \/ ~exposed
      PROVE  Deleted(symbols)' /\ Deleted(vectors)'
  <2>1. Deleted(symbols) /\ Before(vectors)
    BY <1>1, <1>2, <1>5 DEF IInv, DeltaInv, At
  <2>2. Deleted(DeleteByFilePaths(vectors, RowsToDelete))
    BY <1>2, <1>5, <2>1, CleanOrUntouched, DeleteGives DEF IInv
  <2> QED  BY <1>1, <1>4, <2>1, <2>2, TablesStand
<1>6. DeltaInv' /\ FullInv' /\ WholeInv'
  <2>1. /\ (DeltaActive' <=> DeltaActive) /\ (Exacting' <=> Exacting)
        /\ run'.clean = run.clean
    BY <1>1, <1>4, TablesStand DEF SamePlan
  <2> QED  BY <1>1, <1>2, <1>4, <1>5, <2>1 DEF DeltaInv, FullInv, WholeInv, At
<1> QED  BY <1>1, <1>2, <1>3, <1>6, WriteStep

LEMMA WriteVectorsKeeps ==
    ASSUME IInv, WriteVectors
    PROVE  IInv'
<1>1. /\ run.phase = "write vectors" /\ Go("write symbols")
      /\ vectors' = Upsert(vectors, RowsToInsert, run.merged)
      /\ torn' = TRUE
      /\ UNCHANGED <<disk, cache, suspect, symbols, edges, edits, faults,
                     settled, exposed>>
  BY DEF WriteVectors, At
<1>2. Parsed /\ Writing
  BY <1>1 DEF Parsed, Writing
<1>3. symbols' \in Table /\ vectors' \in Table /\ edges' \subseteq Keys \X Keys
  <2>1. RowsToInsert \in SUBSET Keys /\ run.merged \in Tree
    BY RowsAreKeys DEF IInv, Typed, RunRecord, RowsToInsert
  <2> QED  BY <1>1, <2>1, UpsertTyped DEF IInv, Typed
<1>4. run' \in RunRecord /\ run'.phase = "write symbols" /\ SamePlan
  BY <1>1, GoTo DEF IInv, Typed, Phases
<1>5. /\ (DeltaActive' <=> DeltaActive) /\ (Exacting' <=> Exacting)
      /\ (Incremental' <=> Incremental) /\ run'.clean = run.clean
      /\ run'.touched = run.touched /\ run'.merged = run.merged
  BY <1>1, <1>4, TablesStand DEF SamePlan
<1>6. DeltaInv'
  <2> SUFFICES ASSUME Exacting, run.clean \/ ~exposed
               PROVE  Deleted(symbols)' /\ Holds(vectors', run.merged)
    BY <1>1, <1>4, <1>5 DEF DeltaInv, At
  <2>1. Deleted(symbols) /\ Deleted(vectors)
    <3>1. CASE DeltaActive
      BY <1>1, <3>1 DEF IInv, DeltaInv, At
    <3>2. CASE ~DeltaActive
      <4>1. Before(symbols) /\ Before(vectors)
        BY <1>1, <3>2 DEF IInv, DeltaInv, At
      <4>2. RowsToDelete = {} /\ Incremental
        BY <3>2 DEF Exacting
      <4>3. symbols \in Table /\ vectors \in Table
        BY DEF IInv, Typed
      <4> QED  BY <1>2, <4>1, <4>2, <4>3, CleanOrUntouched, NothingToDelete
               DEF IInv
    <3> QED  BY <3>1, <3>2
  <2>2. Holds(vectors', run.merged)
    BY <1>1, <1>2, <2>1, UpsertGives DEF IInv, Exacting
  <2> QED  BY <1>1, <1>4, <2>1, <2>2, TablesStand
<1>7. FullInv'
  <2> SUFFICES ASSUME ~Exacting, ~exposed, run.touched = {}
               PROVE  Recoverable(symbols)' /\ Recoverable(vectors)'
    BY <1>1, <1>5 DEF FullInv
  <2>1. Recoverable(symbols) /\ Recoverable(vectors)
    BY <1>2 DEF IInv, FullInv
  <2>2. Recoverable(Upsert(vectors, RowsToInsert, run.merged))
    BY <1>2, <2>1, FullUpsertRecovers DEF IInv
  <2> QED  BY <1>1, <1>4, <2>1, <2>2, TablesStand
<1>8. WholeInv'
  <2> SUFFICES ASSUME Incremental, ~DeltaActive PROVE HasAll(vectors)'
    BY <1>4, <1>5 DEF WholeInv
  <2>1. HasAll(vectors')
    BY <1>1, WholeUpsertHasAll DEF IInv
  <2> QED  BY <1>5, <2>1 DEF HasAll
<1> QED  BY <1>1, <1>2, <1>3, <1>6, <1>7, <1>8, WriteStep

LEMMA WriteSymbolsKeeps ==
    ASSUME IInv, WriteSymbols
    PROVE  IInv'
<1>1. /\ run.phase = "write symbols" /\ Go("write edges")
      /\ symbols' = Upsert(symbols, RowsToInsert, run.merged)
      /\ UNCHANGED <<disk, cache, suspect, vectors, edges, edits, faults,
                     settled, torn, exposed>>
  BY DEF WriteSymbols, At, ghosts
<1>2. Parsed /\ Writing /\ torn = TRUE
  BY <1>1 DEF IInv, Typed, PhaseInv, Unwritten, Parsed, Writing, At
<1>3. symbols' \in Table /\ vectors' \in Table /\ edges' \subseteq Keys \X Keys
  <2>1. RowsToInsert \in SUBSET Keys /\ run.merged \in Tree
    BY RowsAreKeys DEF IInv, Typed, RunRecord, RowsToInsert
  <2> QED  BY <1>1, <2>1, UpsertTyped DEF IInv, Typed
<1>4. run' \in RunRecord /\ run'.phase = "write edges" /\ SamePlan
  BY <1>1, GoTo DEF IInv, Typed, Phases
<1>5. /\ (DeltaActive' <=> DeltaActive) /\ (Exacting' <=> Exacting)
      /\ (Incremental' <=> Incremental) /\ run'.clean = run.clean
      /\ run'.touched = run.touched /\ run'.merged = run.merged
  BY <1>1, <1>4, TablesStand DEF SamePlan
<1>6. DeltaInv'
  <2> SUFFICES ASSUME Exacting, run.clean \/ ~exposed
               PROVE  Holds(symbols', run.merged) /\ Holds(vectors', run.merged)
    BY <1>1, <1>4, <1>5 DEF DeltaInv, At
  <2>1. Deleted(symbols) /\ Holds(vectors, run.merged)
    BY <1>1 DEF IInv, DeltaInv, At
  <2> QED  BY <1>1, <1>2, <2>1, UpsertGives DEF IInv, Exacting
<1>7. FullInv'
  <2> SUFFICES ASSUME ~Exacting, ~exposed, run.touched = {}
               PROVE  Recoverable(symbols)' /\ Recoverable(vectors)'
    BY <1>1, <1>5 DEF FullInv
  <2>1. Recoverable(symbols) /\ Recoverable(vectors)
    BY <1>2 DEF IInv, FullInv
  <2>2. Recoverable(Upsert(symbols, RowsToInsert, run.merged))
    BY <1>2, <2>1, FullUpsertRecovers DEF IInv
  <2> QED  BY <1>1, <1>4, <2>1, <2>2, TablesStand
<1>8. WholeInv'
  <2> SUFFICES ASSUME Incremental, ~DeltaActive
               PROVE  HasAll(vectors)' /\ HasAll(symbols)'
    BY <1>4, <1>5 DEF WholeInv
  <2>1. HasAll(vectors) /\ HasAll(symbols')
    BY <1>1, WholeUpsertHasAll DEF IInv, WholeInv
  <2> QED  BY <1>1, <1>5, <2>1 DEF HasAll
<1> QED  BY <1>1, <1>2, <1>3, <1>6, <1>7, <1>8, WriteStep

LEMMA WriteEdgesKeeps ==
    ASSUME IInv, WriteEdges
    PROVE  IInv'
<1>1. /\ run.phase = "write edges" /\ Go("save")
      /\ edges' = edges \union Linkable(Resolve(run.merged))
      /\ UNCHANGED <<disk, cache, suspect, symbols, vectors, edits, faults,
                     settled, torn, exposed>>
  BY DEF WriteEdges, At, ghosts
<1>2. Parsed /\ Writing /\ torn = TRUE /\ run.merged \in Tree
  BY <1>1 DEF IInv, Typed, RunRecord, PhaseInv, Unwritten, Parsed, Writing, At
<1>3. symbols' \in Table /\ vectors' \in Table /\ edges' \subseteq Keys \X Keys
  BY <1>1, <1>2, ResolvedEndsAreRows DEF IInv, Typed, Linkable
<1>4. run' \in RunRecord /\ run'.phase = "save" /\ SamePlan
  BY <1>1, GoTo DEF IInv, Typed, Phases
<1>5. /\ (DeltaActive' <=> DeltaActive) /\ (Exacting' <=> Exacting)
      /\ (Incremental' <=> Incremental) /\ run'.clean = run.clean
      /\ run'.touched = run.touched /\ run'.merged = run.merged
  BY <1>1, <1>4, TablesStand DEF SamePlan
<1>6. DeltaInv'
  <2> SUFFICES ASSUME Exacting, run.clean \/ ~exposed
               PROVE  /\ Holds(symbols', run.merged) /\ Holds(vectors', run.merged)
                      /\ Resolve(run.merged) \subseteq edges'
    BY <1>1, <1>4, <1>5 DEF DeltaInv, At
  <2>1. Holds(symbols, run.merged) /\ Holds(vectors, run.merged)
    BY <1>1 DEF IInv, DeltaInv, At
  <2> QED  BY <1>1, <1>2, <2>1, HeldRowsLink
<1>7. FullInv'
  <2> SUFFICES ASSUME ~Exacting, ~exposed, run.touched = {}
               PROVE  Recoverable(symbols)' /\ Recoverable(vectors)'
    BY <1>1, <1>5 DEF FullInv
  <2>1. Recoverable(symbols) /\ Recoverable(vectors)
    BY <1>2 DEF IInv, FullInv
  <2> QED  BY <1>1, <1>4, <2>1, TablesStand
<1>8. WholeInv'
  BY <1>1, <1>4, <1>5 DEF IInv, WholeInv, HasAll
<1> QED  BY <1>1, <1>2, <1>3, <1>6, <1>7, <1>8, WriteStep

-----------------------------------------------------------------------------
(* The end of a run.                                                       *)

LEMMA ExactIsIndexed ==
    ASSUME NEW f \in Files, disk \in Tree,
           Exact(symbols, f, disk[f]), Exact(vectors, f, disk[f])
    PROVE  Indexed(f)
<1>1. ASSUME NEW n \in Names
      PROVE  n \in {k[2] : k \in RowsOf(f, disk[f])} <=>
                disk[f] # Absent /\ n \in Defines[disk[f]]
  <2>1. \A k \in RowsOf(f, disk[f]) :
           disk[f] # Absent /\ k[2] \in Defines[disk[f]]
    BY DEF RowsOf
  <2>2. disk[f] # Absent /\ n \in Defines[disk[f]] =>
           <<f, n>> \in RowsOf(f, disk[f]) /\ <<f, n>>[2] = n
    BY DEF RowsOf
  <2> QED  BY <2>1, <2>2
<1> QED  BY <1>1 DEF Indexed, Exact, Row

\* What a delta write has written is what the tree calls for, if nobody has
\* touched it.
LEMMA WrittenConverges ==
    ASSUME IInv, At("save"), Exacting, run.clean \/ ~exposed,
           run.touched = {}
    PROVE  /\ \A f \in Files : Readable(f) => Indexed(f)
           /\ (\A f \in Files : Readable(f)) => Resolve(disk) \subseteq edges
<1>1. Parsed /\ disk \in Tree /\ run.merged \in Tree
  BY DEF IInv, Typed, RunRecord, Parsed, Writing, At
<1>2. /\ Holds(symbols, run.merged) /\ Holds(vectors, run.merged)
      /\ Resolve(run.merged) \subseteq edges
  BY DEF IInv, DeltaInv, At
<1>3. \A f \in Files : Readable(f) => run.merged[f] = disk[f]
  BY <1>1, PlanUntouched DEF IInv, Readable, Exacting
<1>4. ASSUME NEW f \in Files, Readable(f) PROVE Indexed(f)
  <2>1. Exact(symbols, f, disk[f]) /\ Exact(vectors, f, disk[f])
    BY <1>2, <1>3, <1>4 DEF Holds
  <2> QED  BY <1>1, <2>1, ExactIsIndexed
<1>5. ASSUME \A f \in Files : Readable(f) PROVE run.merged = disk
  BY <1>1, <1>3, <1>5 DEF Tree
<1> QED  BY <1>2, <1>4, <1>5

\* What a delta write holds at its end, whoever touched the tree.
LEMMA WrittenRecovers ==
    ASSUME IInv, At("save"), Exacting, ~exposed, run.touched = {}
    PROVE  Recoverable(symbols) /\ Recoverable(vectors)
<1>1. Parsed
  BY DEF Parsed, Writing, At
<1>2. Holds(symbols, run.merged) /\ Holds(vectors, run.merged)
  BY DEF IInv, DeltaInv, At
<1> QED  BY <1>1, <1>2, HeldMergedBetween, BetweenRecovers DEF IInv, Exacting

\* The saved cache agrees with the tree about every file whose mtime it
\* vouches for.
LEMMA SavedCacheSound ==
    ASSUME IInv, At("save"), Incremental, NEW f \in Files
    PROVE  /\ run.merged[f] \notin Broken
           /\ f \notin (suspect \ run.fresh) \union run.touched
              /\ run.merged[f] # Absent => disk[f] = run.merged[f]
<1>1. Parsed
  BY DEF Parsed, Writing, At
<1>2. CASE f \in run.fresh
  BY <1>1, <1>2 DEF IInv, ParseInv
<1>3. CASE f \notin run.fresh
  <2>1. run.merged[f] = IF f \in run.walked THEN cache[f] ELSE Absent
    BY <1>1, <1>3 DEF IInv, ParseInv
  <2> QED  BY <1>3, <2>1, TreeAssumption DEF IInv, CacheSound, Absent
<1> QED  BY <1>2, <1>3

LEMMA SaveCacheKeeps ==
    ASSUME IInv, SaveCache
    PROVE  IInv'
<1>1. /\ run.phase = "save" /\ At("save") /\ run' = Idle
      /\ settled' = (Incremental /\ run.touched = {})
      /\ UNCHANGED <<disk, symbols, vectors, edges, edits, faults>>
  BY DEF SaveCache, Return, At, tables
<1>2. /\ run' \in RunRecord /\ run'.phase = "idle"
      /\ run'.changed = {} /\ run'.added = {} /\ run'.removed = {}
  BY <1>1, IdleTyped
<1>3. Unwritten' /\ ~Unwritten /\ Parsed /\ Writing
  BY <1>1, <1>2 DEF Unwritten, Parsed, Writing, At
<1>4. torn /\ run.merged \in Tree /\ run.touched \subseteq Files
      /\ exposed \in BOOLEAN /\ run.clean \in BOOLEAN
  BY <1>3 DEF IInv, PhaseInv, Typed, RunRecord
<1>5. PhaseInv'
  BY <1>2, <1>3, NoPlan DEF PhaseInv, At
<1>6. CASE Incremental
  <2>1. /\ cache' = run.merged
        /\ suspect' = (suspect \ run.fresh) \union run.touched
        /\ torn' = FALSE
        /\ exposed' = (LeavesRows \/ (exposed /\ ~run.clean))
    BY <1>6 DEF SaveCache
  <2>2. Typed'
    BY <1>1, <1>2, <1>4, <2>1 DEF IInv, Typed
  <2>3. CacheSound'
    BY <1>1, <1>6, <2>1, SavedCacheSound DEF CacheSound
  <2>4. ASSUME ~exposed'
        PROVE  /\ Exacting /\ (run.clean \/ ~exposed)
               /\ Holds(symbols, run.merged) /\ Holds(vectors, run.merged)
    <3>1. Exacting /\ (run.clean \/ ~exposed)
      BY <1>4, <1>6, <2>1, <2>4 DEF LeavesRows, Exacting
    <3> QED  BY <1>1, <3>1 DEF IInv, DeltaInv
  <2>5. UnwrittenInv'
    <3> SUFFICES ASSUME ~exposed'
                 PROVE  /\ Recoverable(symbols)' /\ Recoverable(vectors)'
                        /\ Holds(symbols, cache)' /\ Holds(vectors, cache)'
      BY DEF UnwrittenInv
    <3>1. Holds(symbols, cache)' /\ Holds(vectors, cache)'
      BY <1>1, <2>1, <2>4
    <3> QED  BY <3>1, <1>1, <2>1, ExactOrWithin DEF Holds, Recoverable
  <2>6. Converges'
    <3> SUFFICES ASSUME settled', ~exposed'
                 PROVE  /\ \A f \in Files : (Readable(f) => Indexed(f))'
                        /\ (\A f \in Files : Readable(f)') =>
                              (Resolve(disk) \subseteq edges)'
      BY DEF Converges, RowsConverge, EdgesRestored
    <3>1. run.touched = {} /\ (run.clean \/ ~exposed) /\ Exacting
      BY <1>1, <2>4
    <3>2. /\ \A f \in Files : Readable(f) => Indexed(f)
          /\ (\A f \in Files : Readable(f)) => Resolve(disk) \subseteq edges
      BY <1>1, <1>6, <3>1, WrittenConverges
    <3>3. /\ \A f \in Files : (Readable(f)' <=> Readable(f))
                              /\ (Indexed(f) => Indexed(f)')
          /\ Resolve(disk)' = Resolve(disk)
      BY <1>1 DEF Readable, Indexed, Resolve
    <3> QED  BY <1>1, <3>2, <3>3
  <2> QED  BY <1>2, <1>5, <2>2, <2>3, <2>5, <2>6, NoPlan DEF IInv
<1>7. CASE ~Incremental
  <2>1. /\ UNCHANGED <<cache, suspect, torn>> /\ settled' = FALSE
        /\ exposed' = (exposed \/ run.touched # {})
    BY <1>1, <1>7 DEF SaveCache
  <2>2. Typed'
    BY <1>1, <1>2, <2>1 DEF IInv, Typed
  <2>3. CacheSound'
    BY <1>1, <2>1 DEF IInv, CacheSound
  <2>4. UnwrittenInv'
    <3> SUFFICES ASSUME ~exposed'
                 PROVE  Recoverable(symbols)' /\ Recoverable(vectors)'
      BY <1>4, <2>1 DEF UnwrittenInv
    <3>1. Recoverable(symbols) /\ Recoverable(vectors)
      BY <1>3, <1>7, <2>1 DEF IInv, FullInv, Exacting
    <3> QED  BY <1>1, <2>1, <3>1 DEF Recoverable, Seen
  <2> QED  BY <1>2, <1>5, <2>1, <2>2, <2>3, <2>4, NoPlan, NotSettled DEF IInv
<1> QED  BY <1>6, <1>7

LEMMA SaveFailsKeeps ==
    ASSUME IInv, SaveFails
    PROVE  IInv'
<1>1. /\ run.phase = "save" /\ At("save") /\ Incremental /\ run' = Idle
      /\ settled' = (Incremental /\ run.touched = {})
      /\ exposed' = (exposed \/ run.touched # {} \/ LeavesRows)
      /\ faults < MaxFaults /\ faults' = faults + 1
      /\ UNCHANGED <<disk, cache, suspect, symbols, vectors, edges, edits, torn>>
  BY DEF SaveFails, Return, At, tables
<1>2. /\ run' \in RunRecord /\ run'.phase = "idle"
      /\ run'.changed = {} /\ run'.added = {} /\ run'.removed = {}
  BY <1>1, IdleTyped
<1>3. Unwritten' /\ ~Unwritten
  BY <1>1, <1>2 DEF Unwritten, At
<1>4. torn
  BY <1>3 DEF IInv, PhaseInv
<1>5. PhaseInv'
  BY <1>2, <1>3, NoPlan DEF PhaseInv, At
<1>6. Typed'
  <2>1. faults' \in 0..MaxFaults
    BY <1>1, BoundAssumption DEF IInv, Typed
  <2> QED  BY <1>1, <1>2, <2>1 DEF IInv, Typed
<1>7. CacheSound'
  BY <1>1 DEF IInv, CacheSound
<1>8. UnwrittenInv'
  <2> SUFFICES ASSUME ~exposed'
               PROVE  Recoverable(symbols)' /\ Recoverable(vectors)'
    BY <1>1, <1>4 DEF UnwrittenInv
  <2>1. Recoverable(symbols) /\ Recoverable(vectors)
    BY <1>1, WrittenRecovers DEF LeavesRows, Exacting
  <2> QED  BY <1>1, <2>1 DEF Recoverable, Seen
<1>9. Converges'
  <2> SUFFICES ASSUME settled', ~exposed'
               PROVE  /\ \A f \in Files : (Readable(f) => Indexed(f))'
                      /\ (\A f \in Files : Readable(f)') =>
                            (Resolve(disk) \subseteq edges)'
    BY DEF Converges, RowsConverge, EdgesRestored
  <2>1. /\ \A f \in Files : Readable(f) => Indexed(f)
        /\ (\A f \in Files : Readable(f)) => Resolve(disk) \subseteq edges
    BY <1>1, WrittenConverges DEF LeavesRows, Exacting
  <2>2. /\ \A f \in Files : (Readable(f)' <=> Readable(f))
                            /\ (Indexed(f) => Indexed(f)')
        /\ Resolve(disk)' = Resolve(disk)
    BY <1>1 DEF Readable, Indexed, Resolve
  <2> QED  BY <1>1, <2>1, <2>2
<1> QED  BY <1>2, <1>5, <1>6, <1>7, <1>8, <1>9, NoPlan DEF IInv

LEMMA UpsertNothing ==
    ASSUME NEW table \in Table, NEW tree
    PROVE  Upsert(table, {}, tree) = table
  BY DEF Table, Upsert

\* A run that dies leaves tables the next incremental run brings up to date.
LEMMA AbortKeeps ==
    ASSUME IInv, Abort
    PROVE  IInv'
<1>0. faults' \in 0..MaxFaults
  <2>1. faults \in 0..MaxFaults
    BY DEF IInv, Typed
  <2>2. faults < MaxFaults /\ faults' = faults + 1
    BY DEF Abort
  <2> QED  BY <2>1, <2>2, BoundAssumption
<1> DEFINE batch == IF At("write vectors") \/ At("write symbols")
                    THEN RowsToInsert ELSE {}
<1>1. PICK some \in SUBSET batch :
         /\ vectors' = IF At("write vectors")
                       THEN Upsert(vectors, some, run.merged) ELSE vectors
         /\ symbols' = IF At("write symbols")
                       THEN Upsert(symbols, some, run.merged) ELSE symbols
         /\ torn' = (torn \/ some # {})
  BY DEF Abort
<1>2. /\ ~At("idle") /\ run' = Idle
      /\ exposed' = (exposed \/ run.phase \in {"wipe vectors", "wipe cache"}
                             \/ (torn' /\ run.touched # {}))
      /\ faults < MaxFaults /\ faults' = faults + 1
      /\ UNCHANGED <<disk, cache, suspect, edits, settled>>
  BY DEF Abort
<1>3. /\ run' \in RunRecord /\ run'.phase = "idle"
      /\ run'.changed = {} /\ run'.added = {} /\ run'.removed = {}
  BY <1>2, IdleTyped
<1>4. /\ some \in SUBSET RowsToInsert /\ RowsToInsert \in SUBSET Keys
      /\ run.merged \in Tree /\ symbols \in Table /\ vectors \in Table
      /\ torn \in BOOLEAN /\ exposed \in BOOLEAN /\ run \in RunRecord
  BY <1>1, RowsAreKeys DEF IInv, Typed, RunRecord, RowsToInsert
<1>5. symbols' \in Table /\ vectors' \in Table
  <2>1. some \in SUBSET Keys
    BY <1>4
  <2> QED  BY <1>1, <1>4, <2>1, UpsertTyped
<1>6. edges' \subseteq Keys \X Keys
  <2>1. Linkable(Resolve(run.merged)) \subseteq Keys \X Keys
    BY <1>4, ResolvedEndsAreRows DEF Linkable
  <2>2. edges \subseteq Keys \X Keys
    BY DEF IInv, Typed
  <2>3. PICK links \in SUBSET (IF At("write edges")
                               THEN Linkable(Resolve(run.merged)) ELSE {}) :
           edges' = edges \union links
    BY DEF Abort
  <2> QED  BY <2>1, <2>2, <2>3
<1>7. Typed'
  <2>1. torn' \in BOOLEAN /\ exposed' \in BOOLEAN
    BY <1>1, <1>2
  <2> QED  BY <1>0, <1>2, <1>3, <1>5, <1>6, <2>1 DEF IInv, Typed
<1>8. CacheSound'
  BY <1>2 DEF IInv, CacheSound
<1>9. settled' = FALSE
  BY <1>2 DEF IInv, PhaseInv, Typed
<1>10. PhaseInv'
  BY <1>3, <1>9, NoPlan DEF PhaseInv, Unwritten, At
<1>11. ASSUME ~exposed'
       PROVE  /\ Recoverable(symbols') /\ Recoverable(vectors')
              /\ ~torn' => Holds(symbols', cache) /\ Holds(vectors', cache)
  <2>1. /\ ~exposed /\ run.phase \notin {"wipe vectors", "wipe cache"}
        /\ torn' => run.touched = {}
    BY <1>2, <1>11
  <2>2. CASE Unwritten /\ some = {}
    <3>1. symbols' = symbols /\ vectors' = vectors /\ (torn' <=> torn)
      BY <1>1, <1>4, <2>2, UpsertNothing
    <3> QED  BY <2>1, <2>2, <3>1 DEF IInv, UnwrittenInv
  <2>3. CASE Unwritten /\ some # {}
    <3>1. At("write vectors") /\ ~DeltaActive
      BY <1>1, <2>3 DEF Unwritten, At
    <3>2. torn' /\ run.touched = {} /\ Parsed
      BY <1>1, <2>1, <2>3, <3>1 DEF Parsed, Writing, At
    <3>3. Recoverable(symbols) /\ Recoverable(vectors)
      BY <2>1, <2>3 DEF IInv, UnwrittenInv
    <3>4. Recoverable(Upsert(vectors, some, run.merged))
      BY <1>4, <3>1, <3>2, <3>3, FullUpsertRecovers DEF IInv
    <3>5. symbols' = symbols /\ vectors' = Upsert(vectors, some, run.merged)
      BY <1>1, <3>1 DEF At
    <3> QED  BY <3>2, <3>3, <3>4, <3>5
  <2>4. CASE ~Unwritten /\ Exacting
    <3>1. torn' /\ run.touched = {}
      BY <1>1, <2>1, <2>4 DEF IInv, PhaseInv
    <3>2. Parsed /\ run.phase \in {"delete vectors", "write vectors",
                                   "write symbols", "write edges", "save"}
      BY <1>4, <2>1, <2>4
         DEF RunRecord, Phases, Unwritten, Parsed, Deleting, Writing
    <3>3. \A t : Between(t) => Recoverable(t)
      BY <2>4, <3>1, <3>2, BetweenRecovers DEF IInv, Exacting
    <3>4. \A t : Holds(t, run.merged) => Recoverable(t)
      BY <2>4, <3>2, <3>3, HeldMergedBetween DEF IInv, Exacting
    <3>5. \A t : Deleted(t) => /\ Recoverable(t)
                               /\ Recoverable(Upsert(t, some, run.merged))
      BY <1>4, <2>4, <3>2, <3>3, PartialUpsert DEF IInv, Exacting, Deleted
    <3>6. \A t : Before(t) => Recoverable(t)
      BY <2>1, HeldCacheRecovers DEF Before
    <3>9. At("write vectors") => DeltaActive
      BY <2>4 DEF Unwritten
    <3>7. Recoverable(symbols')
      BY <1>1, <2>1, <2>4, <3>2, <3>4, <3>5, <3>9 DEF IInv, DeltaInv, At
    <3>8. Recoverable(vectors')
      BY <1>1, <2>1, <2>4, <3>2, <3>4, <3>5, <3>6, <3>9 DEF IInv, DeltaInv, At
    <3> QED  BY <3>1, <3>7, <3>8
  <2>5. CASE ~Unwritten /\ ~Exacting
    <3>1. torn' /\ run.touched = {}
      BY <1>1, <2>1, <2>5 DEF IInv, PhaseInv
    <3>2. Parsed /\ Writing /\ ~At("write vectors")
      BY <1>4, <2>1, <2>5 DEF IInv, PhaseInv, RunRecord, Phases, Unwritten,
                              Parsed, Deleting, Writing, DeltaActive, Exacting, At
    <3>3. Recoverable(symbols) /\ Recoverable(vectors)
      BY <2>1, <2>5, <3>1, <3>2 DEF IInv, FullInv
    <3>4. Recoverable(Upsert(symbols, some, run.merged))
      BY <1>4, <2>5, <3>1, <3>2, <3>3, FullUpsertRecovers DEF IInv
    <3> QED  BY <1>1, <3>1, <3>2, <3>3, <3>4
  <2> QED  BY <2>2, <2>3, <2>4, <2>5
<1>12. UnwrittenInv'
  <2>1. \A t : Recoverable(t) => Recoverable(t)'
    BY <1>2 DEF Recoverable, Seen
  <2>2. \A t : Holds(t, cache) => Holds(t, cache)'
    BY <1>2
  <2> QED  BY <1>11, <2>1, <2>2 DEF UnwrittenInv
<1> QED  BY <1>3, <1>7, <1>8, <1>9, <1>10, <1>12, NoPlan, NotSettled DEF IInv

-----------------------------------------------------------------------------
(* The theorems.                                                           *)

LEMMA InitHolds ==
    ASSUME Init
    PROVE  IInv
<1>1. /\ disk \in Tree /\ cache = [f \in Files |-> Absent] /\ suspect = {}
      /\ symbols = [k \in Keys |-> Absent] /\ vectors = symbols /\ edges = {}
      /\ run = Idle /\ edits = 0 /\ faults = 0
      /\ settled = FALSE /\ torn = FALSE /\ exposed = FALSE
  BY DEF Init
<1>2. /\ run \in RunRecord /\ run.phase = "idle"
      /\ run.changed = {} /\ run.added = {} /\ run.removed = {}
  BY <1>1, IdleTyped
<1>3. Typed
  <2>1. edits \in 0..MaxEdits /\ faults \in 0..MaxFaults
    BY <1>1, BoundAssumption
  <2>2. cache \in Tree /\ symbols \in Table /\ vectors \in Table
    BY <1>1 DEF Tree, Table
  <2> QED  BY <1>1, <1>2, <2>1, <2>2 DEF Typed
<1>4. CacheSound
  BY <1>1, TreeAssumption DEF CacheSound, Absent
<1>5. Holds(symbols, cache) /\ Holds(vectors, cache)
  BY <1>1 DEF Holds, Exact, Row, Keys
<1>6. UnwrittenInv
  BY <1>5, HeldCacheRecovers DEF UnwrittenInv
<1>7. /\ ~Walked /\ ~Parsed /\ ~Writing /\ ~Deleting /\ ~Classified /\ Unwritten
  BY <1>2 DEF Walked, Parsed, Writing, Deleting, Classified, Unwritten, At
<1>8. /\ PhaseInv /\ WalkInv /\ ClassInv /\ ParseInv /\ DeltaInv /\ FullInv
      /\ WholeInv
  BY <1>1, <1>2, <1>7
     DEF PhaseInv, WalkInv, ClassInv, ParseInv, DeltaInv, FullInv, WholeInv, At
<1>9. Converges
  BY <1>1 DEF Converges, RowsConverge, EdgesRestored
<1> QED  BY <1>3, <1>4, <1>6, <1>8, <1>9 DEF IInv

LEMMA StutterKeeps ==
    ASSUME IInv, UNCHANGED vars
    PROVE  IInv'
<1>1. /\ disk' = disk /\ cache' = cache /\ suspect' = suspect
      /\ symbols' = symbols /\ vectors' = vectors /\ edges' = edges
      /\ run' = run /\ edits' = edits /\ faults' = faults
      /\ settled' = settled /\ torn' = torn /\ exposed' = exposed
  BY DEF vars
<1>2. /\ \A p : At(p)' <=> At(p)
      /\ (DeltaActive' <=> DeltaActive) /\ (Incremental' <=> Incremental)
      /\ (Exacting' <=> Exacting) /\ SamePlan
  BY <1>1 DEF At, DeltaActive, Incremental, Exacting, RowsToDelete, SamePlan
<1>3. /\ (Unwritten' <=> Unwritten) /\ (Walked' <=> Walked)
      /\ (Parsed' <=> Parsed) /\ (Classified' <=> Classified)
      /\ (Deleting' <=> Deleting) /\ (Writing' <=> Writing)
      /\ ToParse' = ToParse
  BY <1>1, <1>2 DEF Unwritten, Walked, Parsed, Classified, Deleting, Writing,
                    At, ToParse, DeltaActive, Incremental
<1>4. Typed' /\ CacheSound'
  BY <1>1 DEF IInv, Typed, CacheSound
<1>5. PhaseInv' /\ FullInv' /\ UnwrittenInv'
  BY <1>1, <1>2, <1>3, TablesStand
     DEF IInv, PhaseInv, FullInv, UnwrittenInv, Holds, At
<1>6. WalkInv' /\ ClassInv' /\ ParseInv'
  BY <1>1, <1>2, <1>3 DEF IInv, WalkInv, ClassInv, ParseInv
<1>7. DeltaInv' /\ WholeInv'
  BY <1>1, <1>2, TablesStand DEF IInv, DeltaInv, WholeInv, HasAll, At
<1>8. Converges'
  BY <1>1 DEF IInv, Converges, RowsConverge, EdgesRestored, Indexed, Readable,
              SomethingToIndex, RowsOf, At, Resolve
<1> QED  BY <1>4, <1>5, <1>6, <1>7, <1>8 DEF IInv

\* Every step keeps the invariant.
LEMMA NextKeeps ==
    ASSUME IInv, [Next]_vars
    PROVE  IInv'
<1>1. ASSUME NEW f \in Files, Edit(f) PROVE IInv'
  BY <1>1, EditKeeps
<1>2. ASSUME NEW mode \in Modes, NEW adapter \in Adapters,
             StartRun(mode, adapter)
      PROVE  IInv'
  BY <1>2, StartRunKeeps
<1>3. ASSUME WipeGraph \/ WipeVectors \/ WipeCache PROVE IInv'
  BY <1>3, WipeGraphKeeps, WipeVectorsKeeps, WipeCacheKeeps
<1>4. ASSUME Walk \/ Classify \/ Parse PROVE IInv'
  BY <1>4, WalkKeeps, ClassifyKeeps, ParseKeeps
<1>5. ASSUME DeleteSymbols \/ DeleteVectors PROVE IInv'
  BY <1>5, DeleteSymbolsKeeps, DeleteVectorsKeeps
<1>6. ASSUME WriteVectors \/ WriteSymbols \/ WriteEdges PROVE IInv'
  BY <1>6, WriteVectorsKeeps, WriteSymbolsKeeps, WriteEdgesKeeps
<1>7. ASSUME SaveCache \/ SaveFails \/ Abort PROVE IInv'
  BY <1>7, SaveCacheKeeps, SaveFailsKeeps, AbortKeeps
<1>8. ASSUME UNCHANGED vars PROVE IInv'
  BY <1>8, StutterKeeps
<1> QED  BY <1>1, <1>2, <1>3, <1>4, <1>5, <1>6, <1>7, <1>8 DEF Next

\* The tables, the cache and the run in progress stay consistent at every
\* phase: IInv holds in every reachable state.
THEOREM Invariance == Spec => []IInv
<1>1. Init => IInv
  BY InitHolds
<1>2. IInv /\ [Next]_vars => IInv'
  BY NextKeeps
<1> QED  BY <1>1, <1>2, PTL DEF Spec

\* An incremental run that returns and had something to index leaves in the
\* graph and in the vector table exactly the rows the tree calls for, and every
\* relationship between them, whatever runs, edits, deaths, failed saves and
\* half-written batches came before.  Excepted, until the next --refresh, are
\* the situations in which `exposed` is set: an edit of the tree while the
\* database was ahead of the cache, a --refresh cut short, and a remote run that
\* had rows to delete.
THEOREM RunsConverge == Spec => []Converged
<1>1. IInv => Converged
  <2> SUFFICES ASSUME IInv PROVE Converged
    OBVIOUS
  <2>1. Typed /\ ClassInv /\ PhaseInv
    BY DEF IInv
  <2>2. /\ run.phase \in Phases /\ run.mode \in Modes \union {"none"}
        /\ run.adapter \in Adapters \union {"none"} /\ run.merged \in Tree
        /\ run.walked \subseteq Files /\ run.suspects \subseteq Files
        /\ run.changed \subseteq Files /\ run.added \subseteq Files
        /\ run.removed \subseteq Files /\ run.fresh \subseteq Files
        /\ run.touched \subseteq Files /\ run.clean \in BOOLEAN
    BY <2>1 DEF Typed, RunRecord
  <2>3. run.added \intersect run.changed = {}
        /\ run.removed \intersect run.walked = {}
    BY <2>1 DEF ClassInv, PhaseInv
  <2>4. \A s \in {"walked", "suspects", "changed", "added", "removed", "fresh",
                  "touched"} : run[s] \subseteq Files
    BY <2>2
  <2>5. TypeOK
    BY <2>1, <2>2, <2>3, <2>4 DEF Typed, TypeOK, Table
  <2> QED  BY <2>5 DEF IInv, Converges, Converged
<1> QED  BY <1>1, Invariance, PTL

\* The saved entries are those whose rows were written.
LEMMA SavedEntriesAreHeld ==
    ASSUME IInv, SaveCache
    PROVE  EntriesAreHeld
<1> SUFFICES ASSUME cache' # cache, ~exposed \/ run.adapter = "remote",
                    NEW f \in Files,
                    NEW k \in RowsOf(f, cache'[f])
             PROVE  symbols[k] = cache'[f] /\ vectors[k] = cache'[f]
  BY DEF EntriesAreHeld
<1>1. Incremental /\ cache' = run.merged /\ At("save")
  BY DEF SaveCache
<1>2. DeltaActive => Holds(symbols, run.merged) /\ Holds(vectors, run.merged)
  BY <1>1 DEF IInv, DeltaInv, DeltaActive, Exacting, At
<1>3. run.merged \in Tree
  BY DEF IInv, Typed, RunRecord
<1>4. PICK n \in Names : /\ k = <<f, n>> /\ run.merged[f] # Absent
                         /\ n \in Defines[run.merged[f]]
  BY <1>1, <1>3, TreeAssumption DEF RowsOf, Tree
<1>5. Row(run.merged[f], n) = run.merged[f]
  BY <1>4 DEF Row
<1>6. /\ symbols[<<f, n>>] = run.merged[f]
      /\ vectors[<<f, n>>] = run.merged[f]
  <2>1. CASE DeltaActive
    BY <1>2, <1>5, <2>1 DEF Holds, Exact
  <2>2. CASE ~DeltaActive
    <3>1. HasAll(symbols) /\ HasAll(vectors)
      BY <1>1, <2>2 DEF IInv, WholeInv, At
    <3>2. <<f, n>> \in Rows(run.merged)
      BY <1>3, <1>4, RowsAreKeys
    <3> QED  BY <3>1, <3>2 DEF HasAll
  <2> QED  BY <2>1, <2>2
<1> QED  BY <1>1, <1>4, <1>6

\* The parse cache is never ahead of the database: a step that changes it
\* leaves only entries whose rows both tables already hold, in a remote run
\* always and in one that follows the delta plan unless it was exposed.
THEOREM CacheStaysBehind == Spec => CacheBehindDatabase
<1>1. IInv /\ [Next]_vars => [EntriesAreHeld]_vars
  <2> SUFFICES ASSUME IInv, Next PROVE EntriesAreHeld
    OBVIOUS
  <2>1. ASSUME cache' = cache PROVE EntriesAreHeld
    BY <2>1 DEF EntriesAreHeld
  <2>2. CASE WipeCache
    <3>1. \A f \in Files : cache'[f] = Absent
      BY <2>2 DEF WipeCache
    <3> QED  BY <3>1 DEF EntriesAreHeld, RowsOf
  <2>3. CASE SaveCache
    BY <2>3, SavedEntriesAreHeld
  <2>4. CASE SaveFails \/ Abort \/ WipeGraph \/ WipeVectors
    BY <2>1, <2>4 DEF SaveFails, Abort, WipeGraph, WipeVectors
  <2>5. CASE Walk \/ Classify \/ Parse
    BY <2>1, <2>5 DEF Walk, Classify, Parse
  <2>6. CASE DeleteSymbols \/ DeleteVectors \/ WriteVectors \/ WriteSymbols
             \/ WriteEdges
    BY <2>1, <2>6 DEF DeleteSymbols, DeleteVectors, WriteVectors, WriteSymbols,
                      WriteEdges
  <2>7. ASSUME NEW f \in Files, Edit(f) PROVE EntriesAreHeld
    BY <2>1, <2>7 DEF Edit
  <2>8. ASSUME NEW mode \in Modes, NEW adapter \in Adapters,
               StartRun(mode, adapter)
        PROVE  EntriesAreHeld
    BY <2>1, <2>8 DEF StartRun
  <2> QED  BY <2>2, <2>3, <2>4, <2>5, <2>6, <2>7, <2>8 DEF Next
<1> QED  BY <1>1, Invariance, PTL DEF Spec, CacheBehindDatabase

-----------------------------------------------------------------------------
(* BatchWriter: runs of batches                                            *)

\* A batch has a row at least.
Batches == {b \in [first : Int, last : Int] : b.first >= 1 /\ b.first <= b.last}

\* The batches of s have the rows from one to another, each once and in order.
Covers(s, from, to) ==
    /\ s \in Seq(Batches)
    /\ s = <<>> => to = from - 1
    /\ s # <<>> => s[1].first = from /\ s[Len(s)].last = to
    /\ \A i \in 1..Len(s) : from <= s[i].first /\ s[i].last <= to
    /\ \A i, k \in 1..Len(s) : i < k => s[i].last < s[k].first
    /\ \A i \in 1..Len(s) : i < Len(s) => s[i + 1].first = s[i].last + 1

\* No batches have no rows.
LEMMA CoversNone ==
    ASSUME NEW from \in Int PROVE Covers(<<>>, from, from - 1)
BY DEF Covers

\* Batches have no rows exactly if there are none.
LEMMA CoversRange ==
    ASSUME NEW s, NEW from \in Int, NEW to \in Int, Covers(s, from, to)
    PROVE  /\ from - 1 <= to
           /\ (s = <<>> <=> to = from - 1)
<1>1. CASE s = <<>>
    BY <1>1 DEF Covers
<1>2. CASE s # <<>>
    <2>1. Len(s) \in Nat /\ Len(s) >= 1 /\ s[1] \in Batches
        BY <1>2, EmptySeq, LenProperties DEF Covers
    <2>2. from <= s[1].first /\ s[1].last <= to /\ s[1].first <= s[1].last
        BY <2>1 DEF Covers, Batches
    <2>3. s[1].first \in Int /\ s[1].last \in Int
        BY <2>1 DEF Batches
    <2>. QED
        BY <1>2, <2>2, <2>3
<1>. QED
    BY <1>1, <1>2

\* A batch that begins where the others end continues them.
LEMMA CoversAppend ==
    ASSUME NEW s, NEW from \in Int, NEW to \in Int, Covers(s, from, to), NEW b \in Batches, b.first = to + 1
    PROVE  Covers(Append(s, b), from, b.last)
<1> DEFINE t == Append(s, b)
<1>1. s \in Seq(Batches) /\ Len(s) \in Nat
    BY LenProperties DEF Covers
<1>2. t \in Seq(Batches) /\ Len(t) = Len(s) + 1 /\ t[Len(s) + 1] = b /\ \A i \in 1..Len(s) : t[i] = s[i]
    BY <1>1, AppendProperties
<1>3. from - 1 <= to /\ b.first \in Int /\ b.last \in Int /\ b.first <= b.last
    BY CoversRange DEF Batches
<1>4. \A i \in 1..Len(s) : s[i].first \in Int /\ s[i].last \in Int /\ s[i].first <= s[i].last
    BY <1>1 DEF Batches
<1> HIDE DEF t
<1>5. t # <<>>
    BY <1>1, <1>2
<1>6. t[1].first = from
    <2>1. CASE s = <<>>
        BY <1>2, <2>1 DEF Covers
    <2>2. CASE s # <<>>
        BY <1>1, <1>2, <2>2, EmptySeq DEF Covers
    <2>. QED
        BY <2>1, <2>2
<1>7. \A i \in 1..Len(t) : from <= t[i].first /\ t[i].last <= b.last
    <2> SUFFICES ASSUME NEW i \in 1..Len(t) PROVE from <= t[i].first /\ t[i].last <= b.last
        OBVIOUS
    <2>1. CASE i = Len(s) + 1
        BY <1>2, <1>3, <2>1
    <2>2. CASE i # Len(s) + 1
        <3>1. i \in 1..Len(s) /\ t[i] = s[i]
            BY <1>1, <1>2, <2>2
        <3>2. from <= s[i].first /\ s[i].last <= to /\ s[i].last \in Int
            BY <1>4, <3>1 DEF Covers
        <3>. QED
            BY <1>3, <3>1, <3>2
    <2>. QED
        BY <2>1, <2>2
<1>8. \A i, k \in 1..Len(t) : i < k => t[i].last < t[k].first
    <2> SUFFICES ASSUME NEW i \in 1..Len(t), NEW k \in 1..Len(t), i < k PROVE t[i].last < t[k].first
        OBVIOUS
    <2>1. i \in 1..Len(s) /\ t[i] = s[i] /\ s[i].last \in Int
        BY <1>1, <1>2, <1>4
    <2>2. CASE k = Len(s) + 1
        <3>1. s[i].last <= to
            BY <2>1 DEF Covers
        <3>. QED
            BY <1>2, <1>3, <2>1, <2>2, <3>1
    <2>3. CASE k # Len(s) + 1
        <3>1. k \in 1..Len(s) /\ t[k] = s[k]
            BY <1>1, <1>2, <2>3
        <3>. QED
            BY <2>1, <3>1 DEF Covers
    <2>. QED
        BY <2>2, <2>3
<1>9. \A i \in 1..Len(t) : i < Len(t) => t[i + 1].first = t[i].last + 1
    <2> SUFFICES ASSUME NEW i \in 1..Len(t), i < Len(t) PROVE t[i + 1].first = t[i].last + 1
        OBVIOUS
    <2>1. CASE i < Len(s)
        BY <1>1, <1>2, <2>1 DEF Covers
    <2>2. CASE i = Len(s)
        BY <1>1, <1>2, <2>2 DEF Covers
    <2>. QED
        BY <1>1, <1>2, <2>1, <2>2
<1>. QED
    BY <1>1, <1>2, <1>5, <1>6, <1>7, <1>8, <1>9 DEF Covers, t

\* The first batch begins where all do, and the others follow it.
LEMMA CoversTail ==
    ASSUME NEW s, NEW from \in Int, NEW to \in Int, Covers(s, from, to), s # <<>>
    PROVE  /\ Head(s) \in Batches /\ Head(s).first = from /\ Head(s).last <= to
           /\ Covers(Tail(s), Head(s).last + 1, to)
<1> DEFINE t == Tail(s)
<1>1. s \in Seq(Batches) /\ Len(s) \in Nat /\ Len(s) >= 1 /\ Head(s) = s[1]
    BY EmptySeq, LenProperties DEF Covers
<1>2. t \in Seq(Batches) /\ Len(t) = Len(s) - 1 /\ \A i \in 1..Len(t) : t[i] = s[i + 1]
    BY <1>1, HeadTailProperties
<1>3. Head(s) \in Batches /\ Head(s).first = from /\ Head(s).last <= to
    BY <1>1 DEF Covers
<1>4. \A i \in 1..Len(s) : s[i].first \in Int /\ s[i].last \in Int /\ s[i].first <= s[i].last
    BY <1>1 DEF Batches
<1> HIDE DEF t
<1>5. t = <<>> => to = Head(s).last + 1 - 1
    <2> SUFFICES ASSUME t = <<>> PROVE to = Head(s).last
        BY <1>1, <1>4
    <2>1. Len(s) = 1
        BY <1>1, <1>2
    <2>. QED
        BY <1>1, <2>1 DEF Covers
<1>6. t # <<>> => t[1].first = Head(s).last + 1 /\ t[Len(t)].last = to
    <2> SUFFICES ASSUME t # <<>> PROVE t[1].first = Head(s).last + 1 /\ t[Len(t)].last = to
        OBVIOUS
    <2>1. Len(t) >= 1
        BY <1>2, EmptySeq, LenProperties
    <2>2. t[1] = s[2] /\ t[Len(t)] = s[Len(s)]
        BY <1>1, <1>2, <2>1
    <2>3. s[1 + 1].first = s[1].last + 1
        BY <1>1, <1>2, <2>1 DEF Covers
    <2>. QED
        BY <1>1, <2>2, <2>3 DEF Covers
<1>7. \A i \in 1..Len(t) : Head(s).last + 1 <= t[i].first /\ t[i].last <= to
    <2> SUFFICES ASSUME NEW i \in 1..Len(t) PROVE Head(s).last + 1 <= t[i].first /\ t[i].last <= to
        OBVIOUS
    <2>1. t[i] = s[i + 1] /\ i + 1 \in 1..Len(s) /\ 1 \in 1..Len(s) /\ 1 < i + 1
        BY <1>1, <1>2
    <2>2. s[1].last < s[i + 1].first /\ s[i + 1].last <= to
        BY <2>1 DEF Covers
    <2>3. s[1].last \in Int /\ s[i + 1].first \in Int
        BY <1>4, <2>1
    <2>. QED
        BY <1>1, <2>1, <2>2, <2>3
<1>8. \A i, k \in 1..Len(t) : i < k => t[i].last < t[k].first
    BY <1>1, <1>2 DEF Covers
<1>9. \A i \in 1..Len(t) : i < Len(t) => t[i + 1].first = t[i].last + 1
    <2> SUFFICES ASSUME NEW i \in 1..Len(t), i < Len(t) PROVE t[i + 1].first = t[i].last + 1
        OBVIOUS
    <2>1. i + 1 \in 1..Len(t) /\ i + 1 \in 1..Len(s) /\ i + 1 < Len(s)
        BY <1>1, <1>2
    <2>2. t[i] = s[i + 1] /\ t[i + 1] = s[(i + 1) + 1]
        BY <1>2, <2>1
    <2>3. s[(i + 1) + 1].first = s[i + 1].last + 1
        BY <2>1 DEF Covers
    <2>. QED
        BY <2>2, <2>3
<1>10. Covers(t, Head(s).last + 1, to)
    BY <1>2, <1>5, <1>6, <1>7, <1>8, <1>9 DEF Covers
<1>. QED
    BY <1>3, <1>10 DEF t

\* A batch that ends where the others begin precedes them.
LEMMA CoversCons ==
    ASSUME NEW s, NEW from \in Int, NEW to \in Int, Covers(s, from, to), NEW b \in Batches, b.last + 1 = from
    PROVE  Covers(<<b>> \o s, b.first, to)
<1> DEFINE t == <<b>> \o s
<1>1. s \in Seq(Batches) /\ Len(s) \in Nat /\ <<b>> \in Seq(Batches) /\ Len(<<b>>) = 1 /\ <<b>>[1] = b
    BY LenProperties DEF Covers
<1>2. t \in Seq(Batches) /\ Len(t) = Len(s) + 1
    BY <1>1, ConcatProperties
<1>3. t[1] = b /\ \A i \in 1..Len(s) : t[i + 1] = s[i]
    BY <1>1, ConcatProperties
<1>4. from - 1 <= to /\ b.first \in Int /\ b.last \in Int /\ b.first <= b.last
    BY CoversRange DEF Batches
<1>5. \A i \in 1..Len(s) : /\ s[i].first \in Int /\ s[i].last \in Int /\ s[i].first <= s[i].last
                             /\ from <= s[i].first /\ s[i].last <= to
    BY <1>1 DEF Batches, Covers
<1> HIDE DEF t
<1>6. \A i \in 1..Len(t) : i = 1 \/ (i - 1 \in 1..Len(s) /\ t[i] = s[i - 1])
    <2> SUFFICES ASSUME NEW i \in 1..Len(t), i # 1 PROVE i - 1 \in 1..Len(s) /\ t[i] = s[i - 1]
        OBVIOUS
    <2>1. i - 1 \in 1..Len(s)
        BY <1>1, <1>2
    <2>2. t[(i - 1) + 1] = s[i - 1]
        BY <1>3, <2>1
    <2>. QED
        BY <2>1, <2>2
<1>7. t # <<>> /\ t[Len(t)].last = to
    <2>1. CASE s = <<>>
        <3>1. Len(s) = 0 /\ to = from - 1
            BY <2>1 DEF Covers
        <3>2. Len(t) = 1
            BY <1>2, <3>1
        <3>3. t # <<>>
            BY <3>2
        <3>. QED
            BY <1>3, <1>4, <3>1, <3>2, <3>3
    <2>2. CASE s # <<>>
        <3>1. Len(s) \in 1..Len(s)
            BY <1>1, <2>2, EmptySeq
        <3>2. t[Len(t)] = s[Len(s)]
            BY <1>1, <1>2, <1>3, <3>1
        <3>. QED
            BY <1>1, <1>2, <2>2, <3>2 DEF Covers
    <2>. QED
        BY <2>1, <2>2
<1>8. \A i \in 1..Len(t) : b.first <= t[i].first /\ t[i].last <= to
    <2> SUFFICES ASSUME NEW i \in 1..Len(t) PROVE b.first <= t[i].first /\ t[i].last <= to
        OBVIOUS
    <2>1. CASE i = 1
        BY <1>3, <1>4, <2>1
    <2>2. CASE i # 1
        <3>1. i - 1 \in 1..Len(s) /\ t[i] = s[i - 1]
            BY <1>6, <2>2
        <3>2. s[i - 1].first \in Int /\ from <= s[i - 1].first /\ s[i - 1].last <= to
            BY <1>5, <3>1
        <3>. QED
            BY <1>4, <3>1, <3>2
    <2>. QED
        BY <2>1, <2>2
<1>9. \A i, k \in 1..Len(t) : i < k => t[i].last < t[k].first
    <2> SUFFICES ASSUME NEW i \in 1..Len(t), NEW k \in 1..Len(t), i < k PROVE t[i].last < t[k].first
        OBVIOUS
    <2>1. k - 1 \in 1..Len(s) /\ t[k] = s[k - 1]
        BY <1>2, <1>6
    <2>2. CASE i = 1
        BY <1>3, <1>4, <1>5, <2>1, <2>2
    <2>3. CASE i # 1
        <3>1. i - 1 \in 1..Len(s) /\ t[i] = s[i - 1] /\ i - 1 < k - 1
            BY <1>6, <2>3
        <3>2. \A l, m \in 1..Len(s) : l < m => s[l].last < s[m].first
            BY DEF Covers
        <3>3. s[i - 1].last < s[k - 1].first
            BY <2>1, <3>1, <3>2
        <3>. QED
            BY <2>1, <3>1, <3>3
    <2>. QED
        BY <2>2, <2>3
<1>10. \A i \in 1..Len(t) : i < Len(t) => t[i + 1].first = t[i].last + 1
    <2> SUFFICES ASSUME NEW i \in 1..Len(t), i < Len(t) PROVE t[i + 1].first = t[i].last + 1
        OBVIOUS
    <2>1. i \in 1..Len(s) /\ t[i + 1] = s[i]
        BY <1>1, <1>2, <1>3
    <2>2. CASE i = 1
        BY <1>3, <1>4, <2>1, <2>2, EmptySeq DEF Covers
    <2>3. CASE i # 1
        <3>1. i - 1 \in 1..Len(s) /\ t[i] = s[i - 1] /\ i - 1 < Len(s) /\ (i - 1) + 1 = i
            BY <1>6, <2>1, <2>3
        <3>2. s[(i - 1) + 1].first = s[i - 1].last + 1
            BY <3>1 DEF Covers
        <3>. QED
            BY <2>1, <3>1, <3>2
    <2>. QED
        BY <2>2, <2>3
<1>. QED
    BY <1>2, <1>3, <1>7, <1>8, <1>9, <1>10 DEF Covers, t

-----------------------------------------------------------------------------
(* The invariant                                                           *)

\* A batch is a single row or keeps to the budget.
InBudget(j, b) == SizeOf(b) = 1 \/ (SizeOf(b) <= j.maxCount /\ ArrayOf(j.chars, b) <= j.maxBytes)
AllInBudget(j, s) == \A i \in 1..Len(s) : InBudget(j, s[i])

\* A batch the server has written.
Taken(j, b) == ArrayOf(j.bytes, b) <= j.limit /\ (SizeOf(b) = 1 \/ j.batched) /\ InBudget(j, b)
AllTaken(j, s) == \A i \in 1..Len(s) : Taken(j, s[i])

\* The batches cut so far have the rows before the current batch, and that one
\* measures what was counted.
CutInv(j, c) ==
    /\ c \in [out : Seq(Batches), first : Nat, next : Nat, bytes : Int]
    /\ 1 <= c.first /\ c.first <= c.next /\ c.next <= j.n + 1
    /\ Covers(c.out, 1, c.first - 1) /\ AllInBudget(j, c.out)
    /\ c.first = c.next => c.bytes = Overhead
    /\ c.first < c.next => /\ c.bytes = ArrayOf(j.chars, Batch(c.first, c.next - 1))
                           /\ InBudget(j, Batch(c.first, c.next - 1))

\* The rows sent, the rest of the batch in hand and the batches not begun are
\* all the rows; those of the batches before it are reported.
BatchesInv(j) ==
    /\ j.batched /\ part \in [first : Int, last : Int]
    /\ Covers(halves, SentRows + 1, part.last) /\ AllInBudget(j, halves)
    /\ Covers(parts, part.last + 1, j.n) /\ AllInBudget(j, parts)
    /\ halves = <<>> => reported = part.last
    /\ halves # <<>> => reported = part.first - 1

NothingSent == parts = <<>> /\ halves = <<>> /\ part = NoBatch /\ sent = <<>> /\ reported = 0

SingleRowRefused(j) == full \/ ArrayOf(j.bytes, Batch(SentRows + 1, SentRows + 1)) > j.limit

WriterInv ==
    /\ IsJob(job) /\ CutInv(job, cut)
    /\ Covers(sent, 1, SentRows) /\ AllTaken(job, sent)
    /\ reported \in Nat /\ SentRows \in Nat /\ reported <= SentRows /\ SentRows <= job.n
    /\ outcome \in {"cutting", "inBatches", "rowByRow", "done", "rowRefused", "failed"}
    /\ outcome = "cutting" => NothingSent
    /\ outcome = "inBatches" => BatchesInv(job)
    /\ outcome = "rowByRow" => reported = SentRows
    /\ outcome = "done" => SentRows = job.n /\ reported = job.n
    /\ outcome = "rowRefused" => SentRows < job.n /\ SingleRowRefused(job)
    /\ outcome = "failed" => SentRows < job.n

-----------------------------------------------------------------------------
(* What a batch measures                                                   *)

\* The rows of an interval are a batch.
LEMMA BatchTyped ==
    ASSUME NEW first \in Int, NEW last \in Int, first >= 1, first <= last
    PROVE  /\ Batch(first, last) \in Batches
           /\ Batch(first, last).first = first /\ Batch(first, last).last = last
BY DEF Batch, Batches

\* A batch is the interval of its rows.
LEMMA BatchIs ==
    ASSUME NEW b \in Batches
    PROVE  /\ b.first \in Int /\ b.last \in Int /\ 1 <= b.first /\ b.first <= b.last
           /\ b = Batch(b.first, b.last) /\ SizeOf(b) = b.last - b.first + 1
BY DEF Batch, Batches, SizeOf

\* The lengths and limits of a job are numbers.
LEMMA JobTyped ==
    ASSUME NEW j, IsJob(j)
    PROVE  /\ j.n \in Nat /\ j.maxBytes \in Nat /\ j.maxCount \in Nat /\ j.limit \in Nat
           /\ \A i \in 0..j.n : j.chars[i] \in Nat /\ j.bytes[i] \in Nat
BY DEF IsJob

\* What a batch of a job measures is a number.
LEMMA MeasureTyped ==
    ASSUME NEW j, IsJob(j), NEW b \in Batches, b.last <= j.n
    PROVE  ArrayOf(j.chars, b) \in Int /\ ArrayOf(j.bytes, b) \in Int
<1>1. b.last \in 0..j.n /\ b.first - 1 \in 0..j.n
    BY BatchIs, JobTyped
<1>2. SizeOf(b) \in Int
    BY BatchIs
<1>. QED
    BY <1>1, <1>2, JobTyped DEF ArrayOf, Overhead, Separator

\* A part of a batch that keeps to the budget does.
LEMMA PartInBudget ==
    ASSUME NEW j, IsJob(j), NEW b \in Batches, NEW c \in Batches,
           b.first <= c.first, c.last <= b.last, b.last <= j.n, InBudget(j, b)
    PROVE  InBudget(j, c)
<1>1. /\ b.first \in Int /\ b.last \in Int /\ 1 <= b.first /\ b.first <= b.last /\ SizeOf(b) = b.last - b.first + 1
      /\ c.first \in Int /\ c.last \in Int /\ 1 <= c.first /\ c.first <= c.last /\ SizeOf(c) = c.last - c.first + 1
    BY BatchIs
<1>2. CASE SizeOf(b) = 1
    BY <1>1, <1>2 DEF InBudget
<1>3. CASE SizeOf(b) <= j.maxCount /\ ArrayOf(j.chars, b) <= j.maxBytes
    <2>1. {b.last, b.first - 1, c.last, c.first - 1} \subseteq 0..j.n
        BY <1>1, JobTyped
    <2>2. \A i, k \in 0..j.n : i <= k => j.chars[i] <= j.chars[k]
        BY DEF IsJob
    <2>3. j.chars[c.last] <= j.chars[b.last]
        BY <1>1, <2>1, <2>2
    <2>4. j.chars[b.first - 1] <= j.chars[c.first - 1]
        <3>1. b.first - 1 <= c.first - 1 /\ b.first - 1 \in 0..j.n /\ c.first - 1 \in 0..j.n
            BY <1>1, <2>1
        <3>. QED
            BY <2>2, <3>1
    <2>5. /\ j.chars[c.last] \in Nat /\ j.chars[b.last] \in Nat /\ j.chars[b.first - 1] \in Nat
          /\ j.chars[c.first - 1] \in Nat /\ j.maxCount \in Nat /\ j.maxBytes \in Nat
        BY <2>1, JobTyped
    <2>6. SizeOf(c) <= SizeOf(b) /\ SizeOf(c) \in Int /\ SizeOf(b) \in Int
        BY <1>1
    <2>7. ArrayOf(j.chars, c) <= ArrayOf(j.chars, b)
        BY <2>3, <2>4, <2>5, <2>6 DEF ArrayOf, Overhead, Separator
    <2>8. ArrayOf(j.chars, c) \in Int /\ ArrayOf(j.chars, b) \in Int
        BY MeasureTyped, <1>1, JobTyped
    <2>. QED
        BY <1>3, <2>5, <2>6, <2>7, <2>8 DEF InBudget
<1>. QED
    BY <1>2, <1>3 DEF InBudget

\* A single row is never over the budget.
LEMMA OneRowInBudget ==
    ASSUME NEW j, NEW i \in Int
    PROVE  InBudget(j, Batch(i, i))
BY DEF InBudget, SizeOf, Batch

\* The batches within the budget, and one more.
LEMMA AppendInBudget ==
    ASSUME NEW j, NEW s \in Seq(Batches), AllInBudget(j, s), NEW b \in Batches, InBudget(j, b)
    PROVE  AllInBudget(j, Append(s, b))
<1>1. SUFFICES ASSUME NEW i \in 1..Len(Append(s, b)) PROVE InBudget(j, Append(s, b)[i])
    BY DEF AllInBudget
<1>2. Len(s) \in Nat /\ Len(Append(s, b)) = Len(s) + 1
    BY AppendProperties, LenProperties
<1>3. CASE i = Len(s) + 1
    BY <1>3, AppendProperties
<1>4. CASE i # Len(s) + 1
    <2>1. i \in 1..Len(s) /\ Append(s, b)[i] = s[i]
        BY <1>2, <1>4, AppendProperties
    <2>. QED
        BY <2>1 DEF AllInBudget
<1>. QED
    BY <1>3, <1>4

\* The batches the server took, and one more.
LEMMA AppendTaken ==
    ASSUME NEW j, NEW s \in Seq(Batches), AllTaken(j, s), NEW b \in Batches, Taken(j, b)
    PROVE  AllTaken(j, Append(s, b))
<1>1. SUFFICES ASSUME NEW i \in 1..Len(Append(s, b)) PROVE Taken(j, Append(s, b)[i])
    BY DEF AllTaken
<1>2. Len(s) \in Nat /\ Len(Append(s, b)) = Len(s) + 1
    BY AppendProperties, LenProperties
<1>3. CASE i = Len(s) + 1
    BY <1>3, AppendProperties
<1>4. CASE i # Len(s) + 1
    <2>1. i \in 1..Len(s) /\ Append(s, b)[i] = s[i]
        BY <1>2, <1>4, AppendProperties
    <2>. QED
        BY <2>1 DEF AllTaken
<1>. QED
    BY <1>3, <1>4

\* The batches within the budget, but for the first.
LEMMA TailInBudget ==
    ASSUME NEW j, NEW s \in Seq(Batches), s # <<>>, AllInBudget(j, s)
    PROVE  InBudget(j, Head(s)) /\ AllInBudget(j, Tail(s))
<1>1. Len(s) \in Nat /\ Len(s) >= 1 /\ Head(s) = s[1]
    BY EmptySeq, LenProperties
<1>2. Len(Tail(s)) = Len(s) - 1 /\ \A i \in 1..Len(Tail(s)) : Tail(s)[i] = s[i + 1]
    BY <1>1, HeadTailProperties
<1>3. InBudget(j, Head(s))
    BY <1>1 DEF AllInBudget
<1>4. SUFFICES ASSUME NEW i \in 1..Len(Tail(s)) PROVE InBudget(j, Tail(s)[i])
    BY <1>3 DEF AllInBudget
<1>5. i + 1 \in 1..Len(s) /\ Tail(s)[i] = s[i + 1]
    BY <1>1, <1>2
<1>. QED
    BY <1>5 DEF AllInBudget

\* The batches within the budget, and one before.
LEMMA ConsInBudget ==
    ASSUME NEW j, NEW s \in Seq(Batches), AllInBudget(j, s), NEW b \in Batches, InBudget(j, b)
    PROVE  AllInBudget(j, <<b>> \o s)
<1>1. SUFFICES ASSUME NEW i \in 1..Len(<<b>> \o s) PROVE InBudget(j, (<<b>> \o s)[i])
    BY DEF AllInBudget
<1>2. <<b>> \in Seq(Batches) /\ Len(<<b>>) = 1 /\ <<b>>[1] = b /\ Len(s) \in Nat
    BY LenProperties
<1>3. Len(<<b>> \o s) = Len(s) + 1 /\ (<<b>> \o s)[1] = b /\ \A k \in 1..Len(s) : (<<b>> \o s)[1 + k] = s[k]
    BY <1>2, ConcatProperties
<1>4. CASE i = 1
    BY <1>3, <1>4
<1>5. CASE i # 1
    <2>1. i - 1 \in 1..Len(s) /\ 1 + (i - 1) = i
        BY <1>2, <1>3, <1>5
    <2>2. (<<b>> \o s)[1 + (i - 1)] = s[i - 1]
        BY <1>3, <2>1
    <2>. QED
        BY <2>1, <2>2 DEF AllInBudget
<1>. QED
    BY <1>4, <1>5

-----------------------------------------------------------------------------
(* Each step keeps the invariant                                           *)

\* The halves of a batch of two rows or more are two batches that follow each other.
LEMMA HalvesOf ==
    ASSUME NEW b \in Batches, SizeOf(b) > 1
    PROVE  \E lo, hi \in Batches :
               /\ Halves(b) = <<lo, hi>>
               /\ lo.first = b.first /\ lo.last + 1 = hi.first /\ hi.last = b.last
<1> DEFINE midpoint == SizeOf(b) \div 2
<1>1. b.first \in Int /\ b.last \in Int /\ 1 <= b.first /\ SizeOf(b) = b.last - b.first + 1 /\ SizeOf(b) \in Int
    BY BatchIs
<1>2. midpoint \in Int /\ 1 <= midpoint /\ midpoint < SizeOf(b)
    BY <1>1
<1>3. Halves(b) = <<Batch(b.first, b.first + midpoint - 1), Batch(b.first + midpoint, b.last)>>
    BY DEF Halves
<1> HIDE DEF midpoint
<1>4. b.first + midpoint - 1 \in Int /\ b.first <= b.first + midpoint - 1 /\ b.first + midpoint \in Int
      /\ 1 <= b.first + midpoint /\ b.first + midpoint <= b.last /\ (b.first + midpoint - 1) + 1 = b.first + midpoint
    BY <1>1, <1>2
<1>5. /\ Batch(b.first, b.first + midpoint - 1) \in Batches
      /\ Batch(b.first, b.first + midpoint - 1).first = b.first
      /\ Batch(b.first, b.first + midpoint - 1).last = b.first + midpoint - 1
    BY <1>1, <1>4, BatchTyped
<1>6. /\ Batch(b.first + midpoint, b.last) \in Batches
      /\ Batch(b.first + midpoint, b.last).first = b.first + midpoint
      /\ Batch(b.first + midpoint, b.last).last = b.last
    BY <1>1, <1>4, BatchTyped
<1>. QED
    BY <1>3, <1>4, <1>5, <1>6

\* A batch replaced by its halves leaves the rows as they were.
LEMMA HalvedCovers ==
    ASSUME NEW j, IsJob(j), NEW s, NEW from \in Int, NEW to \in Int, to <= j.n,
           Covers(s, from, to), AllInBudget(j, s), s # <<>>, SizeOf(Head(s)) > 1
    PROVE  LET t == Halves(Head(s)) \o Tail(s) IN t # <<>> /\ Covers(t, from, to) /\ AllInBudget(j, t)
<1> DEFINE b == Head(s)
<1> DEFINE r == Tail(s)
<1>1. s \in Seq(Batches)
    BY DEF Covers
<1>2. b \in Batches /\ b.first = from /\ b.last <= to /\ Covers(r, b.last + 1, to)
    BY CoversTail
<1>3. InBudget(j, b) /\ AllInBudget(j, r)
    BY <1>1, TailInBudget
<1>4. SizeOf(b) > 1
    OBVIOUS
<1>5. SUFFICES LET t == Halves(b) \o r IN t # <<>> /\ Covers(t, from, to) /\ AllInBudget(j, t)
    OBVIOUS
<1> HIDE DEF b, r
<1>6. PICK lo, hi \in Batches :
          /\ Halves(b) = <<lo, hi>>
          /\ lo.first = b.first /\ lo.last + 1 = hi.first /\ hi.last = b.last
    BY <1>2, <1>4, HalvesOf
<1>7. /\ b.first \in Int /\ b.last \in Int /\ lo.first \in Int /\ lo.last \in Int /\ hi.first \in Int /\ hi.last \in Int
      /\ lo.first <= lo.last /\ hi.first <= hi.last
    BY <1>2, BatchIs
<1>8. r \in Seq(Batches) /\ b.last + 1 \in Int
    BY <1>2, <1>7 DEF Covers
<1>9. InBudget(j, lo) /\ InBudget(j, hi)
    <2>1. b.last <= j.n
        BY <1>2, <1>7, JobTyped
    <2>2. b.first <= lo.first /\ lo.last <= b.last /\ b.first <= hi.first /\ hi.last <= b.last
        BY <1>6, <1>7
    <2>. QED
        BY <1>2, <1>3, <2>1, <2>2, PartInBudget
<1> DEFINE u == <<hi>> \o r
<1>10. Covers(u, hi.first, to) /\ AllInBudget(j, u)
    <2>1. hi.last + 1 = b.last + 1
        BY <1>6
    <2>. QED
        BY <1>2, <1>3, <1>8, <1>9, <2>1, CoversCons, ConsInBudget
<1>11. Halves(b) \o r = <<lo>> \o u
    <2>1. <<lo>> \in Seq(Batches) /\ <<hi>> \in Seq(Batches)
        OBVIOUS
    <2>2. <<lo, hi>> = <<lo>> \o <<hi>>
        <3>1. <<lo, hi>> = Append(<<lo>>, hi)
            OBVIOUS
        <3>2. Append(<<lo>>, hi) = <<lo>> \o <<hi>>
            BY <2>1, AppendIsConcat
        <3>. QED
            BY <3>1, <3>2
    <2>3. (<<lo>> \o <<hi>>) \o r = <<lo>> \o (<<hi>> \o r)
        BY <1>8, <2>1, ConcatAssociative
    <2>. QED
        BY <1>6, <2>2, <2>3
<1> HIDE DEF u
<1>12. u \in Seq(Batches)
    BY <1>10 DEF Covers
<1>13. Covers(<<lo>> \o u, lo.first, to) /\ AllInBudget(j, <<lo>> \o u)
    BY <1>6, <1>7, <1>9, <1>10, <1>12, CoversCons, ConsInBudget
<1>14. <<lo>> \o u # <<>>
    <2>1. Len(<<lo>> \o u) = 1 + Len(u) /\ Len(u) \in Nat
        BY <1>12, ConcatProperties, LenProperties
    <2>. QED
        BY <2>1
<1>. QED
    BY <1>2, <1>6, <1>11, <1>13, <1>14

\* The last batch sent is the one appended last.
LEMMA SentRowsAppended ==
    ASSUME NEW b \in Batches, sent \in Seq(Batches), sent' = Append(sent, b)
    PROVE  SentRows' = b.last
<1>1. Len(sent) \in Nat /\ Len(sent') = Len(sent) + 1 /\ sent'[Len(sent) + 1] = b
    BY AppendProperties, LenProperties
<1>2. sent' # <<>>
    BY <1>1, EmptySeq
<1>. QED
    BY <1>1, <1>2 DEF SentRows

\* With the current batch, the batches cut have all rows before the next one.
LEMMA FlushedCovers ==
    ASSUME IsJob(job), CutInv(job, cut)
    PROVE  /\ Flushed \in Seq(Batches) /\ Covers(Flushed, 1, cut.next - 1) /\ AllInBudget(job, Flushed)
<1>1. cut.first \in Int /\ cut.next \in Int /\ cut.first >= 1 /\ cut.first <= cut.next
    BY DEF CutInv
<1>2. cut.out \in Seq(Batches) /\ Covers(cut.out, 1, cut.first - 1) /\ AllInBudget(job, cut.out)
    BY DEF CutInv
<1>3. CASE cut.first = cut.next
    BY <1>2, <1>3 DEF Flushed, CurrentIsEmpty
<1>4. CASE cut.first # cut.next
    <2> DEFINE b == Batch(cut.first, cut.next - 1)
    <2>1. b \in Batches /\ b.first = cut.first /\ b.last = cut.next - 1
        BY <1>1, <1>4, BatchTyped
    <2>2. InBudget(job, b)
        BY <1>1, <1>4 DEF CutInv
    <2>3. Flushed = Append(cut.out, b)
        BY <1>4 DEF Flushed, CurrentIsEmpty
    <2> HIDE DEF b
    <2>4. Covers(Append(cut.out, b), 1, b.last)
        BY <1>1, <1>2, <2>1, CoversAppend
    <2>5. AllInBudget(job, Append(cut.out, b))
        BY <1>2, <2>1, <2>2, AppendInBudget
    <2>. QED
        BY <1>2, <2>1, <2>3, <2>4, <2>5, AppendProperties
<1>. QED
    BY <1>3, <1>4

\* A cutting step leaves the rest alone.
LEMMA OnlyTheCut ==
    ASSUME WriterInv, outcome = "cutting", UNCHANGED <<job, outcome, writing>>, CutInv(job, cut')
    PROVE  WriterInv'
<1>1. UNCHANGED <<parts, halves, part, sent, reported, full>> /\ job' = job /\ outcome' = outcome
    BY DEF writing
<1>2. SentRows' = SentRows
    BY <1>1 DEF SentRows
<1>3. NothingSent'
    BY <1>1 DEF WriterInv, NothingSent
<1>. QED
    BY <1>1, <1>2, <1>3 DEF WriterInv

\* What a row to be placed measures is a number.
LEMMA CharsTyped ==
    ASSUME IsJob(job), CutInv(job, cut), cut.next <= job.n
    PROVE  /\ cut.first \in Int /\ cut.next \in Int /\ 1 <= cut.first /\ cut.first <= cut.next
           /\ job.n \in Int /\ job.maxBytes \in Int /\ job.maxCount \in Int /\ cut.bytes \in Int /\ Chars \in Int
           /\ Chars = job.chars[cut.next] - job.chars[cut.next - 1]
<1>1. cut.first \in Int /\ cut.next \in Int /\ 1 <= cut.first /\ cut.first <= cut.next /\ cut.bytes \in Int
    BY DEF CutInv
<1>2. job.n \in Nat /\ job.maxBytes \in Nat /\ job.maxCount \in Nat
    BY JobTyped
<1>3. cut.next \in 0..job.n /\ cut.next - 1 \in 0..job.n
    BY <1>1, <1>2
<1>4. job.chars[cut.next] \in Nat /\ job.chars[cut.next - 1] \in Nat
    BY <1>3, JobTyped
<1>. QED
    BY <1>1, <1>2, <1>4 DEF Chars

\* A row over the budget is a batch of its own.
LEMMA PlaceAloneKeeps ==
    ASSUME WriterInv, PlaceAlone PROVE WriterInv'
<1>1. outcome = "cutting" /\ cut.next <= job.n /\ IsJob(job) /\ CutInv(job, cut)
    BY DEF PlaceAlone, Cutting, WriterInv
<1>2. cut.next \in Int /\ 1 <= cut.next /\ job.n \in Int
    BY <1>1, CharsTyped
<1> DEFINE b == Batch(cut.next, cut.next)
<1>3. b \in Batches /\ b.first = cut.next /\ b.last = cut.next
    BY <1>2, BatchTyped
<1>4. InBudget(job, b)
    BY <1>2, OneRowInBudget
<1>5. cut' = [out |-> Append(Flushed, b), first |-> cut.next + 1, next |-> cut.next + 1, bytes |-> Overhead]
    BY DEF PlaceAlone
<1> HIDE DEF b
<1>6. Flushed \in Seq(Batches) /\ Covers(Flushed, 1, cut.next - 1) /\ AllInBudget(job, Flushed)
    BY <1>1, FlushedCovers
<1>7. Covers(Append(Flushed, b), 1, cut.next)
    BY <1>2, <1>3, <1>6, CoversAppend
<1>8. AllInBudget(job, Append(Flushed, b)) /\ Append(Flushed, b) \in Seq(Batches)
    BY <1>3, <1>4, <1>6, AppendInBudget, AppendProperties
<1>9. CutInv(job, cut')
    <2>1. (cut.next + 1) - 1 = cut.next
        BY <1>2
    <2>. QED
        BY <1>1, <1>2, <1>5, <1>7, <1>8, <2>1 DEF CutInv, Overhead
<1>. QED
    BY <1>1, <1>9, OnlyTheCut DEF PlaceAlone

\* A row that does not fit begins the next batch.
LEMMA PlaceInNextKeeps ==
    ASSUME WriterInv, PlaceInNext PROVE WriterInv'
<1>1. outcome = "cutting" /\ cut.next <= job.n /\ IsJob(job) /\ CutInv(job, cut)
    BY DEF PlaceInNext, Cutting, WriterInv
<1>2. /\ cut.next \in Int /\ 1 <= cut.next /\ job.n \in Int /\ Chars \in Int
      /\ Chars = job.chars[cut.next] - job.chars[cut.next - 1]
    BY <1>1, CharsTyped
<1> DEFINE b == Batch(cut.next, cut.next)
<1>3. InBudget(job, b)
    BY <1>2, OneRowInBudget
<1>4. Overhead + Chars = ArrayOf(job.chars, b) /\ Overhead + Chars \in Int
    BY <1>2 DEF ArrayOf, Batch, SizeOf, Overhead, Separator
<1>5. cut' = [out |-> Flushed, first |-> cut.next, next |-> cut.next + 1, bytes |-> Overhead + Chars]
    BY DEF PlaceInNext
<1>6. Flushed \in Seq(Batches) /\ Covers(Flushed, 1, cut.next - 1) /\ AllInBudget(job, Flushed)
    BY <1>1, FlushedCovers
<1>7. (cut.next + 1) - 1 = cut.next
    BY <1>2
<1>8. /\ InBudget(job, Batch(cut.next, (cut.next + 1) - 1))
      /\ Overhead + Chars = ArrayOf(job.chars, Batch(cut.next, (cut.next + 1) - 1))
    BY <1>3, <1>4, <1>7
<1> HIDE DEF b
<1>9. CutInv(job, cut')
    <2>1. /\ cut' \in [out : Seq(Batches), first : Nat, next : Nat, bytes : Int]
          /\ cut'.out = Flushed /\ cut'.first = cut.next /\ cut'.next = cut.next + 1 /\ cut'.bytes = Overhead + Chars
        BY <1>2, <1>4, <1>5, <1>6
    <2>2. 1 <= cut'.first /\ cut'.first < cut'.next /\ cut'.next <= job.n + 1 /\ cut'.first # cut'.next
        BY <1>1, <1>2, <2>1
    <2>3. Covers(cut'.out, 1, cut'.first - 1) /\ AllInBudget(job, cut'.out)
        BY <1>6, <2>1
    <2>4. /\ cut'.bytes = ArrayOf(job.chars, Batch(cut'.first, cut'.next - 1))
          /\ InBudget(job, Batch(cut'.first, cut'.next - 1))
        BY <1>8, <2>1
    <2>. QED
        BY <2>1, <2>2, <2>3, <2>4 DEF CutInv
<1>. QED
    BY <1>1, <1>9, OnlyTheCut DEF PlaceInNext

\* A row that fits is counted in the current batch.
LEMMA PlaceInCurrentKeeps ==
    ASSUME WriterInv, PlaceInCurrent PROVE WriterInv'
<1>1. outcome = "cutting" /\ cut.next <= job.n /\ IsJob(job) /\ CutInv(job, cut)
    BY DEF PlaceInCurrent, Cutting, WriterInv
<1>2. /\ cut.first \in Int /\ cut.next \in Int /\ 1 <= cut.first /\ cut.first <= cut.next
      /\ job.n \in Int /\ job.maxBytes \in Int /\ job.maxCount \in Int /\ cut.bytes \in Int /\ Chars \in Int
      /\ Chars = job.chars[cut.next] - job.chars[cut.next - 1]
    BY <1>1, CharsTyped
<1> DEFINE b == Batch(cut.first, cut.next)
<1>3. /\ cut' = [cut EXCEPT !.next = @ + 1, !.bytes = @ + Gap + Chars]
      /\ ~(cut.bytes + Gap + Chars > job.maxBytes \/ cut.next - cut.first >= job.maxCount)
    BY DEF PlaceInCurrent, Exceeds
<1>4. b.first = cut.first /\ b.last = cut.next /\ SizeOf(b) = cut.next - cut.first + 1
    BY <1>2, BatchTyped DEF SizeOf
<1> HIDE DEF b
<1>5. Gap \in Int /\ cut.bytes + Gap + Chars = ArrayOf(job.chars, b)
    <2>1. {cut.first - 1, cut.next - 1, cut.next} \subseteq 0..job.n
        BY <1>1, <1>2
    <2>2. job.chars[cut.first - 1] \in Int /\ job.chars[cut.next - 1] \in Int /\ job.chars[cut.next] \in Int
        BY <1>1, <2>1, JobTyped
    <2>3. ArrayOf(job.chars, b) = 2 + (job.chars[cut.next] - job.chars[cut.first - 1]) + (cut.next - cut.first)
        BY <1>2, <1>4, <2>2 DEF ArrayOf, Overhead, Separator
    <2>4. CASE cut.first = cut.next
        <3>1. cut.bytes = 2 /\ Gap = 0
            BY <1>1, <2>4 DEF CutInv, Gap, CurrentIsEmpty, Overhead
        <3>. QED
            BY <1>2, <2>2, <2>3, <2>4, <3>1
    <2>5. CASE cut.first # cut.next
        <3>1. cut.bytes = ArrayOf(job.chars, Batch(cut.first, cut.next - 1)) /\ Gap = 1
            BY <1>1, <1>2, <2>5 DEF CutInv, Gap, CurrentIsEmpty, Separator
        <3>2. cut.bytes = 2 + (job.chars[cut.next - 1] - job.chars[cut.first - 1]) + (cut.next - 1 - cut.first)
            BY <1>2, <2>2, <3>1 DEF ArrayOf, Batch, SizeOf, Overhead, Separator
        <3>3. cut.bytes + 1 + Chars = 2 + (job.chars[cut.next] - job.chars[cut.first - 1]) + (cut.next - cut.first)
            <4> DEFINE x == job.chars[cut.first - 1]
            <4> DEFINE y == job.chars[cut.next - 1]
            <4> DEFINE z == job.chars[cut.next]
            <4>1. x \in Int /\ y \in Int /\ z \in Int /\ Chars = z - y /\ cut.bytes = 2 + (y - x) + (cut.next - 1 - cut.first)
                BY <1>2, <2>2, <3>2
            <4> HIDE DEF x, y, z
            <4>2. cut.bytes + 1 + Chars = 2 + (z - x) + (cut.next - cut.first)
                BY <1>2, <4>1
            <4>. QED
                BY <4>2 DEF x, z
        <3>. QED
            BY <2>3, <3>1, <3>3
    <2>. QED
        BY <2>4, <2>5
<1>6. InBudget(job, b)
    BY <1>2, <1>3, <1>4, <1>5 DEF InBudget
<1>7. /\ cut \in [out : Seq(Batches), first : Nat, next : Nat, bytes : Int]
      /\ Covers(cut.out, 1, cut.first - 1) /\ AllInBudget(job, cut.out)
    BY <1>1 DEF CutInv
<1>8. /\ cut'.out \in Seq(Batches) /\ cut'.first \in Nat /\ cut'.next \in Nat /\ cut'.bytes \in Int
      /\ cut' \in [out : Seq(Batches), first : Nat, next : Nat, bytes : Int]
      /\ cut'.out = cut.out /\ cut'.first = cut.first /\ cut'.next = cut.next + 1 /\ cut'.bytes = cut.bytes + Gap + Chars
    <2> DEFINE onward == [cut EXCEPT !.next = @ + 1]
    <2> DEFINE bytes == cut.bytes + Gap + Chars
    <2>1. bytes \in Int /\ cut.next + 1 \in Nat
        BY <1>2, <1>5
    <2>2. /\ onward \in [out : Seq(Batches), first : Nat, next : Nat, bytes : Int]
          /\ onward.out = cut.out /\ onward.first = cut.first /\ onward.next = cut.next + 1 /\ onward.bytes = cut.bytes
        BY <1>7, <2>1
    <2>3. cut' = [onward EXCEPT !.bytes = bytes]
        BY <1>3, <1>7
    <2> HIDE DEF onward, bytes
    <2>4. /\ cut' \in [out : Seq(Batches), first : Nat, next : Nat, bytes : Int]
          /\ cut'.out = onward.out /\ cut'.first = onward.first /\ cut'.next = onward.next /\ cut'.bytes = bytes
        BY <2>1, <2>2, <2>3
    <2>. QED
        BY <2>2, <2>4 DEF bytes
<1>9. b = Batch(cut'.first, cut'.next - 1)
    <2>1. (cut.next + 1) - 1 = cut.next
        BY <1>2
    <2>. QED
        BY <1>8, <2>1 DEF b
<1>10. CutInv(job, cut')
    <2>1. 1 <= cut'.first /\ cut'.first < cut'.next /\ cut'.next <= job.n + 1
        BY <1>1, <1>2, <1>8
    <2>2. cut'.first # cut'.next
        BY <1>8, <2>1
    <2>3. Covers(cut'.out, 1, cut'.first - 1) /\ AllInBudget(job, cut'.out)
        BY <1>7, <1>8
    <2>4. /\ cut'.bytes = ArrayOf(job.chars, Batch(cut'.first, cut'.next - 1))
          /\ InBudget(job, Batch(cut'.first, cut'.next - 1))
        BY <1>5, <1>6, <1>8, <1>9
    <2>. QED
        BY <1>8, <2>1, <2>2, <2>3, <2>4 DEF CutInv
<1>. QED
    BY <1>1, <1>10, OnlyTheCut DEF PlaceInCurrent

\* The batches cut have all the rows.
LEMMA CutEndsKeeps ==
    ASSUME WriterInv, CutEnds PROVE WriterInv'
<1>1. outcome = "cutting" /\ IsJob(job) /\ CutInv(job, cut) /\ NothingSent
    BY DEF CutEnds, WriterInv
<1>2. job' = job /\ cut' = cut /\ halves' = halves /\ part' = part /\ sent' = sent /\ reported' = reported /\ full' = full
    BY DEF CutEnds
<1>3. SentRows = 0 /\ SentRows' = 0
    BY <1>1, <1>2 DEF SentRows, NothingSent
<1>4. CutInv(job', cut') /\ Covers(sent', 1, SentRows') /\ AllTaken(job', sent') /\ job.n \in Nat /\ reported' = 0
    BY <1>1, <1>2, <1>3, JobTyped DEF WriterInv, NothingSent
<1>5. CASE job.n = 0
    BY <1>1, <1>2, <1>3, <1>4, <1>5 DEF CutEnds, WriterInv
<1>6. CASE job.n # 0 /\ ~job.batched
    BY <1>1, <1>2, <1>3, <1>4, <1>6 DEF CutEnds, WriterInv
<1>7. CASE job.n # 0 /\ job.batched /\ ~Budgeted
    BY <1>1, <1>2, <1>3, <1>4, <1>7 DEF CutEnds, WriterInv
<1>8. CASE job.n # 0 /\ job.batched /\ Budgeted
    <2>1. cut.next > job.n /\ outcome' = "inBatches" /\ parts' = Flushed
        BY <1>8 DEF CutEnds
    <2>2. cut.next = job.n + 1
        <3>1. cut.next \in Int /\ cut.next <= job.n + 1
            BY <1>1 DEF CutInv
        <3>2. job.n \in Int
            BY <1>4
        <3>3. cut.next > job.n
            BY <2>1
        <3>. QED
            BY <3>1, <3>2, <3>3
    <2>3. Covers(parts', 1, job.n) /\ AllInBudget(job, parts')
        <3>1. cut.next - 1 = job.n
            BY <1>4, <2>2
        <3>. QED
            BY <1>1, <2>1, <3>1, FlushedCovers
    <2>4. halves' = <<>> /\ part' = NoBatch /\ part'.last = 0 /\ part' \in [first : Int, last : Int]
        BY <1>1, <1>2 DEF NothingSent, NoBatch, Batch
    <2>5. Covers(halves', 1, 0) /\ AllInBudget(job, halves')
        <3>1. 1 - 1 = 0 /\ Len(<<>>) = 0
            BY EmptySeq
        <3>2. Covers(<<>>, 1, 1 - 1)
            BY CoversNone
        <3>. QED
            BY <2>4, <3>1, <3>2 DEF AllInBudget
    <2>6. BatchesInv(job)'
        BY <1>2, <1>3, <1>4, <1>8, <2>3, <2>4, <2>5 DEF BatchesInv
    <2>. QED
        BY <1>1, <1>2, <1>3, <1>4, <2>1, <2>6 DEF WriterInv
<1>. QED
    BY <1>5, <1>6, <1>7, <1>8

\* A batch is begun when the one before it is reported.
LEMMA BeginPartKeeps ==
    ASSUME WriterInv, BeginPart PROVE WriterInv'
<1>1. outcome = "inBatches" /\ halves = <<>> /\ IsJob(job) /\ BatchesInv(job)
    BY DEF BeginPart, WriterInv
<1>2. job' = job /\ cut' = cut /\ sent' = sent /\ reported' = reported /\ full' = full
    BY DEF BeginPart
<1>3. SentRows' = SentRows
    BY <1>2 DEF SentRows
<1>4. /\ CutInv(job', cut') /\ Covers(sent', 1, SentRows') /\ AllTaken(job', sent') /\ IsJob(job')
      /\ reported' \in Nat /\ SentRows' \in Nat /\ reported' <= SentRows' /\ SentRows' <= job'.n
    BY <1>2, <1>3 DEF WriterInv
<1>5. part.last \in Int /\ SentRows \in Int /\ SentRows + 1 \in Int /\ part.last + 1 \in Int /\ job.n \in Int
    BY <1>1, JobTyped DEF BatchesInv, WriterInv
<1>6. /\ Covers(halves, SentRows + 1, part.last) /\ Covers(parts, part.last + 1, job.n) /\ AllInBudget(job, parts)
      /\ job.batched /\ reported = part.last
    BY <1>1 DEF BatchesInv
<1>7. part.last = SentRows
    <2>1. part.last = (SentRows + 1) - 1
        BY <1>1, <1>5, <1>6, CoversRange
    <2>. QED
        BY <1>5, <2>1
<1>8. CASE parts = <<>>
    <2>1. job.n = (part.last + 1) - 1
        BY <1>5, <1>6, <1>8, CoversRange
    <2>2. outcome' = "done"
        BY <1>8 DEF BeginPart
    <2>3. SentRows' = job'.n /\ reported' = job'.n
        BY <1>2, <1>3, <1>5, <1>6, <1>7, <2>1
    <2>. QED
        BY <1>4, <2>2, <2>3 DEF WriterInv
<1>9. CASE parts # <<>>
    <2>1. part' = Head(parts) /\ halves' = <<Head(parts)>> /\ parts' = Tail(parts) /\ outcome' = "inBatches"
        BY <1>1, <1>9 DEF BeginPart
    <2>2. /\ Head(parts) \in Batches /\ Head(parts).first = part.last + 1
          /\ Covers(Tail(parts), Head(parts).last + 1, job.n)
        BY <1>5, <1>6, <1>9, CoversTail
    <2>3. parts \in Seq(Batches)
        BY <1>6 DEF Covers
    <2>4. InBudget(job, Head(parts)) /\ AllInBudget(job, Tail(parts))
        BY <1>6, <1>9, <2>3, TailInBudget
    <2> DEFINE b == Head(parts)
    <2>5. b \in Batches /\ b.first = part.last + 1 /\ InBudget(job, b)
        BY <2>2, <2>4
    <2>6. part' = b /\ halves' = <<b>> /\ Covers(parts', b.last + 1, job.n) /\ AllInBudget(job, parts')
        BY <2>1, <2>2, <2>4
    <2> HIDE DEF b
    <2>7. b.first \in Int /\ b.last \in Int /\ b \in [first : Int, last : Int] /\ b.first <= b.last
        BY <2>5 DEF Batches
    <2>8. Covers(<<b>>, b.first, b.last) /\ AllInBudget(job, <<b>>)
        <3>1. <<b>> = Append(<<>>, b) /\ <<>> \in Seq(Batches) /\ AllInBudget(job, <<>>)
            BY DEF AllInBudget
        <3>2. Covers(<<>>, b.first, b.first - 1) /\ b.first - 1 \in Int /\ b.first = (b.first - 1) + 1
            BY <2>7, CoversNone
        <3>3. Covers(Append(<<>>, b), b.first, b.last)
            BY <2>5, <2>7, <3>2, CoversAppend
        <3>4. AllInBudget(job, Append(<<>>, b))
            BY <2>5, <3>1, AppendInBudget
        <3>. QED
            BY <3>1, <3>3, <3>4
    <2>9. b.first = SentRows' + 1 /\ reported' = b.first - 1
        BY <1>2, <1>3, <1>5, <1>6, <1>7, <2>5
    <2>10. halves' # <<>>
        BY <2>6
    <2>11. BatchesInv(job)'
        BY <1>2, <1>6, <2>6, <2>7, <2>8, <2>9, <2>10 DEF BatchesInv
    <2>. QED
        BY <1>4, <2>1, <2>11 DEF WriterInv
<1>. QED
    BY <1>8, <1>9

\* What is left of a batch begins with the next row to send.
LEMMA AtHead ==
    ASSUME WriterInv, Sending
    PROVE  /\ IsJob(job) /\ BatchesInv(job) /\ outcome = "inBatches" /\ halves \in Seq(Batches) /\ halves # <<>>
           /\ Head(halves) \in Batches /\ Head(halves).first = SentRows + 1
           /\ Head(halves).first <= Head(halves).last /\ Head(halves).last \in Int
           /\ Head(halves).last <= part.last /\ part.last <= job.n
           /\ Covers(Tail(halves), Head(halves).last + 1, part.last)
           /\ InBudget(job, Head(halves)) /\ AllInBudget(job, Tail(halves))
           /\ part.first \in Int /\ part.last \in Int /\ SentRows \in Nat /\ job.n \in Nat /\ reported = part.first - 1
<1>1. outcome = "inBatches" /\ halves # <<>> /\ IsJob(job) /\ BatchesInv(job) /\ SentRows \in Nat
    BY DEF Sending, WriterInv
<1>2. /\ part.first \in Int /\ part.last \in Int /\ SentRows + 1 \in Int /\ part.last + 1 \in Int /\ job.n \in Nat
      /\ reported = part.first - 1
    BY <1>1, JobTyped DEF BatchesInv
<1>3. Covers(halves, SentRows + 1, part.last) /\ AllInBudget(job, halves) /\ Covers(parts, part.last + 1, job.n)
    BY <1>1 DEF BatchesInv
<1>4. halves \in Seq(Batches)
    BY <1>3 DEF Covers
<1>5. /\ Head(halves) \in Batches /\ Head(halves).first = SentRows + 1 /\ Head(halves).last <= part.last
      /\ Covers(Tail(halves), Head(halves).last + 1, part.last)
    BY <1>1, <1>2, <1>3, CoversTail
<1>6. Head(halves).first <= Head(halves).last /\ Head(halves).last \in Int
    BY <1>5, BatchIs
<1>7. (part.last + 1) - 1 <= job.n
    BY <1>2, <1>3, CoversRange
<1>8. part.last <= job.n
    BY <1>2, <1>7
<1>9. InBudget(job, Head(halves)) /\ AllInBudget(job, Tail(halves))
    BY <1>1, <1>3, <1>4, TailInBudget
<1>. QED
    BY <1>1, <1>2, <1>4, <1>5, <1>6, <1>8, <1>9

\* A batch written continues those sent, and its last part reports it.
LEMMA WrittenKeeps ==
    ASSUME WriterInv, Written PROVE WriterInv'
<1> DEFINE b == Head(halves)
<1>1. Sending
    BY DEF Written
<1>2. /\ IsJob(job) /\ BatchesInv(job) /\ outcome = "inBatches" /\ halves \in Seq(Batches) /\ halves # <<>>
      /\ b \in Batches /\ b.first = SentRows + 1
      /\ b.first <= b.last /\ b.last \in Int
      /\ b.last <= part.last /\ part.last <= job.n
      /\ Covers(Tail(halves), b.last + 1, part.last)
      /\ InBudget(job, b) /\ AllInBudget(job, Tail(halves))
      /\ part.first \in Int /\ part.last \in Int /\ SentRows \in Nat /\ job.n \in Nat /\ reported = part.first - 1
    BY <1>1, AtHead
<1>3. /\ OnWire(b) <= job.limit /\ sent' = Append(sent, b) /\ halves' = Tail(halves)
      /\ reported' = IF Len(halves) = 1 THEN reported + SizeOf(part) ELSE reported
      /\ job' = job /\ cut' = cut /\ parts' = parts /\ part' = part /\ full' = full /\ outcome' = outcome
    BY DEF Written
<1> HIDE DEF b
<1>4. sent \in Seq(Batches) /\ Covers(sent, 1, SentRows) /\ AllTaken(job, sent)
    BY DEF WriterInv, Covers
<1>5. SentRows' = b.last
    BY <1>2, <1>3, <1>4, SentRowsAppended
<1>6. Covers(sent', 1, SentRows')
    BY <1>2, <1>3, <1>4, <1>5, CoversAppend
<1>7. Taken(job, b)
    BY <1>2, <1>3 DEF Taken, BatchesInv, OnWire
<1>8. AllTaken(job', sent')
    BY <1>2, <1>3, <1>4, <1>7, AppendTaken
<1>9. reported + SizeOf(part) = part.last
    <2>1. SizeOf(part) = part.last - part.first + 1 /\ part.first \in Int /\ part.last \in Int /\ reported = part.first - 1
        BY <1>2 DEF SizeOf
    <2>. QED
        BY <2>1
<1>10. Len(halves) = 1 <=> halves' = <<>>
    <2>1. Len(halves) \in Nat /\ Len(halves) >= 1
        BY <1>2, EmptySeq
    <2>2. Tail(halves) \in Seq(Batches) /\ Len(Tail(halves)) = Len(halves) - 1
        BY <1>2, HeadTailProperties
    <2>3. Tail(halves) = <<>> <=> Len(Tail(halves)) = 0
        BY <2>2, EmptySeq
    <2>. QED
        BY <1>3, <2>1, <2>2, <2>3
<1>11. reported \in Nat /\ reported <= SentRows
    BY DEF WriterInv
<1>12. halves' = <<>> => reported' = part'.last /\ part.last = b.last
    <2>1. ASSUME halves' = <<>> PROVE part.last = b.last
        <3>1. Tail(halves) = <<>> /\ b.last + 1 \in Int
            BY <1>2, <1>3, <2>1
        <3>2. part.last = (b.last + 1) - 1
            BY <1>2, <3>1, CoversRange
        <3>. QED
            BY <1>2, <3>2
    <2>. QED
        BY <1>3, <1>9, <1>10, <2>1
<1>13. halves' # <<>> => reported' = part'.first - 1 /\ reported' = reported
    BY <1>2, <1>3, <1>10
<1>14. reported' \in Nat /\ SentRows' \in Nat /\ reported' <= SentRows' /\ SentRows' <= job'.n
    <2>1. SentRows' \in Nat /\ SentRows' <= job'.n /\ SentRows <= SentRows'
        BY <1>2, <1>3, <1>5
    <2>2. CASE halves' = <<>>
        BY <1>2, <1>3, <1>5, <1>12, <2>1, <2>2
    <2>3. CASE halves' # <<>>
        BY <1>2, <1>11, <1>13, <2>1, <2>3
    <2>. QED
        BY <2>2, <2>3
<1>15. BatchesInv(job)'
    <2>1. Covers(halves', SentRows' + 1, part'.last) /\ AllInBudget(job', halves')
        BY <1>2, <1>3, <1>5
    <2>. QED
        BY <1>2, <1>3, <1>12, <1>13, <2>1 DEF BatchesInv
<1>16. CutInv(job', cut') /\ IsJob(job')
    BY <1>3 DEF WriterInv
<1>. QED
    BY <1>2, <1>3, <1>6, <1>8, <1>14, <1>15, <1>16 DEF WriterInv

\* A batch refused for its size is halved, or is the row that is not sent.
LEMMA ExhaustedKeeps ==
    ASSUME WriterInv, Exhausted PROVE WriterInv'
<1> DEFINE b == Head(halves)
<1>1. Sending
    BY DEF Exhausted
<1>2. /\ IsJob(job) /\ BatchesInv(job) /\ outcome = "inBatches" /\ halves \in Seq(Batches) /\ halves # <<>>
      /\ b \in Batches /\ b.first = SentRows + 1
      /\ b.first <= b.last /\ b.last \in Int
      /\ b.last <= part.last /\ part.last <= job.n
      /\ part.first \in Int /\ part.last \in Int /\ SentRows \in Nat /\ job.n \in Nat /\ reported = part.first - 1
    BY <1>1, AtHead
<1>3. /\ job' = job /\ cut' = cut /\ parts' = parts /\ part' = part /\ sent' = sent /\ reported' = reported
      /\ full' = (full \/ OnWire(b) <= job.limit)
    BY DEF Exhausted
<1>4. /\ SizeOf(b) <= 1 => outcome' = "rowRefused"
      /\ ~(SizeOf(b) <= 1) => halves' = Halves(Head(halves)) \o Tail(halves) /\ outcome' = "inBatches"
    BY <1>2 DEF Exhausted
<1>5. SentRows' = SentRows
    BY <1>3 DEF SentRows
<1>6. /\ CutInv(job', cut') /\ Covers(sent', 1, SentRows') /\ AllTaken(job', sent') /\ IsJob(job')
      /\ reported' \in Nat /\ SentRows' \in Nat /\ reported' <= SentRows' /\ SentRows' <= job'.n
    BY <1>3, <1>5 DEF WriterInv
<1>7. SizeOf(b) = b.last - b.first + 1 /\ b = Batch(b.first, b.last)
    BY <1>2, BatchIs
<1>8. CASE SizeOf(b) <= 1
    <2>1. b.last = SentRows + 1 /\ SentRows < job.n
        <3>. HIDE DEF b
        <3>. QED
            BY <1>2, <1>7, <1>8
    <2>2. b = Batch(SentRows + 1, SentRows + 1)
        BY <1>2, <1>7, <2>1
    <2>3. full' \/ ArrayOf(job.bytes, b) > job.limit
        <3>1. b.last <= job.n
            BY <1>2
        <3>2. ArrayOf(job.bytes, b) \in Int /\ job.limit \in Int
            BY <1>2, <3>1, MeasureTyped, JobTyped
        <3>3. OnWire(b) = ArrayOf(job.bytes, b)
            BY DEF OnWire
        <3>. HIDE DEF b
        <3>4. CASE OnWire(b) <= job.limit
            BY <1>3, <3>4
        <3>5. CASE ~(OnWire(b) <= job.limit)
            BY <3>2, <3>3, <3>5
        <3>. QED
            BY <3>4, <3>5
    <2>4. SingleRowRefused(job)'
        BY <1>3, <1>5, <2>2, <2>3 DEF SingleRowRefused
    <2>5. outcome' = "rowRefused" /\ SentRows' < job'.n
        BY <1>3, <1>4, <1>5, <1>8, <2>1
    <2>. QED
        BY <1>6, <2>4, <2>5, <1>3 DEF WriterInv
<1>9. CASE SizeOf(b) > 1
    <2>1. ~(SizeOf(b) <= 1)
        <3>1. SizeOf(b) \in Int
            BY <1>2, <1>7
        <3>. HIDE DEF b
        <3>. QED
            BY <1>9, <3>1
    <2>2. Covers(halves, SentRows + 1, part.last) /\ AllInBudget(job, halves) /\ SentRows + 1 \in Int
        BY <1>2 DEF BatchesInv
    <2>3. halves' # <<>> /\ Covers(halves', SentRows + 1, part.last) /\ AllInBudget(job, halves')
        BY <1>2, <1>4, <1>9, <2>1, <2>2, HalvedCovers
    <2>4. BatchesInv(job)'
        BY <1>2, <1>3, <1>5, <2>3 DEF BatchesInv
    <2>5. outcome' = "inBatches"
        BY <1>4, <2>1
    <2>. QED
        BY <1>6, <2>4, <2>5 DEF WriterInv
<1>10. SizeOf(b) <= 1 \/ SizeOf(b) > 1
    <2>1. SizeOf(b) \in Int
        BY <1>2, <1>7
    <2> HIDE DEF b
    <2>. QED
        BY <2>1
<1>. QED
    BY <1>8, <1>9, <1>10

\* Any other error leaves a row that is not sent.
LEMMA FailedKeeps ==
    ASSUME WriterInv, Failed PROVE WriterInv'
<1>1. Sending /\ outcome' = "failed" /\ job' = job /\ cut' = cut /\ sent' = sent /\ reported' = reported
    BY DEF Failed, writing
<1>2. SentRows' = SentRows
    BY <1>1 DEF SentRows
<1>3. SentRows < job.n
    <2>1. /\ Head(halves).first = SentRows + 1 /\ Head(halves).first <= Head(halves).last /\ Head(halves).last \in Int
          /\ Head(halves).last <= part.last /\ part.last <= job.n /\ part.last \in Int /\ SentRows \in Nat /\ job.n \in Nat
        BY <1>1, AtHead
    <2>. QED
        BY <2>1
<1>4. /\ CutInv(job', cut') /\ Covers(sent', 1, SentRows') /\ AllTaken(job', sent') /\ IsJob(job')
      /\ reported' \in Nat /\ SentRows' \in Nat /\ reported' <= SentRows' /\ SentRows' <= job'.n
    BY <1>1, <1>2 DEF WriterInv
<1>. QED
    BY <1>1, <1>2, <1>3, <1>4 DEF WriterInv

\* Row by row, each row is sent and reported.
LEMMA WriteRowKeeps ==
    ASSUME WriterInv, WriteRow PROVE WriterInv'
<1>1. outcome = "rowByRow" /\ IsJob(job) /\ reported = SentRows /\ reported \in Nat /\ SentRows <= job.n /\ job.n \in Nat
    BY JobTyped DEF WriteRow, WriterInv
<1>2. job' = job /\ cut' = cut /\ parts' = parts /\ halves' = halves /\ part' = part /\ full' = full
    BY DEF WriteRow
<1>3. CutInv(job', cut') /\ IsJob(job') /\ Covers(sent, 1, SentRows) /\ AllTaken(job, sent) /\ sent \in Seq(Batches)
    BY <1>2 DEF WriterInv, Covers
<1>4. CASE sent' = sent /\ reported' = reported /\ reported = job.n /\ outcome' = "done"
    <2>1. SentRows' = SentRows
        BY <1>4 DEF SentRows
    <2>. QED
        BY <1>1, <1>2, <1>3, <1>4, <2>1 DEF WriterInv
<1>5. CASE sent' = sent /\ reported' = reported /\ reported # job.n /\ outcome' = "failed"
    <2>1. SentRows' = SentRows
        BY <1>5 DEF SentRows
    <2>2. SentRows' < job'.n
        BY <1>1, <1>2, <1>5, <2>1
    <2>. QED
        BY <1>1, <1>2, <1>3, <1>5, <2>1, <2>2 DEF WriterInv
<1>6. CASE /\ reported # job.n /\ OnWire(NextRow) <= job.limit
           /\ sent' = Append(sent, NextRow) /\ reported' = reported + 1 /\ outcome' = outcome
    <2> DEFINE b == NextRow
    <2>1. b \in Batches /\ b.first = reported + 1 /\ b.last = reported + 1
        BY <1>1, BatchTyped DEF NextRow
    <2>2. InBudget(job, b) /\ SizeOf(b) = 1
        <3>1. reported + 1 \in Int
            BY <1>1
        <3>2. InBudget(job, b)
            BY <3>1, OneRowInBudget DEF NextRow
        <3>3. SizeOf(b) = b.last - b.first + 1
            BY <2>1, BatchIs
        <3>. HIDE DEF b
        <3>. QED
            BY <1>1, <2>1, <3>2, <3>3
    <2>3. OnWire(b) <= job.limit /\ sent' = Append(sent, b)
        BY <1>6
    <2> HIDE DEF b
    <2>4. SentRows' = reported + 1
        BY <1>3, <2>1, <2>3, SentRowsAppended
    <2>5. Covers(sent', 1, SentRows')
        BY <1>1, <1>3, <2>1, <2>3, <2>4, CoversAppend
    <2>6. Taken(job, b)
        BY <2>2, <2>3 DEF Taken, OnWire
    <2>7. AllTaken(job', sent')
        BY <1>2, <1>3, <2>1, <2>3, <2>6, AppendTaken
    <2>8. reported' = SentRows' /\ reported' \in Nat /\ SentRows' \in Nat /\ SentRows' <= job'.n
        BY <1>1, <1>2, <1>6, <2>4
    <2>. QED
        BY <1>1, <1>3, <1>6, <2>5, <2>7, <2>8 DEF WriterInv
<1>. QED
    BY <1>1, <1>4, <1>5, <1>6 DEF WriteRow

\* The invariant holds before anything is cut.
LEMMA WriterInvFromInit == WriterInit => WriterInv
<1> SUFFICES ASSUME WriterInit PROVE WriterInv
    OBVIOUS
<1>1. IsJob(job)
    BY JobsAssumption DEF WriterInit
<1>2. /\ cut = [out |-> <<>>, first |-> 1, next |-> 1, bytes |-> Overhead]
      /\ NothingSent /\ outcome = "cutting"
    BY DEF WriterInit, WriterStarts, NothingSent
<1>3. SentRows = 0 /\ sent = <<>> /\ reported = 0
    BY <1>2 DEF SentRows, NothingSent
<1>4. Covers(<<>>, 1, 0)
    <2>1. 1 - 1 = 0
        OBVIOUS
    <2>2. Covers(<<>>, 1, 1 - 1)
        BY CoversNone
    <2>. QED
        BY <2>1, <2>2
<1>5. <<>> \in Seq(Batches) /\ AllTaken(job, <<>>) /\ AllInBudget(job, <<>>) /\ job.n \in Nat
    BY <1>1, EmptySeq, JobTyped DEF AllTaken, AllInBudget
<1>6. CutInv(job, cut)
    BY <1>2, <1>4, <1>5 DEF CutInv, Overhead
<1>. QED
    BY <1>1, <1>2, <1>3, <1>4, <1>5, <1>6 DEF WriterInv

\* Every step keeps it.
LEMMA WriterInvKept == WriterInv /\ [WriterNext]_writerVars => WriterInv'
<1> SUFFICES ASSUME WriterInv, [WriterNext]_writerVars PROVE WriterInv'
    OBVIOUS
<1>1. CASE UNCHANGED writerVars
    <2>1. /\ job' = job /\ cut' = cut /\ parts' = parts /\ halves' = halves /\ part' = part /\ sent' = sent
          /\ reported' = reported /\ full' = full /\ outcome' = outcome
        BY <1>1 DEF writerVars
    <2>2. SentRows' = SentRows
        BY <2>1 DEF SentRows
    <2>3. /\ NothingSent => NothingSent'
          /\ BatchesInv(job) => BatchesInv(job)'
          /\ SingleRowRefused(job) => SingleRowRefused(job)'
        BY <2>1, <2>2 DEF NothingSent, BatchesInv, SingleRowRefused
    <2>. QED
        BY <2>1, <2>2, <2>3 DEF WriterInv
<1>. QED
    BY <1>1, PlaceAloneKeeps, PlaceInNextKeeps, PlaceInCurrentKeeps, CutEndsKeeps, BeginPartKeeps, WrittenKeeps,
       ExhaustedKeeps, FailedKeeps, WriteRowKeeps DEF WriterNext

\* It implies that every row is written.
LEMMA WriterInvSuffices == WriterInv => EveryRowWritten
<1> SUFFICES ASSUME WriterInv PROVE EveryRowWritten
    OBVIOUS
<1>1. ASSUME NEW i \in 1..Len(sent)
      PROVE  LET b == sent[i] IN
             /\ b.first = (IF i = 1 THEN 1 ELSE sent[i - 1].last + 1) /\ b.first <= b.last
             /\ OnWire(b) <= job.limit
             /\ SizeOf(b) = 1 \/ (job.batched /\ SizeOf(b) <= job.maxCount /\ Measured(b) <= job.maxBytes)
    <2>1. Covers(sent, 1, SentRows) /\ AllTaken(job, sent)
        BY DEF WriterInv
    <2>2. sent \in Seq(Batches) /\ Len(sent) \in Nat /\ sent[i] \in Batches /\ sent # <<>>
        BY <2>1, LenProperties DEF Covers
    <2>3. sent[i].first <= sent[i].last
        BY <2>2 DEF Batches
    <2>4. Taken(job, sent[i])
        BY <2>1 DEF AllTaken
    <2>5. i = 1 => sent[i].first = 1
        BY <2>1, <2>2 DEF Covers
    <2>6. i # 1 => sent[i].first = sent[i - 1].last + 1
        <3>1. SUFFICES ASSUME i # 1 PROVE sent[i].first = sent[i - 1].last + 1
            OBVIOUS
        <3>2. i - 1 \in 1..Len(sent) /\ i - 1 < Len(sent) /\ (i - 1) + 1 = i
            BY <2>2, <3>1
        <3>3. sent[(i - 1) + 1].first = sent[i - 1].last + 1
            BY <2>1, <3>2 DEF Covers
        <3>. QED
            BY <3>2, <3>3
    <2>. QED
        BY <2>3, <2>4, <2>5, <2>6 DEF Taken, InBudget, OnWire, Measured
<1>2. /\ reported <= SentRows /\ SentRows <= job.n
      /\ outcome = "done" => SentRows = job.n /\ reported = job.n
      /\ outcome = "failed" => SentRows < job.n
    BY DEF WriterInv
<1>3. outcome = "rowRefused" =>
          SentRows < job.n /\ (full \/ OnWire(Batch(SentRows + 1, SentRows + 1)) > job.limit)
    BY DEF WriterInv, SingleRowRefused, OnWire
<1>. QED
    BY <1>1, <1>2, <1>3 DEF EveryRowWritten

\* However the rows of a group are cut into batches, refused for their size and
\* halved, each is sent once and in order up to the first that cannot be, no
\* message is over the limit or, but for a single row, over the budget, and an
\* error is reported exactly if a row was not sent (writeWithAdaptiveSplit(),
\* chunkByBudget()).
THEOREM EveryRowAlwaysWritten == WriterSpec => []EveryRowWritten
<1>1. WriterInit => WriterInv
    BY WriterInvFromInit
<1>2. WriterInv /\ [WriterNext]_writerVars => WriterInv'
    BY WriterInvKept
<1>3. WriterInv => EveryRowWritten
    BY WriterInvSuffices
<1>. QED
    BY <1>1, <1>2, <1>3, PTL DEF WriterSpec
=============================================================================
