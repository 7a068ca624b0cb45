------------------------------ MODULE Queries ------------------------------
(***************************************************************************)
(* The read-only query use cases of src/application/querying, each as the  *)
(* set of answers it may give on a graph of CodeGraph.                     *)
(***************************************************************************)
EXTENDS CodeGraph

-----------------------------------------------------------------------------
(* Impact analysis (impact-analysis.ts, explainability.ts)                 *)

ClassifyNodeRole(in, out) ==
    CASE in = 0 /\ out = 0 -> "Isolated"
      [] in = 0 /\ out > 0 -> "EntryPoint"
      [] in > 0 /\ out = 0 -> "Utility"
      [] in > 0 /\ out > 0 -> IF (in <= 2 /\ out > 5) \/ (out <= 2 /\ in > 5)
                              THEN "Adapter" ELSE "CoreLogic"

\* Edges of all labels into and out of a symbol.
InDegree(g, s) == Cardinality({e \in Labels \X Ids(g) : <<e[2], s>> \in g.edges[e[1]]})
OutDegree(g, s) == Cardinality({e \in Labels \X Ids(g) : <<s, e[2]>> \in g.edges[e[1]]})

\* How sure the tool is that a node is affected, in percent: 95 for a direct
\* caller, 12 less for each further hop, less again for a structural edge and
\* for a node nothing is known to use.
ExplainAffectedNode(g, s, edge, hops) ==
    LET role == ClassifyNodeRole(InDegree(g, s), OutDegree(g, s))
        weak == IF edge \in {"calls", "references", "imports"} THEN 0 ELSE 10
        alone == IF role # "Isolated" THEN 0 ELSE IF g.at[s].public THEN 15 ELSE 35
    IN  [node |-> s, role |-> role, entryEdge |-> edge, hops |-> hops,
         confidence |-> Max({0, 95 - 12 * (hops - 1) - weak - alone})]

\* The 1-hop callers by any edge; of several edges the first row counts.
BuildExplanations(g, T, shown) ==
    LET entries(s) ==
            LET direct == UNION {Between(g, s, t) : t \in T}
            IN  IF direct = {} THEN {<<"calls", 2>>} ELSE direct \X {1}
    IN  {{ExplainAffectedNode(g, s, pick[s][1], pick[s][2]) : s \in shown} :
            pick \in {f \in [shown -> (Labels \X {1, 2})] : \A s \in shown : f[s] \in entries(s)}}

NoImpact(g) ==
    [kind |-> "not_found", symbols |-> {}, dependents |-> {}, risk |-> "low",
     confidence |-> 50, flows |-> {}, clusters |-> {}, explained |-> {}]

\* The external dependency whose name or alias contains the text.
ExternalImpact(g, x, maxResults) ==
    LET deps == {e[1] : e \in {d \in g.dependsOn : d[2] = x}}
    IN  {[kind |-> "external", symbols |-> shown, dependents |-> deps,
          risk |-> Risk(g, deps), confidence |-> IF deps # {} THEN 92 ELSE 75,
          flows |-> UNION {ProcessesOf(g, {d}) : d \in deps}, clusters |-> {},
          explained |-> {}] : shown \in Slices(deps, maxResults)}

\* Impact on the symbols called q: dependents, processes and clusters are
\* looked up by q itself, whatever row the resolution picked.
SymbolImpact(g, q, res, maxResults, maxDepth) ==
    LET T    == Named(g, q)
        deps == Dependents(g, T, ClampTraversalDepth(maxDepth))
    IN  UNION {{[kind |-> res.kind, symbols |-> {res.node} \union shown,
                 dependents |-> deps, risk |-> Risk(g, deps),
                 confidence |-> IF deps # {} THEN 92 ELSE 75,
                 flows |-> ProcessesOf(g, T), clusters |-> ClustersOf(g, T),
                 explained |-> why] : why \in BuildExplanations(g, T, shown)} :
               shown \in Slices(deps, maxResults - 1)}

ExternalsLike(g, q) == {x \in g.externals : <<q, x>> \in Within}

ExecuteImpactAnalysis(g, q, maxResults, maxDepth) ==
    IF Named(g, q) = {} /\ ExternalsLike(g, q) # {}
    THEN UNION {ExternalImpact(g, x, maxResults) : x \in
                   {x \in ExternalsLike(g, q) : \A y \in ExternalsLike(g, q) : Length[x] <= Length[y]}}
    ELSE UNION {IF res.kind = "not_found" THEN {NoImpact(g)}
                ELSE SymbolImpact(g, q, res, maxResults, maxDepth) : res \in ResolveSymbol(g, q)}

-----------------------------------------------------------------------------
(* Symbol context (context-retrieval.ts) and its slices (context-slice.ts) *)

ExecuteContextRetrieval(g, q) ==
    {IF res.kind = "not_found"
     THEN [kind |-> "not_found", target |-> {}, callers |-> {}, callees |-> {},
           flows |-> {}, clusters |-> {}, externals |-> {}, confidence |-> 50]
     ELSE LET T == Named(g, q)
              found == [kind |-> res.kind, target |-> {res.node},
                        callers |-> Dependents(g, T, MaxDepth),
                        callees |-> Dependencies(g, T),
                        flows |-> ProcessesOf(g, T), clusters |-> ClustersOf(g, T),
                        externals |-> ExternalsOf(g, T), confidence |-> 92]
          IN  IF found.callers \union found.callees \union found.flows
                 \union found.clusters \union found.externals # {}
              THEN found ELSE [found EXCEPT !.confidence = 75]
     : res \in ResolveSymbol(g, q)}

\* One symbol of the pass of sliceContext over those that are not pinned: over
\* the budget it is skipped, and the next one is tried.
Take(g, budget, taken, s) ==
    IF budget # 0 /\ taken.total + g.at[s].tokens > budget THEN taken
    ELSE [ids |-> Append(taken.ids, s), total |-> taken.total + g.at[s].tokens]

TakeWithin(g, rest, total, budget, ids) ==
    FoldLeft(LAMBDA taken, s : Take(g, budget, taken, s), [ids |-> ids, total |-> total], rest)

Firsts(list) == FoldLeft(LAMBDA seen, s : IF s \in Range(seen) THEN seen ELSE Append(seen, s), << >>, list)

\* The first occurrence of each symbol: the target wins over a caller, a
\* caller over a callee.
Visited(target, callers, callees) == Firsts(<<target>> \o callers \o callees)

\* Those of a list that are in a set.
Those(list, set) == FoldLeft(LAMBDA kept, s : IF s \in set THEN Append(kept, s) ELSE kept, << >>, list)

\* The target is at depth 0, its neighbours are at depth 1.
NearBy(list, target, maxDepth) == Those(list, {s \in Range(list) : (IF s = target THEN 0 ELSE 1) <= maxDepth})

TokensOf(g, list) == FoldLeft(LAMBDA n, s : n + g.at[s].tokens, 0, list)

SliceReason(taken, pinned, near, unpinned) ==
    IF Len(taken.ids) < Len(pinned) + Len(near) THEN "token_budget"
    ELSE IF Len(near) < Len(unpinned) THEN "max_depth"
    ELSE "complete"

\* Regression: the tokens of the pinned symbols are not counted.
SliceContextPinnedFree(g, target, callers, callees, budget, pin, maxDepth) ==
    LET ordered  == Visited(target, callers, callees)
        pinned   == Those(ordered, pin)
        unpinned == Those(ordered, Range(ordered) \ pin)
        near     == NearBy(unpinned, target, maxDepth)
        taken    == TakeWithin(g, near, 0, budget, pinned)
    IN  [symbols |-> taken.ids, total |-> taken.total, reason |-> SliceReason(taken, pinned, near, unpinned)]

\* Pinned symbols come first, whatever the budget and the depth; budget 0 is
\* no budget.
SliceContext(g, target, callers, callees, budget, pin, maxDepth) ==
    LET ordered  == Visited(target, callers, callees)
        pinned   == Those(ordered, pin)
        unpinned == Those(ordered, Range(ordered) \ pin)
        near     == NearBy(unpinned, target, maxDepth)
        taken    == TakeWithin(g, near, TokensOf(g, pinned), budget, pinned)
    IN  [symbols |-> taken.ids, total |-> taken.total, reason |-> SliceReason(taken, pinned, near, unpinned)]

-----------------------------------------------------------------------------
(* Data flow (data-flow-trace.ts): the dependencies by layer               *)

OrderedLayers == <<"api", "controller", "service", "repository", "model">>

\* at[s].layer is what classifyLayer() makes of name, path and signature.
ExecuteDataFlowTrace(g, q) ==
    {IF res.kind = "not_found"
     THEN [kind |-> "not_found", path |-> {}, layers |-> {}, confidence |-> 50]
     ELSE LET deps == Dependencies(g, Named(g, q))
              in(l) == {d \in deps : g.at[d].layer = l} \union
                       (IF l = "api" THEN {res.node} ELSE {})
              path == UNION {in(l) : l \in Range(OrderedLayers)}
              full == in("controller") # {} /\ in("model") # {}
              more == {d \in deps : g.at[d].layer \in Range(OrderedLayers)}
          IN  [kind |-> res.kind, path |-> path,
               layers |-> {l \in Range(OrderedLayers) : in(l) # {}},
               confidence |-> IF full THEN 92 ELSE IF more # {} THEN 75 ELSE 60]
     : res \in ResolveSymbol(g, q)}

-----------------------------------------------------------------------------
(* Shortest path (trace-path.ts): a breadth first search, bounded          *)

\* The frontier after k hops, and everything visited by then.
Frontiers(E, start, n) ==
    LET fr[k \in 0..n] ==
            IF k = 0 THEN [new |-> {start}, seen |-> {start}]
            ELSE LET new == After(E, fr[k - 1].new) \ fr[k - 1].seen
                 IN  [new |-> new, seen |-> fr[k - 1].seen \union new]
    IN  fr

\* The paths the search may return: one hop from each frontier to the next,
\* whichever row came first.  None if the goal is not met in time.
BfsShortestPath(E, start, goal, maxEdges) ==
    LET fr   == Frontiers(E, start, maxEdges)
        met  == {k \in 0..maxEdges : goal \in fr[k].new}
        back[k \in 0..maxEdges] ==
            IF k = 0 THEN {<<start>>}
            ELSE UNION {{Append(p, s) : p \in {q \in back[k - 1] : <<Last(q), s>> \in E}} : s \in fr[k].new}
    IN  IF met = {} THEN {} ELSE {p \in back[Min(met)] : Last(p) = goal}

TraceEdges(g) == g.edges["calls"] \union g.edges["contains"]

ExecuteTracePath(g, from, to, maxDepth) ==
    UNION {IF f.kind = "not_found" \/ t.kind = "not_found"
           THEN {[from |-> f, to |-> t, found |-> FALSE, hops |-> << >>]}
           ELSE LET paths == BfsShortestPath(TraceEdges(g), f.node, t.node, ClampTraversalDepth(maxDepth))
                IN  IF paths = {} THEN {[from |-> f, to |-> t, found |-> FALSE, hops |-> << >>]}
                    ELSE {[from |-> f, to |-> t, found |-> TRUE, hops |-> p] : p \in paths} :
           f \in ResolveSymbol(g, from), t \in ResolveSymbol(g, to)}

-----------------------------------------------------------------------------
(* Rename plan (rename-plan.ts): a preview, file by file and line by line  *)

\* A name is narrowed to a file first, exactly and then by CONTAINS.
ResolveRenameTarget(g, q, file) ==
    LET inFile == {s \in Ids(g) : g.at[s].file = file}
        exact  == Named(g, q) \cap inFile
        close  == {s \in inFile : <<q, g.at[s].name>> \in Within}
    IN  IF exact # {} THEN {Exact(s) : s \in exact}
        ELSE IF close # {} THEN {[kind |-> "fuzzy", node |-> s] : s \in close}
        ELSE ResolveSymbol(g, q)

FindReferenceSites(g, t) ==
    Before(g.edges["calls"] \union g.edges["imports"] \union g.edges["references"], {t})

Site(g, s, kind) == [file |-> g.at[s].file, line |-> g.at[s].start, kind |-> kind, at |-> s]

BuildRenamePlan(g, q, file) ==
    {IF res.kind = "not_found" THEN [kind |-> "not_found", target |-> {}, edits |-> {}]
     ELSE [kind |-> res.kind, target |-> {res.node},
           edits |-> {Site(g, res.node, "definition")} \union
                     {Site(g, r, "reference") : r \in FindReferenceSites(g, res.node)}]
     : res \in ResolveRenameTarget(g, q, file)}

-----------------------------------------------------------------------------
(* Dead code and hotspots (dead-code.ts, hotspots.ts)                      *)

Uncalled(g) == {s \in Ids(g) : Before(g.edges["calls"], {s}) = {}}

DeadCode(g, kinds) ==
    {s \in Uncalled(g) : /\ g.at[s].kind \in kinds
                         /\ ~IsExported(g, s)
                         /\ g.at[s].name \notin EntryNames}

\* The candidates shown, and how many there are.
FindDeadCode(g, kinds, maxResults) ==
    {[shown |-> S, total |-> Cardinality(DeadCode(g, kinds))] : S \in Slices(DeadCode(g, kinds), maxResults)}

\* The most complex symbols first; ties are broken by id, so the pages of one
\* listing do not overlap.
Hotspots(g, min) ==
    SortSeq(SetToSeq({s \in Ids(g) : g.at[s].cyclomatic > min}),
            LAMBDA s, t : \/ g.at[s].cyclomatic > g.at[t].cyclomatic
                          \/ g.at[s].cyclomatic = g.at[t].cyclomatic /\ g.at[s].rank < g.at[t].rank)

FindHotspots(g, min, skip, limit) == SubSeq(Hotspots(g, min), skip + 1, Min({skip + limit, Len(Hotspots(g, min))}))

-----------------------------------------------------------------------------
(* Changes (changed-symbols.ts, pre-commit-check.ts, detect-changes-tool)  *)

IsWholeFileChange(d) == d.status = "deleted" \/ d.hunks = {}

\* Regression: a hunk on the first line of a symbol misses it.
OverlapsStrict(g, s, h) == g.at[s].start < h[1] + Max({h[2], 1}) - 1 /\ g.at[s].end >= h[1]

\* A hunk is <<newStart, newLines>>; a pure deletion counts as its one line.
Overlaps(g, s, h) == g.at[s].start <= h[1] + Max({h[2], 1}) - 1 /\ g.at[s].end >= h[1]

\* The symbols a diff touches: on both paths of a rename.
ResolveChangedSymbols(g, diffs) ==
    LET paths(d) == {d.path} \union d.oldPath
        whole    == UNION {paths(d) : d \in {x \in diffs : IsWholeFileChange(x)}}
        hit(s)   == \/ g.at[s].file \in whole
                    \/ \E d \in diffs : /\ ~IsWholeFileChange(d)
                                        /\ g.at[s].file \in paths(d)
                                        /\ \E h \in d.hunks : Overlaps(g, s, h)
        hits     == {s \in Ids(g) : hit(s)}
    IN  [symbols |-> hits, files |-> {g.at[s].file : s \in hits}]

\* Every symbol of the changed files is taken as changed.
ExecutePreCommitCheck(g, files, maxResults) ==
    LET changed == {s \in Ids(g) : g.at[s].file \in files}
        deps    == UNION {Dependents(g, Named(g, s), MaxDepth) : s \in changed}
        flows   == UNION {ProcessesOf(g, Named(g, s)) : s \in changed \union deps}
    IN  [changed |-> changed, dependents |-> deps, risk |-> Risk(g, changed \union deps),
         flows |-> flows, confidence |-> IF changed = {} THEN 95 ELSE 93,
         clusters |-> UNION {ClustersOf(g, Named(g, s)) : s \in changed},
         related |-> Min({maxResults, Cardinality(deps) * Cardinality(changed)})]

\* Which tests to run: all flows at high risk, three at medium, else the
\* changed symbols and one flow.
GenerateTestRecommendations(check) ==
    CASE check.flows = {} -> [unit |-> TRUE, flows |-> 0]
      [] check.flows # {} /\ check.risk \in {"critical", "high"} -> [unit |-> FALSE, flows |-> Cardinality(check.flows)]
      [] check.flows # {} /\ check.risk = "medium" -> [unit |-> FALSE, flows |-> Min({3, Cardinality(check.flows)})]
      [] check.flows # {} /\ check.risk = "low" -> [unit |-> TRUE, flows |-> 1]

\* detect_changes: the files that own the touched symbols, or all of the diff.
ExecuteDetectChanges(g, diffs, maxResults) ==
    LET owners == ResolveChangedSymbols(g, diffs).files
        files  == IF owners # {} THEN owners ELSE {d.path : d \in diffs}
    IN  IF diffs = {} THEN ExecutePreCommitCheck(g, {}, maxResults)
        ELSE ExecutePreCommitCheck(g, files, maxResults)

-----------------------------------------------------------------------------
(* Claims (verify-claim.ts, verify-usage.ts, verify-edge.ts,               *)
(* verify-reach.ts, verify-claim-types.ts)                                 *)

Assessment(verdict, basis, dynamic) == [verdict |-> verdict, basis |-> basis, dynamic |-> dynamic]
UnresolvedAssessment == Assessment("uncertain", "absence", FALSE)

\* Regression: a symbol that is exported counts as unused like any other.
VerifyUsageUnexported(g, q) ==
    {IF res.kind = "not_found" THEN UnresolvedAssessment
     ELSE IF Before(g.edges["calls"], {res.node}) # {} THEN Assessment("refuted", "presence", FALSE)
     ELSE Assessment("confirmed", "absence", FALSE) : res \in ResolveSymbol(g, q)}

VerifyUsage(g, q) ==
    {IF res.kind = "not_found" THEN UnresolvedAssessment
     ELSE IF Before(g.edges["calls"], {res.node}) # {} THEN Assessment("refuted", "presence", FALSE)
     ELSE IF IsExported(g, res.node) \/ g.at[res.node].name \in EntryNames
          THEN Assessment("uncertain", "absence", TRUE)
     ELSE Assessment("confirmed", "absence", FALSE) : res \in ResolveSymbol(g, q)}

\* A call that is not there may still be made through a reference.
VerifyEdge(g, from, to, relation) ==
    {IF f.kind = "not_found" \/ t.kind = "not_found" THEN UnresolvedAssessment
     ELSE LET present == Between(g, f.node, t.node)
              dynamic == relation = "calls" /\ "references" \in present
          IN  IF relation \in present THEN Assessment("confirmed", "presence", FALSE)
              ELSE Assessment(IF dynamic THEN "uncertain" ELSE "refuted", "absence", dynamic)
     : f \in ResolveSymbol(g, from), t \in ResolveSymbol(g, to)}

VerifyReachability(g, from, to, polarity) ==
    {IF r.from.kind = "not_found" \/ r.to.kind = "not_found" THEN UnresolvedAssessment
     ELSE IF r.found THEN Assessment(IF polarity = "reachable" THEN "confirmed" ELSE "refuted", "presence", FALSE)
     ELSE Assessment(IF polarity = "reachable" THEN "refuted" ELSE "uncertain", "absence", FALSE)
     : r \in ExecuteTracePath(g, from, to, MaxDepth)}

\* The verdict given, with a confidence in percent.
GradeVerdict(a) ==
    LET verdict == IF a.basis = "absence" /\ a.dynamic THEN "uncertain" ELSE a.verdict
    IN  [verdict |-> verdict,
         confidence |-> IF verdict = "uncertain" THEN 50 ELSE IF a.basis = "presence" THEN 95 ELSE 80]

\* A claim that does not parse, a query that fails and one that takes longer
\* than VERIFY_CLAIM_TIMEOUT_MS are answered "uncertain".
ExecuteVerifyClaim(g, claim) ==
    {[verdict |-> "uncertain", confidence |-> 50]} \union
    {GradeVerdict(a) : a \in
        CASE claim.kind = "usage" -> VerifyUsage(g, claim.symbol)
          [] claim.kind = "edge" -> VerifyEdge(g, claim.from, claim.to, claim.relation)
          [] claim.kind = "reachability" -> VerifyReachability(g, claim.from, claim.to, claim.polarity)
          [] OTHER -> {}}

-----------------------------------------------------------------------------
(* Search and augmentation (smart-search.ts, augment.ts, shape-check.ts)   *)

\* hits: the symbol ids of the vector search, twice as many as asked for; they
\* may be gone from the graph.
ExecuteSmartSearch(g, enabled, hits, maxResults) ==
    IF ~enabled THEN {[symbols |-> {}, clusters |-> {}, flows |-> {}]}
    ELSE {[symbols |-> S, clusters |-> ClustersOf(g, hits), flows |-> ProcessesOf(g, hits)] :
             S \in Slices(hits \cap Ids(g), maxResults)}

MaxMatches == 3
MaxPerRelation == 3

\* augment(): the context of up to three matching symbols; a caller or callee
\* is named only if it is among the 50 symbols the context kept.
Augment(g, terms, kept) ==
    LET found == {s \in Ids(g) : \E q \in terms : <<q, g.at[s].name>> \in Within}
        block(s) == LET ctx == CHOOSE c \in ExecuteContextRetrieval(g, s) : TRUE
                        shown(S, T) == Slices((S \cap T) \union {}, MaxPerRelation)
                    IN  {[node |-> s, callers |-> a, callees |-> b] :
                            a \in shown(ctx.callers, kept), b \in shown(ctx.callees, kept)}
    IN  {UNION {block(s) : s \in S} : S \in Slices(found, MaxMatches)}

\* A consumer reads a key that no route returns.  With no routes there is
\* nothing to compare; a consumer of several routes is reported with less
\* confidence.
ShapeCheck(routes, consumers) ==
    IF routes = {} THEN {}
    ELSE LET available == UNION {r.responseKeys : r \in routes}
         IN  UNION {{[consumer |-> c.id, key |-> k,
                      confidence |-> IF c.routesFetchedInFile > 1 THEN "low" ELSE "high"]
                     : k \in c.accessedKeys \ available} : c \in consumers}
=============================================================================
