----------------------------- MODULE Clustering -----------------------------
(***************************************************************************)
(* Phase 4 of the indexer, src/application/indexing/clustering: the graph  *)
(* of the symbols that call or inherit each other, the communities the     *)
(* Louvain method finds in it, and the name and the category each one is   *)
(* given.                                                                  *)
(*                                                                         *)
(* Symbols are a sequence of records: id, kind, the folder of the file,    *)
(* the stem of the name, and how many keywords of each category its text   *)
(* has.  Relationships are a sequence of records (type, from, to).  Gains  *)
(* and modularities are fractions, compared without rounding.              *)
(***************************************************************************)
EXTENDS Integers, Sequences, FiniteSets

LOCAL INSTANCE SequencesExt
LOCAL INSTANCE FiniteSetsExt

CONSTANTS
    LargeGraph, \* symbols above which nodes of degree 1 are pruned
    MaxPasses,  \* MAX_PASSES
    SampleSize, \* members whose edges count for the cohesion
    Generic     \* GENERIC_FOLDERS

-----------------------------------------------------------------------------
(* The graph: graph.ts                                                     *)

Add(seq, x) == IF x \in ToSet(seq) THEN seq ELSE Append(seq, x)

Eligible(symbols) ==
    LET these == SelectSeq(symbols, LAMBDA s : s.kind \in {"function", "class", "method", "interface"})
    IN  [i \in DOMAIN these |-> these[i].id]

\* The relationships between two of the nodes that couple them.
Coupling(nodes, rels) ==
    SelectSeq(rels, LAMBDA r : r.type \in {"calls", "inherits", "implements"} /\ r.from # r.to
                               /\ {r.from, r.to} \subseteq ToSet(nodes))

Ends(rels, n) == Cardinality({i \in DOMAIN rels : rels[i].from = n}) + Cardinality({i \in DOMAIN rels : rels[i].to = n})

\* Two relationships between the same two nodes count twice here.
Pruned(nodes, rels) == SelectSeq(nodes, LAMBDA n : Ends(Coupling(nodes, rels), n) # 1)

\* buildClusterGraph: the neighbours of each node in the order they come up
BuildClusterGraph(symbols, rels) ==
    LET all   == Eligible(symbols)
        nodes == IF Len(symbols) > LargeGraph THEN Pruned(all, rels) ELSE all
        edges == Coupling(nodes, rels)
        meet(seen, r, n) == IF r.from = n THEN Add(seen, r.to) ELSE IF r.to = n THEN Add(seen, r.from) ELSE seen
    IN  [nodes |-> nodes,
         adjacent |-> [n \in ToSet(nodes) |-> FoldLeft(LAMBDA seen, r : meet(seen, r, n), <<>>, edges)],
         edges |-> Cardinality({{r.from, r.to} : r \in ToSet(edges)})]

-----------------------------------------------------------------------------
(* Communities: louvain.ts                                                 *)

Degree(graph, n) == Len(graph.adjacent[n])

\* Each node starts in a community of its own.
Singletons(graph) ==
    [of  |-> [n \in ToSet(graph.nodes) |-> n],
     tot |-> [n \in ToSet(graph.nodes) |-> Degree(graph, n)],
     in  |-> [n \in ToSet(graph.nodes) |-> 0],
     improved |-> TRUE]

EdgesInto(graph, at, n, c) == Len(SelectSeq(graph.adjacent[n], LAMBDA b : at.of[b] = c))

\* What putting n into c gains, times 2 m^2.
Gain(graph, at, n, c) ==
    2 * graph.edges * EdgesInto(graph, at, n, c) - at.tot[c] * Degree(graph, n)

\* Regression: the node's degree stays with the community it is taken from.
RemovedDegreeLeft(graph, at, n) ==
    LET c == at.of[n] IN [at EXCEPT !.in[c] = @ - EdgesInto(graph, at, n, c)]

Removed(graph, at, n) ==
    LET c == at.of[n]
    IN  [at EXCEPT !.tot[c] = @ - Degree(graph, n), !.in[c] = @ - EdgesInto(graph, at, n, c)]

\* Its own community, or the first neighbouring one that gains most.
BestCommunity(graph, at, n) ==
    LET better(best, b) ==
            IF Gain(graph, at, n, at.of[b]) > Gain(graph, at, n, best) THEN at.of[b] ELSE best
    IN  FoldLeft(better, at.of[n], graph.adjacent[n])

Put(graph, out, n, c) ==
    [of  |-> [out.of EXCEPT ![n] = c],
     tot |-> [out.tot EXCEPT ![c] = @ + Degree(graph, n)],
     in  |-> [out.in EXCEPT ![c] = @ + EdgesInto(graph, out, n, c)],
     improved |-> out.improved \/ c # out.of[n]]

Settle(graph, out, n) == Put(graph, out, n, BestCommunity(graph, out, n))

Move(graph, at, n) == IF Degree(graph, n) = 0 THEN at ELSE Settle(graph, Removed(graph, at, n), n)

Pass(graph, at) ==
    FoldLeft(LAMBDA here, n : Move(graph, here, n), [at EXCEPT !.improved = FALSE], graph.nodes)

\* Passes over all nodes until one changes nothing
RECURSIVE Passes(_, _, _)
Passes(graph, at, pass) ==
    IF at.improved /\ pass <= MaxPasses THEN Passes(graph, Pass(graph, at), pass + 1) ELSE at

\* [in / m - (tot / 2m)^2], times 4 m^2, and not below zero
Modularity(graph, at, c) ==
    LET q == 4 * graph.edges * at.in[c] - at.tot[c] * at.tot[c] IN IF q < 0 THEN 0 ELSE q

Members(graph, at, c) == SelectSeq(graph.nodes, LAMBDA n : at.of[n] = c)

\* The communities of two or more, in the nodes' order.
Communities(graph, at) ==
    LET big == SelectSeq(FoldLeft(LAMBDA seen, n : Add(seen, at.of[n]), <<>>, graph.nodes),
                         LAMBDA c : Len(Members(graph, at, c)) >= 2)
    IN  [i \in DOMAIN big |-> [members |-> Members(graph, at, big[i]), modularity |-> Modularity(graph, at, big[i])]]

LouvainClustering(graph) ==
    IF graph.edges = 0 THEN <<>> ELSE Communities(graph, Passes(graph, Singletons(graph), 1))

\* calculateCohesion: the edges of the sample that stay inside, and all of them
CalculateCohesion(members, graph) ==
    LET sample == {members[i] : i \in {j \in DOMAIN members : j <= SampleSize}}
        inside(n) == Len(SelectSeq(graph.adjacent[n], LAMBDA b : b \in ToSet(members)))
    IN  <<FoldSet(LAMBDA n, sum : sum + inside(n), 0, sample),
          FoldSet(LAMBDA n, sum : sum + Degree(graph, n), 0, sample)>>

-----------------------------------------------------------------------------
(* Names and categories: louvain.ts, enrichment.ts, semantic-classifier.ts *)

Categories == <<"authentication", "dataAccess", "businessLogic", "uiComponent", "utility">>

The(symbols, s) == symbols[CHOOSE i \in DOMAIN symbols : symbols[i].id = s]

\* The first of a sequence that none is above, if it is above the floor.
FirstBest(seq, worth, floor) ==
    {seq[i] : i \in {j \in DOMAIN seq : worth[j] > floor
                        /\ \A k \in DOMAIN seq : worth[k] <= worth[j] /\ (k < j => worth[k] < worth[j])}}

\* generateHeuristicLabel: the commonest folder that says something, else what
\* three or more names start with, else a number
HeuristicLabel(symbols, members, index) ==
    LET folders == FoldLeft(LAMBDA seen, s : IF The(symbols, s).folder \in Generic \union {"none"} THEN seen
                                             ELSE Add(seen, The(symbols, s).folder), <<>>, members)
        count == [i \in DOMAIN folders |-> Len(SelectSeq(members, LAMBDA s : The(symbols, s).folder = folders[i]))]
        stems == {The(symbols, s).stem : s \in ToSet(members)}
    IN  IF folders # <<>> THEN <<CHOOSE f \in FirstBest(folders, count, 0) : TRUE>>
        ELSE IF Len(members) > 2 /\ Cardinality(stems) = 1 /\ stems # {"none"} THEN <<CHOOSE t \in stems : TRUE>>
        ELSE <<"cluster", index>>

\* inferClusterName: what the AI client says, unless it fails or says nothing
InferClusterName(label, ai) == IF ai \in {"none", "fails", "silent"} THEN label ELSE <<ai>>

\* classifyCluster: the category with most keywords among the members' texts
ClassifyCluster(symbols, members) ==
    LET hits == [i \in DOMAIN Categories |->
                    FoldLeft(LAMBDA n, s : n + The(symbols, s).hits[Categories[i]], 0, members)]
    IN  FirstBest(Categories, hits, 0)

\* initialize: the reference texts the embedder could embed; with all of them
\* missing the classifier counts as initialised too.
Initialized(classifier, embedder) ==
    IF classifier = {} THEN {[references |-> embedder.embeds]} ELSE classifier

\* classify: the most similar reference, if it is similar enough (the
\* threshold is 50), by how similar the members' text is to each one
Classify(classifier, embedder, members) ==
    LET known == SelectSeq(Categories, LAMBDA c : \A k \in classifier : c \in k.references)
    IN  IF ~embedder.text THEN {}
        ELSE FirstBest(known, [i \in DOMAIN known |-> embedder.similar[known[i]]], 49)

\* enrichCluster: by meaning if the embedder is on, else by keywords
Category(symbols, members, embedder, classifier) ==
    LET found == IF embedder.enabled THEN Classify(Initialized(classifier, embedder), embedder, members)
                 ELSE ClassifyCluster(symbols, members)
    IN  IF found = {} THEN "unknown" ELSE CHOOSE c \in found : TRUE

Enriched(symbols, graph, found, ai, embedder, classifier) ==
    [i \in DOMAIN found |->
        [id |-> i, symbols |-> found[i].members, modularity |-> found[i].modularity,
         cohesion |-> CalculateCohesion(found[i].members, graph),
         name |-> InferClusterName(HeuristicLabel(symbols, found[i].members, i), ai),
         category |-> Category(symbols, found[i].members, embedder, classifier)]]

\* clusterSymbols
ClusterSymbols(symbols, rels, ai, embedder, classifier) ==
    LET graph == BuildClusterGraph(symbols, rels)
    IN  Enriched(symbols, graph, LouvainClustering(graph), ai, embedder, classifier)
=============================================================================
