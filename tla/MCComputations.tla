--------------------------- MODULE MCComputations ---------------------------
(***************************************************************************)
(* What the program computes without waiting for anybody, on small inputs: *)
(* the questions of MCUseCases, the loading of the settings, the writing   *)
(* of rows in batches and the reading of tables in pages, the export of    *)
(* the vault, and the phases of the indexer that resolve names, find       *)
(* clusters and trace processes.  An input is chosen in one step and       *)
(* answered in the next.                                                   *)
(***************************************************************************)
EXTENDS MCUseCases, Settings, BatchWriter, TableReader

VARIABLE input \* what one of the computations below is given

MCSlug == [n \in {"a", "A", "b", "unclustered", "uncategorized", "m", "p"} |-> IF n = "A" THEN "a" ELSE n]
MCLast(p) == IF p = "./lib/Load" THEN "Load" ELSE p
MCPackage(p, l) == IF p = "lodash/fp" THEN "lodash" ELSE p
MCLocal(p, l) == p \notin {"lodash", "lodash/fp"}
MCDirs(f) == IF f = "b.ts" THEN {"auth"} ELSE {}
MCStrategy(l) == [mro |-> l # "go", follows |-> l # "javascript"]

Ex == INSTANCE Export WITH Slug <- MCSlug
Pr == INSTANCE Processes WITH MaxBranching <- 2, MaxDepth <- 3
Re == INSTANCE Resolution WITH LastSegment <- MCLast, PackageName <- MCPackage, Local <- MCLocal,
                               DirsOf <- MCDirs, Strategy <- MCStrategy
Cl(large) == INSTANCE Clustering WITH LargeGraph <- large, MaxPasses <- 20, SampleSize <- 50, Generic <- {"src"}

\* Where something else is computed, there is no environment, no job and no
\* table to read.
NoEnvironment == [v \in {} |-> Unset]
NoJob == [n |-> 0]
NothingRead == initialTable = <<>> /\ initialPageSize = 0 /\ ReaderStarts

\* The computations are asked where the graph is one given graph.
Home == CHOOSE g \in Graphs : \A l \in Labels : g.edges[l] = {}
Ready ==
    /\ input = Nothing /\ reply = Nothing /\ graph = Home
    /\ environment = NoEnvironment /\ job = NoJob /\ initialPageSize = 0
Give(x) == input' = x /\ UNCHANGED <<graph, reply, settingsVars, writerVars, readerVars>>
Chosen(of) == input # Nothing /\ input.of = of /\ reply = Nothing
Compute(tool, answer) == reply' = [tool |-> tool, a |-> answer] /\ UNCHANGED <<graph, input, settingsVars, writerVars, readerVars>>

-----------------------------------------------------------------------------
(* Settings: a client's environment with up to two variables set           *)

Pre(letter, upper, hyphen, special, tail, length) ==
    Text([letter |-> letter, upper |-> upper, hyphen |-> hyphen, special |-> special, tail |-> tail, length |-> length])
FilePath(home) == Text([home |-> home, under |-> "given", name |-> "x"])
Url(scheme, host, port) == Text([scheme |-> scheme, host |-> host, port |-> port])
AnyOf(words) == {Empty, Blank, Text("other")} \union {Text(w) : w \in words}

Values(v) ==
    CASE v = "TYPOCOP_PREFIX" -> {Empty, Blank} \union
             {Pre(p[1], p[2], p[3], p[4], p[5], p[6]) : p \in
                 {<<TRUE, FALSE, FALSE, FALSE, FALSE, 3>>, <<TRUE, FALSE, FALSE, FALSE, TRUE, 31>>,
                  <<TRUE, TRUE, TRUE, FALSE, FALSE, 3>>, <<FALSE, FALSE, FALSE, FALSE, FALSE, 3>>,
                  <<TRUE, FALSE, TRUE, FALSE, FALSE, 32>>, <<TRUE, FALSE, FALSE, TRUE, FALSE, 3>>}}
      [] v \in {"OLLAMA_ENABLED", "LADYBUG_SERVER_AUTOSTART", "EMBEDDING_ENABLE_BATCH"} ->
             AnyOf({"true", "TRUE", " true ", "yes"})
      [] v = "OLLAMA_URL" -> {Empty, Blank, Url("http", "h", {}), Url("none", "h", {}), Url("grpc", "h", {})}
      [] v = "EMBEDDING_PROVIDER" -> AnyOf({"huggingface", "ollama", "none"})
      [] v = "HF_DTYPE" -> AnyOf({"fp32"})
      [] v = "HF_POOLING" -> AnyOf({"mean"})
      [] v = "LADYBUG_RUNTIME_MODE" -> AnyOf({"server", "client"})
      [] v = "LADYBUG_SERVER_URL" -> {Empty, Blank} \union
             {Url(s, h, p) : s \in {"none", "grpc", "http"}, h \in {"none", "remote"}, p \in {{}, {0}, {7000}}}
      [] v = "LADYBUG_SERVER_HOST" -> {Empty, Blank, Text("remote")}
      [] v = "LADYBUG_SERVER_AUTH_TOKEN" -> {Empty, Blank, Text("secret")}
      [] v \in {"LADYBUGDB_PATH", "LADYBUG_SERVER_LOCK_PATH", "LADYBUG_SERVER_DISCOVERY_PATH"} ->
             {Empty, Blank, FilePath(TRUE), FilePath(FALSE)}
      [] OTHER -> AnyOf({}) \union {Number(n) : n \in {-1, 0, 1, 65536, 7000}}

ClientEnv == [v \in Variables |-> IF v = "LADYBUG_RUNTIME_MODE" THEN Text("client") ELSE Unset]
Set == UNION {{<<v, x>> : x \in Values(v)} : v \in Variables}
MCEnvironments ==
    {[v \in Variables |-> CASE v = p[1] -> p[2] [] v # p[1] /\ v = q[1] -> q[2]
                           [] v \notin {p[1], q[1]} -> IF v = "LADYBUG_RUNTIME_MODE" THEN Text("client") ELSE Unset] :
        p, q \in Set}

ReadSettings == environment # NoEnvironment /\ LoadSettings /\ UNCHANGED <<graph, reply, input, writerVars, readerVars>>

-----------------------------------------------------------------------------
(* Rows, pages and vaults                                                  *)

UpTo(sizes) ==
    LET up[i \in 0..Len(sizes)] == IF i = 0 THEN 0 ELSE up[i - 1] + sizes[i]
    IN  [i \in 0..Len(sizes) |-> up[i]]
MCJobs ==
    {[n |-> Len(each), chars |-> UpTo([i \in DOMAIN each |-> each[i][1]]), bytes |-> UpTo([i \in DOMAIN each |-> each[i][2]]),
      maxBytes |-> max, maxCount |-> 3, limit |-> limit, batched |-> batched] :
         each \in UNION {[1..n -> {<<1, 1>>, <<1, 3>>, <<3, 3>>, <<2, 6>>}] : n \in 0..4}, max \in {2, 3, 4, 6}, limit \in {6, 9},
         batched \in BOOLEAN}

WriteRows == job # NoJob /\ WriterNext /\ UNCHANGED <<graph, reply, input, settingsVars, readerVars>>

MCTables == {SubSeq(<<1, 2, 3>>, 1, n) : n \in 0..3}
MCPageSizes == {-1, 1, 2, 3, 5}
ReadTable == initialPageSize # 0 /\ ReaderNext /\ UNCHANGED <<graph, reply, input, settingsVars, writerVars>>

Exported == <<[id |-> "s1", name |-> "a"], [id |-> "s2", name |-> "A"], [id |-> "s3", name |-> "b"]>>
NameOf(s) == (CHOOSE e \in ToSet(Exported) : e.id = s).name
InOrderOf(set) == SelectSeq(<<<<"s1", "s2">>, <<"s3", "s2">>>>, LAMBDA c : c \in set)

\* Nothing changes while the vault is exported: each table is read as it is.
Database(n, clusters, place, calls, deps) ==
    LET at      == SelectSeq(Exported, LAMBDA e : \E i \in 1..n : Exported[i] = e)
        in(c)   == SelectSeq(at, LAMBDA e : place[e.id] = c)
        kept    == InOrderOf({c \in calls : {c[1], c[2]} \subseteq {e.id : e \in ToSet(at)}})
        depends == SelectSeq(at, LAMBDA e : e.id \in deps)
    IN  [symbols   |-> {at},
         clusters  |-> {SubSeq(<<[id |-> 1, name |-> "b"], [id |-> 2, name |-> "m"]>>, 1, clusters)},
         processes |-> {<<[id |-> "p1", name |-> "p", entry |-> "s1"]>>},
         externals |-> {<<[id |-> "x", name |-> "m"]>>},
         calls     |-> {[i \in DOMAIN kept |-> [from |-> kept[i][1], to |-> kept[i][2],
                                               fromName |-> NameOf(kept[i][1]), toName |-> NameOf(kept[i][2])]]},
         dependsOn |-> {[i \in DOMAIN depends |-> [from |-> depends[i].id, to |-> "x", fromName |-> depends[i].name]]},
         members   |-> {[i \in DOMAIN in(1) |-> <<1, in(1)[i].id>>] \o [i \in DOMAIN in(2) |-> <<2, in(2)[i].id>>]},
         steps     |-> {<<<<"p1", [order |-> 1, symbol |-> "s2", name |-> "A"]>>,
                          <<"p1", [order |-> 0, symbol |-> "s1", name |-> "a"]>>>>}]

GiveDatabase == Ready /\
    \E n \in {0, 2, 3}, clusters \in 1..2, place \in [{"s1", "s2", "s3"} -> 0..2],
       calls \in {{}, {<<"s1", "s2">>, <<"s3", "s2">>}}, deps \in {{}, {"s1", "s3"}} :
        Give([of |-> "database", db |-> Database(n, clusters, place, calls, deps)])
ExportVault == Chosen("database") /\ \E a \in Ex!ExecuteObsidianExport(input.db, {}, <<>>) : Compute("export", a)

-----------------------------------------------------------------------------
(* Processes and clusters: symbols and the calls between them              *)

N4 == <<"s1", "s2", "s3", "s4">>
N5 == Append(N4, "s5")
Pairs(nodes) == LET n == Len(nodes) IN [i \in 1..(n * n) |-> <<nodes[((i - 1) \div n) + 1], nodes[((i - 1) % n) + 1]>>]
CallsAmong(nodes, chosen, backwards) ==
    LET these == SelectSeq(IF backwards THEN Reverse(Pairs(nodes)) ELSE Pairs(nodes), LAMBDA p : p \in chosen)
    IN  [i \in DOMAIN these |-> [type |-> "calls", from |-> these[i][1], to |-> these[i][2]]]

Traced(public, name) ==
    <<[id |-> "s1", kind |-> "function", public |-> public, name |-> name, returns |-> {}],
      [id |-> "s2", kind |-> "method", public |-> FALSE, name |-> "plain", returns |-> {}],
      [id |-> "s3", kind |-> "class", public |-> TRUE, name |-> "utility", returns |-> {"T"}],
      [id |-> "s4", kind |-> "interface", public |-> TRUE, name |-> "plain", returns |-> {}]>>

GiveTraced == Ready /\
    \E calls \in SUBSET ({p \in ToSet(Pairs(N4)) : p[1] # p[2]} \ {<<"s2", "s1">>, <<"s4", "s1">>}),
       s1 \in {<<FALSE, "plain">>, <<TRUE, "utility">>, <<FALSE, "entry">>} :
        Give([of |-> "traced", symbols |-> Traced(s1[1], s1[2]), rels |-> CallsAmong(N4, calls, s1[1])])
TraceThem == Chosen("traced") /\ Compute("processes", Pr!TraceProcesses(input.symbols, input.rels))

NoHits == [c \in ToSet(Cl(0)!Categories) |-> 0]
Clustered(kind) ==
    [i \in 1..5 |-> [id |-> N5[i], kind |-> IF i = 5 THEN kind ELSE "function", stem |-> "none",
                     folder |-> CASE i = 1 -> "src" [] i = 2 -> "none" [] OTHER -> "auth",
                     hits |-> IF i = 3 THEN [NoHits EXCEPT !["utility"] = 2, !["authentication"] = 2] ELSE NoHits]]

\* One that embeds a single reference text, which every cluster is near to.
Embedder(on) == [enabled |-> on, embeds |-> {"utility"}, text |-> TRUE, similar |-> [NoHits EXCEPT !["utility"] = 60]]

GiveClustered == Ready /\
    \E calls \in SUBSET {<<N5[p[1]], N5[p[2]]>> : p \in {q \in (1..5) \X (1..5) : q[1] < q[2]}},
       kind \in {"function", "variable"}, large \in {4, 9} :
        Give([of |-> "clustered", symbols |-> Clustered(kind), rels |-> CallsAmong(N5, calls, large = 4), large |-> large,
              ai |-> IF kind = "variable" THEN "billing" ELSE "silent", embedder |-> Embedder(kind = "variable")])
ClusterThem == Chosen("clustered") /\
    Compute("clusters", Cl(input.large)!ClusterSymbols(input.symbols, input.rels, input.ai, input.embedder, {}))

-----------------------------------------------------------------------------
(* Names and hierarchies                                                   *)

Files == {"a.ts", "b.ts"}
NoType == [head |-> "none", args |-> <<>>]
Sym(id, name, file, kind, owner, line) ==
    [id |-> id, name |-> name, file |-> file, kind |-> kind, owner |-> owner, arity |-> -1, abstract |-> FALSE,
     returns |-> NoType, first |-> line, last |-> line, calls |-> <<>>, extends |-> <<>>, implements |-> <<>>]
Hint(kind, file, language, line, target, child, receiver) ==
    [kind |-> kind, file |-> file, language |-> language, line |-> line, target |-> target, child |-> child, receiver |-> receiver]
NoReceiver == [head |-> "none", chain |-> <<>>]
NoContext(symbols) == [symbols |-> symbols, imports |-> [f \in Files |-> {}], packages |-> [f \in Files |-> {}],
                       named |-> [f \in {} |-> {}]]

\* Four classes, each with a method m, and up to two parents each: a class on
\* a cycle, one with the same parent twice, and orders that contradict.
Class == <<<<"A">>, <<"B">>, <<"C">>, <<"D">>>>
Parents(c, twice) ==
    LET others == ToSet(Class) \ {c}
    IN  {<<>>} \union {<<x>> : x \in others} \union {p \in others \X others : twice \/ p[1] # p[2]}

ClassSymbols(interface) ==
    [i \in 1..4 |-> Sym(Class[i], Class[i][1], "a.ts", IF Class[i] = interface THEN "interface" ELSE "class", <<>>, 10 * i)]
    \o [i \in 1..4 |-> [Sym(<<Class[i][1], "m">>, "m", "a.ts", "method", Class[i], 10 * i + 1)
                           EXCEPT !.arity = CASE i = 2 -> 1 [] i = 4 -> 0 [] OTHER -> -1]]
ParentHints(parents) ==
    FlattenSeq([i \in 1..4 |-> LET c == Class[5 - i] IN
        [j \in DOMAIN parents[c] |-> Hint("inherits", "a.ts", "java", 0, parents[c][j][1], c[1], NoReceiver)]])

GiveHierarchy == Ready /\
    \E a \in Parents(Class[1], FALSE), b \in Parents(Class[2], FALSE), c \in Parents(Class[3], TRUE), d \in Parents(Class[4], TRUE),
       i \in {<<>>, <<"B">>} :
        Give([of |-> "hierarchy", interface |-> i,
              parents |-> (Class[1] :> a) @@ (Class[2] :> b) @@ (Class[3] :> c) @@ (Class[4] :> d)])
Linearise == Chosen("hierarchy") /\
    LET symbols == ClassSymbols(input.interface)
    IN  Compute("hierarchy",
            [linear |-> Re!LinearizeAll(input.parents, Class),
             edges |-> ToSet(Re!ResolveHints(NoContext(symbols), symbols, ParentHints(input.parents), [p \in {} |-> p]).edges)])

\* Two classes in two files, a function f that one or both files have, and
\* an import that resolves by its last segment.
SymbolsWith(where) ==
    <<Sym(<<"A">>, "A", "a.ts", "class", <<>>, 10), Sym(<<"A", "m">>, "m", "a.ts", "method", <<"A">>, 11),
      [Sym(<<"B">>, "B", "b.ts", "class", <<>>, 20) EXCEPT !.extends = <<"A">>],
      [Sym(<<"B", "get">>, "get", "b.ts", "method", <<"B">>, 21) EXCEPT !.returns = [head |-> "Promise", args |-> <<"A">>]],
      [Sym(<<"b", "f">>, "f", "b.ts", "function", <<>>, 30) EXCEPT !.calls = <<"m">>]>>
    \o (IF where = "both" THEN <<Sym(<<"a", "f">>, "f", "a.ts", "function", <<>>, 30)>> ELSE <<>>)
    \o (IF where = "none" THEN <<>>
        ELSE <<Sym(<<"L">>, "Load", "a.ts", "function", <<>>, 40), Sym(<<"b", "i">>, "./lib/Load", "b.ts", "import", <<>>, 1)>>)

Contexts(symbols) ==
    {NoContext(symbols), [NoContext(symbols) EXCEPT !.imports = [f \in Files |-> {"b.ts"}]],
     [NoContext(symbols) EXCEPT !.packages["b.ts"] = {"auth"},
          !.named = ("b.ts" :> ("f" :> [file |-> "c.ts", name |-> "f"])) @@ ("c.ts" :> ("f" :> [file |-> "a.ts", name |-> "f"]))]}

SomeHints ==
    {Hint("call", at[1], l, at[2], t, "none", r) : at \in {<<"a.ts", 11>>, <<"a.ts", 30>>, <<"b.ts", 21>>, <<"b.ts", 30>>},
        l \in {"go", "java", "javascript"}, t \in {"m", "f"},
        r \in {NoReceiver, [head |-> "this", chain |-> <<>>], [head |-> "B", chain |-> <<"get">>]}}
    \union {Hint("import", f, "java", 1, t, "none", NoReceiver) : f \in Files, t \in {"f", "./lib/Load", "lodash/fp", "gone"}}
Extends == Hint("inherits", "b.ts", "java", 0, "A", "B", NoReceiver)

Resolved(hints) == Re!ResolveReferences(input.ctx, input.ctx.symbols, hints, [p \in {} |-> p])

GiveHints == Ready /\ \E where \in {"both", "b", "none"} : \E ctx \in Contexts(SymbolsWith(where)), g \in SomeHints, h \in SomeHints :
    Give([of |-> "hints", ctx |-> ctx, hints |-> <<g, h, Extends>>])
GiveSymbols == Ready /\ \E where \in {"both", "b", "none"} : Give([of |-> "hints", ctx |-> NoContext(SymbolsWith(where)), hints |-> <<>>])
ResolveThem == Chosen("hints") /\ Compute("hints", ToSet(Resolved(input.hints).edges))

-----------------------------------------------------------------------------

\* The handler looks at no graph: it is asked where one is.
Question ==
    /\ Unasked /\ input = Nothing /\ environment = NoEnvironment /\ job = NoJob /\ initialPageSize = 0
    /\ UNCHANGED <<input, settingsVars, writerVars, readerVars>>
    /\ \/ \E q \in Questions : Ask(q)
       \/ graph = Home /\ \E c \in Requests, h \in Headers, a \in AuthConfigs : Handle(c, h, a)
       \/ \E h \in HttpQueries : Post(h)
       \/ \E s \in Searches : Search(s)

MCInit ==
    /\ Init /\ input = Nothing /\ loaded = {} /\ WriterStarts
    /\ \/ environment = NoEnvironment /\ job = NoJob /\ NothingRead
       \/ graph = Home /\ environment \in Environments /\ job = NoJob /\ NothingRead
       \/ graph = Home /\ environment = NoEnvironment /\ job \in Jobs /\ NothingRead
       \/ graph = Home /\ environment = NoEnvironment /\ job = NoJob /\ ReaderInit

MCNext ==
    \/ Question
    \/ ReadSettings
    \/ WriteRows \/ ReadTable \/ GiveDatabase \/ ExportVault
    \/ GiveTraced \/ TraceThem \/ GiveClustered \/ ClusterThem
    \/ GiveHierarchy \/ Linearise \/ GiveHints \/ GiveSymbols \/ ResolveThem

MCSpec == MCInit /\ [][MCNext]_<<vars, settingsVars, writerVars, readerVars, input>>

-----------------------------------------------------------------------------
(* Properties                                                              *)

\* Every link of an exported vault leads to a file of the vault, and every
\* symbol has a file of its name (renderVault(), buildSymbolToClusterMap()).
VaultLinksLead ==
    Asked("export") /\ reply.a.written > 0 =>
        LET vault == reply.a.held IN
        /\ \A p \in DOMAIN vault : \A l \in vault[p].links : Len(l) # 1 => l \in DOMAIN vault
        /\ \A s \in UNION {ToSet(t) : t \in input.db.symbols} : \E p \in DOMAIN vault : p[1] = "03-symbols" /\ p[3] = MCSlug[s.name]

\* Every entry point that calls another symbol has a process; a process is a
\* path of calls that visits no symbol twice, is no longer than the depth
\* allows, and no longer one starts at the same entry (dfsTrace(),
\* traceAllExecutions()).
ProcessesAreLongestPaths ==
    Asked("processes") =>
        LET calls        == Pr!CallGraph(input.symbols, input.rels)
            follows(x, y) == y \in ToSet(Pr!Candidates(calls, x))
            paths(n)     == {p \in [1..n -> ToSet(N4)] : /\ Cardinality(ToSet(p)) = n
                                                         /\ \A i \in 1..(n - 1) : follows(p[i], p[i + 1])}
            entries      == {s \in ToSet(input.symbols) : Pr!Qualifies(s, calls)}
            traced       == ToSet(reply.a)
        IN  /\ {p.entry : p \in traced} \subseteq {s.id : s \in entries}
            /\ \A s \in entries : calls[s.id] \notin {<<>>, <<s.id>>} => \E p \in traced : p.entry = s.id
            /\ \A p \in traced : LET n == Len(p.steps) IN
                   /\ p.steps \in paths(n) /\ p.steps[1] = p.entry /\ n <= 4
                   /\ n < 4 => \A q \in paths(n + 1) : q[1] # p.entry
                   /\ Len(p.dataFlow) = n - 1

\* The sum over the clusters of what the modularity says, without its divisor.
Quality(graph5, cluster) ==
    LET links  == {l \in {{n, m} : n \in cluster, m \in cluster} :
                      \E n \in l : l \ {n} # {} /\ l \ {n} \subseteq ToSet(graph5.adjacent[n])}
        degree == FoldSet(LAMBDA n, sum : sum + Len(graph5.adjacent[n]), 0, cluster)
    IN  4 * graph5.edges * Cardinality(links) - degree * degree
Total(graph5, clusters) == FoldSet(LAMBDA c, sum : sum + Quality(graph5, c), 0, clusters)

\* The clusters share no symbol and have two or more; each is reported with
\* the modularity its symbols have; and moving any one symbol to a cluster of
\* a neighbour does not raise the sum (louvainClustering()).
ClustersAreLocalOptima ==
    Asked("clusters") =>
        LET graph5 == Cl(input.large)!BuildClusterGraph(input.symbols, input.rels)
            nodes  == ToSet(graph5.nodes)
            found  == {ToSet(c.symbols) : c \in ToSet(reply.a)}
            groups  == found \union {{n} : n \in nodes \ UNION found}
            moved(n, to) == {IF n \in p THEN p \ {n} ELSE IF p = to THEN p \union {n} ELSE p : p \in groups} \ {{}}
        IN  /\ Cardinality(found) = Len(reply.a)
            /\ \A c \in found : Cardinality(c) >= 2 /\ c \subseteq nodes /\ \A d \in found : c # d => c \cap d = {}
            /\ \A c \in ToSet(reply.a) : LET q == Quality(graph5, ToSet(c.symbols)) IN c.modularity = IF q < 0 THEN 0 ELSE q
            /\ \A n \in nodes, to \in groups :
                   n \notin to /\ to \cap ToSet(graph5.adjacent[n]) # {} => Total(graph5, moved(n, to)) <= Total(graph5, groups)

Above(parents, c) ==
    LET up[k \in 0..4] == IF k = 0 THEN ToSet(parents[c]) ELSE up[k - 1] \union UNION {ToSet(parents[x]) : x \in up[k - 1]}
    IN  up[4]
InOrder(q, s) == \A i, j \in DOMAIN q : i < j => \E k, l \in DOMAIN s : k < l /\ s[k] = q[i] /\ s[l] = q[j]
OrdersOf(set) == {s \in [1..Cardinality(set) -> set] : ToSet(s) = set}

\* The linearisation of a class has each of its ancestors once, keeps the order
\* of its parents and of their own linearisations, and is refused only if no
\* order could, the class is its own ancestor, or a parent has none; whatever
\* class is asked for first.  A method overrides at most one other, never one
\* that a class in between overrides too (c3Linearize(), computeMRO()).
LinearizationRespectsOrders ==
    Asked("hierarchy") =>
        /\ \A c \in ToSet(Class) :
               LET of      == input.parents[c]
                   above   == Above(input.parents, c)
                   line    == reply.a.linear[c]
                   keeps(s) == /\ InOrder(of, s)
                               /\ \A p \in ToSet(of) : InOrder(<<p>> \o reply.a.linear[p].order, s)
                   known   == \A p \in ToSet(of) : reply.a.linear[p].ok
               IN  IF line.ok THEN known /\ c \notin above /\ line.order \in OrdersOf(above) /\ keeps(line.order)
                   ELSE ~known \/ c \in above \/ \A s \in OrdersOf(above) : ~keeps(s)
        /\ LET overrides == {e \in reply.a.edges : e.type = "overrides"}
               matches(b, c) == {b, c} # {<<"B">>, <<"D">>}
           IN  \A e \in overrides :
                   LET c == <<e.from[1]>>
                       to == <<e.to[1]>>
                   IN  /\ to # input.interface /\ to \in Above(input.parents, c)
                       /\ ~\E b \in Above(input.parents, c) \ {to, input.interface} :
                              matches(b, c) /\ to \in Above(input.parents, b)
                       /\ \A f \in overrides : f.from = e.from => f.to = e.to

\* What a hint resolves to does not depend on the hints around it: the edges
\* of a set of hints are those each has alone, but for the numbers in the ids
\* of repeated imports (resolveHints(), the cache of its resolution context).
HintsResolveAlone ==
    Asked("hints") /\ input.hints # <<>> =>
        LET alone(hints) == ToSet(Resolved(hints).edges)
            numbered == {e \in reply.a : e.type = "imports" /\ e.from[4] > 0}
        IN  /\ reply.a \ numbered = alone(<<Extends>>) \union alone(<<input.hints[1], Extends>>)
                                    \union alone(<<input.hints[2], Extends>>)
            /\ \A e \in numbered : \E f \in reply.a : f.type = "imports" /\ f.to = e.to /\ f.from[4] = 0

\* The resolver orders hierarchies and hints soundly.
ResolutionSound == LinearizationRespectsOrders /\ HintsResolveAlone

\* The analyses of the pipeline find what they look for.
AnalysesSound == ProcessesAreLongestPaths /\ ClustersAreLocalOptima
=============================================================================
