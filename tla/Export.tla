------------------------------- MODULE Export -------------------------------
(***************************************************************************)
(* The Obsidian export (src/application/export-render): the graph is read, *)
(* rendered as a set of Markdown files that link to each other, and        *)
(* written over what the output directory held.                            *)
(*                                                                         *)
(* A table is a sequence of rows, in the order of the query.  How it is    *)
(* read page by page is modelled in TableReader: here `read` has of each   *)
(* table what the reading may come to, nothing where it may only fail.  Of *)
(* a file the model keeps its path, the symbols or other things it is      *)
(* about, and the links in it: a path, or one name.                        *)
(***************************************************************************)
EXTENDS Integers, Sequences, FiniteSets

LOCAL INSTANCE SequencesExt

CONSTANT Slug \* slugify: of each name

-----------------------------------------------------------------------------
(* Reading: graph-reader.ts                                                *)

\* The memberships and the steps, by what they belong to, in the rows' order.
Grouped(rows) ==
    [k \in {r[1] : r \in ToSet(rows)} |-> LET mine == SelectSeq(rows, LAMBDA r : r[1] = k)
                                          IN  [i \in DOMAIN mine |-> mine[i][2]]]

\* fetchAllGraphData: without symbols there is nothing to export.
EmptyGraphData == [symbols |-> <<>>, clusters |-> <<>>, processes |-> <<>>, externals |-> <<>>,
                   calls |-> <<>>, dependsOn |-> <<>>, members |-> <<>>, steps |-> <<>>]

FetchAllGraphData(read) ==
    {EmptyGraphData : s \in read.symbols \intersect {<<>>}}
    \union {[symbols |-> s, clusters |-> c, processes |-> p, externals |-> x, calls |-> e,
            dependsOn |-> d, members |-> Grouped(m), steps |-> Grouped(o)] :
              s \in read.symbols \ {<<>>}, c \in read.clusters, p \in read.processes,
              x \in read.externals, e \in read.calls, d \in read.dependsOn,
              m \in read.members, o \in read.steps}

-----------------------------------------------------------------------------
(* Rendering: renderer.ts, render-symbol.ts, render-cluster-process.ts     *)

Names(data) == [c \in {data.clusters[i].id : i \in DOMAIN data.clusters} |->
                   (CHOOSE k \in ToSet(data.clusters) : k.id = c).name]

\* The clusters that list a symbol; of several, the last one counts.
Listing(data, s) == {c \in DOMAIN data.members : s \in ToSet(data.members[c])}
LastOf(cs) == CHOOSE c \in cs : \A d \in cs : d <= c

\* groupSymbolsByCluster: under which name a symbol has its file.
GroupOf(data, s) ==
    LET cs == Listing(data, s)
    IN  IF cs # {} /\ LastOf(cs) \in DOMAIN Names(data) THEN Names(data)[LastOf(cs)] ELSE "unclustered"

\* The symbols group by group, in the order in which the groups come up.
BySymbolGroup(data) ==
    LET noted(groups, s) ==
            IF GroupOf(data, s.id) \in ToSet(groups) THEN groups ELSE Append(groups, GroupOf(data, s.id))
        of(group) == SelectSeq(data.symbols, LAMBDA s : GroupOf(data, s.id) = group)
    IN  FoldLeft(LAMBDA out, group : out \o of(group), <<>>, FoldLeft(noted, <<>>, data.symbols))

\* Regression: a link to a symbol of no cluster says "uncategorized".
LinkedGroupUncategorized(data, s) ==
    LET cs == Listing(data, s) \cap DOMAIN Names(data)
    IN  IF cs # {} THEN Names(data)[LastOf(cs)] ELSE "uncategorized"

\* buildSymbolToClusterMap, and the name a dependency's links fall back to
LinkedGroup(data, s) ==
    LET cs == Listing(data, s) \cap DOMAIN Names(data)
    IN  IF cs # {} THEN Names(data)[LastOf(cs)] ELSE "unclustered"

SymbolPath(group, name) == <<"03-symbols", Slug[group], Slug[name]>>
File(path, about, links) == [path |-> path, about |-> about, links |-> links]

\* buildOutgoingCallsMap and buildIncomingCallsMap: a name for each row
Outgoing(data, s) == LET mine == SelectSeq(data.calls, LAMBDA e : e.from = s) IN [i \in DOMAIN mine |-> mine[i].toName]
Incoming(data, s) == LET mine == SelectSeq(data.calls, LAMBDA e : e.to = s) IN [i \in DOMAIN mine |-> mine[i].fromName]

\* renderSymbolFile, of one symbol
SymbolFile(data, s) ==
    File(SymbolPath(GroupOf(data, s.id), s.name), {s.id},
         {<<n>> : n \in ToSet(Outgoing(data, s.id)) \union ToSet(Incoming(data, s.id))
                        \union {IF Listing(data, s.id) \cap DOMAIN Names(data) # {}
                                THEN LinkedGroup(data, s.id) ELSE "uncategorized"}})

\* renderClusterFile: the members that are symbols of the graph
ClusterFile(data, c) ==
    LET members == {s \in ToSet(data.symbols) :
                        c.id \in DOMAIN data.members /\ s.id \in ToSet(data.members[c.id])}
    IN  File(<<"01-clusters", Slug[c.name]>>, {s.id : s \in members},
             {SymbolPath(c.name, s.name) : s \in members})

\* renderProcessFile: the steps by their order
ProcessFile(data, p) ==
    LET steps == IF p.id \in DOMAIN data.steps THEN data.steps[p.id] ELSE <<>>
        sorted == SortSeq(steps, LAMBDA a, b : a.order < b.order)
    IN  File(<<"02-processes", Slug[p.name]>>, {[at |-> i, is |-> sorted[i].symbol] : i \in DOMAIN sorted},
             {<<p.entry>>} \union {<<s.name>> : s \in ToSet(sorted)})

\* renderExternalDependencyFile
DependencyFile(data, x) ==
    LET edges == {e \in ToSet(data.dependsOn) : e.to = x.id}
    IN  File(<<"04-external-dependencies", Slug[x.name]>>, {e.from : e \in edges},
             {SymbolPath(LinkedGroup(data, e.from), e.fromName) : e \in edges})

IndexFile(dir, things) ==
    File(<<dir, "_index">>, {}, {<<Slug[t.name]>> : t \in ToSet(things)})

\* renderNavigationIndex
Navigation == File(<<"_index">>, {}, {<<"01-clusters", "_index">>, <<"02-processes", "_index">>,
                                      <<"03-symbols">>, <<"04-external-dependencies">>})

Each(things, Of(_)) == [i \in DOMAIN things |-> Of(things[i])]

\* renderVault, in the order the files are written
RenderVault(data) ==
    Each(BySymbolGroup(data), LAMBDA s : SymbolFile(data, s))
    \o Each(data.clusters, LAMBDA c : ClusterFile(data, c)) \o <<IndexFile("01-clusters", data.clusters)>>
    \o Each(data.processes, LAMBDA p : ProcessFile(data, p)) \o <<IndexFile("02-processes", data.processes)>>
    \o Each(data.externals, LAMBDA x : DependencyFile(data, x))
    \o <<IndexFile("04-external-dependencies", data.externals), Navigation>>

-----------------------------------------------------------------------------
(* Writing: vault-writer.ts and index.ts                                   *)

\* writeVault: the directory is emptied; a file that cannot be written is
\* skipped; of two files with one path the later one is left, and both are
\* counted.
WriteVault(files, unwritable) ==
    LET good == SelectSeq(files, LAMBDA f : f.path \notin unwritable)
    IN  [held |-> [p \in {f.path : f \in ToSet(good)} |->
                      good[CHOOSE i \in DOMAIN good :
                              good[i].path = p /\ \A j \in DOMAIN good : good[j].path = p => j <= i]],
         written |-> Len(good)]

\* executeObsidianExport: an empty graph leaves the directory as it was.
ExecuteObsidianExport(read, unwritable, before) ==
    {IF data.symbols = <<>> THEN [held |-> before, written |-> 0]
     ELSE WriteVault(RenderVault(data), unwritable) : data \in FetchAllGraphData(read)}
=============================================================================
