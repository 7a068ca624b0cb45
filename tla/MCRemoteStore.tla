---------------------------- MODULE MCRemoteStore ----------------------------
(***************************************************************************)
(* RemoteStore for TLC: an indexer that clears, writes and reads, and      *)
(* another client that reads and writes at the same time.                  *)
(***************************************************************************)
EXTENDS RemoteStore, TLC

Row(k, val) == [key |-> k, val |-> val]
In(file) == {<<"filePath", file>>}
Named(file, name) == In(file) \union {<<"name", name>>}
Vector(v) == {<<"embedding", v>>}
Op(kind, on, rows) ==
    [kind |-> kind, on |-> on, rows |-> rows, prefix |-> "own", limit |-> 1]

Step(n) == {<<"step_order", n>>}

Indexing ==
    { Op("CreateNodes", "Symbol", <<Row("a", In("f")), Row("b", In("f")), Row("a", In("g"))>>),
      Op("CreateRelationships", "HAS_STEP",
         <<Row(<<"p", "a">>, Step(0)), Row(<<"p", "c">>, Step(1)), Row(<<"p", "a">>, Step(2))>>),
      Op("DeleteNodesByLabel", "Symbol", <<>>) }

Querying ==
    { Op("QueryRelationships", "UNKNOWN", <<>>),
      [Op("CreateNode", "Symbol", <<Row("a", In("h"))>>) EXCEPT !.prefix = "other"],
      Op("CreateNodes", "Symbol", <<Row("a", In("f")), Row(Blank, In("f"))>>),
      Op("SemanticSearch", "", <<Row("query", Vector("v"))>>),
      Op("SemanticSearch", "", <<Row("query", Vector("empty"))>>),
      Op("IndexSymbols", "", <<Row("a", Vector("v")), Row("b", Vector("not finite"))>>),
      Op("CreateNode", "Symbol", <<Row("a", Named("h", "n"))>>),
      Op("CreateNode", "Process", <<Row("p", {})>>),
      Op("CreateRelationship", "CALLS", <<Row(<<"a", "b">>, {})>>),
      Op("IndexSymbol", "", <<Row("a", Vector("w"))>>) }

MCOps == "indexer" :> Indexing @@ "query" :> Querying
MCMaxCalls == "indexer" :> 2 @@ "query" :> 1
=============================================================================
