---------------------------- MODULE MCUseCases ----------------------------
(***************************************************************************)
(* The query use cases on small graphs: every set of calls between three   *)
(* symbols, with a recursive call, a containment and a reference that are  *)
(* there or not, asked through the MCP tools, through the validating       *)
(* handler and over HTTP.                                                  *)
(***************************************************************************)
EXTENDS UseCases, TLC

-----------------------------------------------------------------------------
(* Graphs                                                                  *)

S == {"s1", "s2", "s3"}
Kinds == {"function", "method"}

MCWithin == {<<"sav", "save">>, <<"sav", "saveAll">>, <<"save", "save">>,
             <<"save", "saveAll">>, <<"auth", "auth">>, <<"npm", "npm-lib">>}
MCLength == [n \in {"auth", "save", "saveAll", "npm-lib"} |-> IF n \in {"auth", "save"} THEN 4 ELSE 7]

At(name, file, start, public, kind, cyclomatic, layer, rank, responds, reads) ==
    [name |-> name, file |-> file, start |-> start, end |-> start + 1, public |-> public,
     kind |-> kind, cyclomatic |-> cyclomatic, layer |-> layer, rank |-> rank, tokens |-> rank,
     responseKeys |-> responds, accessedKeys |-> reads]

MCGraphs ==
    {[at |-> [s \in S |->
                 CASE s = "s1" -> At("auth", "f", 1, exported, "function", 3, "controller", 1, {"id"}, {})
                   [] s = "s2" -> At("save", "f", 3, FALSE, "method", 3, "model", 2, {}, {"id"})
                   [] s = "s3" -> At("saveAll", "h", 1, FALSE, "method", 5, "unknown", 3, {}, {"id", "key"})],
      edges |-> [l \in Labels |->
                 CASE l = "calls" -> calls \union loop
                   [] l = "contains" -> IF more THEN {<<"s2", "s3">>} ELSE {}
                   [] l = "references" -> IF more THEN {<<"s1", "s3">>} ELSE {}
                   [] OTHER -> {}],
      dependsOn |-> {<<"s3", "npm-lib">>}, externals |-> {"npm-lib"},
      steps |-> [p \in {"p"} |-> <<"s1", "s2">>],
      members |-> [c \in {"c"} |-> {"s2", "s3"}]]
     : calls \in SUBSET {p \in S \X S : p[1] # p[2]},
       loop \in {{}, {<<"s2", "s2">>}}, more \in BOOLEAN, exported \in BOOLEAN}

-----------------------------------------------------------------------------
(* Questions                                                               *)

Str(v) == [type |-> "string", shape |-> "ok", value |-> v]
Num(n) == [type |-> "number", shape |-> IF n = 0 THEN "zero" ELSE IF n < 0 THEN "negative" ELSE "positive", value |-> n]
NoParam == [p \in {} |-> Absent]

Diffs == {{}, {[path |-> "f", oldPath |-> {}, status |-> "modified", hunks |-> {<<2, 0>>}]},
          {[path |-> "z", oldPath |-> {"h"}, status |-> "renamed", hunks |-> {}]},
          {[path |-> "readme", oldPath |-> {}, status |-> "modified", hunks |-> {<<1, 1>>}]}}

Env == [enabled |-> TRUE, hits |-> {<<"s2", "s2">>, <<"cluster:c", "s3">>, <<"s9", "s9">>},
        kinds |-> Kinds, isRepository |-> TRUE, diffs |-> {}]

Call(tool, params) == [tool |-> tool, params |-> params, env |-> Env]

Symbols ==
    {Call("impact_analysis", "symbolName" :> Str(q) @@ "maxDepth" :> Num(d)) :
         q \in {"s1", "s3", "save", "sav", "npm", "nothing"}, d \in {0, 1}}
    \union {Call("get_symbol_context", "symbolName" :> Str("s2") @@ "tokenBudget" :> Num(b) @@ "maxDepth" :> Num(d) @@
                    "pin" :> [type |-> "strings", shape |-> "none", value |-> pin]) :
                b \in {0, 3, 5}, pin \in {{}, {"s3"}}, d \in {-1, 0, 1}}
    \union {Call("get_symbol_context", "symbolName" :> Str("sav") @@ "tokenBudget" :> Num(b)) : b \in {0, 1}}
    \union {Call("trace_data_flow", "entryPoint" :> Str(q)) : q \in {"s1", "sav", "nothing"}}
    \union {Call("trace", "fromSymbol" :> Str(f) @@ "toSymbol" :> Str(t) @@ "maxDepth" :> Num(d)) :
                f \in S \union {"sav"}, t \in S, d \in {0, 1}}
    \union {Call("rename", "symbolName" :> Str(q) @@ "newName" :> Str("fresh") @@ file) :
                q \in S \union {"sav"}, file \in {NoParam, "filePath" :> Str("h")}}

Verified ==
    {Call("verify_claim", "kind" :> Str("usage") @@ "symbol" :> Str(q)) : q \in S \union {"save"}}
    \union {Call("verify_claim", "kind" :> Str("edge") @@ "from" :> Str(f) @@ "to" :> Str(t) @@ "relation" :> Str("calls")) :
                f \in S, t \in S}
    \union {Call("verify_claim", "kind" :> Str("reachability") @@ "from" :> Str(f) @@ "to" :> Str(t) @@ "polarity" :> Str(p)) :
                f \in S, t \in S, p \in {"reachable", "independent"}}

Listings ==
    {Call("find_dead_code", kind @@ "maxResults" :> Num(1)) : kind \in {NoParam, "kind" :> Str("method")}}
    \union {Call("find_hotspots", "minComplexity" :> Num(2) @@ "maxResults" :> Num(1) @@ "offset" :> Num(skip)) : skip \in {0, 1}}
    \union {Call("shape_check", route) : route \in {NoParam, "route" :> Str("s1")}}
    \union {[Call("smart_search", "query" :> Str("save")) EXCEPT !.env.enabled = enabled] : enabled \in BOOLEAN}
    \union {[Call("detect_changes", "scope" :> Str("all")) EXCEPT !.env.diffs = diffs, !.env.isRepository = repo] :
                diffs \in Diffs, repo \in BOOLEAN}

MCQuestions == Symbols \union Verified \union Listings

-----------------------------------------------------------------------------
(* Calls of any shape                                                      *)

Shapes == {Absent, Num(0), Num(1), [type |-> "number", shape |-> "negative", value |-> 0 - 1],
           [type |-> "string", shape |-> "empty", value |-> ""], [type |-> "string", shape |-> "blank", value |-> " "],
           [type |-> "string", shape |-> "other", value |-> "other"], [type |-> "other", shape |-> "none", value |-> "none"]}

Good(tool) ==
    CASE tool \in {"get_symbol_context", "impact_analysis"} -> "symbolName" :> Str("s1")
      [] tool = "rename" -> "symbolName" :> Str("s1") @@ "newName" :> Str("fresh")
      [] tool = "trace_data_flow" -> "entryPoint" :> Str("s1")
      [] tool = "trace" -> "fromSymbol" :> Str("s1") @@ "toSymbol" :> Str("s2")
      [] tool = "smart_search" -> "query" :> Str("s1")
      [] OTHER -> NoParam

Claims == {"kind" :> k @@ "symbol" :> a @@ "from" :> a @@ "to" :> b @@ "relation" :> r @@ "polarity" :> r :
             k \in {Absent, Str("usage"), Str("edge"), Str("reachability")}, a \in Shapes \union {Str("s1")},
             b \in {Absent, Str("s2")}, r \in {Absent, Str("calls"), [type |-> "string", shape |-> "other", value |-> "other"]}}

MCRequests == {[tool |-> t, params |-> (p :> v) @@ Good(t)] :
             t \in Tools \ {"verify_claim"}, v \in Shapes,
             p \in {"symbolName", "newName", "filePath", "entryPoint", "fromSymbol", "toSymbol", "query", "scope", "baseRef",
                    "kind", "maxResults", "minComplexity", "offset", "route", "tokenBudget", "pin", "maxDepth", "changeType"}}
         \union {[tool |-> "verify_claim", params |-> c] : c \in Claims}
         \union {[tool |-> "detect_changes", params |-> "scope" :> Str("compare")], [tool |-> "find_everything", params |-> NoParam]}

MCAuthConfigs == {[enabled |-> e, tokens |-> {"good"}] : e \in BOOLEAN}

-----------------------------------------------------------------------------
(* Over HTTP, and in the augmented search                                  *)

Lower == [q \in {"s1", "s2", "saveAll"} |-> IF q = "saveAll" THEN "saveall" ELSE q]

MCHttpQueries ==
    {[text |-> [words |-> words, target |-> q, paths |-> paths], lower |-> Lower,
      enabled |-> TRUE, hits |-> {"s1", "s2", "s9"}, maxResults |-> 2] :
         words \in {{}, {"pre-commit", "impact"}, {"impact"}, {"trace"}, {"context"}}, q \in {"s1", "saveAll"}, paths \in {{}, {"f"}}}

MCSearches == {[terms |-> terms, kept |-> S] : terms \in {{"save"}, {"sav", "auth"}}}
=============================================================================
