------------------------------ MODULE McpTools ------------------------------
(***************************************************************************)
(* The front ends of the use cases: the MCP tools (src/apps/mcp-server)    *)
(* and the HTTP query endpoint (src/apps/query-api, execute-query.ts).     *)
(*                                                                         *)
(* A parameter is "absent" or a record of the type, and for a string or a  *)
(* number the shape, that the validators tell apart, and of the value the  *)
(* tool uses:                                                              *)
(*    string  "empty", "blank" (only spaces), "other" (not one of the      *)
(*            values or not an identifier), "ok"                           *)
(*    number  "negative", "zero", "positive"                               *)
(*    strings, other                                                       *)
(***************************************************************************)
EXTENDS Queries

Absent == [type |-> "absent", shape |-> "none", value |-> "none"]
Param(params, p) == IF p \in DOMAIN params THEN params[p] ELSE Absent

\* A parameter read as a string; one that is missing is passed on as it is.
TextOf(p) == IF p.type = "string" THEN p.value ELSE "undefined"

-----------------------------------------------------------------------------
(* validateToolParams() (validation.ts)                                    *)

ClaimParams(kind) ==
    CASE kind = "usage" -> <<<<"symbol", "required">>>>
      [] kind = "edge" -> <<<<"from", "required">>, <<"to", "required">>, <<"relation", "requiredEnum">>>>
      [] kind = "reachability" -> <<<<"from", "required">>, <<"to", "required">>, <<"polarity", "requiredEnum">>>>
      [] OTHER -> << >>

\* What is checked of the parameters of the tools that name a symbol or a text,
\* in this order.
SymbolToolChecks(tool) ==
    CASE tool = "get_symbol_context" ->
            <<<<"symbolName", "required">>, <<"tokenBudget", "nonNegative">>, <<"pin", "strings">>, <<"maxDepth", "number">>>>
      [] tool = "trace_data_flow" -> <<<<"entryPoint", "required">>>>
      [] tool = "impact_analysis" ->
            <<<<"symbolName", "required">>, <<"changeType", "enum">>, <<"maxDepth", "number">>>>
      [] tool = "smart_search" -> <<<<"query", "nonBlank">>, <<"maxResults", "positive">>>>
      [] tool = "trace" ->
            <<<<"fromSymbol", "required">>, <<"toSymbol", "required">>, <<"maxDepth", "number">>>>

\* A comparison needs something to compare with.
DetectChangesChecks(params) ==
    << <<"scope", "enum">> >> \o
    (IF TextOf(Param(params, "scope")) = "compare" THEN << <<"baseRef", "required">> >> ELSE << >>) \o
    <<<<"baseRef", "string">>, <<"maxResults", "positive">>>>

GraphToolChecks(tool) ==
    CASE tool = "find_dead_code" -> <<<<"kind", "enum">>, <<"maxResults", "positive">>>>
      [] tool = "find_hotspots" ->
            <<<<"minComplexity", "number">>, <<"maxResults", "number">>, <<"offset", "number">>, <<"maxResults", "positive">>>>
      [] tool = "rename" ->
            <<<<"symbolName", "required">>, <<"newName", "required">>, <<"newName", "identifier">>, <<"filePath", "string">>>>
      [] tool = "shape_check" -> <<<<"route", "string">>>>

SymbolTools == {"get_symbol_context", "trace_data_flow", "impact_analysis", "smart_search", "trace"}
GraphTools == {"find_dead_code", "find_hotspots", "rename", "shape_check"}
Tools == SymbolTools \union GraphTools \union {"detect_changes", "verify_claim"}

Checks(tool, params) ==
    CASE tool \in SymbolTools -> SymbolToolChecks(tool)
      [] tool \in GraphTools -> GraphToolChecks(tool)
      [] tool = "detect_changes" -> DetectChangesChecks(params)
      [] tool = "verify_claim" -> << <<"kind", "requiredEnum">> >> \o ClaimParams(Param(params, "kind").value)

\* The error a check raises, or "ok".
Fault(p, check) ==
    CASE check = "required" ->
            IF p.type # "string" \/ p.shape = "empty" THEN "MISSING_PARAMETER" ELSE "ok"
      [] check = "nonBlank" ->
            IF p.type # "string" \/ p.shape \in {"empty", "blank"} THEN "MISSING_PARAMETER" ELSE "ok"
      [] check = "requiredEnum" ->
            IF p.type # "string" \/ p.shape # "ok" THEN "INVALID_PARAMETER_VALUE" ELSE "ok"
      [] check = "enum" ->
            IF p.type = "absent" \/ (p.type = "string" /\ p.shape = "ok") THEN "ok" ELSE "INVALID_PARAMETER_VALUE"
      [] check = "identifier" -> IF p.shape = "ok" THEN "ok" ELSE "INVALID_PARAMETER_VALUE"
      [] check = "number" -> IF p.type \in {"absent", "number"} THEN "ok" ELSE "INVALID_PARAMETER_TYPE"
      [] check = "nonNegative" ->
            IF p.type = "absent" \/ (p.type = "number" /\ p.shape # "negative") THEN "ok" ELSE "INVALID_PARAMETER_TYPE"
      [] check = "positive" ->
            IF p.type = "absent" \/ (p.type = "number" /\ p.shape = "positive") THEN "ok" ELSE "INVALID_PARAMETER_TYPE"
      [] check = "string" -> IF p.type \in {"absent", "string"} THEN "ok" ELSE "INVALID_PARAMETER_TYPE"
      [] check = "strings" -> IF p.type \in {"absent", "strings"} THEN "ok" ELSE "INVALID_PARAMETER_TYPE"

\* The first check that fails decides.
ValidateToolParams(tool, params) ==
    IF tool \notin Tools THEN "UNKNOWN_TOOL"
    ELSE LET checks == Checks(tool, params)
             faults == [i \in DOMAIN checks |-> Fault(Param(params, checks[i][1]), checks[i][2])]
             bad    == {i \in DOMAIN checks : faults[i] # "ok"}
         IN  IF bad = {} THEN "ok" ELSE faults[Min(bad)]

-----------------------------------------------------------------------------
(* Claims as verify_claim reads them (parseClaim): blank is missing, here "" *)

AsString(p) == IF p.type = "string" /\ p.shape \notin {"empty", "blank"} THEN p.value ELSE ""

ParseClaim(params) ==
    LET p(n) == AsString(Param(params, n))
        valid == CASE p("kind") = "usage" -> p("symbol") # ""
                   [] p("kind") = "edge" -> p("from") # "" /\ p("to") # "" /\ Param(params, "relation").shape = "ok"
                   [] p("kind") = "reachability" -> p("from") # "" /\ p("to") # "" /\ Param(params, "polarity").shape = "ok"
                   [] OTHER -> FALSE
    IN  [kind |-> IF valid THEN p("kind") ELSE "invalid", symbol |-> p("symbol"),
         from |-> p("from"), to |-> p("to"), relation |-> p("relation"), polarity |-> p("polarity")]

-----------------------------------------------------------------------------
(* executeTool() (tools.ts and the tool modules)                           *)

\* params.x as number, or the default when it is absent, zero or no number.
NumberOr(p, default) == IF p.type = "number" /\ p.shape # "zero" THEN p.value ELSE default
PositiveOr(p, default) == IF p.type = "number" /\ p.shape = "positive" THEN p.value ELSE default
Depth(p) == IF p.type = "number" THEN p.value ELSE 0

Pinned(params) == IF Param(params, "pin").type = "strings" THEN Param(params, "pin").value ELSE {}

\* With a token budget the answer is cut to it; without one it is not.
ToolGetSymbolContext(g, params) ==
    {[ctx |-> c, slices |->
        IF Param(params, "tokenBudget").type = "number" /\ c.target # {}
        THEN {SliceContext(g, t, callers, callees, Param(params, "tokenBudget").value,
                 Pinned(params), IF Param(params, "maxDepth").type = "number" THEN Param(params, "maxDepth").value ELSE 1) :
                 t \in c.target, callers \in SetToSeqs(c.callers), callees \in SetToSeqs(c.callees)}
        ELSE {}] : c \in ExecuteContextRetrieval(g, TextOf(Param(params, "symbolName")))}

ToolImpactAnalysis(g, params) ==
    ExecuteImpactAnalysis(g, TextOf(Param(params, "symbolName")),
                          NumberOr(Param(params, "maxResults"), 100), Depth(Param(params, "maxDepth")))

ToolTrace(g, params) ==
    ExecuteTracePath(g, TextOf(Param(params, "fromSymbol")), TextOf(Param(params, "toSymbol")), Depth(Param(params, "maxDepth")))

ToolTraceDataFlow(g, params) == ExecuteDataFlowTrace(g, TextOf(Param(params, "entryPoint")))
ToolVerifyClaim(g, params) == ExecuteVerifyClaim(g, ParseClaim(params))

\* An unknown kind is no filter; a cap that is absent or zero is the default.
ToolFindDeadCode(g, params, kinds) ==
    FindDeadCode(g, IF Param(params, "kind").shape = "ok" THEN {Param(params, "kind").value} ELSE kinds,
                 NumberOr(Param(params, "maxResults"), 100))

ToolFindHotspots(g, params) ==
    LET m == Param(params, "minComplexity")
    IN  FindHotspots(g, IF m.type = "number" /\ m.shape # "negative" THEN m.value ELSE 10,
                     PositiveOr(Param(params, "offset"), 0), PositiveOr(Param(params, "maxResults"), 50))

ToolRename(g, params) ==
    BuildRenamePlan(g, TextOf(Param(params, "symbolName")),
                    IF Param(params, "filePath").type = "string" THEN Param(params, "filePath").value ELSE "none")

\* Outside a repository, or with nothing changed, the answer is "low".
ToolDetectChanges(g, params, isRepository, diffs) ==
    ExecuteDetectChanges(g, IF isRepository THEN diffs ELSE {}, PositiveOr(Param(params, "maxResults"), 100))

\* Routes and consumers as they are persisted; a consumer fetches the routes of
\* its own file or, if that declares none, possibly every route.
LoadRoutes(g) == {[file |-> g.at[s].file, responseKeys |-> g.at[s].responseKeys] :
                    s \in {t \in Ids(g) : g.at[t].responseKeys # {}}}
LoadConsumers(g) ==
    LET routes == {t \in Ids(g) : g.at[t].responseKeys # {}}
        here(s) == {r \in routes : g.at[r].file = g.at[s].file}
    IN  {[id |-> s, accessedKeys |-> g.at[s].accessedKeys,
          routesFetchedInFile |-> Cardinality(IF here(s) # {} THEN here(s) ELSE routes)] :
            s \in {t \in Ids(g) : g.at[t].accessedKeys # {}}}

\* The drift of the whole graph, with the impact of the route if one is named.
ToolShapeCheck(g, params) ==
    LET route == Param(params, "route")
        drift == ShapeCheck(LoadRoutes(g), LoadConsumers(g))
    IN  IF AsString(route) = "" THEN {[drift |-> drift, impact |-> NoImpact(g)]}
        ELSE {[drift |-> drift, impact |-> a] : a \in ExecuteImpactAnalysis(g, route.value, 100, 0)}

\* hits: what the vector search found, as pairs of the id that was indexed and
\* the symbol it stands for (that of a cluster is in its metadata).  The first
\* of the rows found decides whose callers and clusters are shown.
ToolSmartSearch(g, enabled, hits) ==
    LET found == {h[2] : h \in hits} \cap Ids(g)
        none  == [symbols |-> {}, dependents |-> {}, clusters |-> {}]
    IN  IF ~enabled \/ found = {} THEN {none}
        ELSE {[symbols |-> found, dependents |-> Dependents(g, Named(g, top), 5),
               clusters |-> ClustersOf(g, Named(g, top))] : top \in found}

\* env: whether there is a GitPort and a repository, the diffs it reports,
\* whether embeddings are enabled and what the vector search finds.
ExecuteTool(g, tool, params, env) ==
    CASE tool = "get_symbol_context" -> ToolGetSymbolContext(g, params)
      [] tool = "trace_data_flow" -> ToolTraceDataFlow(g, params)
      [] tool = "impact_analysis" -> ToolImpactAnalysis(g, params)
      [] tool = "smart_search" -> ToolSmartSearch(g, env.enabled, env.hits)
      [] tool = "trace" -> ToolTrace(g, params)
      [] tool = "find_dead_code" -> ToolFindDeadCode(g, params, env.kinds)
      [] tool = "find_hotspots" -> {ToolFindHotspots(g, params)}
      [] tool = "rename" -> ToolRename(g, params)
      [] tool = "shape_check" -> ToolShapeCheck(g, params)
      [] tool = "verify_claim" -> ToolVerifyClaim(g, params)
      [] tool = "detect_changes" -> {ToolDetectChanges(g, params, env.isRepository, env.diffs)}

-----------------------------------------------------------------------------
(* The two ways in: the stdio server validates nothing, handler.ts does    *)

\* What the call comes to before the tool runs.  Everything thrown becomes an
\* error answer.
CallTool(tool, params) ==
    IF tool \notin Tools THEN "error"
    ELSE IF tool = "smart_search" /\ AsString(Param(params, "query")) = "" THEN "error"
    ELSE "execute"

\* The token of the Authorization header, or else of the parameters.
ExtractAuthToken(header, params) ==
    IF header # "none" THEN header
    ELSE IF Param(params, "token").type = "string" /\ Param(params, "token").shape # "empty"
    THEN Param(params, "token").value ELSE "none"

ValidateAuthToken(token, auth) == ~auth.enabled \/ (token # "none" /\ token \in auth.tokens)

\* Authentication before validation; this way in has no GitPort.
HandleMCPRequest(tool, params, header, auth) ==
    IF ~ValidateAuthToken(ExtractAuthToken(header, params), auth) THEN "AUTHENTICATION_FAILED"
    ELSE IF ValidateToolParams(tool, params) # "ok" THEN ValidateToolParams(tool, params)
    ELSE IF tool = "detect_changes" THEN "INTERNAL_ERROR"
    ELSE "execute"

-----------------------------------------------------------------------------
(* POST /query (query-api/server.ts, execute-query.ts, intent.ts,          *)
(* preprocess.ts): a text is the set of its words, its target and the      *)
(* paths it names                                                          *)

\* Lower case, and no punctuation: no path is recognisable any more.
PreprocessQuery(text, lower) == [text EXCEPT !.target = lower[@], !.paths = {}]

\* The first of these words that the text has decides.
IntentOf == <<<<"pre-commit", "preCommitCheck">>, <<"trace", "dataFlowTrace">>,
              <<"impact", "impactAnalysis">>, <<"context", "contextRetrieval">>>>

ClassifyIntent(text) ==
    LET hit == {i \in DOMAIN IntentOf : IntentOf[i][1] \in text.words}
    IN  IF hit = {} THEN "smartSearch" ELSE IntentOf[Min(hit)][2]

\* [intent |-> ..., answers |-> the answers it may get]
ExecuteQuery(g, text, lower, enabled, hits, maxResults) ==
    LET t == PreprocessQuery(text, lower)
        i == ClassifyIntent(t)
    IN  [intent |-> i,
         answers |-> CASE i = "preCommitCheck" -> {ExecutePreCommitCheck(g, t.paths, maxResults)}
                       [] i = "dataFlowTrace" -> ExecuteDataFlowTrace(g, t.target)
                       [] i = "impactAnalysis" -> ExecuteImpactAnalysis(g, t.target, maxResults, 0)
                       [] i = "contextRetrieval" -> ExecuteContextRetrieval(g, t.target)
                       [] i = "smartSearch" -> ExecuteSmartSearch(g, enabled, hits, maxResults)]
=============================================================================
