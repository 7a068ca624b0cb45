------------------------------ MODULE UseCases ------------------------------
(***************************************************************************)
(* The query use cases as they are asked: over the stdio server of the MCP *)
(* tools, through the validating handler, over HTTP, and by the augmented  *)
(* search.  A question is put to one graph and answered in one step: what  *)
(* is answered may depend on which rows the database returns first.        *)
(***************************************************************************)
EXTENDS McpTools

CONSTANTS
    Graphs,      \* what may be persisted
    Questions,   \* calls of a tool over stdio, with the surroundings of the tool
    Requests,    \* calls of the validating handler,
    Headers,     \* the tokens their Authorization header may carry, or "none",
    AuthConfigs, \* and the settings of the authentication
    HttpQueries, \* the texts of POST /query, with the surroundings
    Searches     \* the terms of augment(), and the symbols a context keeps

\* A persisted graph: relationships are between nodes there are, a symbol ends
\* no earlier than it starts, and an id, which is a digest of path, name and kind
\* (generateLogicalKey), is not the name of another symbol.
IsGraph(g) ==
    /\ IsFiniteSet(Ids(g))
    /\ \A l \in Labels : g.edges[l] \subseteq Ids(g) \X Ids(g)
    /\ \A s \in Ids(g) : /\ {g.at[s].start, g.at[s].end} \subseteq Int
                         /\ g.at[s].start <= g.at[s].end
                         /\ g.at[s].tokens \in Nat
    /\ \A s, t \in Ids(g) : g.at[s].name = t => s = t

\* The shape of a parameter tells of its value what the validators look at.
IsParam(p) ==
    /\ p.type = "string" => ((p.shape = "empty") <=> (p.value = ""))
    /\ p.type = "number" => p.value \in Int
IsCall(c) ==
    /\ \A p \in DOMAIN c.params : IsParam(c.params[p])
    /\ (c.tool = "verify_claim" /\ Param(c.params, "kind").shape = "ok") =>
           Param(c.params, "kind").value \in {"usage", "edge", "reachability"}

ASSUME GraphsAssumption == \A g \in Graphs : IsGraph(g)
ASSUME CallsAssumption == \A c \in Questions \union Requests : IsCall(c)

VARIABLES
    graph,  \* what is persisted
    reply   \* the question asked last, and its answer

vars == <<graph, reply>>

Nothing == [tool |-> "none"]

Init == graph \in Graphs /\ reply = Nothing

-----------------------------------------------------------------------------
Unasked == reply = Nothing
Answer(r) == reply' = r /\ UNCHANGED graph

\* A call of a tool over stdio that gets as far as the tool.
Ask(q) ==
    /\ Unasked
    /\ CallTool(q.tool, q.params) = "execute"
    /\ \E a \in ExecuteTool(graph, q.tool, q.params, q.env) :
           Answer([tool |-> q.tool, params |-> q.params, a |-> a])

Handle(c, header, auth) ==
    /\ Unasked
    /\ Answer([tool |-> "handler", call |-> c, header |-> header, auth |-> auth,
               a |-> HandleMCPRequest(c.tool, c.params, header, auth)])

Post(h) ==
    /\ Unasked
    /\ LET answered == ExecuteQuery(graph, h.text, h.lower, h.enabled, h.hits, h.maxResults)
       IN  \E a \in answered.answers : Answer([tool |-> "http", text |-> h.text, intent |-> answered.intent, a |-> a])

Search(s) ==
    /\ Unasked
    /\ \E a \in Augment(graph, s.terms, s.kept) : Answer([tool |-> "augment", terms |-> s.terms, a |-> a])

Next ==
    \/ \E q \in Questions : Ask(q)
    \/ \E c \in Requests, h \in Headers, a \in AuthConfigs : Handle(c, h, a)
    \/ \E h \in HttpQueries : Post(h)
    \/ \E s \in Searches : Search(s)

Spec == Init /\ [][Next]_vars

-----------------------------------------------------------------------------
(* Properties                                                              *)

Asked(tool) == reply.tool = tool
P(p) == Param(reply.params, p)

\* A path the trace tool reports leads from one symbol to the other along
\* edges of the graph, within the depth asked for, and no shorter one exists;
\* when it reports none, no path is that short (bfsShortestPath()).
TraceIsShortest ==
    Asked("trace") /\ reply.a.from.kind # "not_found" /\ reply.a.to.kind # "not_found" =>
        LET hops  == reply.a.hops
            depth == ClampTraversalDepth(Depth(P("maxDepth")))
            short(n) == {p \in UNION {[1..k -> Ids(graph)] : k \in 1..n} :
                            /\ p[1] = reply.a.from.node /\ p[Len(p)] = reply.a.to.node
                            /\ \A i \in 1..(Len(p) - 1) : <<p[i], p[i + 1]>> \in TraceEdges(graph)}
        IN  IF reply.a.found
            THEN hops \in short(Len(hops)) /\ Len(hops) - 1 <= depth /\ short(Len(hops) - 1) = {}
            ELSE short(depth + 1) = {}

\* What the tools say of the same graph does not contradict, for symbols whose
\* names are theirs alone: a symbol that is confirmed unused is a candidate of
\* find_dead_code and nothing depends on it, one that is refuted is none and
\* something does; a call is confirmed or refuted as impact_analysis has its
\* direct dependents; a symbol another one depends on is never said to be
\* unreachable from that one.
VerdictsAgree ==
    Asked("verify_claim") =>
        LET v     == reply.a.verdict
            claim == ParseClaim(reply.params)
            means(q, s) == Named(graph, q) = {s}
            dependents(q, d) == UNION {a.dependents : a \in ExecuteImpactAnalysis(graph, q, 100, d)}
            dead  == DeadCode(graph, {graph.at[s].kind : s \in Ids(graph)})
        IN  /\ claim.kind = "usage" =>
                   \A s \in Ids(graph) : means(claim.symbol, s) =>
                       /\ v = "confirmed" => s \in dead /\ dependents(claim.symbol, 0) = {}
                       /\ v = "refuted" => s \notin dead /\ dependents(claim.symbol, 0) # {}
            /\ claim.kind = "edge" /\ claim.relation = "calls" =>
                   \A s, t \in Ids(graph) : means(claim.from, s) /\ means(claim.to, t) =>
                       /\ v = "confirmed" => s \in dependents(claim.to, 1)
                       /\ v = "refuted" => s \notin dependents(claim.to, 1)
            /\ claim.kind = "reachability" =>
                   \A s, t \in Ids(graph) : means(claim.from, s) /\ means(claim.to, t) /\ s \in dependents(claim.to, 0) =>
                           v \in {"uncertain", IF claim.polarity = "reachable" THEN "confirmed" ELSE "refuted"}

\* The parameters by which a tool looks something up.
Reads(tool) ==
    CASE tool \in {"get_symbol_context", "impact_analysis", "rename"} -> {"symbolName"}
      [] tool = "trace_data_flow" -> {"entryPoint"}
      [] tool = "trace" -> {"fromSymbol", "toSymbol"}
      [] OTHER -> {}

\* A call the handler lets through has every text its tool reads, and a claim
\* verify_claim can parse unless a text of it is blank: what validation.ts
\* accepts, the tools understand.  Nobody gets through without a token that is
\* known.
AcceptedIsUnderstood ==
    Asked("handler") /\ reply.a = "execute" =>
        LET c == reply.call
            blank == \E p \in DOMAIN c.params : c.params[p].shape = "blank"
        IN  /\ reply.auth.enabled => {reply.header, Param(c.params, "token").value} \cap reply.auth.tokens # {}
            /\ CallTool(c.tool, c.params) = "execute"
            /\ \A p \in Reads(c.tool) : Param(c.params, p).type = "string" /\ Param(c.params, p).value # ""
            /\ c.tool = "verify_claim" => blank \/ ParseClaim(c.params).kind # "invalid"

\* The answers of the tools are true of the graph, agree with each other, and
\* are given to every question the validator lets through.
AnswersAgree == TraceIsShortest /\ VerdictsAgree /\ AcceptedIsUnderstood

\* The tokens of a set of symbols.
CostOf(g, T) == FoldSet(LAMBDA s, n : n + g.at[s].tokens, 0, T)

\* A slice of a symbol's context has every pinned symbol, no symbol twice, and
\* no more tokens than the budget unless the pinned ones alone exceed it; it
\* says it is complete exactly if it left nothing out, and what it left out for
\* the budget would not have fitted (sliceContext()).
SliceWithinBudget ==
    Asked("get_symbol_context") =>
        LET all    == reply.a.ctx.target \union reply.a.ctx.callers \union reply.a.ctx.callees
            pinned == Pinned(reply.params) \cap all
        IN  \A slice \in reply.a.slices :
                LET kept == {slice.symbols[i] : i \in DOMAIN slice.symbols} IN
                /\ pinned \subseteq kept /\ kept \subseteq all
                /\ Cardinality(kept) = Len(slice.symbols)
                /\ slice.total = CostOf(graph, kept)
                /\ P("tokenBudget").value # 0 => slice.total <= P("tokenBudget").value \/ kept \subseteq pinned
                /\ (slice.reason = "complete") <=> (kept = all)
                /\ slice.reason = "token_budget" =>
                       \E s \in all \ kept : CostOf(graph, kept) + graph.at[s].tokens > P("tokenBudget").value

RiskRank(r) == CASE r = "low" -> 0 [] r = "medium" -> 1 [] r = "high" -> 2 [] r = "critical" -> 3

\* Applying a rename plan and asking detect_changes about the edited lines
\* reports every edited symbol as changed and every dependent, and at least
\* the risk, that impact_analysis announces for the renamed symbol; every direct
\* dependent of that symbol has an edit of its own.
PlanMatchesImpact ==
    Asked("rename") =>
        \A t \in reply.a.target :
            LET edits == reply.a.edits
                diffs == {[path |-> e.file, oldPath |-> {}, status |-> "modified", hunks |-> {<<e.line, 1>>}] : e \in edits}
                seen  == ExecuteDetectChanges(graph, diffs, 100)
            IN  /\ {e.at : e \in edits} \subseteq ResolveChangedSymbols(graph, diffs).symbols \cap seen.changed
                /\ \A a \in ExecuteImpactAnalysis(graph, t, 100, 0) :
                       a.dependents \subseteq seen.dependents /\ RiskRank(a.risk) <= RiskRank(seen.risk)
                /\ \A a \in ExecuteImpactAnalysis(graph, t, 100, 1) : a.dependents \subseteq {e.at : e \in edits}
=============================================================================
