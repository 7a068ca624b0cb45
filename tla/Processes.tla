----------------------------- MODULE Processes -----------------------------
(***************************************************************************)
(* Phase 5 of the indexer, src/application/indexing/processes: which       *)
(* symbols are entry points, the path of calls each one starts, and the    *)
(* process made of it.                                                     *)
(*                                                                         *)
(* Symbols are a sequence of records (id, kind, public, the class of the   *)
(* name, and the type its signature returns, if any); relationships are a  *)
(* sequence of records (type, from, to).                                   *)
(***************************************************************************)
EXTENDS Integers, Sequences, FiniteSets

LOCAL INSTANCE SequencesExt

CONSTANTS
    MaxBranching, \* MAX_BRANCHING: callees followed of one symbol
    MaxDepth      \* MAX_TRAVERSAL_DEPTH

MinSteps == 2 \* MIN_PROCESS_STEPS

Ids(symbols) == {symbols[i].id : i \in DOMAIN symbols}
TheSymbol(symbols, s) == symbols[CHOOSE i \in DOMAIN symbols : symbols[i].id = s]
Added(seq, x) == IF x \in ToSet(seq) THEN seq ELSE Append(seq, x)

\* buildCallGraph: the callees of each symbol, in the order they come up
CallGraph(symbols, rels) ==
    LET known(s) == SelectSeq(rels, LAMBDA r : r.type = "calls" /\ r.from = s /\ r.to \in Ids(symbols))
    IN  [s \in Ids(symbols) |-> FoldLeft(LAMBDA seen, r : Added(seen, r.to), <<>>, known(s))]

-----------------------------------------------------------------------------
(* Entry points                                                            *)

Callers(calls, s) == {c \in DOMAIN calls : s \in ToSet(calls[c])}

\* calculateEntryPointScore, as a fraction
Score(symbol, calls) ==
    [over  |-> Len(calls[symbol.id]) * (IF symbol.public THEN 2 ELSE 1)
               * (CASE symbol.name = "utility" -> 3 [] symbol.name = "entry" -> 15 [] OTHER -> 10),
     under |-> 10 * (Cardinality(Callers(calls, symbol.id)) + 1)]

Greater(a, b) == a.over * b.under > b.over * a.under

Qualifies(symbol, calls) ==
    /\ symbol.kind \in {"function", "method", "class"}
    /\ calls[symbol.id] # <<>>
    /\ Score(symbol, calls).over > Score(symbol, calls).under

\* findEntryPoints: the best score first, equals in the order of the symbols
FindEntryPoints(symbols, calls) ==
    LET put(sorted, symbol) ==
            LET higher == Cardinality({i \in DOMAIN sorted : ~Greater(Score(symbol, calls), Score(sorted[i], calls))})
            IN  InsertAt(sorted, higher + 1, symbol)
        sorted == FoldLeft(put, <<>>, SelectSeq(symbols, LAMBDA s : Qualifies(s, calls)))
    IN  [i \in DOMAIN sorted |-> sorted[i].id]

-----------------------------------------------------------------------------
(* Tracing                                                                 *)

Candidates(calls, s) == SubSeq(calls[s], 1, IF Len(calls[s]) > MaxBranching THEN MaxBranching ELSE Len(calls[s]))

\* What the next branch must not meet again: the path so far, and no more.
VisitedAfter(visited, sub) == visited

\* dfsTrace: of the candidates the first one with the longest path
RECURSIVE DfsTrace(_, _, _, _)
DfsTrace(s, calls, visited, depth) ==
    LET follow(best, c) ==
            IF c \in best.visited THEN [best EXCEPT !.cyclic = TRUE]
            ELSE LET sub == DfsTrace(c, calls, best.visited \union {c}, depth + 1)
                 IN  IF Len(sub.path) + 1 > Len(best.path)
                     THEN [path |-> <<s>> \o sub.path, cyclic |-> best.cyclic \/ sub.cyclic,
                           visited |-> VisitedAfter(best.visited, sub)]
                     ELSE [best EXCEPT !.visited = VisitedAfter(@, sub)]
        alone == [path |-> <<s>>, cyclic |-> FALSE, visited |-> visited]
    IN  IF depth >= MaxDepth THEN alone ELSE FoldLeft(follow, alone, Candidates(calls, s))

\* traceExecution: none if the path is too short
TraceExecution(entry, calls) ==
    LET trace == DfsTrace(entry, calls, {entry}, 0)
    IN  IF Len(trace.path) < MinSteps THEN {}
        ELSE {[entry |-> entry, path |-> trace.path, cyclic |-> trace.cyclic]}

\* traceAllExecutions: one of those with the same path
TraceAllExecutions(entries, calls) ==
    LET add(traces, entry) ==
            LET new == {t \in TraceExecution(entry, calls) :
                           \A i \in DOMAIN traces : traces[i].path # t.path}
            IN  traces \o SetToSeq(new)
    IN  FoldLeft(add, <<>>, entries)

-----------------------------------------------------------------------------
(* Processes                                                               *)

\* analyzeDataFlow: an edge for each two steps one of which calls the next,
\* with the type the callee's signature says it returns
AnalyzeDataFlow(path, symbols, rels) ==
    LET edges == [i \in 1..(Len(path) - 1) |->
                     [from |-> path[i], to |-> path[i + 1], type |-> TheSymbol(symbols, path[i + 1]).returns]]
    IN  SelectSeq(edges, LAMBDA e : \E r \in ToSet(rels) : r.type = "calls" /\ r.from = e.from /\ r.to = e.to)

\* inferProcessName: of the entry, and of the last step if it is another
ProcessName(entry, path) == IF Last(path) = entry THEN <<entry>> ELSE <<entry, Last(path)>>

\* traceProcesses
TraceProcesses(symbols, rels) ==
    LET calls  == CallGraph(symbols, rels)
        traces == TraceAllExecutions(FindEntryPoints(symbols, calls), calls)
    IN  [i \in DOMAIN traces |->
            [id |-> <<i, traces[i].entry>>, name |-> ProcessName(traces[i].entry, traces[i].path),
             entry |-> traces[i].entry, steps |-> traces[i].path,
             dataFlow |-> AnalyzeDataFlow(traces[i].path, symbols, rels)]]
=============================================================================
