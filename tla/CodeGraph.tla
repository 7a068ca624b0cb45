----------------------------- MODULE CodeGraph -----------------------------
(***************************************************************************)
(* The persisted code graph as the query use cases read it, and the        *)
(* lookups they share (src/application/querying/graph-helpers.ts,          *)
(* symbol-resolver.ts and the runCypher patterns of the use cases).        *)
(*                                                                         *)
(* A graph is a record:                                                    *)
(*    symbols   the ids of its Symbol nodes                                *)
(*    at        for each of them a record of what is stored about it       *)
(*    edges     for each edge label the set of pairs of symbols            *)
(*    dependsOn pairs of a symbol and an external dependency               *)
(*    steps     for each process the sequence of symbols it goes through   *)
(*    members   for each cluster the symbols it contains                   *)
(*                                                                         *)
(* Rows come back in no particular order, so a lookup that takes one row,  *)
(* or as many as fit, is a set of possible results.                        *)
(***************************************************************************)
EXTENDS Integers, SequencesExt

CONSTANTS
    Within,     \* the pairs <<q, n>> where the name n CONTAINS the text q
    Length,     \* the length of each name
    CoreNames,  \* names that match CORE_COMPONENT_PATTERNS
    EntryNames, \* names that match ENTRY_POINT_PATTERNS
    MaxDepth    \* MAX_TRAVERSAL_DEPTH

ASSUME DepthAssumption == MaxDepth \in Nat \ {0}

Labels == {"calls", "contains", "imports", "inherits", "implements", "references"}

Ids(g) == DOMAIN g.at

-----------------------------------------------------------------------------
(* Resolving what the user typed                                           *)

\* WHERE n.id = $val OR n.name = $val
Named(g, q) == {s \in Ids(g) : s = q \/ g.at[s].name = q}

\* WHERE n.name CONTAINS $val, of those the shortest name.
Fuzzy(g, q) ==
    LET found == {s \in Ids(g) : <<q, g.at[s].name>> \in Within}
    IN  {s \in found : \A t \in found : Length[g.at[s].name] <= Length[g.at[t].name]}

\* Up to five suggestions, by their distance to the text (not modelled).
SuggestSimilarSymbols(g) == {g.at[s].name : s \in Ids(g)}

NotFound(g) == [kind |-> "not_found", suggestions |-> SuggestSimilarSymbols(g)]
Exact(s) == [kind |-> "exact", node |-> s]

\* The exact match, or else the closest name that contains the text, or else
\* suggestions.  Exact and fuzzy matches are LIMIT 1: any row may be the one.
ResolveSymbol(g, q) ==
    IF Named(g, q) # {} THEN {Exact(s) : s \in Named(g, q)}
    ELSE IF Fuzzy(g, q) # {} THEN {[kind |-> "fuzzy", node |-> s] : s \in Fuzzy(g, q)}
    ELSE {NotFound(g)}

-----------------------------------------------------------------------------
(* Patterns over the edges                                                 *)

Before(E, T) == {s \in {e[1] : e \in E} : \E t \in T : <<s, t>> \in E}
After(E, S) == {t \in {e[2] : e \in E} : \E s \in S : <<s, t>> \in E}

\* (n)-[:CALLS*1..depth]->(t): everything that reaches T in 1 to depth calls.
Dependents(g, T, depth) ==
    LET up[k \in 1..depth] ==
            IF k = 1 THEN Before(g.edges["calls"], T)
            ELSE up[k - 1] \union Before(g.edges["calls"], up[k - 1])
    IN  up[depth]

Dependencies(g, S) ==
    LET down[k \in 1..MaxDepth] ==
            IF k = 1 THEN After(g.edges["calls"], S)
            ELSE down[k - 1] \union After(g.edges["calls"], down[k - 1])
    IN  down[MaxDepth]

ClampTraversalDepth(d) == IF d < 1 THEN MaxDepth ELSE Min({d, MaxDepth})

ExternalsOf(g, S) == {e[2] : e \in {d \in g.dependsOn : d[1] \in S}}
ProcessesOf(g, S) == {p \in DOMAIN g.steps : ToSet(g.steps[p]) \cap S # {}}
ClustersOf(g, S) == {c \in DOMAIN g.members : g.members[c] \cap S # {}}

\* The labels of the edges from s to t.
Between(g, s, t) == {l \in Labels : <<s, t>> \in g.edges[l]}

IsExported(g, s) == g.at[s].public \/ g.at[s].kind = "export"

-----------------------------------------------------------------------------
(* Answers                                                                 *)

\* rows.slice(0, n) of rows in no particular order.
Slices(S, n) == {T \in SUBSET S : Cardinality(T) = Min({n, Cardinality(S)})}

Risk(g, S) ==
    IF \E s \in S : g.at[s].name \in CoreNames THEN "critical"
    ELSE IF Cardinality(S) >= 11 THEN "high"
    ELSE IF Cardinality(S) >= 3 THEN "medium"
    ELSE "low"
=============================================================================
