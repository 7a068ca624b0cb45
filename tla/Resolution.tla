----------------------------- MODULE Resolution -----------------------------
(***************************************************************************)
(* Phase 3 of the indexer, src/application/indexing/resolution: from the   *)
(* symbols of the parsed files and the hints of their syntax trees to the  *)
(* relationships of the graph.  Names are looked up in tiers, through a    *)
(* cache that is cleared from file to file; classes are linearised (C3) to *)
(* find the method a member call means and the methods that override.      *)
(*                                                                         *)
(* A symbol is a record: id (a tuple), name, file, kind, owner (NoOne if   *)
(* there is none), arity (-1 if unknown), abstract, returns (a type: its   *)
(* head and the heads of its arguments), the lines first..last, and what   *)
(* its signature says it calls, extends and implements.  A hint is a record: kind, file, language, line,*)
(* target, child, and the receiver: its first word and the methods called  *)
(* on it in a row.                                                         *)
(***************************************************************************)
EXTENDS Integers, Sequences, FiniteSets, TLC

LOCAL INSTANCE SequencesExt

CONSTANTS
    LastSegment(_), \* of an import path, after the last "/"; its own name when it has none
    PackageName(_, _), \* normalizePackageName
    Local(_, _),    \* not isExternalPackage: a relative path, a header, a module of the runtime
    DirsOf(_),      \* the directory suffixes a file lies in
    Strategy(_)     \* the resolver of a language: its strategy and whether it follows return types

NoOne == <<>>
NoName == "none"
Nil == [id |-> NoOne]

FirstOf(seq) == IF seq = <<>> THEN Nil ELSE seq[1]
Find(seq, Test(_)) == FirstOf(SelectSeq(seq, Test))
Flat(seqs) == FoldLeft(LAMBDA acc, s : acc \o s, <<>>, seqs)

\* Relationships are kept by id: the first of each is kept, in order.
AddEdge(edges, type, from, to) ==
    LET edge == [type |-> type, from |-> from, to |-> to]
    IN  IF edge \in ToSet(edges) THEN edges ELSE Append(edges, edge)

-----------------------------------------------------------------------------
(* The linearisation of a class: mro.ts                                    *)

ParentsOf(parents, c) == IF c \in DOMAIN parents THEN parents[c] ELSE <<>>

RECURSIVE Breadth(_, _, _)
Breadth(parents, queue, order) ==
    IF queue = <<>> THEN order
    ELSE LET c == Head(queue) IN
         IF c \in ToSet(order) THEN Breadth(parents, Tail(queue), order)
         ELSE Breadth(parents, Tail(queue) \o SelectSeq(ParentsOf(parents, c), LAMBDA p : p \notin ToSet(order) \union {c}), Append(order, c))

\* gatherAncestors: the class itself is among them when it is on a cycle
GatherAncestors(parents, c) == Breadth(parents, ParentsOf(parents, c), <<>>)

Broken == [ok |-> FALSE, order |-> <<>>]

\* Regression: a head comes next although it is in the tail of another sequence.
FreeAny(open) == open

\* The first head that is in no tail comes next, and leaves every sequence.
Free(open) == SelectSeq(open, LAMBDA s : \A i \in DOMAIN open : Head(s) \notin ToSet(Tail(open[i])))

RECURSIVE Merge(_, _, _)
Merge(open, free, order) ==
    CASE open = <<>> -> [ok |-> TRUE, order |-> order]
      [] open # <<>> /\ free = <<>> -> Broken
      [] OTHER -> LET rest == SelectSeq([i \in DOMAIN open |-> IF Head(open[i]) = Head(free[1]) THEN Tail(open[i]) ELSE open[i]],
                                        LAMBDA s : s # <<>>)
                  IN  Merge(rest, Free(rest), Append(order, Head(free[1])))

MergeAll(sequences) == Merge(sequences, Free(sequences), <<>>)

MergeParents(parents, cache, c) ==
    LET of == parents[c] IN
    IF \E i \in DOMAIN of : of[i] \notin DOMAIN cache \/ ~cache[of[i]].ok THEN Broken
    ELSE MergeAll([i \in DOMAIN of |-> <<of[i]>> \o cache[of[i]].order] \o <<of>>)

\* One turn of the work stack.  A class is entered, its uncached parents are
\* put on top of it, and it is merged when it comes up again.
Turn(parents, s) ==
    LET frame   == Last(s.stack)
        c       == frame.id
        of      == ParentsOf(parents, c)
        missing == SelectSeq(of, LAMBDA p : p \notin DOMAIN s.cache)
        popped  == [s EXCEPT !.stack = Front(s.stack)]
        done(v) == [popped EXCEPT !.visiting = @ \ {c}, !.cache = (c :> v) @@ @]
    IN  CASE ~frame.merging /\ c \in DOMAIN s.cache -> popped
          [] ~frame.merging /\ c \notin DOMAIN s.cache /\ c \in s.visiting ->
                 [popped EXCEPT !.cache = (c :> Broken) @@ @]
          [] ~frame.merging /\ c \notin DOMAIN s.cache /\ c \notin s.visiting /\ of = <<>> ->
                 done([ok |-> TRUE, order |-> <<>>])
          [] ~frame.merging /\ c \notin DOMAIN s.cache /\ c \notin s.visiting /\ of # <<>> /\ missing # <<>> ->
                 [s EXCEPT !.visiting = @ \union {c},
                           !.stack = Front(@) \o <<[id |-> c, merging |-> TRUE]>>
                                     \o [i \in DOMAIN missing |-> [id |-> Reverse(missing)[i], merging |-> FALSE]]]
          [] OTHER -> done(MergeParents(parents, s.cache, c))

RECURSIVE Linearised(_, _)
Linearised(parents, s) == IF s.stack = <<>> THEN s.cache ELSE Linearised(parents, Turn(parents, s))

\* c3Linearize: the cache afterwards; the class's own entry is the answer
C3Linearize(parents, cache, c) ==
    IF c \in DOMAIN cache THEN cache
    ELSE Linearised(parents, [stack |-> <<[id |-> c, merging |-> FALSE]>>, visiting |-> {}, cache |-> cache])

EmptyCache == [c \in {} |-> Broken]

LinearizeAll(parents, classes) == FoldLeft(LAMBDA cache, c : C3Linearize(parents, cache, c), EmptyCache, classes)

-----------------------------------------------------------------------------
(* Methods that override or implement another: computeMRO                  *)

Method(s) == s.kind \in {"method", "function"} /\ s.owner # NoOne

\* parameterTypesMatch, which is only ever given the two counts
ArityMatches(a, b) == a = -1 \/ b = -1 \/ a = b

OwnersInOrder(symbols) ==
    FoldLeft(LAMBDA owners, s : IF s.owner \in ToSet(owners) THEN owners ELSE Append(owners, s.owner),
             <<>>, SelectSeq(symbols, LAMBDA s : Method(s) /\ \E i \in DOMAIN symbols : symbols[i].id = s.owner))

Heritage(symbols, edges) ==
    LET known == {symbols[i].id : i \in DOMAIN symbols}
    IN  SelectSeq(edges, LAMBDA e : e.type \in {"inherits", "implements"} /\ {e.from, e.to} \subseteq known)

ParentMap(heritage) ==
    [c \in {heritage[i].from : i \in DOMAIN heritage} |->
        LET own == SelectSeq(heritage, LAMBDA e : e.from = c) IN [i \in DOMAIN own |-> own[i].to]]

\* The edges of one method of class c: one to the matching method of each
\* interface before the first class that has one, and one to that class's.
EdgesOf(symbols, heritage, order, c, own, edges) ==
    LET contract(a) == \/ \E i \in DOMAIN symbols : symbols[i].id = a /\ symbols[i].kind = "interface"
                       \/ \E i \in DOMAIN heritage : heritage[i].from = c /\ heritage[i].to = a /\ heritage[i].type = "implements"
        match(a) == Find(symbols, LAMBDA m : Method(m) /\ m.owner = a /\ m.name = own.name /\ ArityMatches(own.arity, m.arity))
        having  == SelectSeq(order, LAMBDA a : match(a) # Nil)
        upTo    == SelectInSeq(having, LAMBDA a : ~contract(a))
        targets == IF upTo = 0 THEN having ELSE SubSeq(having, 1, upTo)
    IN  FoldLeft(LAMBDA es, a : AddEdge(es, IF contract(a) THEN "methodImplements" ELSE "overrides", own.id, match(a).id),
                 edges, targets)

\* One class, whose linearisation is now in the cache.
MROOf(symbols, heritage, cache, edges, c) ==
    [cache |-> cache,
     edges |-> IF ~cache[c].ok THEN edges
               ELSE FoldLeft(LAMBDA es, m : EdgesOf(symbols, heritage, cache[c].order, c, m, es), edges,
                             SelectSeq(symbols, LAMBDA s : Method(s) /\ s.owner = c /\ ~s.abstract))]

MROEdges(symbols, heritage, parents) ==
    FoldLeft(LAMBDA acc, c : MROOf(symbols, heritage, C3Linearize(parents, acc.cache, c), acc.edges, c),
             [cache |-> EmptyCache, edges |-> <<>>],
             SelectSeq(OwnersInOrder(symbols), LAMBDA c : c \in DOMAIN parents)).edges

ComputeMRO(symbols, edges) ==
    LET heritage == Heritage(symbols, edges) IN MROEdges(symbols, heritage, ParentMap(heritage))

-----------------------------------------------------------------------------
(* Names in tiers: symbol-table.ts, named-binding.ts, resolution-context.ts*)

LookupExact(symbols, file, name) == \* the last one of the name in the file
    Find(Reverse(symbols), LAMBDA s : s.file = file /\ s.name = name)
LookupFuzzy(symbols, name) == SelectSeq(symbols, LAMBDA s : s.name = name)

Bound(ctx, file, name) ==
    file \in DOMAIN ctx.named /\ name \in DOMAIN ctx.named[file]

\* walkBindingChain: follows re-exports, at most five of them and never twice the same
RECURSIVE WalkBindingChain(_, _, _, _)
WalkBindingChain(ctx, file, name, visited) ==
    LET to == ctx.named[file][name]
        here == SelectSeq(LookupFuzzy(ctx.symbols, to.name), LAMBDA s : s.file = to.file)
    IN  IF Cardinality(visited) = 5 \/ ~Bound(ctx, file, name) \/ to \in visited THEN <<>>
        ELSE IF here # <<>> THEN here
        ELSE WalkBindingChain(ctx, to.file, to.name, visited \union {to})

Unknown == [tier |-> "none", candidates |-> <<>>]

\* The first tier that has candidates; the last one is every symbol of the name.
FirstTier(tiers) ==
    LET i == CHOOSE i \in DOMAIN tiers : tiers[i] # <<>> /\ \A j \in 1..(i - 1) : tiers[j] = <<>>
    IN  IF \A j \in DOMAIN tiers : tiers[j] = <<>> THEN Unknown
        ELSE [tier |-> <<"same-file", "import-scoped", "import-scoped", "import-scoped", "global">>[i], candidates |-> tiers[i]]

ResolveUncached(ctx, name, file) ==
    LET own == LookupExact(ctx.symbols, file, name)
        all == LookupFuzzy(ctx.symbols, name)
    IN  FirstTier(<<IF own = Nil THEN <<>> ELSE <<own>>,
                    WalkBindingChain(ctx, file, name, {}),
                    SelectSeq(all, LAMBDA s : s.file \in ctx.imports[file]),
                    SelectSeq(all, LAMBDA s : DirsOf(s.file) \cap ctx.packages[file] # {}),
                    all>>)

NoFile == "no file"
Idle == [file |-> NoFile, entries |-> [n \in {} |-> Unknown]]
EnableCache(memo, file) == [file |-> file, entries |-> [n \in {} |-> Unknown]]
ClearCache(memo) == Idle

Remember(memo, name, file, fresh) ==
    [found |-> fresh, memo |-> IF memo.file = file THEN [memo EXCEPT !.entries = (name :> fresh) @@ @] ELSE memo]

\* resolve, and the cache it leaves
ResolveName(ctx, memo, name, file) ==
    IF memo.file = file /\ name \in DOMAIN memo.entries THEN [found |-> memo.entries[name], memo |-> memo]
    ELSE Remember(memo, name, file, ResolveUncached(ctx, name, file))

-----------------------------------------------------------------------------
(* The method a member call means: chain-binding.ts                        *)

\* One wrapper is taken off: Promise<User> is a User.
BareTypeName(type) == IF type.args = <<>> THEN type.head ELSE type.args[1]

TypeNameToSymbol(symbols, name) ==
    Find(symbols, LAMBDA s : s.name = name /\ s.kind \in {"class", "interface"})

MethodOf(symbols, owner, name) == Find(symbols, LAMBDA m : Method(m) /\ m.owner = owner /\ m.name = name)

StepChain(symbols, class, method) ==
    LET m == MethodOf(symbols, class.id, method) IN
    IF class = Nil \/ m = Nil \/ m.returns.head = NoName THEN Nil
    ELSE TypeNameToSymbol(symbols, BareTypeName(m.returns))

ResolveReceiverType(symbols, receiver, caller) ==
    LET start == CASE receiver.head = "this" /\ caller.kind \in {"class", "interface"} -> caller
                   [] receiver.head = "this" /\ caller.kind \notin {"class", "interface"} ->
                          Find(symbols, LAMBDA s : s.id = caller.owner)
                   [] OTHER -> TypeNameToSymbol(symbols, receiver.head)
    IN  FoldLeft(LAMBDA class, method : StepChain(symbols, class, method), start, receiver.chain)

\* The linearisations a member call walks come from the hints; a hierarchy
\* that has none is walked breadth first.
HeritageOf(symbols, hint) ==
    LET mine == Find(LookupFuzzy(symbols, hint.child), LAMBDA s : s.file = hint.file)
        child == IF mine = Nil THEN FirstOf(LookupFuzzy(symbols, hint.child)) ELSE mine
    IN  [child |-> child, parent |-> Find(LookupFuzzy(symbols, hint.target), LAMBDA s : s.id # child.id)]

KnownParents(pairs) ==
    [c \in {pairs[i].child.id : i \in DOMAIN pairs} |->
        LET own == SelectSeq(pairs, LAMBDA p : p.child.id = c) IN [i \in DOMAIN own |-> own[i].parent.id]]

OrBreadth(parents, cache) ==
    [c \in DOMAIN parents |-> IF cache[c].ok THEN cache[c].order ELSE GatherAncestors(parents, c)]

Linearizations(parents, classes) == OrBreadth(parents, LinearizeAll(parents, classes))

LinearizationsOf(pairs) ==
    Linearizations(KnownParents(pairs),
                   FoldLeft(LAMBDA cs, p : IF p.child.id \in ToSet(cs) THEN cs ELSE Append(cs, p.child.id), <<>>, pairs))

LinearizationFromHints(symbols, hints) ==
    LET heritage == SelectSeq(hints, LAMBDA h : h.kind \in {"inherits", "implements"})
    IN  LinearizationsOf(SelectSeq([i \in DOMAIN heritage |-> HeritageOf(symbols, heritage[i])],
                                   LAMBDA p : p.child # Nil /\ p.parent # Nil))

ResolveMemberCall(symbols, linear, hint, caller, language) ==
    LET type  == ResolveReceiverType(symbols, hint.receiver, caller)
        self  == hint.receiver.head = "this" /\ hint.receiver.chain = <<>>
        along == <<type.id>> \o (IF type.id \in DOMAIN linear THEN linear[type.id] ELSE <<>>)
        found == [i \in DOMAIN along |-> MethodOf(symbols, along[i], hint.target)]
    IN  IF type = Nil \/ (~self /\ ~Strategy(language).follows) THEN Nil
        ELSE Find(found, LAMBDA m : m # Nil /\ m.id # caller.id)

-----------------------------------------------------------------------------
(* Hints to relationships: resolveHints                                    *)

BestOrOther(symbols, name, caller, got) ==
    LET best == FirstOf(got.found.candidates)
    IN  [target |-> IF best # Nil /\ best.id # caller.id THEN best
                    ELSE Find(LookupFuzzy(symbols, name), LAMBDA s : s.id # caller.id),
         memo |-> got.memo]

SelectSingle(ctx, memo, symbols, name, file, caller) ==
    BestOrOther(symbols, name, caller, ResolveName(ctx, memo, name, file))

\* An import's own id counts how often the file imported the same name before.
ImportId(hint, ordinal) == <<hint.file, "import", hint.target, ordinal>>

ImportExternal(symbols, hint, acc) ==
    LET package == PackageName(hint.target, hint.language)
        importers == SelectSeq(symbols, LAMBDA s : s.file = hint.file)
    IN  [acc EXCEPT !.packages = IF package \in DOMAIN @ THEN @ ELSE (package :> hint.language) @@ @,
                    !.edges = FoldLeft(LAMBDA es, s : AddEdge(es, "dependsOn", s.id, <<"ext", package>>), @, importers)]

LinkImport(symbols, path, hint, acc, got) ==
    LET byName  == FirstOf(Flat([i \in 1..4 |-> LookupFuzzy(symbols,
                       <<LastSegment(path), path, LastSegment(hint.target), hint.target>>[i])]))
        target  == IF got.found.candidates # <<>> THEN got.found.candidates[1] ELSE byName
        ordinal == Len(SelectSeq(acc.imports, LAMBDA t : t = hint.target)) - 1
    IN  [acc EXCEPT !.memo = got.memo,
                    !.edges = AddEdge(@, "imports", ImportId(hint, ordinal),
                                      IF target = Nil THEN <<"unresolved", hint.target>> ELSE target.id)]

ImportLocal(ctx, symbols, alias, hint, acc) ==
    LET path == IF hint.target \in DOMAIN alias THEN alias[hint.target] ELSE hint.target
    IN  LinkImport(symbols, path, hint, acc, ResolveName(ctx, acc.memo, LastSegment(path), hint.file))

LinkCall(acc, caller, chosen) ==
    [acc EXCEPT !.memo = chosen.memo,
                !.edges = IF chosen.target = Nil THEN @ ELSE AddEdge(@, "calls", caller.id, chosen.target.id)]

\* The method of the receiver's type if there is one, else the first by name.
CallFrom(ctx, symbols, hint, acc, caller, member) ==
    IF caller = Nil THEN acc
    ELSE LinkCall(acc, caller, IF member # Nil THEN [target |-> member, memo |-> acc.memo]
                               ELSE SelectSingle(ctx, acc.memo, symbols, hint.target, hint.file, caller))

CallBy(ctx, symbols, linear, hint, acc, caller) ==
    CallFrom(ctx, symbols, hint, acc, caller,
             IF Strategy(hint.language).mro /\ hint.receiver.head # NoName
             THEN ResolveMemberCall(symbols, linear, hint, caller, hint.language) ELSE Nil)

CallHint(ctx, symbols, linear, hint, acc) ==
    CallBy(ctx, symbols, linear, hint, acc,
           Find(symbols, LAMBDA s : s.file = hint.file /\ s.first <= hint.line /\ hint.line <= s.last))

HeritageHint(symbols, hint, acc) ==
    LET pair == HeritageOf(symbols, hint)
    IN  IF Nil \in {pair.child, pair.parent} THEN acc
        ELSE [acc EXCEPT !.edges = AddEdge(@, hint.kind, pair.child.id, pair.parent.id)]

\* The imports of a file are numbered, also those of packages.
ResolveHint(ctx, symbols, linear, alias, hint, acc) ==
    LET counted == [acc EXCEPT !.imports = Append(@, hint.target)] IN
    CASE hint.kind = "import" /\ ~Local(hint.target, hint.language) -> ImportExternal(symbols, hint, counted)
      [] hint.kind = "import" /\ Local(hint.target, hint.language) -> ImportLocal(ctx, symbols, alias, hint, counted)
      [] hint.kind = "call" -> CallHint(ctx, symbols, linear, hint, acc)
      [] OTHER -> HeritageHint(symbols, hint, acc)

FilesOf(hints) ==
    FoldLeft(LAMBDA fs, h : IF h.file \in ToSet(fs) THEN fs ELSE Append(fs, h.file), <<>>, hints)

\* The hints of one file, with a cache of its own.
ResolveFile(ctx, symbols, linear, alias, hints, acc, f) ==
    LET done == FoldLeft(LAMBDA a, h : ResolveHint(ctx, symbols, linear, alias, h, a),
                         [acc EXCEPT !.memo = EnableCache(@, f), !.imports = <<>>],
                         SelectSeq(hints, LAMBDA h : h.file = f))
    IN  [done EXCEPT !.memo = ClearCache(@)]

WithMRO(symbols, done) ==
    [edges |-> FoldLeft(LAMBDA es, e : AddEdge(es, e.type, e.from, e.to), done.edges, ComputeMRO(symbols, done.edges)),
     packages |-> done.packages]

HintsAlong(ctx, symbols, hints, alias, linear) ==
    WithMRO(symbols,
        FoldLeft(LAMBDA acc, f : ResolveFile(ctx, symbols, linear, alias, hints, acc, f),
                 [edges |-> <<>>, packages |-> [p \in {} |-> NoName], memo |-> Idle, imports |-> <<>>], FilesOf(hints)))

ResolveHints(ctx, symbols, hints, alias) ==
    HintsAlong(ctx, symbols, hints, alias, LinearizationFromHints(symbols, hints))

-----------------------------------------------------------------------------
(* Without hints: the kinds and the signatures of the symbols              *)

ResolveImport(symbols, import) ==
    LET mine  == LookupExact(symbols, import.file, import.name)
        exact == FirstOf(LookupFuzzy(symbols, import.name))
    IN  CASE mine # Nil /\ mine.id # import.id -> mine
          [] (mine = Nil \/ mine.id = import.id) /\ exact # Nil /\ exact.id # import.id -> exact
          [] OTHER -> IF LastSegment(import.name) = import.name THEN Nil
                      ELSE FirstOf(LookupFuzzy(symbols, LastSegment(import.name)))

OthersNamed(symbols, s, name) == Find(LookupFuzzy(symbols, name), LAMBDA t : t.id # s.id)

LegacyEdges(symbols) ==
    LET edges(type, s, names) ==
            Flat([i \in DOMAIN names |-> LET t == OthersNamed(symbols, s, names[i])
                                         IN  IF t = Nil THEN <<>> ELSE <<[type |-> type, from |-> s.id, to |-> t.id]>>])
        each(seq, type, Names(_)) == Flat([i \in DOMAIN seq |-> edges(type, seq[i], Names(seq[i]))])
        classes == SelectSeq(symbols, LAMBDA s : s.kind = "class")
        imports == SelectSeq(symbols, LAMBDA s : s.kind = "import")
    IN  [i \in DOMAIN imports |->
            LET t == ResolveImport(symbols, imports[i])
            IN  [type |-> "imports", from |-> imports[i].id, to |-> IF t = Nil THEN <<"unresolved", imports[i].name>> ELSE t.id]]
        \o FoldLeft(LAMBDA es, e : AddEdge(es, e.type, e.from, e.to), <<>>,
                    each(SelectSeq(symbols, LAMBDA s : s.kind \in {"function", "method"}), "calls", LAMBDA s : s.calls))
        \o each(classes, "inherits", LAMBDA s : s.extends)
        \o each(classes, "implements", LAMBDA s : s.implements)

ResolveReferences(ctx, symbols, hints, alias) ==
    IF hints # <<>> THEN ResolveHints(ctx, symbols, hints, alias)
    ELSE [edges |-> LegacyEdges(symbols), packages |-> [p \in {} |-> NoName]]
=============================================================================
