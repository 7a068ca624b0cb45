-------------------------- MODULE RemoteStoreProofs --------------------------
(***************************************************************************)
(* The database stays consistent for any clients, calls, slots, queue and  *)
(* faults: the operations of the adapters keep it so (first part), and     *)
(* nothing but they change it (second part).  With one slot what a caller  *)
(* was told of its write stays true (third part), and a batch is what its  *)
(* rows are one by one (last part).                                        *)
(***************************************************************************)
EXTENDS RemoteStore, SequenceTheorems, FiniteSetTheorems, TLAPS

-----------------------------------------------------------------------------
(* The operations of the database                                          *)

Shape(d) == d = [node |-> d.node, rel |-> d.rel, vec |-> d.vec]
IsRows(rows) == Len(rows) \in Nat /\ DOMAIN rows = 1..Len(rows)
KeyOnce(rows) == \A r, s \in rows : r.key = s.key => r = s

LEMMA OneField ==
    ASSUME NEW d, NEW x, Shape(d)
    PROVE  /\ [d EXCEPT !.rel = x] = [node |-> d.node, rel |-> x, vec |-> d.vec]
           /\ [d EXCEPT !.vec = x] = [node |-> d.node, rel |-> d.rel, vec |-> x]
BY DEF Shape

\* Of the rows with one key the last one is kept.
LEMMA LastIsOnly ==
    ASSUME NEW rows, IsRows(rows)
    PROVE  KeyOnce(LastOfEach(rows))
<1> SUFFICES ASSUME NEW r \in LastOfEach(rows), NEW s \in LastOfEach(rows), r.key = s.key
             PROVE  r = s
    BY DEF KeyOnce
<1>1. PICK i \in DOMAIN rows : r = rows[i] /\ \A m \in (i + 1)..Len(rows) : rows[m].key # rows[i].key
    BY DEF LastOfEach
<1>2. PICK j \in DOMAIN rows : s = rows[j] /\ \A m \in (j + 1)..Len(rows) : rows[m].key # rows[j].key
    BY DEF LastOfEach
<1>3. i \in 1..Len(rows) /\ j \in 1..Len(rows) /\ Len(rows) \in Nat
    BY DEF IsRows
<1>4. ~(i < j) /\ ~(j < i)
    BY <1>1, <1>2, <1>3
<1>. QED
    BY <1>1, <1>2, <1>3, <1>4

LEMMA MergeNodesKeeps ==
    ASSUME NEW d, NEW label, NEW rows, Shape(d), Consistent(d), KeyOnce(rows)
    PROVE  Shape(MergeNodes(d, label, rows)) /\ Consistent(MergeNodes(d, label, rows))
<1> DEFINE new == MergeNodes(d, label, rows)
           row(r) == [label |-> label, key |-> r.key, val |-> r.val]
           kept == {n \in d.node : ~(n.label = label /\ n.key \in Keys(rows))}
<1>1. new = [node |-> kept \union {row(r) : r \in rows}, rel |-> d.rel, vec |-> d.vec]
    BY DEF MergeNodes, Shape
<1>2. \A m, n \in new.node : m.label = n.label /\ m.key = n.key => m = n
    <2> SUFFICES ASSUME NEW m \in new.node, NEW n \in new.node, m.label = n.label, m.key = n.key
                 PROVE  m = n
        OBVIOUS
    <2>1. ASSUME NEW a \in kept, NEW r \in rows, a.label = label PROVE a.key # r.key
        BY <2>1 DEF Keys
    <2>2. m \in kept \/ \E r \in rows : m = row(r)
        BY <1>1
    <2>3. n \in kept \/ \E r \in rows : n = row(r)
        BY <1>1
    <2>4. CASE m \in kept /\ n \in kept
        BY <2>4 DEF Consistent, KeysUnique
    <2>5. CASE m \notin kept /\ n \notin kept
        BY <2>2, <2>3, <2>5 DEF KeyOnce
    <2>6. CASE m \in kept /\ n \notin kept
        BY <2>1, <2>3, <2>6
    <2>7. CASE m \notin kept /\ n \in kept
        BY <2>1, <2>2, <2>7
    <2>. QED
        BY <2>4, <2>5, <2>6, <2>7
<1>3. ASSUME NEW l, NEW k, HasNode(d, l, k) PROVE HasNode(new, l, k)
    <2>1. PICK n \in d.node : n.label = l /\ n.key = k
        BY <1>3 DEF HasNode
    <2>2. CASE n \in kept
        BY <1>1, <2>1, <2>2 DEF HasNode
    <2>3. CASE n \notin kept
        <3>1. n.label = label /\ n.key \in Keys(rows)
            BY <2>3
        <3>2. PICK r \in rows : r.key = n.key
            BY <3>1 DEF Keys
        <3>3. row(r) \in new.node /\ row(r).label = l /\ row(r).key = k
            BY <1>1, <2>1, <3>1, <3>2
        <3>. QED
            BY <3>3 DEF HasNode
    <2>. QED
        BY <2>2, <2>3
<1>4. new.rel = d.rel /\ new.vec = d.vec
    BY <1>1
<1>5. NoDanglingRel(new)
    BY <1>3, <1>4 DEF Consistent, NoDanglingRel
<1>6. Shape(new)
    BY <1>1 DEF Shape
<1> HIDE DEF new
<1>7. KeysUnique(new) /\ SchemaKept(new)
    BY <1>2, <1>4 DEF Consistent, KeysUnique, SchemaKept
<1>. QED
    BY <1>5, <1>6, <1>7 DEF Consistent, new

LEMMA MergeRelsShape ==
    ASSUME NEW d, NEW type, NEW rows, Shape(d)
    PROVE  MergeRels(d, type, rows) =
             [node |-> d.node,
              rel |-> {e \in d.rel : ~(e.type = type /\ e.key \in Keys(rows))}
                        \union {[type |-> type, key |-> r.key, val |-> r.val] : r \in rows},
              vec |-> d.vec]
BY DEF MergeRels, Shape

LEMMA MergeRelsKeeps ==
    ASSUME NEW d, NEW type, NEW all, Shape(d), Consistent(d), KeyOnce(all),
           \A r \in all : Columns(r.val) \subseteq RelSchemaProps(type)
    PROVE  LET new == MergeRels(d, type, Linkable(d, type, all))
           IN  Shape(new) /\ Consistent(new)
<1> DEFINE rows == Linkable(d, type, all)
           new == MergeRels(d, type, rows)
           row(r) == [type |-> type, key |-> r.key, val |-> r.val]
           kept == {e \in d.rel : ~(e.type = type /\ e.key \in Keys(rows))}
<1>1. new = [node |-> d.node, rel |-> kept \union {row(r) : r \in rows}, vec |-> d.vec]
    BY MergeRelsShape
<1>2. \A e, f \in new.rel : e.type = f.type /\ e.key = f.key => e = f
    <2> SUFFICES ASSUME NEW e \in new.rel, NEW f \in new.rel, e.type = f.type, e.key = f.key
                 PROVE  e = f
        OBVIOUS
    <2>1. ASSUME NEW a \in kept, NEW r \in rows, a.type = type PROVE a.key # r.key
        BY <2>1 DEF Keys
    <2>2. e \in kept \/ \E r \in rows : e = row(r)
        BY <1>1
    <2>3. f \in kept \/ \E r \in rows : f = row(r)
        BY <1>1
    <2>4. CASE e \in kept /\ f \in kept
        BY <2>4 DEF Consistent, KeysUnique
    <2>5. CASE e \notin kept /\ f \notin kept
        <3>1. \A r, s \in rows : r.key = s.key => r = s
            BY DEF KeyOnce, Linkable
        <3>. QED
            BY <2>2, <2>3, <2>5, <3>1
    <2>6. CASE e \in kept /\ f \notin kept
        BY <2>1, <2>3, <2>6
    <2>7. CASE e \notin kept /\ f \in kept
        BY <2>1, <2>2, <2>7
    <2>. QED
        BY <2>4, <2>5, <2>6, <2>7
<1>3. \A l, k : HasNode(new, l, k) <=> HasNode(d, l, k)
    BY <1>1 DEF HasNode
<1>4. ASSUME NEW e \in new.rel
      PROVE  /\ HasNode(d, RelLabelMap[e.type][1], e.key[1])
             /\ HasNode(d, RelLabelMap[e.type][2], e.key[2])
    <2>1. CASE e \in d.rel
        BY <2>1 DEF Consistent, NoDanglingRel
    <2>2. CASE e \notin d.rel
        <3>1. PICK r \in rows : e = row(r)
            BY <1>1, <2>2
        <3>. QED
            BY <3>1 DEF Linkable
    <2>. QED
        BY <2>1, <2>2
<1>5. new.node = d.node /\ new.vec = d.vec /\ Shape(new)
    BY <1>1 DEF Shape
<1>8. ASSUME NEW e \in new.rel PROVE Columns(e.val) \subseteq RelSchemaProps(e.type)
    <2>1. CASE e \in d.rel
        BY <2>1 DEF Consistent, SchemaKept
    <2>2. CASE e \notin d.rel
        <3>1. PICK r \in rows : e = row(r)
            BY <1>1, <2>2
        <3>2. r \in all /\ e.val = r.val /\ e.type = type
            BY <3>1 DEF Linkable
        <3>. QED
            BY <3>2
    <2>. QED
        BY <2>1, <2>2
<1> HIDE DEF new
<1>6. NoDanglingRel(new)
    BY <1>3, <1>4 DEF NoDanglingRel
<1>7. KeysUnique(new) /\ SchemaKept(new)
    BY <1>2, <1>5, <1>8 DEF Consistent, KeysUnique, SchemaKept
<1>. QED
    BY <1>5, <1>6, <1>7 DEF Consistent, new

LEMMA MergeVecsKeeps ==
    ASSUME NEW d, NEW rows, Shape(d), Consistent(d), KeyOnce(rows)
    PROVE  Shape(MergeVecs(d, rows)) /\ Consistent(MergeVecs(d, rows))
<1>1. MergeVecs(d, rows) =
        [node |-> d.node, rel |-> d.rel,
         vec |-> {v \in d.vec : v.key \notin Keys(rows)} \union rows]
    BY DEF MergeVecs, Shape
<1>. QED
    BY <1>1 DEF Shape, Consistent, KeysUnique, NoDanglingRel, SchemaKept, HasNode, KeyOnce, Keys

LEMMA DetachKeeps ==
    ASSUME NEW d, NEW nodes, nodes \subseteq d.node, Shape(d), Consistent(d)
    PROVE  Shape(Detach(d, nodes)) /\ Consistent(Detach(d, nodes))
<1> DEFINE gone(l, k) == \E n \in nodes : n.label = l /\ n.key = k
           new == Detach(d, nodes)
<1>1. new = [node |-> d.node \ nodes,
             rel |-> {e \in d.rel : /\ ~gone(RelLabelMap[e.type][1], e.key[1])
                                    /\ ~gone(RelLabelMap[e.type][2], e.key[2])},
             vec |-> d.vec]
    BY DEF Detach
<1>2. \A l, k : HasNode(d, l, k) /\ ~gone(l, k) => HasNode(new, l, k)
    BY <1>1 DEF HasNode
<1>3. NoDanglingRel(new)
    BY <1>1, <1>2 DEF Consistent, NoDanglingRel
<1>4. KeysUnique(new) /\ Shape(new)
    BY <1>1 DEF Consistent, KeysUnique, Shape
<1>5. new.rel \subseteq d.rel
    BY <1>1
<1> HIDE DEF new
<1>6. SchemaKept(new)
    BY <1>5 DEF Consistent, SchemaKept
<1>. QED
    BY <1>3, <1>4, <1>6 DEF Consistent, new

\* Dropping relationships or vectors is always safe.
LEMMA DropKeeps ==
    ASSUME NEW d, NEW rel, NEW vec, rel \subseteq d.rel, vec \subseteq d.vec,
           Shape(d), Consistent(d)
    PROVE  LET new == [node |-> d.node, rel |-> rel, vec |-> vec]
           IN  Shape(new) /\ Consistent(new)
BY DEF Shape, Consistent, KeysUnique, NoDanglingRel, SchemaKept, HasNode

\* The rows of an operation that writes have the keys of those it was given.
LEMMA RowsWritten ==
    ASSUME NEW d, NEW op, IsRows(op.rows)
    PROVE  KeyOnce(NodeRows(d, op)) /\ KeyOnce(RelRows(d, op))
BY LastIsOnly DEF KeyOnce, NodeRows, RelRows

\* What they make of a relationship has only the columns of its type.
LEMMA RowsDeclared ==
    ASSUME NEW d, NEW op, SchemaKept(d)
    PROVE  \A r \in RelRows(d, op) : Columns(r.val) \subseteq RelSchemaProps(op.on)
<1> SUFFICES ASSUME NEW r \in LastOfEach(op.rows)
             PROVE  Columns(RelVal(op, RelProps(d, op.on, r.key), r.val)) \subseteq RelSchemaProps(op.on)
    BY DEF RelRows
<1> DEFINE was == RelProps(d, op.on, r.key)
           given == Given(op.on, r.val)
<1>1. \A p \in given : p[1] \in RelSchemaProps(op.on)
    BY DEF Given
<1>2. ASSUME NEW p \in was PROVE p[1] \in RelSchemaProps(op.on)
    <2>1. PICK e \in d.rel : e.type = op.on /\ p \in e.val
        BY DEF RelProps
    <2>. QED
        BY <2>1 DEF SchemaKept, Columns
<1>3. \A p \in RelVal(op, was, r.val) : p \in was \/ p \in given
    BY DEF RelVal, SetColumns
<1> HIDE DEF was, given
<1>. QED
    BY <1>1, <1>2, <1>3 DEF Columns, was

\* No operation of the adapters leaves two records with one key or a
\* relationship without one of its ends (ladybug-graph-adapter.ts,
\* ladybug-vector-adapter.ts).
LEMMA EffectKeeps ==
    ASSUME NEW d, NEW op, Shape(d), Consistent(d), IsRows(op.rows)
    PROVE  Shape(Effect(d, op)) /\ Consistent(Effect(d, op))
<1>0. /\ KeyOnce(LastOfEach(op.rows)) /\ KeyOnce(NodeRows(d, op)) /\ KeyOnce(RelRows(d, op))
      /\ \A r \in RelRows(d, op) : Columns(r.val) \subseteq RelSchemaProps(op.on)
    BY LastIsOnly, RowsWritten, RowsDeclared DEF Consistent
<1>1. CASE op.kind \in {"CreateNode", "CreateNodes"}
    BY <1>0, <1>1, MergeNodesKeeps DEF Effect
<1>2. CASE op.kind \in {"CreateRelationship", "CreateRelationships"}
    BY <1>0, <1>2, MergeRelsKeeps DEF Effect
<1>3. CASE op.kind \in {"IndexSymbol", "IndexSymbols"}
    BY <1>0, <1>3, MergeVecsKeeps DEF Effect
<1>4. CASE op.kind \in {"DeleteNodesByLabel", "DeleteSymbolsByFilePaths"}
    <2> DEFINE S == {n \in d.node : n.label = op.on}
               T == {n \in d.node : n.label = "Symbol" /\ LiesIn(n, op)}
    <2>1. Effect(d, op) = Detach(d, S) \/ Effect(d, op) = Detach(d, T)
        BY <1>4 DEF Effect
    <2>. QED
        BY <2>1, DetachKeeps
<1>5. CASE op.kind = "DeleteRelationshipsByType"
    <2>1. Effect(d, op) = [node |-> d.node, rel |-> {e \in d.rel : e.type # op.on}, vec |-> d.vec]
        BY <1>5 DEF Effect, Shape
    <2>. QED
        BY <2>1, DropKeeps
<1>6. CASE op.kind = "DeleteAll"
    <2>1. Effect(d, op) = [node |-> d.node, rel |-> d.rel, vec |-> {}]
        BY <1>6 DEF Effect, Shape
    <2>. QED
        BY <2>1, DropKeeps
<1>7. CASE op.kind = "DeleteByFilePaths"
    <2>1. Effect(d, op) = [node |-> d.node, rel |-> d.rel, vec |-> {v \in d.vec : ~LiesIn(v, op)}]
        BY <1>7 DEF Effect, Shape
    <2>. QED
        BY <2>1, DropKeeps
<1>8. CASE op.kind \notin {"CreateNode", "CreateNodes", "CreateRelationship", "CreateRelationships",
                           "IndexSymbol", "IndexSymbols", "DeleteNodesByLabel",
                           "DeleteSymbolsByFilePaths", "DeleteRelationshipsByType", "DeleteAll",
                           "DeleteByFilePaths"}
    BY <1>8 DEF Effect
<1>. QED
    BY <1>1, <1>2, <1>3, <1>4, <1>5, <1>6, <1>7, <1>8

-----------------------------------------------------------------------------
(* A second time changes nothing                                           *)

LEMMA MergeNodesTwice ==
    ASSUME NEW d, NEW label, NEW rows, Shape(d)
    PROVE  MergeNodes(MergeNodes(d, label, rows), label, rows) = MergeNodes(d, label, rows)
<1> DEFINE row(r) == [label |-> label, key |-> r.key, val |-> r.val]
           rest(S) == {n \in S : ~(n.label = label /\ n.key \in Keys(rows))}
           new == {row(r) : r \in rows}
           once == MergeNodes(d, label, rows)
<1>1. once = [node |-> rest(d.node) \union new, rel |-> d.rel, vec |-> d.vec]
    BY DEF MergeNodes, Shape
<1>2. \A n \in new : n.label = label /\ n.key \in Keys(rows)
    BY DEF Keys
<1>3. rest(rest(d.node) \union new) \union new = rest(d.node) \union new
    BY <1>2
<1>4. MergeNodes(once, label, rows) =
        [node |-> rest(once.node) \union new, rel |-> once.rel, vec |-> once.vec]
    BY <1>1 DEF MergeNodes
<1> HIDE DEF rest, new
<1>. QED
    BY <1>1, <1>3, <1>4

LEMMA MergeRelsTwice ==
    ASSUME NEW d, NEW type, NEW all, Shape(d)
    PROVE  LET once == MergeRels(d, type, Linkable(d, type, all))
           IN  /\ MergeRels(once, type, Linkable(d, type, all)) = once
               /\ once.node = d.node
<1> DEFINE rows == Linkable(d, type, all)
           row(r) == [type |-> type, key |-> r.key, val |-> r.val]
           rest(S) == {e \in S : ~(e.type = type /\ e.key \in Keys(rows))}
           new == {row(r) : r \in rows}
           once == MergeRels(d, type, rows)
<1>1. once = [node |-> d.node, rel |-> rest(d.rel) \union new, vec |-> d.vec]
    BY MergeRelsShape
<1>2. \A e \in new : e.type = type /\ e.key \in Keys(rows)
    BY DEF Keys
<1>3. rest(rest(d.rel) \union new) \union new = rest(d.rel) \union new
    BY <1>2
<1>5. Shape(once) /\ once.node = d.node
    BY <1>1 DEF Shape
<1>6. MergeRels(once, type, rows) =
        [node |-> once.node, rel |-> rest(once.rel) \union new, vec |-> once.vec]
    BY <1>5, MergeRelsShape
<1>7. MergeRels(once, type, rows) = once
    <2> HIDE DEF rest, new, rows
    <2>. QED
        BY <1>1, <1>3, <1>6
<1>. QED
    BY <1>5, <1>7

\* A record that a row has made what it is stays so when the row comes again.
LEMMA ValTwice ==
    ASSUME NEW op, NEW was, NEW row
    PROVE  /\ op.kind = "CreateNodes" /\ Columns(row) \subseteq BatchColumns(op) =>
                  NodeVal(op, NodeVal(op, was, row), row) = NodeVal(op, was, row)
           /\ op.kind # "CreateNodes" =>
                  NodeVal(op, NodeVal(op, was, row), row) = NodeVal(op, was, row)
           /\ RelVal(op, RelVal(op, was, row), row) = RelVal(op, was, row)
<1>1. ASSUME NEW columns, NEW is, Columns(is) \subseteq columns
      PROVE  SetColumns(SetColumns(was, columns, is), columns, is) = SetColumns(was, columns, is)
    BY <1>1 DEF SetColumns, Columns
<1>. QED
    BY <1>1 DEF NodeVal, RelVal

\* The rows of a batch have columns of the batch.
LEMMA RowColumns ==
    ASSUME NEW op, NEW r \in LastOfEach(op.rows)
    PROVE  Columns(r.val) \subseteq BatchColumns(op)
BY DEF LastOfEach, BatchColumns

\* What is stored under the key of a row, once the row has been merged.
LEMMA StoredNode ==
    ASSUME NEW d, NEW label, NEW rows, NEW r \in rows, Shape(d), KeyOnce(rows)
    PROVE  NodeProps(MergeNodes(d, label, rows), label, r.key) = r.val
<1> DEFINE row(s) == [label |-> label, key |-> s.key, val |-> s.val]
           kept == {n \in d.node : ~(n.label = label /\ n.key \in Keys(rows))}
           new == kept \union {row(s) : s \in rows}
<1>1. MergeNodes(d, label, rows).node = new
    BY DEF MergeNodes, Shape
<1>2. {n \in new : n.label = label /\ n.key = r.key} = {row(r)}
    <2>1. \A n \in kept : ~(n.label = label /\ n.key = r.key)
        BY DEF Keys
    <2>2. \A s \in rows : row(s).key = r.key => s = r
        BY DEF KeyOnce
    <2>3. row(r) \in new /\ row(r).label = label /\ row(r).key = r.key
        OBVIOUS
    <2>4. ASSUME NEW n \in new, n.label = label, n.key = r.key PROVE n = row(r)
        <3>1. PICK s \in rows : n = row(s)
            BY <2>1, <2>4
        <3>. QED
            BY <2>2, <2>4, <3>1
    <2> HIDE DEF new
    <2>. QED
        BY <2>3, <2>4
<1>3. NodeProps(MergeNodes(d, label, rows), label, r.key) = UNION {n.val : n \in {row(r)}}
    <2> HIDE DEF new
    <2>. QED
        BY <1>1, <1>2 DEF NodeProps
<1>4. {n.val : n \in {row(r)}} = {r.val}
    OBVIOUS
<1>. QED
    BY <1>3, <1>4

LEMMA StoredRel ==
    ASSUME NEW d, NEW type, NEW rows, NEW r \in rows, Shape(d), KeyOnce(rows)
    PROVE  RelProps(MergeRels(d, type, rows), type, r.key) = r.val
<1> DEFINE row(s) == [type |-> type, key |-> s.key, val |-> s.val]
           kept == {e \in d.rel : ~(e.type = type /\ e.key \in Keys(rows))}
           new == kept \union {row(s) : s \in rows}
<1>1. MergeRels(d, type, rows).rel = new
    BY MergeRelsShape
<1>2. {e \in new : e.type = type /\ e.key = r.key} = {row(r)}
    <2>1. \A e \in kept : ~(e.type = type /\ e.key = r.key)
        BY DEF Keys
    <2>2. \A s \in rows : row(s).key = r.key => s = r
        BY DEF KeyOnce
    <2>3. row(r) \in new /\ row(r).type = type /\ row(r).key = r.key
        OBVIOUS
    <2>4. ASSUME NEW e \in new, e.type = type, e.key = r.key PROVE e = row(r)
        <3>1. PICK s \in rows : e = row(s)
            BY <2>1, <2>4
        <3>. QED
            BY <2>2, <2>4, <3>1
    <2> HIDE DEF new
    <2>. QED
        BY <2>3, <2>4
<1>3. RelProps(MergeRels(d, type, rows), type, r.key) = UNION {e.val : e \in {row(r)}}
    <2> HIDE DEF new
    <2>. QED
        BY <1>1, <1>2 DEF RelProps
<1>4. {e.val : e \in {row(r)}} = {r.val}
    OBVIOUS
<1>. QED
    BY <1>3, <1>4

\* A second time the rows make of the records what they are.
LEMMA NodeRowsTwice ==
    ASSUME NEW d, NEW op, Shape(d), IsRows(op.rows)
    PROVE  NodeRows(MergeNodes(d, op.on, NodeRows(d, op)), op) = NodeRows(d, op)
<1> DEFINE rows == NodeRows(d, op)
           once == MergeNodes(d, op.on, rows)
<1>1. ASSUME NEW r \in LastOfEach(op.rows)
      PROVE  NodeVal(op, NodeProps(once, op.on, r.key), r.val)
                = NodeVal(op, NodeProps(d, op.on, r.key), r.val)
    <2> DEFINE made == [key |-> r.key, val |-> NodeVal(op, NodeProps(d, op.on, r.key), r.val)]
    <2>1. made \in rows /\ KeyOnce(rows)
        BY RowsWritten DEF NodeRows
    <2> HIDE DEF rows
    <2>2. NodeProps(once, op.on, made.key) = made.val
        BY <2>1, StoredNode
    <2>3. Columns(r.val) \subseteq BatchColumns(op)
        BY RowColumns
    <2> HIDE DEF once
    <2>4. NodeProps(once, op.on, r.key) = NodeVal(op, NodeProps(d, op.on, r.key), r.val)
        BY <2>2
    <2>. QED
        BY <2>3, <2>4, ValTwice
<1> HIDE DEF once
<1>2. NodeRows(once, op) = NodeRows(d, op)
    BY <1>1 DEF NodeRows
<1>. QED
    BY <1>2 DEF once

LEMMA RelRowsTwice ==
    ASSUME NEW d, NEW op, Shape(d), IsRows(op.rows)
    PROVE  LET rows == Linkable(d, op.on, RelRows(d, op))
               once == MergeRels(d, op.on, rows)
           IN  Linkable(once, op.on, RelRows(once, op)) = rows
<1> DEFINE rows == Linkable(d, op.on, RelRows(d, op))
           once == MergeRels(d, op.on, rows)
           linked(k) == HasNode(d, RelLabelMap[op.on][1], k[1]) /\ HasNode(d, RelLabelMap[op.on][2], k[2])
           before(r) == [key |-> r.key, val |-> RelVal(op, RelProps(d, op.on, r.key), r.val)]
           after(r) == [key |-> r.key, val |-> RelVal(op, RelProps(once, op.on, r.key), r.val)]
<1>1. once.node = d.node
    BY MergeRelsTwice
<1>2. ASSUME NEW r \in LastOfEach(op.rows), linked(r.key) PROVE after(r) = before(r)
    <2> DEFINE made == before(r)
    <2>1. made \in rows /\ KeyOnce(rows)
        <3>1. made \in RelRows(d, op)
            BY DEF RelRows
        <3>2. made.key = r.key
            OBVIOUS
        <3> HIDE DEF made
        <3>. QED
            BY <1>2, <3>1, <3>2, RowsWritten DEF Linkable, KeyOnce
    <2> HIDE DEF rows
    <2>2. RelProps(once, op.on, made.key) = made.val
        BY <2>1, StoredRel
    <2> HIDE DEF once
    <2>3. RelProps(once, op.on, r.key) = RelVal(op, RelProps(d, op.on, r.key), r.val)
        BY <2>2
    <2>. QED
        BY <2>3, ValTwice
<1> HIDE DEF once
<1>3. Linkable(once, op.on, RelRows(once, op)) = {s \in {after(r) : r \in LastOfEach(op.rows)} : linked(s.key)}
    BY <1>1 DEF Linkable, RelRows, HasNode
<1>4. rows = {s \in {before(r) : r \in LastOfEach(op.rows)} : linked(s.key)}
    BY DEF Linkable, RelRows
<1>5. \A r : after(r).key = r.key /\ before(r).key = r.key
    OBVIOUS
<1> HIDE DEF rows, linked, before, after
<1>6. Linkable(once, op.on, RelRows(once, op)) = rows
    BY <1>2, <1>3, <1>4, <1>5
<1>. QED
    BY <1>6 DEF once, rows

LEMMA MergeVecsTwice ==
    ASSUME NEW d, NEW rows, Shape(d)
    PROVE  MergeVecs(MergeVecs(d, rows), rows) = MergeVecs(d, rows)
<1> DEFINE rest(S) == {v \in S : v.key \notin Keys(rows)}
           once == MergeVecs(d, rows)
<1>1. once = [node |-> d.node, rel |-> d.rel, vec |-> rest(d.vec) \union rows]
    <2>1. once = [node |-> d.node, rel |-> d.rel,
                  vec |-> {v \in d.vec : v.key \notin Keys(rows)} \union rows]
        BY OneField DEF MergeVecs
    <2>. QED
        BY <2>1
<1>2. rest(rest(d.vec) \union rows) \union rows = rest(d.vec) \union rows
    BY DEF Keys
<1>3. MergeVecs(once, rows) =
        [node |-> once.node, rel |-> once.rel, vec |-> rest(once.vec) \union rows]
    BY <1>1 DEF MergeVecs
<1> HIDE DEF rest
<1>. QED
    BY <1>1, <1>2, <1>3

LEMMA DetachNone ==
    ASSUME NEW d, Shape(d)
    PROVE  Detach(d, {}) = d
BY DEF Detach, Shape

\* What a client relies on when it sends a call again although the first
\* attempt may have been executed: executing any method of the adapters but
\* runCypherWrite() twice is executing it once (callWithReconnect(), and the
\* MERGE, SET and DELETE statements of the adapters).
THEOREM RetryIsHarmless ==
    ASSUME NEW d, NEW op, Shape(d), IsRows(op.rows)
    PROVE  Effect(Effect(d, op), op) = Effect(d, op)
<1>1. CASE op.kind \in {"CreateNode", "CreateNodes"}
    <2> DEFINE rows == NodeRows(d, op)
               once == MergeNodes(d, op.on, rows)
    <2>1. \A e : Effect(e, op) = MergeNodes(e, op.on, NodeRows(e, op))
        BY <1>1 DEF Effect
    <2>2. NodeRows(once, op) = rows
        BY NodeRowsTwice
    <2>3. MergeNodes(once, op.on, rows) = once
        BY MergeNodesTwice
    <2>4. Effect(d, op) = once
        BY <2>1
    <2> HIDE DEF rows, once
    <2>5. Effect(once, op) = once
        BY <2>1, <2>2, <2>3
    <2>. QED
        BY <2>4, <2>5
<1>2. CASE op.kind \in {"CreateRelationship", "CreateRelationships"}
    <2> DEFINE rows == Linkable(d, op.on, RelRows(d, op))
               once == MergeRels(d, op.on, rows)
    <2>1. \A e : Effect(e, op) = MergeRels(e, op.on, Linkable(e, op.on, RelRows(e, op)))
        BY <1>2 DEF Effect
    <2>2. Linkable(once, op.on, RelRows(once, op)) = rows
        BY RelRowsTwice
    <2>3. MergeRels(once, op.on, rows) = once
        BY MergeRelsTwice
    <2>4. Effect(d, op) = once
        BY <2>1
    <2> HIDE DEF rows, once
    <2>5. Effect(once, op) = once
        BY <2>1, <2>2, <2>3
    <2>. QED
        BY <2>4, <2>5
<1>3. CASE op.kind \in {"IndexSymbol", "IndexSymbols"}
    BY <1>3, MergeVecsTwice DEF Effect
<1>4. CASE op.kind = "DeleteNodesByLabel"
    <2> DEFINE S(e) == {n \in e.node : n.label = op.on}
               once == Detach(d, S(d))
    <2>1. \A e : Effect(e, op) = Detach(e, S(e))
        BY <1>4 DEF Effect
    <2>2. once.node = d.node \ S(d) /\ Shape(once)
        BY DEF Detach, Shape
    <2>3. S(once) = {}
        BY <2>2
    <2> HIDE DEF S
    <2>. QED
        BY <2>1, <2>2, <2>3, DetachNone
<1>5. CASE op.kind = "DeleteSymbolsByFilePaths"
    <2> DEFINE S(e) == {n \in e.node : n.label = "Symbol" /\ LiesIn(n, op)}
               once == Detach(d, S(d))
    <2>1. \A e : Effect(e, op) = Detach(e, S(e))
        BY <1>5 DEF Effect
    <2>2. once.node = d.node \ S(d) /\ Shape(once)
        BY DEF Detach, Shape
    <2>3. S(once) = {}
        BY <2>2
    <2> HIDE DEF S
    <2>. QED
        BY <2>1, <2>2, <2>3, DetachNone
<1>6. CASE op.kind = "DeleteRelationshipsByType"
    <2>1. Effect(d, op) = [node |-> d.node, rel |-> {e \in d.rel : e.type # op.on}, vec |-> d.vec]
        BY <1>6 DEF Effect, Shape
    <2>2. \A e : Effect(e, op) = [e EXCEPT !.rel = {r \in e.rel : r.type # op.on}]
        BY <1>6 DEF Effect
    <2>3. LET R == {e \in d.rel : e.type # op.on} IN {r \in R : r.type # op.on} = R
        OBVIOUS
    <2>4. [[node |-> d.node, rel |-> {e \in d.rel : e.type # op.on}, vec |-> d.vec]
              EXCEPT !.rel = {e \in d.rel : e.type # op.on}] =
          [node |-> d.node, rel |-> {e \in d.rel : e.type # op.on}, vec |-> d.vec]
        BY OneField DEF Shape
    <2>. QED
        BY <2>1, <2>2, <2>3, <2>4
<1>7. CASE op.kind = "DeleteAll"
    <2>1. Effect(d, op) = [node |-> d.node, rel |-> d.rel, vec |-> {}]
        BY <1>7 DEF Effect, Shape
    <2>2. \A e : Effect(e, op) = [e EXCEPT !.vec = {}]
        BY <1>7 DEF Effect
    <2>. QED
        BY <2>1, <2>2
<1>8. CASE op.kind = "DeleteByFilePaths"
    <2>1. Effect(d, op) = [node |-> d.node, rel |-> d.rel, vec |-> {v \in d.vec : ~LiesIn(v, op)}]
        BY <1>8 DEF Effect, Shape
    <2>2. \A e : Effect(e, op) = [e EXCEPT !.vec = {v \in e.vec : ~LiesIn(v, op)}]
        BY <1>8 DEF Effect
    <2>3. LET V == {v \in d.vec : ~LiesIn(v, op)} IN {v \in V : ~LiesIn(v, op)} = V
        OBVIOUS
    <2>4. [[node |-> d.node, rel |-> d.rel, vec |-> {v \in d.vec : ~LiesIn(v, op)}]
              EXCEPT !.vec = {v \in d.vec : ~LiesIn(v, op)}] =
          [node |-> d.node, rel |-> d.rel, vec |-> {v \in d.vec : ~LiesIn(v, op)}]
        OBVIOUS
    <2>. QED
        BY <2>1, <2>2, <2>3, <2>4
<1>9. CASE op.kind \notin {"CreateNode", "CreateNodes", "CreateRelationship", "CreateRelationships",
                           "IndexSymbol", "IndexSymbols", "DeleteNodesByLabel",
                           "DeleteSymbolsByFilePaths", "DeleteRelationshipsByType", "DeleteAll",
                           "DeleteByFilePaths"}
    BY <1>9 DEF Effect
<1>. QED
    BY <1>1, <1>2, <1>3, <1>4, <1>5, <1>6, <1>7, <1>8, <1>9

-----------------------------------------------------------------------------
(* The queue                                                               *)

AllOps == UNION {Ops[c] : c \in Clients}

\* An attempt that waits in the queue.
Waiting == [id : Clients \X Nat, attempt : 1..2, op : AllOps, timed : {FALSE}, count : {NoCount}]

Elements(q) == {q[i] : i \in DOMAIN q}

\* Ranks never decrease, and of two attempts of a call the first comes first.
QueueOrder(q) ==
    \A i, j \in DOMAIN q : i < j =>
        /\ Rank(q[i].op) <= Rank(q[j].op)
        /\ q[i].id = q[j].id => q[i].attempt < q[j].attempt

LEMMA RankIs == \A op : Rank(op) \in 0..1
BY DEF Rank

\* A sequence with x put in after its first n elements.
Splice(q, x, n) == SubSeq(q, 1, n) \o <<x>> \o SubSeq(q, n + 1, Len(q))

LEMMA Spliced ==
    ASSUME NEW S, NEW q \in Seq(S), NEW x \in S, NEW n \in 0..Len(q)
    PROVE  /\ Splice(q, x, n) \in Seq(S) /\ Len(Splice(q, x, n)) = Len(q) + 1
           /\ \A j \in 1..(Len(q) + 1) :
                 Splice(q, x, n)[j] = IF j <= n THEN q[j] ELSE IF j = n + 1 THEN x ELSE q[j - 1]
<1> DEFINE front == SubSeq(q, 1, n)
           back == SubSeq(q, n + 1, Len(q))
           head == front \o <<x>>
<1>1. Len(q) \in Nat /\ \A j \in 1..Len(q) : q[j] \in S
    OBVIOUS
<1>2. front \in Seq(S) /\ Len(front) = n /\ \A j \in 1..n : front[j] = q[j]
    BY <1>1, SubSeqProperties
<1>3. back \in Seq(S) /\ Len(back) = Len(q) - n /\ \A j \in 1..(Len(q) - n) : back[j] = q[n + j]
    BY <1>1, SubSeqProperties
<1> HIDE DEF front, back
<1>4. <<x>> \in Seq(S) /\ Len(<<x>>) = 1 /\ <<x>>[1] = x
    OBVIOUS
<1>5. head \in Seq(S) /\ Len(head) = n + 1 /\ \A j \in 1..(n + 1) : head[j] = IF j <= n THEN q[j] ELSE x
    BY <1>1, <1>2, <1>4, ConcatProperties
<1> HIDE DEF head
<1>6. /\ head \o back \in Seq(S) /\ Len(head \o back) = Len(q) + 1
      /\ \A j \in 1..(Len(q) + 1) : (head \o back)[j] = IF j <= n + 1 THEN head[j] ELSE back[j - (n + 1)]
    <2>1. /\ head \o back \in Seq(S) /\ Len(head \o back) = Len(head) + Len(back)
          /\ \A j \in 1..(Len(head) + Len(back)) :
                (head \o back)[j] = IF j <= Len(head) THEN head[j] ELSE back[j - Len(head)]
        BY <1>3, <1>5, ConcatProperties
    <2>2. Len(head) + Len(back) = Len(q) + 1
        BY <1>1, <1>3, <1>5
    <2>. QED
        BY <1>5, <2>1, <2>2
<1>7. ASSUME NEW j \in 1..(Len(q) + 1), j > n + 1 PROVE back[j - (n + 1)] = q[j - 1]
    <2>1. j - (n + 1) \in 1..(Len(q) - n) /\ n + (j - (n + 1)) = j - 1
        BY <1>1, <1>7
    <2>. QED
        BY <1>3, <2>1
<1>8. ASSUME NEW j \in 1..(Len(q) + 1)
      PROVE  (head \o back)[j] = IF j <= n THEN q[j] ELSE IF j = n + 1 THEN x ELSE q[j - 1]
    <2>1. CASE j <= n + 1
        BY <1>1, <1>5, <1>6, <2>1
    <2>2. CASE j > n + 1
        BY <1>1, <1>6, <1>7, <2>2
    <2>3. j <= n + 1 \/ j > n + 1
        BY <1>1
    <2>. QED
        BY <2>1, <2>2, <2>3
<1>9. head \o back \in Seq(S) /\ Len(head \o back) = Len(q) + 1
    BY <1>6
<1>. QED
    BY <1>8, <1>9 DEF Splice, front, back, head

\* A sequence without its i-th element.
LEMMA Shortened ==
    ASSUME NEW S, NEW q \in Seq(S), NEW i \in 1..Len(q)
    PROVE  LET s == SubSeq(q, 1, i - 1) \o SubSeq(q, i + 1, Len(q))
           IN  /\ s \in Seq(S) /\ Len(s) = Len(q) - 1
               /\ \A j \in 1..(Len(q) - 1) : s[j] = IF j < i THEN q[j] ELSE q[j + 1]
<1> DEFINE front == SubSeq(q, 1, i - 1)
           back == SubSeq(q, i + 1, Len(q))
<1>1. Len(q) \in Nat /\ \A j \in 1..Len(q) : q[j] \in S
    OBVIOUS
<1>2. front \in Seq(S) /\ Len(front) = i - 1 /\ \A j \in 1..(i - 1) : front[j] = q[j]
    BY <1>1, SubSeqProperties
<1>3. back \in Seq(S) /\ Len(back) = Len(q) - i /\ \A j \in 1..(Len(q) - i) : back[j] = q[i + j]
    BY <1>1, SubSeqProperties
<1> HIDE DEF front, back
<1>4. /\ front \o back \in Seq(S) /\ Len(front \o back) = Len(q) - 1
      /\ \A j \in 1..(Len(q) - 1) : (front \o back)[j] = IF j <= i - 1 THEN front[j] ELSE back[j - (i - 1)]
    <2>1. /\ front \o back \in Seq(S) /\ Len(front \o back) = Len(front) + Len(back)
          /\ \A j \in 1..(Len(front) + Len(back)) :
                (front \o back)[j] = IF j <= Len(front) THEN front[j] ELSE back[j - Len(front)]
        BY <1>2, <1>3, ConcatProperties
    <2>2. Len(front) + Len(back) = Len(q) - 1
        BY <1>1, <1>2, <1>3
    <2>. QED
        BY <1>2, <2>1, <2>2
<1>5. ASSUME NEW j \in 1..(Len(q) - 1), j >= i PROVE back[j - (i - 1)] = q[j + 1]
    <2>1. j - (i - 1) \in 1..(Len(q) - i) /\ i + (j - (i - 1)) = j + 1
        BY <1>1, <1>5
    <2>. QED
        BY <1>3, <2>1
<1>6. ASSUME NEW j \in 1..(Len(q) - 1)
      PROVE  (front \o back)[j] = IF j < i THEN q[j] ELSE q[j + 1]
    <2>1. CASE j < i
        BY <1>1, <1>2, <1>4, <2>1
    <2>2. CASE j >= i
        BY <1>1, <1>4, <1>5, <2>2
    <2>3. j < i \/ j >= i
        BY <1>1
    <2>. QED
        BY <2>1, <2>2, <2>3
<1>7. front \o back \in Seq(S) /\ Len(front \o back) = Len(q) - 1
    BY <1>4
<1>. QED
    BY <1>6, <1>7 DEF front, back

LEMMA LeastNatural ==
    ASSUME NEW T \in SUBSET Nat, T # {}
    PROVE  \E m \in T : \A n \in T : m <= n
<1> DEFINE Less == {p \in Nat \X Nat : p[1] < p[2]}
<1>1. IsWellFoundedOn(Less, Nat)
    BY NatLessThanWellFounded DEF OpToRel
<1>2. PICK m \in T : \A n \in T : <<n, m>> \notin Less
    BY <1>1, WFMin
<1>3. ASSUME NEW n \in T PROVE m <= n
    <2>1. n \in Nat /\ m \in Nat /\ <<n, m>> \in Nat \X Nat
        OBVIOUS
    <2>2. ~(n < m)
        BY <1>2, <2>1
    <2>. QED
        BY <2>1, <2>2
<1>. QED
    BY <1>3

\* The entries of an ordered queue a new one goes behind are its first ones.
LEMMA BeforeIsPrefix ==
    ASSUME NEW q \in Seq(Waiting), QueueOrder(q), NEW r \in 0..1
    PROVE  LET before == {i \in DOMAIN q : Rank(q[i].op) <= r}
               n == Cardinality(before)
           IN  n \in 0..Len(q) /\ before = 1..n
<1> DEFINE before == {i \in DOMAIN q : Rank(q[i].op) <= r}
           after == (1..Len(q)) \ before
<1>1. Len(q) \in Nat /\ DOMAIN q = 1..Len(q)
    OBVIOUS
<1>2. \E n \in 0..Len(q) : before = 1..n
    <2>1. CASE after = {}
        BY <1>1, <2>1
    <2>2. CASE after # {}
        <3>0. after \in SUBSET Nat
            BY <1>1
        <3>1. PICK m \in after : \A k \in after : m <= k
            BY <2>2, <3>0, LeastNatural
        <3>2. before = 1..(m - 1)
            BY <1>1, <3>1, RankIs DEF QueueOrder
        <3>. QED
            BY <1>1, <3>1, <3>2
    <2>. QED
        BY <2>1, <2>2
<1>3. PICK n \in 0..Len(q) : before = 1..n
    BY <1>2
<1>4. Cardinality(1..n) = n
    BY <1>1, FS_Interval
<1>. QED
    BY <1>3, <1>4

\* A new entry goes behind those of its rank and before those of a higher one.
InsertedAt(q, e, s, n) ==
    /\ n \in 0..Len(q)
    /\ \A j \in 1..n : Rank(q[j].op) <= Rank(e.op)
    /\ \A j \in (n + 1)..Len(q) : Rank(e.op) < Rank(q[j].op)
    /\ s \in Seq(Waiting) /\ Len(s) = Len(q) + 1
    /\ \A j \in 1..(Len(q) + 1) :
          s[j] = IF j <= n THEN q[j] ELSE IF j = n + 1 THEN e ELSE q[j - 1]

LEMMA InsertShape ==
    ASSUME NEW q \in Seq(Waiting), QueueOrder(q), NEW e \in Waiting
    PROVE  \E n \in 0..Len(q) : InsertedAt(q, e, Insert(q, e), n)
<1> DEFINE before == {i \in DOMAIN q : Rank(q[i].op) <= Rank(e.op)}
           n == Cardinality(before)
           s == Insert(q, e)
<1>1. n \in 0..Len(q) /\ before = 1..n
    BY BeforeIsPrefix, RankIs
<1>2. s = Splice(q, e, n)
    BY DEF Insert, Splice
<1>3. Len(q) \in Nat /\ DOMAIN q = 1..Len(q) /\ \A j \in 1..Len(q) : q[j] \in Waiting
    OBVIOUS
<1>4. /\ \A j \in 1..n : Rank(q[j].op) <= Rank(e.op)
      /\ \A j \in (n + 1)..Len(q) : Rank(e.op) < Rank(q[j].op)
    <2>1. \A j \in (n + 1)..Len(q) : j \in DOMAIN q /\ j \notin before
        <3> HIDE DEF n, before
        <3>. QED
            BY <1>1, <1>3
    <2>2. \A j \in (n + 1)..Len(q) : Rank(e.op) < Rank(q[j].op)
        BY <2>1, RankIs
    <2>. QED
        BY <1>1, <2>2
<1> HIDE DEF n, before
<1> HIDE DEF s
<1>5. /\ s \in Seq(Waiting) /\ Len(s) = Len(q) + 1
      /\ \A j \in 1..(Len(q) + 1) :
            s[j] = IF j <= n THEN q[j] ELSE IF j = n + 1 THEN e ELSE q[j - 1]
    <2>1. n \in 0..Len(q)
        BY <1>1
    <2>2. Splice(q, e, n) \in Seq(Waiting)
        BY <2>1, Spliced
    <2>3. Len(Splice(q, e, n)) = Len(q) + 1
        BY <2>1, Spliced
    <2>4. \A j \in 1..(Len(q) + 1) :
              Splice(q, e, n)[j] = IF j <= n THEN q[j] ELSE IF j = n + 1 THEN e ELSE q[j - 1]
        BY <2>1, Spliced
    <2>. QED
        BY <1>2, <2>2, <2>3, <2>4
<1>. QED
    BY <1>1, <1>4, <1>5 DEF InsertedAt, s

LEMMA InsertStep ==
    ASSUME NEW q \in Seq(Waiting), QueueOrder(q), NEW e \in Waiting,
           \A f \in Elements(q) : f.id = e.id => f.op = e.op /\ f.attempt < e.attempt
    PROVE  /\ Insert(q, e) \in Seq(Waiting)
           /\ QueueOrder(Insert(q, e))
           /\ Elements(Insert(q, e)) = Elements(q) \union {e}
<1> DEFINE s == Insert(q, e)
<1>1. PICK n \in 0..Len(q) : InsertedAt(q, e, s, n)
    BY InsertShape
<1>3. Len(q) \in Nat /\ DOMAIN q = 1..Len(q) /\ \A j \in 1..Len(q) : q[j] \in Waiting
    OBVIOUS
<1> HIDE DEF s
<1>4. /\ \A j \in 1..n : Rank(q[j].op) <= Rank(e.op)
      /\ \A j \in (n + 1)..Len(q) : Rank(e.op) < Rank(q[j].op) /\ q[j].id # e.id
    <2>1. ASSUME NEW j \in (n + 1)..Len(q) PROVE j \in DOMAIN q /\ Rank(e.op) < Rank(q[j].op)
        BY <1>1, <1>3 DEF InsertedAt
    <2>2. ASSUME NEW j \in (n + 1)..Len(q) PROVE q[j].id # e.id
        BY <2>1, RankIs DEF Elements
    <2>. QED
        BY <1>1, <2>1, <2>2 DEF InsertedAt
<1>5. /\ s \in Seq(Waiting) /\ Len(s) = Len(q) + 1
      /\ \A j \in 1..(Len(q) + 1) :
            s[j] = IF j <= n THEN q[j] ELSE IF j = n + 1 THEN e ELSE q[j - 1]
    BY <1>1 DEF InsertedAt
<1>6. DOMAIN s = 1..(Len(q) + 1)
    BY <1>5
<1>7. QueueOrder(s)
    <2> SUFFICES ASSUME NEW i \in DOMAIN s, NEW j \in DOMAIN s, i < j
                 PROVE  /\ Rank(s[i].op) <= Rank(s[j].op)
                        /\ s[i].id = s[j].id => s[i].attempt < s[j].attempt
        BY DEF QueueOrder
    <2>1. CASE j <= n
        BY <1>1, <1>3, <1>5, <1>6, <2>1 DEF QueueOrder
    <2>2. CASE j = n + 1
        <3>1. s[j] = e /\ s[i] = q[i] /\ i \in 1..n
            BY <1>1, <1>3, <1>5, <1>6, <2>2
        <3>. QED
            BY <1>1, <1>3, <1>4, <3>1 DEF Elements
    <2>3. CASE i = n + 1
        <3>1. s[i] = e /\ s[j] = q[j - 1] /\ j - 1 \in (n + 1)..Len(q)
            BY <1>1, <1>3, <1>5, <1>6, <2>3
        <3>. QED
            BY <1>4, <3>1, RankIs
    <2>4. CASE i <= n /\ j > n + 1
        <3>1. s[i] = q[i] /\ s[j] = q[j - 1] /\ i \in DOMAIN q /\ j - 1 \in DOMAIN q /\ i < j - 1
            BY <1>1, <1>3, <1>5, <1>6, <2>4
        <3>. QED
            BY <3>1 DEF QueueOrder
    <2>5. CASE i > n + 1
        <3>1. s[i] = q[i - 1] /\ s[j] = q[j - 1] /\ i - 1 \in DOMAIN q /\ j - 1 \in DOMAIN q /\ i - 1 < j - 1
            BY <1>1, <1>3, <1>5, <1>6, <2>5
        <3>. QED
            BY <3>1 DEF QueueOrder
    <2>. QED
        BY <1>1, <1>3, <1>6, <2>1, <2>2, <2>3, <2>4, <2>5
<1>8. Elements(s) = Elements(q) \union {e}
    <2>1. ASSUME NEW j \in DOMAIN s PROVE s[j] \in Elements(q) \union {e}
        <3>1. s[j] = e \/ (s[j] = q[j] /\ j \in DOMAIN q) \/ (s[j] = q[j - 1] /\ j - 1 \in DOMAIN q)
            BY <1>1, <1>3, <1>5, <1>6
        <3>. QED
            BY <3>1 DEF Elements
    <2>2. ASSUME NEW j \in DOMAIN q PROVE q[j] \in Elements(s)
        <3>1. CASE j <= n
            BY <1>1, <1>3, <1>5, <1>6, <3>1 DEF Elements
        <3>2. CASE j > n
            <4>1. s[j + 1] = q[j] /\ j + 1 \in DOMAIN s
                BY <1>1, <1>3, <1>5, <1>6, <3>2
            <4>. QED
                BY <4>1 DEF Elements
        <3>. QED
            BY <1>1, <1>3, <3>1, <3>2
    <2>3. e \in Elements(s)
        <3>1. s[n + 1] = e /\ n + 1 \in DOMAIN s
            BY <1>1, <1>3, <1>5, <1>6
        <3>. QED
            BY <3>1 DEF Elements
    <2>. QED
        BY <2>1, <2>2, <2>3 DEF Elements
<1>. QED
    BY <1>5, <1>7, <1>8 DEF s

\* Searching for the id finds the attempt whose timer has fired, because that
\* is the earlier of two.
RemovedAt(q, e, s, p) ==
    /\ p \in DOMAIN q /\ q[p] = e
    /\ \A j \in DOMAIN q : j # p => q[j] # e
    /\ s \in Seq(Waiting) /\ Len(s) = Len(q) - 1
    /\ \A j \in 1..(Len(q) - 1) : s[j] = IF j < p THEN q[j] ELSE q[j + 1]

LEMMA RemoveShape ==
    ASSUME NEW q \in Seq(Waiting), QueueOrder(q), NEW e \in Elements(q),
           \A f \in Elements(q) : f.id = e.id => ~(f.attempt < e.attempt)
    PROVE  \E p \in DOMAIN q : RemovedAt(q, e, RemoveFromQueue(q, e.id), p)
<1> DEFINE First(n) == q[n].id = e.id /\ \A m \in DOMAIN q : q[m].id = e.id => n <= m
           i == CHOOSE n \in DOMAIN q : First(n)
           s == RemoveFromQueue(q, e.id)
<1>1. Len(q) \in Nat /\ DOMAIN q = 1..Len(q) /\ \A j \in 1..Len(q) : q[j] \in Waiting
    OBVIOUS
<1>2. PICK p \in DOMAIN q : q[p] = e
    BY DEF Elements
<1>3. \A j \in DOMAIN q : j # p => (q[j].id = e.id => p < j) /\ q[j] # e
    <2> SUFFICES ASSUME NEW j \in DOMAIN q, j # p PROVE (q[j].id = e.id => p < j) /\ q[j] # e
        OBVIOUS
    <2>1. q[j].attempt \in 1..2 /\ e.attempt \in 1..2
        BY <1>1, <1>2 DEF Waiting
    <2>2. CASE j < p
        BY <1>2, <2>1, <2>2 DEF QueueOrder, Elements
    <2>3. CASE p < j
        BY <1>1, <1>2, <2>1, <2>3 DEF QueueOrder
    <2>. QED
        BY <1>1, <2>2, <2>3
<1>4. First(p)
    BY <1>1, <1>2, <1>3
<1>5. i \in DOMAIN q /\ First(i)
    BY <1>4
<1>6. i = p
    BY <1>1, <1>2, <1>3, <1>5
<1>7. s = SubSeq(q, 1, i - 1) \o SubSeq(q, i + 1, Len(q))
    BY DEF RemoveFromQueue
<1> HIDE DEF i
<1>8. /\ s \in Seq(Waiting) /\ Len(s) = Len(q) - 1
      /\ \A j \in 1..(Len(q) - 1) : s[j] = IF j < p THEN q[j] ELSE q[j + 1]
    BY <1>1, <1>6, <1>7, Shortened, ZenonT(60)
<1> HIDE DEF s
<1>. QED
    BY <1>2, <1>3, <1>8 DEF RemovedAt, s

LEMMA RemoveStep ==
    ASSUME NEW q \in Seq(Waiting), QueueOrder(q), NEW e \in Elements(q),
           \A f \in Elements(q) : f.id = e.id => ~(f.attempt < e.attempt)
    PROVE  /\ RemoveFromQueue(q, e.id) \in Seq(Waiting)
           /\ QueueOrder(RemoveFromQueue(q, e.id))
           /\ Elements(RemoveFromQueue(q, e.id)) = Elements(q) \ {e}
<1> DEFINE s == RemoveFromQueue(q, e.id)
<1>1. Len(q) \in Nat /\ DOMAIN q = 1..Len(q) /\ \A j \in 1..Len(q) : q[j] \in Waiting
    OBVIOUS
<1>2. PICK p \in DOMAIN q : RemovedAt(q, e, s, p)
    BY RemoveShape
<1> HIDE DEF s
<1>3. q[p] = e /\ \A j \in DOMAIN q : j # p => q[j] # e
    BY <1>2 DEF RemovedAt
<1>8. /\ s \in Seq(Waiting) /\ Len(s) = Len(q) - 1
      /\ \A j \in 1..(Len(q) - 1) : s[j] = IF j < p THEN q[j] ELSE q[j + 1]
    BY <1>2 DEF RemovedAt
<1>9. DOMAIN s = 1..(Len(q) - 1)
    BY <1>1, <1>8
<1>10. ASSUME NEW j \in DOMAIN s
       PROVE  \E k \in DOMAIN q : k # p /\ s[j] = q[k] /\ k = IF j < p THEN j ELSE j + 1
    BY <1>1, <1>8, <1>9
<1>11. QueueOrder(s)
    <2> SUFFICES ASSUME NEW j \in DOMAIN s, NEW k \in DOMAIN s, j < k
                 PROVE  /\ Rank(s[j].op) <= Rank(s[k].op)
                        /\ s[j].id = s[k].id => s[j].attempt < s[k].attempt
        BY DEF QueueOrder
    <2>1. PICK a \in DOMAIN q : s[j] = q[a] /\ a = IF j < p THEN j ELSE j + 1
        BY <1>10
    <2>2. PICK b \in DOMAIN q : s[k] = q[b] /\ b = IF k < p THEN k ELSE k + 1
        BY <1>10
    <2>3. a < b
        BY <1>1, <1>9, <2>1, <2>2
    <2>. QED
        BY <2>1, <2>2, <2>3 DEF QueueOrder
<1>12. Elements(s) = Elements(q) \ {e}
    <2>1. ASSUME NEW j \in DOMAIN s PROVE s[j] \in Elements(q) \ {e}
        BY <1>3, <1>10 DEF Elements
    <2>2. ASSUME NEW j \in DOMAIN q, j # p PROVE q[j] \in Elements(s)
        <3>1. CASE j < p
            <4>1. s[j] = q[j] /\ j \in DOMAIN s
                BY <1>1, <1>8, <1>9, <3>1
            <4>. QED
                BY <4>1 DEF Elements
        <3>2. CASE p < j
            <4>1. s[j - 1] = q[j] /\ j - 1 \in DOMAIN s
                BY <1>1, <1>8, <1>9, <3>2
            <4>. QED
                BY <4>1 DEF Elements
        <3>. QED
            BY <1>1, <2>2, <3>1, <3>2
    <2>. QED
        BY <1>3, <2>1, <2>2 DEF Elements
<1>. QED
    BY <1>8, <1>11, <1>12 DEF s

-----------------------------------------------------------------------------
(* The steps                                                               *)

CallRecords ==
    [pc : {"idle", "sent", "arrived", "answered", "reconnecting"}, op : AllOps \union {NoCall.op},
     n : Nat, attempt : 0..2, outcome : {"none", "ok", "error", "invalid"}, standing : BOOLEAN]

CallOK(k) ==
    /\ k.pc = "reconnecting" => k.attempt = 1
    /\ k.pc # "idle" => k.op \in AllOps /\ k.attempt \in 1..2

\* An operation the scheduler has started.
Started(e) ==
    /\ e.id \in Clients \X Nat /\ e.attempt \in 1..2 /\ e.op \in AllOps
    /\ e = [id |-> e.id, attempt |-> e.attempt, op |-> e.op, timed |-> e.timed, count |-> e.count]

Held == running \union Elements(queue)

\* What the scheduler holds is of the current call or an earlier one, and of
\* the current call only attempts that have been sent.
Current(e) ==
    LET k == call[e.id[1]]
    IN  /\ e.id[2] <= k.n
        /\ e.id[2] = k.n /\ k.pc # "idle" =>
              /\ e.op = k.op /\ e.attempt <= k.attempt
              /\ k.pc = "sent" => e.attempt < k.attempt

StoreInv == Shape(db) /\ Consistent(db)
CallsInv == call \in [Clients -> CallRecords] /\ \A c \in Clients : CallOK(call[c])
QueueInv == queue \in Seq(Waiting) /\ QueueOrder(queue) /\ \A e \in running : Started(e)
CurrentInv == \A e \in Held : Current(e)

\* CallerNotForgotten is inductive only with the order of the queue and with
\* what CurrentInv says of the attempts in it.
IInv == StoreInv /\ CallsInv /\ QueueInv /\ CurrentInv /\ CallerNotForgotten

LEMMA UntimedIs == Untimed = {e \in Held : ~e.timed}
BY DEF Untimed, Held, Elements

LEMMA WaitingStarted == \A e \in Waiting : Started(e) /\ ~e.timed
<1> TAKE e \in Waiting
<1>1. e.id \in Clients \X Nat /\ e.attempt \in 1..2 /\ e.op \in AllOps /\ e.timed = FALSE
    BY DEF Waiting
<1>2. e = [id |-> e.id, attempt |-> e.attempt, op |-> e.op, timed |-> e.timed, count |-> e.count]
    BY DEF Waiting
<1>. QED
    BY <1>1, <1>2 DEF Started

LEMMA QueueElements ==
    ASSUME NEW q \in Seq(Waiting)
    PROVE  Elements(q) \subseteq Waiting
BY DEF Elements

LEMMA HeldStarted ==
    ASSUME QueueInv
    PROVE  \A e \in Held : Started(e)
BY WaitingStarted, QueueElements DEF QueueInv, Held

\* How the record of a call may change: a new call, a call that is over, or
\* another stage of the same call.
Follows(k, l) ==
    \/ l.pc = k.pc /\ l.op = k.op /\ l.n = k.n /\ l.attempt = k.attempt
    \/ l.n > k.n
    \/ l.n = k.n /\ l.pc = "idle"
    \/ /\ k.pc # "idle" /\ l.n = k.n /\ l.op = k.op /\ k.attempt <= l.attempt
       /\ l.pc = "sent" => k.attempt < l.attempt

LEMMA CurrentFollows ==
    ASSUME CallsInv, CallsInv', \A c \in Clients : Follows(call[c], call'[c]),
           NEW e, Started(e), Current(e)
    PROVE  Current(e)'
<1> DEFINE k == call[e.id[1]]
           l == call'[e.id[1]]
<1>1. e.id[1] \in Clients /\ e.id[2] \in Nat /\ e.attempt \in 1..2
    BY DEF Started
<1>2. /\ k.n \in Nat /\ l.n \in Nat /\ k.attempt \in 0..2 /\ l.attempt \in 0..2
      /\ Follows(k, l)
    BY <1>1 DEF CallsInv, CallRecords
<1>3. Current(e)' <=> /\ e.id[2] <= l.n
                      /\ e.id[2] = l.n /\ l.pc # "idle" =>
                            /\ e.op = l.op /\ e.attempt <= l.attempt
                            /\ l.pc = "sent" => e.attempt < l.attempt
    BY DEF Current
<1>4. /\ e.id[2] <= k.n
      /\ e.id[2] = k.n /\ k.pc # "idle" =>
            /\ e.op = k.op /\ e.attempt <= k.attempt
            /\ k.pc = "sent" => e.attempt < k.attempt
    BY DEF Current
<1> HIDE DEF k, l
<1>. QED
    BY <1>1, <1>2, <1>3, <1>4 DEF Follows

\* tryExecuteNext() moves an entry, if any, from the queue to the slots.
LEMMA TryStep ==
    ASSUME NEW q \in Seq(Waiting), NEW r, QueueOrder(q), \A e \in r : Started(e),
           TryExecuteNext(q, r)
    PROVE  QueueInv' /\ Held' = r \union Elements(q)
<1>1. CASE queue' = q /\ running' = r
    BY <1>1 DEF QueueInv, QueueOrder, Held, Elements
<1>2. CASE q # <<>> /\ queue' = Tail(q) /\ running' = r \union {Head(q)}
    <2>1. /\ Tail(q) \in Seq(Waiting) /\ Len(Tail(q)) = Len(q) - 1 /\ Len(q) \in Nat \ {0}
          /\ \A i \in 1..(Len(q) - 1) : Tail(q)[i] = q[i + 1]
          /\ Head(q) = q[1]
        BY <1>2
    <2>2. DOMAIN q = 1..Len(q) /\ DOMAIN Tail(q) = 1..(Len(q) - 1)
        BY <2>1
    <2>3. QueueOrder(Tail(q))
        <3> SUFFICES ASSUME NEW i \in DOMAIN Tail(q), NEW j \in DOMAIN Tail(q), i < j
                     PROVE  /\ Rank(Tail(q)[i].op) <= Rank(Tail(q)[j].op)
                            /\ Tail(q)[i].id = Tail(q)[j].id => Tail(q)[i].attempt < Tail(q)[j].attempt
            BY DEF QueueOrder
        <3>1. i + 1 \in DOMAIN q /\ j + 1 \in DOMAIN q /\ i + 1 < j + 1
            BY <2>1, <2>2
        <3>2. Tail(q)[i] = q[i + 1] /\ Tail(q)[j] = q[j + 1]
            BY <2>1, <2>2
        <3>. QED
            BY <3>1, <3>2 DEF QueueOrder
    <2>4. Elements(q) = {Head(q)} \union Elements(Tail(q))
        <3>1. ASSUME NEW i \in DOMAIN q PROVE q[i] \in {Head(q)} \union Elements(Tail(q))
            <4>1. CASE i = 1
                BY <2>1, <4>1
            <4>2. CASE i # 1
                <5>1. i - 1 \in DOMAIN Tail(q) /\ Tail(q)[i - 1] = q[i]
                    BY <2>1, <2>2, <4>2
                <5>. QED
                    BY <5>1 DEF Elements
            <4>. QED
                BY <4>1, <4>2
        <3>2. ASSUME NEW i \in DOMAIN Tail(q) PROVE Tail(q)[i] \in Elements(q)
            <4>1. i + 1 \in DOMAIN q /\ Tail(q)[i] = q[i + 1]
                BY <2>1, <2>2
            <4>. QED
                BY <4>1 DEF Elements
        <3>3. Head(q) \in Elements(q)
            BY <2>1, <2>2 DEF Elements
        <3>. QED
            BY <3>1, <3>2, <3>3 DEF Elements
    <2>5. Started(Head(q))
        BY <2>1, <2>2, WaitingStarted
    <2>6. Elements(queue)' = Elements(Tail(q)) /\ QueueOrder(queue)'
        BY <1>2, <2>3 DEF Elements, QueueOrder
    <2>. QED
        BY <1>2, <2>1, <2>4, <2>5, <2>6 DEF QueueInv, Held
<1>. QED
    BY <1>1, <1>2 DEF TryExecuteNext
\* A step of one client that leaves the scheduler alone.
LEMMA ClientStep ==
    ASSUME IInv, NEW c \in Clients, NEW l \in CallRecords, CallOK(l), Follows(call[c], l),
           l.pc # "arrived", call' = [call EXCEPT ![c] = l], UNCHANGED <<db, queue, running>>
    PROVE  IInv'
<1>1. CallsInv' /\ \A d \in Clients : Follows(call[d], call'[d])
    <2>1. call' \in [Clients -> CallRecords]
        BY DEF IInv, CallsInv
    <2>2. \A d \in Clients : call'[d] = IF d = c THEN l ELSE call[d]
        BY DEF IInv, CallsInv
    <2>. QED
        BY <2>1, <2>2 DEF IInv, CallsInv, Follows
<1>2. StoreInv' /\ QueueInv' /\ Held' = Held /\ Untimed' = Untimed
    BY DEF IInv, StoreInv, QueueInv, QueueOrder, Held, Elements, Untimed
<1>3. CurrentInv'
    BY <1>1, <1>2, CurrentFollows, HeldStarted DEF IInv, CurrentInv
<1>4. CallerNotForgotten'
    <2>1. \A d \in Clients : call'[d] = IF d = c THEN l ELSE call[d]
        BY DEF IInv, CallsInv
    <2>. QED
        BY <1>2, <2>1 DEF IInv, CallerNotForgotten
<1>. QED
    BY <1>1, <1>2, <1>3, <1>4 DEF IInv

LEMMA InitIInv == Init => IInv
<1> SUFFICES ASSUME Init PROVE IInv
    OBVIOUS
<1>1. StoreInv
    BY DEF Init, StoreInv, Shape, Empty, Consistent, KeysUnique, NoDanglingRel, SchemaKept
<1>2. CallsInv
    BY DEF Init, CallsInv, NoCall, CallRecords, CallOK
<1>3. QueueInv /\ Held = {}
    BY DEF Init, QueueInv, QueueOrder, Held, Elements
<1>4. CurrentInv
    BY <1>3 DEF CurrentInv
<1>5. CallerNotForgotten
    BY DEF Init, CallerNotForgotten, NoCall
<1>. QED
    BY <1>1, <1>2, <1>3, <1>4, <1>5 DEF IInv

\* The record of a call, and k in another stage.
Record(pc, op, n, attempt, outcome, standing) ==
    [pc |-> pc, op |-> op, n |-> n, attempt |-> attempt, outcome |-> outcome,
     standing |-> standing]
Stage(k, pc, attempt, outcome) == Record(pc, k.op, k.n, attempt, outcome, k.standing)

Pcs == {"idle", "sent", "arrived", "answered", "reconnecting"}
Outcomes == {"none", "ok", "error", "invalid"}

LEMMA OneExcept ==
    ASSUME NEW k \in CallRecords
    PROVE  /\ \A x : [k EXCEPT !.pc = x] = Record(x, k.op, k.n, k.attempt, k.outcome, k.standing)
           /\ \A x : [k EXCEPT !.op = x] = Record(k.pc, x, k.n, k.attempt, k.outcome, k.standing)
           /\ \A x : [k EXCEPT !.n = x] = Record(k.pc, k.op, x, k.attempt, k.outcome, k.standing)
           /\ \A x : [k EXCEPT !.attempt = x] = Record(k.pc, k.op, k.n, x, k.outcome, k.standing)
           /\ \A x : [k EXCEPT !.outcome = x] = Record(k.pc, k.op, k.n, k.attempt, x, k.standing)
           /\ \A x : [k EXCEPT !.standing = x] = Record(k.pc, k.op, k.n, k.attempt, k.outcome, x)
BY DEF CallRecords, Record

LEMMA RecordFields ==
    \A pc, op, n, attempt, outcome, standing :
        LET l == Record(pc, op, n, attempt, outcome, standing)
        IN  /\ l.pc = pc /\ l.op = op /\ l.n = n /\ l.attempt = attempt
            /\ l.outcome = outcome /\ l.standing = standing
BY DEF Record

LEMMA RecordOK ==
    \A pc, op, n, attempt, outcome, standing :
        /\ pc \in Pcs /\ op \in AllOps \union {NoCall.op} /\ n \in Nat /\ attempt \in 0..2
        /\ outcome \in Outcomes /\ standing \in BOOLEAN
        => Record(pc, op, n, attempt, outcome, standing) \in CallRecords
BY DEF Record, CallRecords, Pcs, Outcomes

LEMMA CallFields ==
    ASSUME NEW k \in CallRecords
    PROVE  /\ k.pc \in Pcs /\ k.op \in AllOps \union {NoCall.op} /\ k.n \in Nat
           /\ k.attempt \in 0..2 /\ k.outcome \in Outcomes /\ k.standing \in BOOLEAN
BY DEF CallRecords, Pcs, Outcomes

\* The changes of an attempt, of an outcome and of both with the stage.
Retried(k, pc, attempt) == [k EXCEPT !.pc = pc, !.attempt = attempt]
Answered(k, pc, outcome) == [k EXCEPT !.pc = pc, !.outcome = outcome]
Ended(k, pc, outcome, attempt) == [k EXCEPT !.pc = pc, !.outcome = outcome, !.attempt = attempt]

LEMMA StageIs ==
    ASSUME NEW k \in CallRecords, NEW pc \in Pcs, NEW attempt \in 0..2, NEW outcome \in Outcomes
    PROVE  /\ Stage(k, pc, attempt, outcome) \in CallRecords
           /\ Retried(k, pc, attempt) = Stage(k, pc, attempt, k.outcome)
           /\ Answered(k, pc, outcome) = Stage(k, pc, k.attempt, outcome)
           /\ Ended(k, pc, outcome, attempt) = Stage(k, pc, attempt, outcome)
<1> DEFINE m == [k EXCEPT !.pc = pc]
           o == [m EXCEPT !.outcome = outcome]
<1>1. /\ Retried(k, pc, attempt) = [m EXCEPT !.attempt = attempt]
      /\ Answered(k, pc, outcome) = o
      /\ Ended(k, pc, outcome, attempt) = [o EXCEPT !.attempt = attempt]
    BY DEF Retried, Answered, Ended
<1>2. m = Stage(k, pc, k.attempt, k.outcome)
    BY OneExcept DEF Stage
<1> HIDE DEF m
<1>0. m \in CallRecords
    BY <1>2, CallFields, RecordOK DEF Stage
<1>3. /\ m.pc = pc /\ m.op = k.op /\ m.n = k.n /\ m.attempt = k.attempt
      /\ m.outcome = k.outcome /\ m.standing = k.standing
    BY <1>2, RecordFields DEF Stage
<1>4. [m EXCEPT !.attempt = attempt] = Stage(k, pc, attempt, k.outcome)
    BY <1>0, <1>3, OneExcept DEF Stage
<1>5. o = Stage(k, pc, k.attempt, outcome)
    BY <1>0, <1>3, OneExcept DEF Stage
<1> HIDE DEF o
<1>6. /\ o.pc = pc /\ o.op = k.op /\ o.n = k.n /\ o.attempt = k.attempt
      /\ o.outcome = outcome /\ o.standing = k.standing
    BY <1>5, RecordFields DEF Stage
<1>9. o \in CallRecords
    BY <1>5, CallFields, RecordOK DEF Stage
<1>7. [o EXCEPT !.attempt = attempt] = Stage(k, pc, attempt, outcome)
    BY <1>6, <1>9, OneExcept DEF Stage
<1>8. Stage(k, pc, attempt, outcome) \in CallRecords
    BY CallFields, RecordOK DEF Stage
<1>. QED
    BY <1>1, <1>4, <1>5, <1>7, <1>8

LEMMA StageOK ==
    ASSUME NEW k \in CallRecords, CallOK(k), NEW pc, NEW attempt \in 0..2, NEW outcome,
           \/ pc = "idle"
           \/ k.pc # "idle" /\ pc = "reconnecting" /\ attempt = 1 /\ k.attempt = 1
           \/ k.pc # "idle" /\ pc = "sent" /\ attempt = 2 /\ k.attempt = 1
           \/ k.pc # "idle" /\ pc \in {"arrived", "answered"} /\ attempt = k.attempt
    PROVE  CallOK(Stage(k, pc, attempt, outcome)) /\ Follows(k, Stage(k, pc, attempt, outcome))
<1> DEFINE l == Stage(k, pc, attempt, outcome)
<1>1. l.pc = pc /\ l.op = k.op /\ l.n = k.n /\ l.attempt = attempt
    BY DEF Stage, Record
<1>2. k.attempt \in 0..2 /\ k.n \in Nat
    BY DEF CallRecords
<1>3. k.pc # "idle" => k.op \in AllOps /\ k.attempt \in 1..2
    BY DEF CallOK
<1> HIDE DEF l
<1>4. CallOK(l)
    BY <1>1, <1>2, <1>3 DEF CallOK
<1>5. Follows(k, l)
    BY <1>1, <1>2 DEF Follows
<1>. QED
    BY <1>4, <1>5 DEF l

LEMMA FailedIs ==
    ASSUME NEW k \in CallRecords
    PROVE  Failed(k) = IF k.attempt = 1 THEN Stage(k, "reconnecting", k.attempt, k.outcome)
                       ELSE Stage(k, "idle", 0, "error")
<1>1. CASE k.attempt = 1
    BY <1>1, OneExcept DEF Failed, Stage
<1>2. CASE k.attempt # 1
    <2>1. Failed(k) = Ended(k, "idle", "error", 0)
        BY <1>2 DEF Failed, Ended
    <2>2. "error" \in Outcomes /\ "idle" \in Pcs /\ 0 \in 0..2
        BY DEF Pcs, Outcomes
    <2>3. Ended(k, "idle", "error", 0) = Stage(k, "idle", 0, "error")
        BY <2>2, StageIs, Zenon
    <2>. QED
        BY <1>2, <2>1, <2>3
<1>. QED
    BY <1>1, <1>2

LEMMA FailedFollows ==
    ASSUME NEW k \in CallRecords, CallOK(k), k.pc # "idle", k.pc # "reconnecting"
    PROVE  /\ Failed(k) \in CallRecords /\ CallOK(Failed(k)) /\ Follows(k, Failed(k))
           /\ Failed(k).pc # "arrived"
<1> DEFINE pc == IF k.attempt = 1 THEN "reconnecting" ELSE "idle"
           attempt == IF k.attempt = 1 THEN 1 ELSE 0
           outcome == IF k.attempt = 1 THEN k.outcome ELSE "error"
<1>1. Failed(k) = Stage(k, pc, attempt, outcome)
    BY FailedIs
<1>2. pc \in Pcs /\ attempt \in 0..2 /\ outcome \in Outcomes
    BY CallFields DEF Pcs, Outcomes
<1>3. pc = "idle" \/ (pc = "reconnecting" /\ attempt = 1 /\ k.attempt = 1)
    OBVIOUS
<1> HIDE DEF pc, attempt, outcome
<1>4. Stage(k, pc, attempt, outcome) \in CallRecords
    BY <1>2, StageIs, Zenon
<1>5. CallOK(Stage(k, pc, attempt, outcome)) /\ Follows(k, Stage(k, pc, attempt, outcome))
    BY <1>2, <1>3, StageOK
<1>6. Failed(k).pc = pc
    BY <1>1 DEF Stage, Record
<1>. QED
    BY <1>1, <1>3, <1>4, <1>5, <1>6

LEMMA SettledStep ==
    ASSUME IInv, NEW c \in Clients, NEW how \in Outcomes, Settled(c, how),
           UNCHANGED <<db, queue, running>>
    PROVE  IInv'
<1> DEFINE l == [call[c] EXCEPT !.pc = "idle", !.outcome = how, !.attempt = 0]
<1>1. call[c] \in CallRecords /\ call \in [Clients -> CallRecords]
    BY DEF IInv, CallsInv
<1>2. l \in CallRecords /\ CallOK(l) /\ Follows(call[c], l) /\ l.pc # "arrived"
    <2>1. l = Stage(call[c], "idle", 0, how) /\ l \in CallRecords
        <3>1. "idle" \in Pcs /\ 0 \in 0..2 /\ call[c] \in CallRecords
            BY <1>1 DEF Pcs
        <3>2. l = Ended(call[c], "idle", how, 0)
            BY DEF Ended
        <3> HIDE DEF l
        <3>3. /\ Ended(call[c], "idle", how, 0) = Stage(call[c], "idle", 0, how)
              /\ Stage(call[c], "idle", 0, how) \in CallRecords
            BY <3>1, StageIs, Zenon
        <3>. QED
            BY <3>2, <3>3
    <2>2. l.pc = "idle"
        BY <2>1 DEF Stage, Record
    <2>3. CallOK(call[c])
        BY DEF IInv, CallsInv
    <2>. QED
        BY <1>1, <2>1, <2>2, <2>3, StageOK
<1>3. call' = [call EXCEPT ![c] = l]
    BY <1>1 DEF Settled
<1> HIDE DEF l
<1>. QED
    BY <1>2, <1>3, ClientStep

LEMMA NewCallIs ==
    ASSUME NEW op \in AllOps, NEW n \in Nat
    PROVE  [NoCall EXCEPT !.pc = "sent", !.op = op, !.n = n, !.attempt = 1]
             = Record("sent", op, n, 1, "none", FALSE)
<1> DEFINE l == [NoCall EXCEPT !.pc = "sent", !.op = op, !.n = n, !.attempt = 1]
           l1 == [NoCall EXCEPT !.pc = "sent"]
           l2 == [l1 EXCEPT !.op = op]
           l3 == [l2 EXCEPT !.n = n]
<1>1. l = [l3 EXCEPT !.attempt = 1]
    OBVIOUS
<1>2. /\ {"sent", "idle"} \subseteq Pcs /\ "none" \in Outcomes /\ {0, 1} \subseteq 0..2
      /\ {0, n} \subseteq Nat /\ {op, NoCall.op} \subseteq AllOps \union {NoCall.op}
    BY DEF Pcs, Outcomes
<1>3. NoCall = Record("idle", NoCall.op, 0, 0, "none", FALSE)
    BY DEF NoCall, Record
<1>4. /\ NoCall.n = 0 /\ NoCall.attempt = 0 /\ NoCall.outcome = "none"
      /\ NoCall.standing = FALSE
    BY DEF NoCall
<1>9. NoCall \in CallRecords
    BY <1>2, <1>3, RecordOK
<1>5. l1 = Record("sent", NoCall.op, 0, 0, "none", FALSE)
    BY <1>4, <1>9, OneExcept
<1> HIDE DEF l1
<1>10. l1 \in CallRecords
    BY <1>2, <1>5, RecordOK
<1>13. l1.pc = "sent" /\ l1.n = 0 /\ l1.attempt = 0 /\ l1.outcome = "none" /\ l1.standing = FALSE
    BY <1>5 DEF Record
<1>6. l2 = Record("sent", op, 0, 0, "none", FALSE)
    BY <1>10, <1>13, OneExcept
<1> HIDE DEF l2
<1>11. l2 \in CallRecords
    BY <1>2, <1>6, RecordOK
<1>14. l2.pc = "sent" /\ l2.op = op /\ l2.attempt = 0 /\ l2.outcome = "none" /\ l2.standing = FALSE
    BY <1>6 DEF Record
<1>7. l3 = Record("sent", op, n, 0, "none", FALSE)
    <2>1. \A x : [l2 EXCEPT !.n = x] = Record(l2.pc, l2.op, x, l2.attempt, l2.outcome, l2.standing)
        BY <1>11, OneExcept
    <2>. QED
        BY <1>14, <2>1, Zenon
<1> HIDE DEF l3
<1>12. l3 \in CallRecords
    BY <1>2, <1>7, RecordOK
<1>15. /\ l3.pc = "sent" /\ l3.op = op /\ l3.n = n /\ l3.outcome = "none"
       /\ l3.standing = FALSE
    BY <1>7 DEF Record
<1>8. [l3 EXCEPT !.attempt = 1] = Record("sent", op, n, 1, "none", FALSE)
    <2>1. \A x : [l3 EXCEPT !.attempt = x] = Record(l3.pc, l3.op, l3.n, x, l3.outcome, l3.standing)
        BY <1>12, OneExcept
    <2>. QED
        BY <1>15, <2>1, Zenon
<1>. QED
    BY <1>1, <1>8

LEMMA ClientActions ==
    ASSUME IInv, NEW c \in Clients,
           Call(c) \/ Resend(c) \/ ReconnectFails(c) \/ Deadline(c) \/ Receive(c)
    PROVE  IInv'
<1>0. call[c] \in CallRecords /\ CallOK(call[c]) /\ call \in [Clients -> CallRecords]
    BY DEF IInv, CallsInv
<1>1. CASE Call(c)
    <2>1. PICK op \in Ops[c] :
              call' = [call EXCEPT ![c] = [NoCall EXCEPT !.pc = "sent", !.op = op,
                                           !.n = call[c].n + 1, !.attempt = 1]]
        BY <1>1 DEF Call
    <2> DEFINE l == [NoCall EXCEPT !.pc = "sent", !.op = op, !.n = call[c].n + 1, !.attempt = 1]
    <2>2. op \in AllOps /\ call[c].n \in Nat
        BY <1>0 DEF AllOps, CallRecords
    <2>3. l = Record("sent", op, call[c].n + 1, 1, "none", FALSE)
        <3>1. call[c].n + 1 \in Nat
            BY <2>2
        <3>. QED
            BY <2>2, <3>1, NewCallIs, Zenon
    <2>5. l \in CallRecords /\ l.pc = "sent" /\ l.op = op /\ l.n = call[c].n + 1 /\ l.attempt = 1
        <3>1. "sent" \in Pcs /\ "none" \in Outcomes /\ 1 \in 0..2 /\ call[c].n + 1 \in Nat
            BY <2>2 DEF Pcs, Outcomes
        <3> HIDE DEF l
        <3>2. l \in CallRecords
            BY <2>2, <2>3, <3>1, RecordOK
        <3>3. l.pc = "sent" /\ l.op = op /\ l.n = call[c].n + 1 /\ l.attempt = 1
            BY <2>3 DEF Record
        <3>. QED
            BY <3>2, <3>3
    <2>6. CallOK(l) /\ Follows(call[c], l) /\ l.pc # "arrived"
        <3> HIDE DEF l
        <3>. QED
            BY <2>2, <2>5 DEF CallOK, Follows
    <2>4. UNCHANGED <<db, queue, running>>
        BY <1>1 DEF Call
    <2> HIDE DEF l
    <2>. QED
        BY <2>1, <2>4, <2>5, <2>6, ClientStep DEF l
<1>2. CASE Resend(c)
    <2> DEFINE l == [call[c] EXCEPT !.pc = "sent", !.attempt = 2]
    <2>1. call[c].pc = "reconnecting" /\ call[c].attempt = 1 /\ call[c].op \in AllOps
        BY <1>0, <1>2 DEF Resend, CallOK
    <2>0. "sent" \in Pcs /\ 2 \in 0..2 /\ call[c].outcome \in Outcomes
        BY <1>0, CallFields DEF Pcs
    <2>7. l = Retried(call[c], "sent", 2)
        BY DEF Retried
    <2>8. /\ Retried(call[c], "sent", 2) = Stage(call[c], "sent", 2, call[c].outcome)
          /\ Stage(call[c], "sent", 2, call[c].outcome) \in CallRecords
        BY <1>0, <2>0, StageIs, Zenon
    <2>2. l = Stage(call[c], "sent", 2, call[c].outcome)
        BY <2>7, <2>8
    <2>3. call' = [call EXCEPT ![c] = l] /\ UNCHANGED <<db, queue, running>>
        BY <1>0, <1>2 DEF Resend
    <2>4. l \in CallRecords
        BY <2>2, <2>8
    <2>5. CallOK(l) /\ Follows(call[c], l)
        BY <1>0, <2>0, <2>1, <2>2, StageOK
    <2>6. l.pc # "arrived"
        BY <2>2 DEF Stage, Record
    <2> HIDE DEF l
    <2>. QED
        BY <2>3, <2>4, <2>5, <2>6, ClientStep
<1>3. CASE ReconnectFails(c)
    BY <1>3, SettledStep DEF ReconnectFails, Outcomes
<1>4. CASE Deadline(c)
    <2>1. call[c].pc # "idle" /\ call[c].pc # "reconnecting"
        BY <1>4 DEF Deadline
    <2>2. call' = [call EXCEPT ![c] = Failed(call[c])] /\ UNCHANGED <<db, queue, running>>
        BY <1>0, <1>4 DEF Deadline
    <2>. QED
        BY <1>0, <2>1, <2>2, FailedFollows, ClientStep
<1>5. CASE Receive(c)
    <2>1. call[c].outcome \in Outcomes
        BY <1>0, CallFields
    <2>. QED
        BY <1>5, <2>1, SettledStep DEF Receive
<1>. QED
    BY <1>1, <1>2, <1>3, <1>4, <1>5
\* A step of the scheduler: what it holds afterwards it held before, perhaps
\* with another timer or count, and who still waits is still waited for.
LEMMA HeldStep ==
    ASSUME IInv, CallsInv', QueueInv', \A d \in Clients : Follows(call[d], call'[d]),
           \A f \in Held' : \E g \in Held : g.id = f.id /\ g.op = f.op /\ g.attempt = f.attempt,
           \A d \in Clients : call'[d].pc = "arrived" =>
               /\ call[d].pc = "arrived" /\ call'[d].n = call[d].n /\ call'[d].attempt = call[d].attempt
               /\ \A w \in Held : ~w.timed /\ w.id = <<d, call[d].n>> /\ w.attempt = call[d].attempt =>
                      \E v \in Held' : ~v.timed /\ v.id = w.id /\ v.attempt = w.attempt
    PROVE  CurrentInv' /\ CallerNotForgotten'
<1>1. ASSUME NEW f \in Held' PROVE Current(f)'
    <2>1. PICK g \in Held : g.id = f.id /\ g.op = f.op /\ g.attempt = f.attempt
        OBVIOUS
    <2>2. Started(g) /\ Current(g)
        BY HeldStarted DEF IInv, CurrentInv
    <2>3. Current(g)'
        BY <2>2, CurrentFollows DEF IInv
    <2>. QED
        BY <2>1, <2>3 DEF Current
<1>2. ASSUME NEW d \in Clients, call'[d].pc = "arrived"
      PROVE  \E v \in Untimed' : v.id = <<d, call'[d].n>> /\ v.attempt = call'[d].attempt
    <2>1. call[d].pc = "arrived" /\ call'[d].n = call[d].n /\ call'[d].attempt = call[d].attempt
        BY <1>2
    <2>2. PICK w \in Untimed : w.id = <<d, call[d].n>> /\ w.attempt = call[d].attempt
        BY <2>1 DEF IInv, CallerNotForgotten
    <2>3. w \in Held /\ ~w.timed
        BY UntimedIs
    <2>4. PICK v \in Held' : ~v.timed /\ v.id = w.id /\ v.attempt = w.attempt
        BY <1>2, <2>2, <2>3
    <2>5. v \in Untimed'
        BY <2>4 DEF Untimed, Held, Elements
    <2>. QED
        BY <2>1, <2>2, <2>4, <2>5
<1>. QED
    BY <1>1, <1>2 DEF CurrentInv, CallerNotForgotten

LEMMA OneCall ==
    ASSUME CallsInv, NEW c \in Clients, NEW l \in CallRecords, CallOK(l), Follows(call[c], l),
           call' = [call EXCEPT ![c] = l]
    PROVE  CallsInv' /\ \A d \in Clients : Follows(call[d], call'[d])
<1>1. call' \in [Clients -> CallRecords]
    BY DEF CallsInv
<1>2. \A d \in Clients : call'[d] = IF d = c THEN l ELSE call[d]
    BY DEF CallsInv
<1>. QED
    BY <1>1, <1>2 DEF CallsInv, Follows

LEMMA ArriveStep ==
    ASSUME IInv, NEW c \in Clients, Arrive(c)
    PROVE  IInv'
<1> DEFINE k == call[c]
           entry == [id |-> <<c, k.n>>, attempt |-> k.attempt, op |-> k.op,
                     timed |-> FALSE, count |-> NoCount]
<1>0. /\ k \in CallRecords /\ CallOK(k) /\ call \in [Clients -> CallRecords]
      /\ k.pc = "sent" /\ db' = db
    BY DEF IInv, CallsInv, Arrive
<1>1. CASE Settled(c, "invalid") /\ UNCHANGED <<queue, running>>
    BY <1>0, <1>1, SettledStep DEF Outcomes
<1>2. CASE call' = [call EXCEPT ![c] = Failed(@)] /\ UNCHANGED <<queue, running>>
    <2>1. call' = [call EXCEPT ![c] = Failed(call[c])]
        BY <1>0, <1>2
    <2>. QED
        BY <1>0, <1>2, <2>1, FailedFollows, ClientStep
<1>3. CASE call' = [call EXCEPT ![c].pc = "arrived"] /\ TryExecuteNext(Insert(queue, entry), running)
    <2>0. PICK e : e = entry
        OBVIOUS
    <2> DEFINE l == [call[c] EXCEPT !.pc = "arrived"]
    <2>1. /\ "arrived" \in Pcs /\ k.attempt \in 1..2 /\ k.op \in AllOps /\ k.n \in Nat
          /\ k.attempt \in 0..2 /\ k.outcome \in Outcomes
        BY <1>0, CallFields DEF Pcs, CallOK
    <2>2. l = Stage(call[c], "arrived", k.attempt, k.outcome)
        BY <1>0, OneExcept DEF Stage
    <2>3. l \in CallRecords
        <3>1. Stage(call[c], "arrived", k.attempt, k.outcome) \in CallRecords
            BY <1>0, <2>1, StageIs, Zenon
        <3>. QED
            BY <2>2, <3>1
    <2>4. CallOK(l) /\ Follows(call[c], l)
        BY <1>0, <2>1, <2>2, StageOK
    <2>5. l.pc = "arrived" /\ l.n = k.n /\ l.op = k.op /\ l.attempt = k.attempt
        BY <2>2 DEF Stage, Record
    <2>6. call' = [call EXCEPT ![c] = l]
        BY <1>0, <1>3
    <2> HIDE DEF l
    <2>7. CallsInv' /\ \A d \in Clients : Follows(call[d], call'[d])
        BY <2>3, <2>4, <2>6, OneCall DEF IInv
    <2>8. \A d \in Clients : call'[d] = IF d = c THEN l ELSE call[d]
        BY <1>0, <2>6
    <2>9. e \in Waiting
        BY <2>0, <2>1 DEF Waiting
    <2>10. \A f \in Elements(queue) : f.id = e.id => f.op = e.op /\ f.attempt < e.attempt
        BY <1>0, <2>0 DEF IInv, CurrentInv, Current, Held
    <2>11. e.id = <<c, k.n>> /\ e.attempt = k.attempt /\ e.op = k.op /\ ~e.timed
        BY <2>0
    <2>12. /\ Insert(queue, e) \in Seq(Waiting) /\ QueueOrder(Insert(queue, e))
           /\ Elements(Insert(queue, e)) = Elements(queue) \union {e}
        BY <2>9, <2>10, InsertStep DEF IInv, QueueInv
    <2>13. QueueInv' /\ Held' = running \union Elements(Insert(queue, e))
        BY <1>3, <2>0, <2>12, TryStep DEF IInv, QueueInv
    <2>14. Held' = Held \union {e}
        BY <2>12, <2>13 DEF Held
    <2>15. CurrentInv'
        <3>1. ASSUME NEW f \in Held PROVE Current(f)'
            BY <2>7, CurrentFollows, HeldStarted DEF IInv, CurrentInv
        <3>2. Current(e)'
            BY <2>1, <2>5, <2>8, <2>11 DEF Current
        <3>. QED
            BY <2>14, <3>1, <3>2 DEF CurrentInv
    <2>16. CallerNotForgotten'
        <3>1. Untimed' = Untimed \union {e}
            <4>1. Untimed' = {f \in Held' : ~f.timed}
                BY DEF Untimed, Held, Elements
            <4>. QED
                BY <2>11, <2>14, <4>1, UntimedIs
        <3>2. ASSUME NEW d \in Clients, call'[d].pc = "arrived"
              PROVE  \E f \in Untimed' : f.id = <<d, call'[d].n>> /\ f.attempt = call'[d].attempt
            <4>1. CASE d = c
                BY <2>5, <2>8, <2>11, <3>1, <4>1
            <4>2. CASE d # c
                BY <2>8, <3>1, <3>2, <4>2 DEF IInv, CallerNotForgotten
            <4>. QED
                BY <4>1, <4>2
        <3>. QED
            BY <3>2 DEF CallerNotForgotten
    <2>17. StoreInv'
        BY <1>0 DEF IInv, StoreInv
    <2>. QED
        BY <2>7, <2>13, <2>15, <2>16, <2>17 DEF IInv
<1>. QED
    BY <1>1, <1>2, <1>3 DEF Arrive

LEMMA TimeoutStep ==
    ASSUME IInv, NEW e \in Untimed, Timeout(e)
    PROVE  IInv'
<1> DEFINE c == e.id[1]
           t == [e EXCEPT !.timed = TRUE]
<1>1. e \in Held /\ ~e.timed /\ Started(e) /\ c \in Clients
    BY UntimedIs, HeldStarted DEF IInv, Started
<1>2. call \in [Clients -> CallRecords] /\ \A d \in Clients : CallOK(call[d])
    BY DEF IInv, CallsInv
<1>3. /\ CallsInv' /\ \A d \in Clients : Follows(call[d], call'[d])
      /\ \A d \in Clients : call'[d].pc = "arrived" =>
            call'[d] = call[d] /\ ~(e.id = <<d, call[d].n>> /\ e.attempt = call[d].attempt)
    <2>1. CASE Waits(e)
        <3>1. call[c].pc = "arrived"
            BY <2>1 DEF Waits
        <3>2. call' = [call EXCEPT ![c] = Failed(call[c])]
            BY <1>2, <2>1 DEF Timeout
        <3>3. /\ Failed(call[c]) \in CallRecords /\ CallOK(Failed(call[c]))
              /\ Follows(call[c], Failed(call[c])) /\ Failed(call[c]).pc # "arrived"
            BY <1>1, <1>2, <3>1, FailedFollows
        <3>4. CallsInv' /\ \A d \in Clients : Follows(call[d], call'[d])
            BY <1>1, <3>2, <3>3, OneCall DEF IInv
        <3>5. \A d \in Clients : call'[d] = IF d = c THEN Failed(call[c]) ELSE call[d]
            BY <1>2, <3>2
        <3>. QED
            BY <3>3, <3>4, <3>5
    <2>2. CASE ~Waits(e)
        <3>1. call' = call
            BY <2>2 DEF Timeout
        <3>2. CallsInv' /\ \A d \in Clients : Follows(call[d], call'[d])
            BY <3>1 DEF IInv, CallsInv, Follows
        <3>. QED
            BY <2>2, <3>1, <3>2 DEF Waits
    <2>. QED
        BY <2>1, <2>2
<1>4. /\ QueueInv'
      /\ \A f \in Held' : \E g \in Held : g.id = f.id /\ g.op = f.op /\ g.attempt = f.attempt
      /\ \A f \in Held \ {e} : f \in Held'
    <2>1. CASE e \in running
        <3>1. running' = (running \ {e}) \union {t} /\ queue' = queue
            BY <2>1 DEF Timeout
        <3>2. \A x : [e EXCEPT !.timed = x]
                      = [id |-> e.id, attempt |-> e.attempt, op |-> e.op, timed |-> x, count |-> e.count]
            BY <1>1 DEF Started
        <3>3. t.id = e.id /\ t.op = e.op /\ t.attempt = e.attempt /\ Started(t)
            <4>1. PICK x : x = TRUE
                OBVIOUS
            <4>2. [e EXCEPT !.timed = x]
                     = [id |-> e.id, attempt |-> e.attempt, op |-> e.op, timed |-> x, count |-> e.count]
                BY <3>2
            <4>3. t = [e EXCEPT !.timed = x]
                BY <4>1
            <4> HIDE DEF t
            <4>. QED
                BY <1>1, <4>2, <4>3 DEF Started
        <3> HIDE DEF t
        <3>4. Elements(queue)' = Elements(queue) /\ QueueOrder(queue)' /\ queue' \in Seq(Waiting)
            BY <3>1 DEF Elements, QueueOrder, IInv, QueueInv
        <3>5. QueueInv'
            BY <3>1, <3>3, <3>4 DEF IInv, QueueInv
        <3>6. Held' = (running \ {e}) \union {t} \union Elements(queue)
            BY <3>1, <3>4 DEF Held
        <3>. QED
            BY <1>1, <3>3, <3>5, <3>6 DEF Held
    <2>2. CASE e \notin running
        <3>1. queue' = RemoveFromQueue(queue, e.id) /\ running' = running /\ e \in Elements(queue)
            BY <1>1, <2>2 DEF Timeout, Held
        <3>2. \A f \in Elements(queue) : f.id = e.id => ~(f.attempt < e.attempt)
            <4>1. Elements(queue) \subseteq Untimed
                BY QueueElements, WaitingStarted, UntimedIs DEF IInv, QueueInv, Held
            <4>. QED
                BY <4>1 DEF Timeout
        <3>3. /\ queue' \in Seq(Waiting) /\ QueueOrder(queue')
              /\ Elements(queue') = Elements(queue) \ {e}
            BY <3>1, <3>2, RemoveStep DEF IInv, QueueInv
        <3>4. Elements(queue)' = Elements(queue') /\ (QueueOrder(queue)' <=> QueueOrder(queue'))
            BY DEF Elements, QueueOrder
        <3>5. QueueInv'
            BY <3>1, <3>3, <3>4 DEF IInv, QueueInv
        <3>6. Held' = running \union (Elements(queue) \ {e})
            BY <3>1, <3>3, <3>4 DEF Held
        <3>. QED
            BY <3>5, <3>6 DEF Held
    <2>. QED
        BY <2>1, <2>2
<1>5. CurrentInv' /\ CallerNotForgotten'
    <2>1. ASSUME NEW d \in Clients, call'[d].pc = "arrived"
          PROVE  /\ call[d].pc = "arrived" /\ call'[d].n = call[d].n /\ call'[d].attempt = call[d].attempt
                 /\ \A w \in Held : ~w.timed /\ w.id = <<d, call[d].n>> /\ w.attempt = call[d].attempt =>
                        \E v \in Held' : ~v.timed /\ v.id = w.id /\ v.attempt = w.attempt
        BY <1>3, <1>4, <2>1
    <2>. QED
        BY <1>3, <1>4, <2>1, HeldStep
<1>6. StoreInv'
    BY DEF IInv, StoreInv, Timeout
<1>. QED
    BY <1>3, <1>4, <1>5, <1>6 DEF IInv

LEMMA CountStep ==
    ASSUME IInv, NEW e \in running, Count(e)
    PROVE  IInv'
<1> DEFINE n == [counted |-> TRUE, n |-> CountRows(db, e.op)]
           t == [e EXCEPT !.count = n]
<1>1. Started(e) /\ e \in Held
    BY DEF IInv, QueueInv, Held
<1>2. running' = (running \ {e}) \union {t} /\ UNCHANGED <<db, slots, call, queue>>
    BY DEF Count
<1> HIDE DEF n
<1>3. t = [id |-> e.id, attempt |-> e.attempt, op |-> e.op, timed |-> e.timed, count |-> n]
    BY <1>1 DEF Started
<1>4. t.id = e.id /\ t.op = e.op /\ t.attempt = e.attempt /\ t.timed = e.timed /\ Started(t)
    BY <1>1, <1>3 DEF Started
<1> HIDE DEF t
<1>5. Elements(queue)' = Elements(queue) /\ QueueOrder(queue)' /\ queue' \in Seq(Waiting)
    BY <1>2 DEF Elements, QueueOrder, IInv, QueueInv
<1>6. QueueInv'
    BY <1>2, <1>4, <1>5 DEF IInv, QueueInv
<1>7. Held' = (running \ {e}) \union {t} \union Elements(queue)
    BY <1>2, <1>5 DEF Held
<1>8. CallsInv' /\ \A d \in Clients : call'[d] = call[d] /\ Follows(call[d], call'[d])
    BY <1>2 DEF IInv, CallsInv, Follows
<1>9. CurrentInv' /\ CallerNotForgotten'
    <2>1. \A f \in Held' : \E g \in Held : g.id = f.id /\ g.op = f.op /\ g.attempt = f.attempt
        BY <1>1, <1>4, <1>7 DEF Held
    <2>2. \A w \in Held : \E v \in Held' : v.timed = w.timed /\ v.id = w.id /\ v.attempt = w.attempt
        BY <1>1, <1>4, <1>7 DEF Held
    <2>. QED
        BY <1>6, <1>8, <2>1, <2>2, HeldStep
<1>10. StoreInv'
    BY <1>2 DEF IInv, StoreInv
<1>. QED
    BY <1>6, <1>8, <1>9, <1>10 DEF IInv

\* The answer to e, of calls that are where they were.
LEMMA AnswerStep ==
    ASSUME CallsInv, NEW e, Started(e), NEW how \in Outcomes, NEW k \in [Clients -> CallRecords],
           \A d \in Clients : /\ k[d].pc = call[d].pc /\ k[d].op = call[d].op /\ k[d].n = call[d].n
                              /\ k[d].attempt = call[d].attempt,
           call' = Answer(e, k, how)
    PROVE  /\ CallsInv' /\ \A d \in Clients : Follows(call[d], call'[d])
           /\ \A d \in Clients : call'[d].pc = "arrived" =>
                 /\ call[d].pc = "arrived" /\ call'[d].n = call[d].n /\ call'[d].attempt = call[d].attempt
                 /\ ~(~e.timed /\ e.id = <<d, call[d].n>> /\ e.attempt = call[d].attempt)
<1> DEFINE c == e.id[1]
           l == [k[c] EXCEPT !.pc = "answered", !.outcome = how]
<1>0. c \in Clients /\ call \in [Clients -> CallRecords]
    BY DEF Started, CallsInv
<1>1. CASE Waits(e) /\ ~e.timed
    <2>1. call' = [k EXCEPT ![c] = l]
        BY <1>0, <1>1 DEF Answer
    <2>2. /\ "answered" \in Pcs /\ k[c].attempt \in 0..2 /\ k[c] \in CallRecords
        BY <1>0, CallFields DEF Pcs
    <2>3. l = Answered(k[c], "answered", how)
        BY DEF Answered
    <2> HIDE DEF l
    <2>4. /\ Answered(k[c], "answered", how) = Stage(k[c], "answered", k[c].attempt, how)
          /\ Stage(k[c], "answered", k[c].attempt, how) \in CallRecords
        BY <2>2, StageIs, Zenon
    <2>5. l \in CallRecords
        BY <2>3, <2>4
    <2>6. l.pc = "answered" /\ l.op = k[c].op /\ l.n = k[c].n /\ l.attempt = k[c].attempt
        BY <2>3, <2>4 DEF Stage, Record
    <2>7. call[c].pc = "arrived" /\ CallOK(call[c]) /\ call[c].attempt \in 0..2
        BY <1>0, <1>1, CallFields DEF Waits, CallsInv
    <2>8. CallOK(l) /\ Follows(call[c], l)
        BY <1>0, <2>6, <2>7 DEF CallOK, Follows
    <2>9. \A d \in Clients : call'[d] = IF d = c THEN l ELSE k[d]
        BY <2>1
    <2>10. CallsInv'
        <3>1. call' \in [Clients -> CallRecords]
            BY <2>1, <2>5
        <3>2. \A d \in Clients : CallOK(k[d])
            BY DEF CallsInv, CallOK
        <3>. QED
            BY <2>8, <2>9, <3>1, <3>2 DEF CallsInv
    <2>11. \A d \in Clients : Follows(call[d], call'[d])
        BY <2>8, <2>9 DEF Follows
    <2>. QED
        BY <2>6, <2>9, <2>10, <2>11
<1>2. CASE ~(Waits(e) /\ ~e.timed)
    <2>1. call' = k
        BY <1>2 DEF Answer
    <2>2. CallsInv'
        BY <2>1 DEF CallsInv, CallOK
    <2>3. \A d \in Clients : Follows(call[d], call'[d])
        BY <2>1 DEF Follows
    <2>. QED
        BY <1>2, <2>1, <2>2, <2>3 DEF Waits
<1>. QED
    BY <1>1, <1>2

\* The slot of e is given back.
LEMMA FinishStep ==
    ASSUME IInv, NEW e \in running, TryExecuteNext(queue, running \ {e}),
           CallsInv', \A d \in Clients : Follows(call[d], call'[d]),
           \A d \in Clients : call'[d].pc = "arrived" =>
               /\ call[d].pc = "arrived" /\ call'[d].n = call[d].n /\ call'[d].attempt = call[d].attempt
               /\ ~(~e.timed /\ e.id = <<d, call[d].n>> /\ e.attempt = call[d].attempt)
    PROVE  QueueInv' /\ CurrentInv' /\ CallerNotForgotten'
<1>1. QueueInv' /\ Held' = (running \ {e}) \union Elements(queue)
    BY TryStep DEF IInv, QueueInv
<1>2. Held' \subseteq Held /\ \A w \in Held : w # e => w \in Held'
    BY <1>1 DEF Held
<1>3. CurrentInv' /\ CallerNotForgotten'
    BY <1>1, <1>2, HeldStep
<1>. QED
    BY <1>1, <1>3

LEMMA ExecuteStep ==
    ASSUME IInv, NEW e \in running, Execute(e)
    PROVE  IInv'
<1> DEFINE standing(d) ==
               IF e.id[1] = d /\ e.id[2] = call[d].n THEN TRUE
               ELSE IF e.id[1] = d \/ ~IsWrite(e.op) THEN call[d].standing ELSE FALSE
           k == [d \in Clients |-> [call[d] EXCEPT !.standing = standing(d)]]
<1>1. Started(e)
    BY DEF IInv, QueueInv
<1>2. k \in [Clients -> CallRecords]
      /\ \A d \in Clients : /\ k[d].pc = call[d].pc /\ k[d].op = call[d].op /\ k[d].n = call[d].n
                            /\ k[d].attempt = call[d].attempt
    <2> SUFFICES ASSUME NEW d \in Clients
                 PROVE  /\ k[d] \in CallRecords /\ k[d].pc = call[d].pc /\ k[d].op = call[d].op
                        /\ k[d].n = call[d].n /\ k[d].attempt = call[d].attempt
        OBVIOUS
    <2>1. call[d] \in CallRecords /\ standing(d) \in BOOLEAN
        BY DEF IInv, CallsInv, CallRecords
    <2>2. k[d] = [call[d] EXCEPT !.standing = standing(d)]
        OBVIOUS
    <2> HIDE DEF standing, k
    <2>3. k[d] = Record(call[d].pc, call[d].op, call[d].n, call[d].attempt, call[d].outcome, standing(d))
        BY <2>1, <2>2, OneExcept
    <2>4. k[d] \in CallRecords
        BY <2>1, <2>3, CallFields, RecordOK
    <2>. QED
        BY <2>3, <2>4 DEF Record
<1>3. call' = Answer(e, k, "ok") /\ TryExecuteNext(queue, running \ {e}) /\ db' = Effect(db, e.op)
    BY DEF Execute
<1> HIDE DEF k
<1>4. /\ CallsInv' /\ \A d \in Clients : Follows(call[d], call'[d])
      /\ \A d \in Clients : call'[d].pc = "arrived" =>
            /\ call[d].pc = "arrived" /\ call'[d].n = call[d].n /\ call'[d].attempt = call[d].attempt
            /\ ~(~e.timed /\ e.id = <<d, call[d].n>> /\ e.attempt = call[d].attempt)
    BY <1>1, <1>2, <1>3, AnswerStep DEF IInv, Outcomes
<1>5. QueueInv' /\ CurrentInv' /\ CallerNotForgotten'
    BY <1>3, <1>4, FinishStep
<1>6. StoreInv'
    <2>1. e.op \in AllOps
        BY <1>1 DEF Started
    <2>2. IsRows(e.op.rows)
        BY <2>1, StoreAssumption DEF AllOps, IsRows
    <2>3. Shape(Effect(db, e.op)) /\ Consistent(Effect(db, e.op))
        BY <2>2, EffectKeeps DEF IInv, StoreInv
    <2>. QED
        BY <1>3, <2>3 DEF StoreInv
<1>. QED
    BY <1>4, <1>5, <1>6 DEF IInv

LEMMA FailStep ==
    ASSUME IInv, NEW e \in running, Fail(e)
    PROVE  IInv'
<1>1. Started(e) /\ call \in [Clients -> CallRecords] /\ CallsInv
    BY DEF IInv, QueueInv, CallsInv
<1>2. call' = Answer(e, call, "error") /\ TryExecuteNext(queue, running \ {e}) /\ db' = db
    BY DEF Fail
<1>3. /\ CallsInv' /\ \A d \in Clients : Follows(call[d], call'[d])
      /\ \A d \in Clients : call'[d].pc = "arrived" =>
            /\ call[d].pc = "arrived" /\ call'[d].n = call[d].n /\ call'[d].attempt = call[d].attempt
            /\ ~(~e.timed /\ e.id = <<d, call[d].n>> /\ e.attempt = call[d].attempt)
    BY <1>1, <1>2, AnswerStep DEF Outcomes
<1>4. QueueInv' /\ CurrentInv' /\ CallerNotForgotten'
    BY <1>2, <1>3, FinishStep
<1>. QED
    BY <1>2, <1>3, <1>4 DEF IInv, StoreInv

LEMMA CrashStep ==
    ASSUME IInv, Crash
    PROVE  IInv'
<1>1. \A c \in Clients : call[c] \in CallRecords /\ CallOK(call[c])
    BY DEF IInv, CallsInv
<1>2. ASSUME NEW c \in Clients
      PROVE  /\ call'[c] \in CallRecords /\ CallOK(call'[c]) /\ Follows(call[c], call'[c])
             /\ call'[c].pc # "arrived"
    <2>1. CASE call[c].pc \in {"arrived", "answered"}
        <3>1. call'[c] = Failed(call[c])
            BY <2>1 DEF Crash
        <3>. QED
            BY <1>1, <2>1, <3>1, FailedFollows
    <2>2. CASE call[c].pc \notin {"arrived", "answered"}
        <3>1. call'[c] = call[c]
            BY <2>2 DEF Crash
        <3>. QED
            BY <1>1, <2>2, <3>1 DEF Follows
    <2>. QED
        BY <2>1, <2>2
<1>3. CallsInv'
    <2>1. call' \in [Clients -> CallRecords]
        BY <1>2 DEF Crash
    <2>. QED
        BY <1>2, <2>1 DEF CallsInv
<1>4. QueueInv' /\ Held' = {}
    BY DEF Crash, QueueInv, QueueOrder, Held, Elements
<1>5. CurrentInv' /\ CallerNotForgotten'
    BY <1>2, <1>4 DEF CurrentInv, CallerNotForgotten
<1>. QED
    BY <1>3, <1>4, <1>5 DEF IInv, StoreInv, Crash

LEMMA NextIInv == IInv /\ [Next]_vars => IInv'
<1> SUFFICES ASSUME IInv, [Next]_vars PROVE IInv'
    OBVIOUS
<1>1. CASE UNCHANGED vars
    <2>1. UNCHANGED <<db, call, queue, running>>
        BY <1>1 DEF vars
    <2>2. StoreInv' /\ CallsInv' /\ QueueInv'
        BY <2>1 DEF IInv, StoreInv, CallsInv, QueueInv, QueueOrder
    <2>3. Held' = Held /\ Untimed' = Untimed
        BY <2>1 DEF Held, Elements, Untimed
    <2>4. CurrentInv'
        BY <2>1, <2>3 DEF IInv, CurrentInv, Current
    <2>5. CallerNotForgotten'
        BY <2>1, <2>3 DEF IInv, CallerNotForgotten
    <2>. QED
        BY <2>2, <2>4, <2>5 DEF IInv
<1>2. ASSUME NEW c \in Clients, Call(c) \/ Resend(c) \/ ReconnectFails(c) \/ Deadline(c) \/ Receive(c)
      PROVE  IInv'
    BY <1>2, ClientActions
<1>3. ASSUME NEW c \in Clients, Arrive(c) PROVE IInv'
    BY <1>3, ArriveStep
<1>4. ASSUME NEW e \in Untimed, Timeout(e) PROVE IInv'
    BY <1>4, TimeoutStep
<1>5. ASSUME NEW e \in running, Count(e) \/ Execute(e) \/ Fail(e) PROVE IInv'
    BY <1>5, CountStep, ExecuteStep, FailStep
<1>6. CASE Crash
    BY <1>6, CrashStep
<1>. QED
    BY <1>1, <1>2, <1>3, <1>4, <1>5, <1>6 DEF Next

THEOREM Invariance == Spec => []IInv
BY InitIInv, NextIInv, PTL DEF Spec

\* Whatever runs beside what, crashes, times out or is sent twice, no two
\* records have one key and no relationship outlives a node it ends at
\* (ladybug-graph-adapter.ts, ladybug-vector-adapter.ts).
THEOREM StoreStaysConsistent == Spec => []StoreConsistent
<1>1. IInv => StoreConsistent
    BY DEF IInv, StoreInv, StoreConsistent
<1>. QED
    BY <1>1, Invariance, PTL

\* A call that waits for an attempt that has arrived has it queued or running
\* with its timer armed: the timer of one attempt never removes the other,
\* although both have the id the client sent (scheduler.ts, removeFromQueue).
THEOREM NobodyIsForgotten == Spec => []CallerNotForgotten
<1>1. IInv => CallerNotForgotten
    BY DEF IInv
<1>. QED
    BY <1>1, Invariance, PTL

-----------------------------------------------------------------------------
(* With one slot, what was acknowledged stays in force                     *)

\* What the scheduler holds of the current call has its operation.
OpsMatch == \A e \in Held : e.id[2] = call[e.id[1]].n => e.op = call[e.id[1]].op

One(r) == \A e, f \in r : e = f

\* A write is before everything that its client has sent later.
InTurn(q) ==
    \A i, j \in DOMAIN q :
        i < j /\ q[i].id[1] = q[j].id[1] /\ IsWrite(q[i].op) => q[i].id[2] <= q[j].id[2]
Before(r, q) ==
    \A e \in r, f \in Elements(q) :
        e.id[1] = f.id[1] /\ IsWrite(e.op) => e.id[2] <= f.id[2]

\* A write that stands is in force, and what the scheduler still holds of its
\* client is another attempt of it.
Stands ==
    \A c \in Clients : call[c].standing /\ IsWrite(call[c].op) =>
        /\ InForce(c)
        /\ \A f \in Held : f.id[1] = c => f.id[2] = call[c].n

OneByOne == One(running) /\ InTurn(queue) /\ Before(running, queue) /\ Stands

\* AcknowledgedInForce is inductive only with the turn of the writes that were
\* given up and are still queued or running.
TurnInv == OpsMatch /\ (slots = 1 => OneByOne)

\* A new call, or another stage of the same one.
SameCall(k, l) ==
    \/ l.op = k.op /\ l.n = k.n /\ l.standing = k.standing
    \/ l.n > k.n /\ ~l.standing

LEMMA ReadsComeFirst == \A op : IsWrite(op) <=> Rank(op) = 1
BY DEF IsWrite, Rank, Reads, GraphReads, VectorReads

LEMMA InsertTurn ==
    ASSUME NEW q \in Seq(Waiting), QueueOrder(q), NEW e \in Waiting, InTurn(q),
           \A f \in Elements(q) : f.id[1] = e.id[1] => f.id[2] <= e.id[2]
    PROVE  InTurn(Insert(q, e))
<1> DEFINE s == Insert(q, e)
<1>1. PICK n \in 0..Len(q) : InsertedAt(q, e, s, n)
    BY InsertShape
<1> HIDE DEF s
<1>2. Len(q) \in Nat /\ DOMAIN q = 1..Len(q) /\ Len(s) = Len(q) + 1 /\ s \in Seq(Waiting)
    BY <1>1 DEF InsertedAt
<1>3. DOMAIN s = 1..(Len(q) + 1)
    BY <1>2
<1>4. \A j \in 1..(Len(q) + 1) : s[j] = IF j <= n THEN q[j] ELSE IF j = n + 1 THEN e ELSE q[j - 1]
    BY <1>1 DEF InsertedAt
<1>5. ASSUME NEW i \in DOMAIN s, NEW j \in DOMAIN s, i < j, s[i].id[1] = s[j].id[1], IsWrite(s[i].op)
      PROVE  s[i].id[2] <= s[j].id[2]
    <2>1. CASE j = n + 1
        <3>1. s[j] = e /\ s[i] = q[i] /\ i \in DOMAIN q
            BY <1>2, <1>3, <1>4, <1>5, <2>1
        <3>. QED
            BY <1>5, <3>1 DEF Elements
    <2>2. CASE i = n + 1
        <3>1. s[i] = e /\ n + 1 <= Len(q)
            BY <1>2, <1>3, <1>4, <1>5, <2>2
        <3>2. Rank(e.op) < Rank(q[n + 1].op)
            <4>1. n + 1 \in (n + 1)..Len(q)
                BY <1>2, <3>1
            <4>. QED
                BY <1>1, <4>1 DEF InsertedAt
        <3>. QED
            BY <1>5, <3>1, <3>2, RankIs, ReadsComeFirst
    <2>3. CASE i # n + 1 /\ j # n + 1
        <3>1. PICK a \in DOMAIN q : s[i] = q[a] /\ a = IF i <= n THEN i ELSE i - 1
            BY <1>2, <1>3, <1>4, <2>3
        <3>2. PICK b \in DOMAIN q : s[j] = q[b] /\ b = IF j <= n THEN j ELSE j - 1
            BY <1>2, <1>3, <1>4, <2>3
        <3>3. a < b
            BY <1>2, <1>3, <1>5, <2>3, <3>1, <3>2
        <3>. QED
            BY <1>5, <3>1, <3>2, <3>3 DEF InTurn
    <2>. QED
        BY <2>1, <2>2, <2>3
<1>. QED
    BY <1>5 DEF InTurn, s

LEMMA RemoveTurn ==
    ASSUME NEW q \in Seq(Waiting), QueueOrder(q), NEW e \in Elements(q), InTurn(q),
           \A f \in Elements(q) : f.id = e.id => ~(f.attempt < e.attempt)
    PROVE  InTurn(RemoveFromQueue(q, e.id))
<1> DEFINE s == RemoveFromQueue(q, e.id)
<1>1. PICK p \in DOMAIN q : RemovedAt(q, e, s, p)
    BY RemoveShape
<1> HIDE DEF s
<1>2. Len(q) \in Nat /\ DOMAIN q = 1..Len(q) /\ Len(s) = Len(q) - 1 /\ s \in Seq(Waiting)
    BY <1>1 DEF RemovedAt
<1>3. DOMAIN s = 1..(Len(q) - 1)
    BY <1>2
<1>4. \A j \in 1..(Len(q) - 1) : s[j] = IF j < p THEN q[j] ELSE q[j + 1]
    BY <1>1 DEF RemovedAt
<1>5. ASSUME NEW i \in DOMAIN s, NEW j \in DOMAIN s, i < j, s[i].id[1] = s[j].id[1], IsWrite(s[i].op)
      PROVE  s[i].id[2] <= s[j].id[2]
    <2>1. PICK a \in DOMAIN q : s[i] = q[a] /\ a = IF i < p THEN i ELSE i + 1
        BY <1>2, <1>3, <1>4
    <2>2. PICK b \in DOMAIN q : s[j] = q[b] /\ b = IF j < p THEN j ELSE j + 1
        BY <1>2, <1>3, <1>4
    <2>3. a < b
        BY <1>2, <1>3, <1>5, <2>1, <2>2
    <2>. QED
        BY <1>5, <2>1, <2>2, <2>3 DEF InTurn
<1>. QED
    BY <1>5 DEF InTurn, s

\* The only slot is free when the next entry is started.
LEMMA TryTurn ==
    ASSUME NEW q \in Seq(Waiting), NEW r, One(r), InTurn(q), Before(r, q), slots = 1,
           TryExecuteNext(q, r)
    PROVE  One(running') /\ InTurn(queue') /\ Before(running', queue')
<1>1. CASE queue' = q /\ running' = r
    BY <1>1 DEF Before, Elements, InTurn
<1>2. CASE q # <<>> /\ Cardinality(r) < 1 /\ queue' = Tail(q) /\ running' = r \union {Head(q)}
    <2>1. r = {}
        <3> SUFFICES ASSUME NEW e \in r PROVE FALSE
            OBVIOUS
        <3>1. r = {e}
            BY DEF One
        <3>2. Cardinality({e}) = 1
            BY FS_Singleton
        <3>. QED
            BY <1>2, <3>1, <3>2
    <2>2. /\ Tail(q) \in Seq(Waiting) /\ Len(Tail(q)) = Len(q) - 1 /\ Len(q) \in Nat \ {0}
          /\ \A i \in 1..(Len(q) - 1) : Tail(q)[i] = q[i + 1]
          /\ Head(q) = q[1]
        BY <1>2
    <2>3. DOMAIN q = 1..Len(q) /\ DOMAIN Tail(q) = 1..(Len(q) - 1)
        BY <2>2
    <2>4. InTurn(Tail(q))
        <3> SUFFICES ASSUME NEW i \in DOMAIN Tail(q), NEW j \in DOMAIN Tail(q), i < j,
                            Tail(q)[i].id[1] = Tail(q)[j].id[1], IsWrite(Tail(q)[i].op)
                     PROVE  Tail(q)[i].id[2] <= Tail(q)[j].id[2]
            BY DEF InTurn
        <3>1. i + 1 \in DOMAIN q /\ j + 1 \in DOMAIN q /\ i + 1 < j + 1
            BY <2>2, <2>3
        <3>2. Tail(q)[i] = q[i + 1] /\ Tail(q)[j] = q[j + 1]
            BY <2>2, <2>3
        <3>. QED
            BY <3>1, <3>2 DEF InTurn
    <2>5. Before({Head(q)}, Tail(q))
        <3> SUFFICES ASSUME NEW j \in DOMAIN Tail(q), Head(q).id[1] = Tail(q)[j].id[1],
                            IsWrite(Head(q).op)
                     PROVE  Head(q).id[2] <= Tail(q)[j].id[2]
            BY DEF Before, Elements
        <3>1. 1 \in DOMAIN q /\ j + 1 \in DOMAIN q /\ 1 < j + 1
            BY <2>2, <2>3
        <3>2. Tail(q)[j] = q[j + 1] /\ Head(q) = q[1]
            BY <2>2, <2>3
        <3>. QED
            BY <3>1, <3>2 DEF InTurn
    <2>6. running' = {Head(q)} /\ queue' = Tail(q)
        BY <1>2, <2>1
    <2>7. One(running')
        BY <2>6 DEF One
    <2>. QED
        BY <2>4, <2>5, <2>6, <2>7
<1>. QED
    BY <1>1, <1>2 DEF TryExecuteNext

\* What is left to show of a step that executes nothing.
LEMMA OpsKept ==
    ASSUME IInv, OpsMatch, CallsInv',
           \A f \in Held' : \E g \in Held : g.id = f.id /\ g.op = f.op,
           \A c \in Clients : \/ call'[c].op = call[c].op /\ call'[c].n = call[c].n
                              \/ call'[c].n > call[c].n
    PROVE  OpsMatch'
<1> SUFFICES ASSUME NEW f \in Held', f.id[2] = call'[f.id[1]].n
             PROVE  f.op = call'[f.id[1]].op
    BY DEF OpsMatch
<1>1. PICK g \in Held : g.id = f.id /\ g.op = f.op
    OBVIOUS
<1>2. g.id[1] \in Clients /\ g.id[2] \in Nat /\ g.id[2] <= call[g.id[1]].n
    BY HeldStarted DEF IInv, Started, CurrentInv, Current
<1>3. call[g.id[1]].n \in Nat /\ call'[g.id[1]].n \in Nat
    BY <1>2 DEF IInv, CallsInv, CallRecords
<1>. QED
    BY <1>1, <1>2, <1>3 DEF OpsMatch

LEMMA StandsKept ==
    ASSUME Stands, db' = db,
           \A f \in Held' : \E g \in Held : g.id = f.id /\ g.op = f.op,
           \A c \in Clients : SameCall(call[c], call'[c])
    PROVE  Stands'
<1> SUFFICES ASSUME NEW c \in Clients, call'[c].standing, IsWrite(call'[c].op)
             PROVE  /\ Effect(db', call'[c].op) = db'
                    /\ \A f \in Held' : f.id[1] = c => f.id[2] = call'[c].n
    BY DEF Stands, InForce
<1>1. call'[c].op = call[c].op /\ call'[c].n = call[c].n /\ call[c].standing
    BY DEF SameCall
<1>2. InForce(c) /\ \A f \in Held : f.id[1] = c => f.id[2] = call[c].n
    BY <1>1 DEF Stands
<1>. QED
    BY <1>1, <1>2 DEF InForce

LEMMA TurnKept ==
    ASSUME IInv, TurnInv, CallsInv', slots' = slots, db' = db,
           \A f \in Held' : \E g \in Held : g.id = f.id /\ g.op = f.op,
           \A c \in Clients : SameCall(call[c], call'[c]),
           slots = 1 => One(running') /\ InTurn(queue') /\ Before(running', queue')
    PROVE  TurnInv'
<1>1. OpsMatch'
    BY OpsKept DEF TurnInv, SameCall
<1>2. slots = 1 => Stands'
    BY StandsKept DEF TurnInv, OneByOne
<1>3. slots' = 1 => One(running)' /\ InTurn(queue)' /\ Before(running, queue)'
    BY DEF One, InTurn, Before, Elements
<1>. QED
    BY <1>1, <1>2, <1>3 DEF TurnInv, OneByOne

LEMMA FailedSame ==
    ASSUME NEW k \in CallRecords
    PROVE  SameCall(k, Failed(k))
BY FailedIs DEF Stage, Record, SameCall

LEMMA SettledSame ==
    ASSUME CallsInv, NEW c \in Clients, NEW how \in Outcomes, Settled(c, how)
    PROVE  \A d \in Clients : SameCall(call[d], call'[d])
<1>1. call[c] \in CallRecords /\ call \in [Clients -> CallRecords]
    BY DEF CallsInv
<1>2. call' = [call EXCEPT ![c] = Ended(call[c], "idle", how, 0)]
    BY <1>1 DEF Settled, Ended
<1>3. Ended(call[c], "idle", how, 0) = Stage(call[c], "idle", 0, how)
    <2>1. "idle" \in Pcs /\ 0 \in 0..2
        BY DEF Pcs
    <2>. QED
        BY <1>1, <2>1, StageIs, Zenon
<1>4. SameCall(call[c], Stage(call[c], "idle", 0, how))
    BY DEF SameCall, Stage, Record
<1>5. \A d \in Clients : call'[d] = IF d = c THEN Stage(call[c], "idle", 0, how) ELSE call[d]
    BY <1>1, <1>2, <1>3
<1>. QED
    BY <1>4, <1>5 DEF SameCall

\* A step of one client that leaves the scheduler alone.
LEMMA ClientTurn ==
    ASSUME IInv, TurnInv, CallsInv', UNCHANGED <<db, slots, queue, running>>,
           \A d \in Clients : SameCall(call[d], call'[d])
    PROVE  TurnInv'
<1>1. Held' = Held
    BY DEF Held, Elements
<1>2. slots = 1 => One(running') /\ InTurn(queue') /\ Before(running', queue')
    BY DEF TurnInv, OneByOne
<1>. QED
    BY <1>1, <1>2, TurnKept

LEMMA ClientActionsTurn ==
    ASSUME IInv, TurnInv, CallsInv', NEW c \in Clients,
           Call(c) \/ Resend(c) \/ ReconnectFails(c) \/ Deadline(c) \/ Receive(c)
    PROVE  TurnInv'
<1>0. call[c] \in CallRecords /\ call \in [Clients -> CallRecords] /\ CallsInv
    BY DEF IInv, CallsInv
<1>1. CASE Call(c)
    <2>1. PICK op \in Ops[c] :
              call' = [call EXCEPT ![c] = [NoCall EXCEPT !.pc = "sent", !.op = op,
                                           !.n = call[c].n + 1, !.attempt = 1]]
        BY <1>1 DEF Call
    <2>2. op \in AllOps /\ call[c].n \in Nat /\ call[c].n + 1 \in Nat
        BY <1>0 DEF AllOps, CallRecords
    <2>3. call' = [call EXCEPT ![c] = Record("sent", op, call[c].n + 1, 1, "none", FALSE)]
        BY <2>1, <2>2, NewCallIs, Zenon
    <2>4. SameCall(call[c], Record("sent", op, call[c].n + 1, 1, "none", FALSE))
        <3> DEFINE l == Record("sent", op, call[c].n + 1, 1, "none", FALSE)
        <3>1. l.n = call[c].n + 1 /\ l.standing = FALSE
            BY DEF Record
        <3> HIDE DEF l
        <3>2. l.n > call[c].n
            BY <2>2, <3>1
        <3>3. SameCall(call[c], l)
            BY <3>1, <3>2 DEF SameCall
        <3>. QED
            BY <3>3 DEF l
    <2>5. \A d \in Clients : SameCall(call[d], call'[d])
        BY <1>0, <2>3, <2>4 DEF SameCall
    <2>. QED
        BY <1>1, <2>5, ClientTurn DEF Call
<1>2. CASE Resend(c)
    <2>1. call' = [call EXCEPT ![c] = Retried(call[c], "sent", 2)]
        BY <1>0, <1>2 DEF Resend, Retried
    <2>2. Retried(call[c], "sent", 2) = Stage(call[c], "sent", 2, call[c].outcome)
        <3>1. "sent" \in Pcs /\ 2 \in 0..2 /\ call[c].outcome \in Outcomes
            BY <1>0, CallFields DEF Pcs
        <3>. QED
            BY <1>0, <3>1, StageIs, Zenon
    <2>3. SameCall(call[c], Stage(call[c], "sent", 2, call[c].outcome))
        BY DEF SameCall, Stage, Record
    <2>4. \A d \in Clients : SameCall(call[d], call'[d])
        BY <1>0, <2>1, <2>2, <2>3 DEF SameCall
    <2>. QED
        BY <1>2, <2>4, ClientTurn DEF Resend
<1>3. CASE ReconnectFails(c)
    BY <1>0, <1>3, SettledSame, ClientTurn DEF ReconnectFails, Outcomes
<1>4. CASE Deadline(c)
    <2>1. call' = [call EXCEPT ![c] = Failed(call[c])]
        BY <1>0, <1>4 DEF Deadline
    <2>2. \A d \in Clients : SameCall(call[d], call'[d])
        BY <1>0, <2>1, FailedSame DEF SameCall
    <2>. QED
        BY <1>4, <2>2, ClientTurn DEF Deadline
<1>5. CASE Receive(c)
    <2>1. call[c].outcome \in Outcomes
        BY <1>0, CallFields
    <2>. QED
        BY <1>0, <1>5, <2>1, SettledSame, ClientTurn DEF Receive
<1>. QED
    BY <1>1, <1>2, <1>3, <1>4, <1>5

LEMMA ArriveTurn ==
    ASSUME IInv, TurnInv, CallsInv', NEW c \in Clients, Arrive(c)
    PROVE  TurnInv'
<1> DEFINE k == call[c]
           entry == [id |-> <<c, k.n>>, attempt |-> k.attempt, op |-> k.op,
                     timed |-> FALSE, count |-> NoCount]
<1>0. /\ k \in CallRecords /\ CallOK(k) /\ call \in [Clients -> CallRecords] /\ CallsInv
      /\ k.pc = "sent" /\ db' = db /\ slots' = slots
    BY DEF IInv, CallsInv, Arrive
<1>1. CASE Settled(c, "invalid") /\ UNCHANGED <<queue, running>>
    BY <1>0, <1>1, SettledSame, ClientTurn DEF Outcomes
<1>2. CASE call' = [call EXCEPT ![c] = Failed(@)] /\ UNCHANGED <<queue, running>>
    <2>1. call' = [call EXCEPT ![c] = Failed(call[c])]
        BY <1>0, <1>2
    <2>2. \A d \in Clients : SameCall(call[d], call'[d])
        BY <1>0, <2>1, FailedSame DEF SameCall
    <2>. QED
        BY <1>0, <1>2, <2>2, ClientTurn
<1>3. CASE call' = [call EXCEPT ![c].pc = "arrived"] /\ TryExecuteNext(Insert(queue, entry), running)
    <2>0. PICK e : e = entry
        OBVIOUS
    <2>1. e.id = <<c, k.n>> /\ e.attempt = k.attempt /\ e.op = k.op /\ e \in Waiting
        <3>1. k.attempt \in 1..2 /\ k.op \in AllOps /\ k.n \in Nat
            BY <1>0 DEF CallOK, CallRecords
        <3>. QED
            BY <2>0, <3>1 DEF Waiting
    <2>2. \A d \in Clients : call'[d].op = call[d].op /\ call'[d].n = call[d].n
                             /\ call'[d].standing = call[d].standing
        <3>1. [call[c] EXCEPT !.pc = "arrived"] = Stage(call[c], "arrived", k.attempt, k.outcome)
            BY <1>0, OneExcept DEF Stage
        <3>2. call' = [call EXCEPT ![c] = Stage(call[c], "arrived", k.attempt, k.outcome)]
            BY <1>0, <1>3, <3>1
        <3>3. \A d \in Clients :
                  call'[d] = IF d = c THEN Stage(call[c], "arrived", k.attempt, k.outcome) ELSE call[d]
            BY <1>0, <3>2
        <3>. QED
            BY <3>3 DEF Stage, Record
    <2>3. \A f \in Held : f.id[1] = c => f.id[2] <= k.n
        BY DEF IInv, CurrentInv, Current
    <2>4. \A f \in Elements(queue) : f.id = e.id => f.op = e.op /\ f.attempt < e.attempt
        BY <1>0, <2>1 DEF IInv, CurrentInv, Current, Held
    <2>5. /\ Insert(queue, e) \in Seq(Waiting) /\ QueueOrder(Insert(queue, e))
          /\ Elements(Insert(queue, e)) = Elements(queue) \union {e}
        BY <2>1, <2>4, InsertStep DEF IInv, QueueInv
    <2>6. Held' = Held \union {e}
        <3>1. Held' = running \union Elements(Insert(queue, e))
            BY <1>3, <2>0, <2>5, TryStep DEF IInv, QueueInv
        <3>. QED
            BY <2>5, <3>1 DEF Held
    <2>7. OpsMatch'
        BY <2>1, <2>2, <2>6, HeldStarted DEF IInv, OpsMatch, TurnInv, Started
    <2>8. ASSUME slots = 1
          PROVE  One(running') /\ InTurn(queue') /\ Before(running', queue')
        <3>1. One(running) /\ InTurn(queue) /\ Before(running, queue)
            BY <2>8 DEF TurnInv, OneByOne
        <3>2. InTurn(Insert(queue, e))
            <4>1. \A f \in Elements(queue) : f.id[1] = e.id[1] => f.id[2] <= e.id[2]
                BY <2>1, <2>3 DEF Held
            <4>. QED
                BY <2>1, <3>1, <4>1, InsertTurn DEF IInv, QueueInv
        <3>3. Before(running, Insert(queue, e))
            <4>1. \A f \in running : f.id[1] = e.id[1] => f.id[2] <= e.id[2]
                BY <2>1, <2>3 DEF Held
            <4>. QED
                BY <2>5, <3>1, <4>1 DEF Before
        <3>. QED
            BY <1>3, <2>0, <2>5, <2>8, <3>1, <3>2, <3>3, TryTurn
    <2>9. ASSUME slots = 1 PROVE Stands'
        <3> SUFFICES ASSUME NEW d \in Clients, call'[d].standing, IsWrite(call'[d].op)
                     PROVE  /\ Effect(db', call'[d].op) = db'
                            /\ \A f \in Held' : f.id[1] = d => f.id[2] = call'[d].n
            BY DEF Stands, InForce
        <3>1. call'[d].op = call[d].op /\ call'[d].n = call[d].n /\ call[d].standing
            BY <2>2
        <3>2. InForce(d) /\ \A f \in Held : f.id[1] = d => f.id[2] = call[d].n
            BY <2>9, <3>1 DEF TurnInv, OneByOne, Stands
        <3>3. e.id[1] = d => e.id[2] = call[d].n
            BY <2>1
        <3>. QED
            BY <1>0, <2>6, <3>1, <3>2, <3>3 DEF InForce
    <2>. QED
        BY <1>0, <2>7, <2>8, <2>9 DEF TurnInv, OneByOne, One, InTurn, Before, Elements
<1>. QED
    BY <1>1, <1>2, <1>3 DEF Arrive

LEMMA TimeoutTurn ==
    ASSUME IInv, TurnInv, CallsInv', NEW e \in Untimed, Timeout(e)
    PROVE  TurnInv'
<1> DEFINE t == [e EXCEPT !.timed = TRUE]
<1>1. e \in Held /\ Started(e) /\ e.id[1] \in Clients
    BY UntimedIs, HeldStarted DEF IInv, Started
<1>2. \A d \in Clients : SameCall(call[d], call'[d])
    <2>1. call \in [Clients -> CallRecords]
        BY DEF IInv, CallsInv
    <2>2. call' = call \/ call' = [call EXCEPT ![e.id[1]] = Failed(call[e.id[1]])]
        BY <1>1, <2>1 DEF Timeout
    <2>. QED
        BY <1>1, <2>1, <2>2, FailedSame DEF SameCall
<1>3. db' = db /\ slots' = slots
    BY DEF Timeout
<1>4. t.id = e.id /\ t.op = e.op
    <2>1. \A x : [e EXCEPT !.timed = x]
                  = [id |-> e.id, attempt |-> e.attempt, op |-> e.op, timed |-> x, count |-> e.count]
        BY <1>1 DEF Started
    <2>2. PICK x : x = TRUE
        OBVIOUS
    <2>3. [e EXCEPT !.timed = x]
              = [id |-> e.id, attempt |-> e.attempt, op |-> e.op, timed |-> x, count |-> e.count]
        BY <2>1
    <2>4. t = [e EXCEPT !.timed = x]
        BY <2>2
    <2> HIDE DEF t
    <2>. QED
        BY <2>3, <2>4
<1> HIDE DEF t
<1>5. CASE e \in running
    <2>1. running' = (running \ {e}) \union {t} /\ queue' = queue
        BY <1>5 DEF Timeout, t
    <2>2. \A f \in Held' : \E g \in Held : g.id = f.id /\ g.op = f.op
        BY <1>4, <1>5, <2>1 DEF Held, Elements
    <2>3. slots = 1 => One(running') /\ InTurn(queue') /\ Before(running', queue')
        BY <1>4, <1>5, <2>1 DEF TurnInv, OneByOne, One, Before
    <2>. QED
        BY <1>2, <1>3, <2>2, <2>3, TurnKept
<1>6. CASE e \notin running
    <2>1. queue' = RemoveFromQueue(queue, e.id) /\ running' = running /\ e \in Elements(queue)
        BY <1>1, <1>6 DEF Timeout, Held
    <2>2. \A f \in Elements(queue) : f.id = e.id => ~(f.attempt < e.attempt)
        <3>1. Elements(queue) \subseteq Untimed
            BY QueueElements, WaitingStarted, UntimedIs DEF IInv, QueueInv, Held
        <3>. QED
            BY <3>1 DEF Timeout
    <2>3. Elements(queue') \subseteq Elements(queue)
        BY <2>1, <2>2, RemoveStep DEF IInv, QueueInv
    <2>4. \A f \in Held' : \E g \in Held : g.id = f.id /\ g.op = f.op
        BY <2>1, <2>3 DEF Held, Elements
    <2>5. ASSUME slots = 1 PROVE One(running') /\ InTurn(queue') /\ Before(running', queue')
        <3>1. InTurn(queue')
            BY <2>1, <2>2, <2>5, RemoveTurn DEF IInv, QueueInv, TurnInv, OneByOne
        <3>2. One(running) /\ Before(running, queue)
            BY <2>5 DEF TurnInv, OneByOne
        <3>3. Before(running', queue')
            BY <2>1, <2>3, <3>2 DEF Before
        <3>. QED
            BY <2>1, <3>1, <3>2, <3>3
    <2>. QED
        BY <1>2, <1>3, <2>4, <2>5, TurnKept
<1>. QED
    BY <1>5, <1>6

LEMMA CountTurn ==
    ASSUME IInv, TurnInv, CallsInv', NEW e \in running, Count(e)
    PROVE  TurnInv'
<1> DEFINE n == [counted |-> TRUE, n |-> CountRows(db, e.op)]
           t == [e EXCEPT !.count = n]
<1>1. running' = (running \ {e}) \union {t} /\ UNCHANGED <<db, slots, call, queue>>
    BY DEF Count
<1> HIDE DEF n
<1>2. t.id = e.id /\ t.op = e.op
    <2>1. Started(e)
        BY DEF IInv, QueueInv
    <2>2. t = [id |-> e.id, attempt |-> e.attempt, op |-> e.op, timed |-> e.timed, count |-> n]
        BY <2>1 DEF Started
    <2>. QED
        BY <2>2
<1> HIDE DEF t
<1>3. \A f \in Held' : \E g \in Held : g.id = f.id /\ g.op = f.op
    BY <1>1, <1>2 DEF Held, Elements
<1>4. slots = 1 => One(running') /\ InTurn(queue') /\ Before(running', queue')
    BY <1>1, <1>2 DEF TurnInv, OneByOne, One, Before
<1>5. \A d \in Clients : SameCall(call[d], call'[d])
    BY <1>1 DEF SameCall
<1>. QED
    BY <1>1, <1>3, <1>4, <1>5, TurnKept

\* The answer to e leaves of every call its operation and its number.
LEMMA AnswerSame ==
    ASSUME NEW e, Started(e), NEW k \in [Clients -> CallRecords], NEW how \in Outcomes
    PROVE  \A d \in Clients : /\ Answer(e, k, how)[d].op = k[d].op
                              /\ Answer(e, k, how)[d].n = k[d].n
                              /\ Answer(e, k, how)[d].standing = k[d].standing
<1> DEFINE c == e.id[1]
<1>0. c \in Clients /\ k[c] \in CallRecords
    BY DEF Started
<1>1. CASE Waits(e) /\ ~e.timed
    <2>1. Answer(e, k, how) = [k EXCEPT ![c] = Answered(k[c], "answered", how)]
        BY <1>0, <1>1 DEF Answer, Answered
    <2>2. Answered(k[c], "answered", how) = Stage(k[c], "answered", k[c].attempt, how)
        <3>1. "answered" \in Pcs /\ k[c].attempt \in 0..2
            BY <1>0, CallFields DEF Pcs
        <3>. QED
            BY <1>0, <3>1, StageIs, Zenon
    <2>3. \A d \in Clients : Answer(e, k, how)[d] =
              IF d = c THEN Stage(k[c], "answered", k[c].attempt, how) ELSE k[d]
        BY <2>1, <2>2
    <2>. QED
        BY <2>3 DEF Stage, Record
<1>2. CASE ~(Waits(e) /\ ~e.timed)
    BY <1>2 DEF Answer
<1>. QED
    BY <1>1, <1>2

LEMMA FinishTurn ==
    ASSUME IInv, TurnInv, NEW e \in running, TryExecuteNext(queue, running \ {e})
    PROVE  /\ Held' = (running \ {e}) \union Elements(queue)
           /\ slots = 1 => One(running') /\ InTurn(queue') /\ Before(running', queue')
<1>1. Held' = (running \ {e}) \union Elements(queue)
    BY TryStep DEF IInv, QueueInv
<1>2. ASSUME slots = 1 PROVE One(running') /\ InTurn(queue') /\ Before(running', queue')
    <2>1. InTurn(queue) /\ One(running \ {e}) /\ Before(running \ {e}, queue)
        BY <1>2 DEF TurnInv, OneByOne, One, Before
    <2>. QED
        BY <1>2, <2>1, TryTurn DEF IInv, QueueInv
<1>. QED
    BY <1>1, <1>2

LEMMA FailTurn ==
    ASSUME IInv, TurnInv, CallsInv', NEW e \in running, Fail(e)
    PROVE  TurnInv'
<1>1. Started(e) /\ call \in [Clients -> CallRecords] /\ "error" \in Outcomes
    BY DEF IInv, QueueInv, CallsInv, Outcomes
<1>2. \A d \in Clients : SameCall(call[d], call'[d])
    BY <1>1, AnswerSame DEF Fail, SameCall
<1>3. TryExecuteNext(queue, running \ {e}) /\ db' = db /\ slots' = slots
    BY DEF Fail
<1>4. \A f \in Held' : \E g \in Held : g.id = f.id /\ g.op = f.op
    BY <1>3, FinishTurn DEF Held
<1>. QED
    BY <1>2, <1>3, <1>4, FinishTurn, TurnKept

\* What is executed last of a client's is its latest call, and what another
\* client executes is either a read or ends the promise.
LEMMA ExecuteTurn ==
    ASSUME IInv, TurnInv, CallsInv', NEW e \in running, Execute(e)
    PROVE  TurnInv'
<1> DEFINE standing(d) ==
               IF e.id[1] = d /\ e.id[2] = call[d].n THEN TRUE
               ELSE IF e.id[1] = d \/ ~IsWrite(e.op) THEN call[d].standing ELSE FALSE
           k == [d \in Clients |-> [call[d] EXCEPT !.standing = standing(d)]]
<1>1. Started(e) /\ e \in Held /\ Current(e) /\ "ok" \in Outcomes
    BY DEF IInv, QueueInv, CurrentInv, Held, Outcomes
<1>2. k \in [Clients -> CallRecords]
      /\ \A d \in Clients : k[d].op = call[d].op /\ k[d].n = call[d].n /\ k[d].standing = standing(d)
    <2> SUFFICES ASSUME NEW d \in Clients
                 PROVE  /\ k[d] \in CallRecords /\ k[d].op = call[d].op /\ k[d].n = call[d].n
                        /\ k[d].standing = standing(d)
        OBVIOUS
    <2>1. call[d] \in CallRecords /\ standing(d) \in BOOLEAN
        BY DEF IInv, CallsInv, CallRecords
    <2>2. k[d] = [call[d] EXCEPT !.standing = standing(d)]
        OBVIOUS
    <2> HIDE DEF standing, k
    <2>3. k[d] = Record(call[d].pc, call[d].op, call[d].n, call[d].attempt, call[d].outcome, standing(d))
        BY <2>1, <2>2, OneExcept
    <2>4. k[d] \in CallRecords
        BY <2>1, <2>3, CallFields, RecordOK
    <2>. QED
        BY <2>3, <2>4 DEF Record
<1>3. /\ call' = Answer(e, k, "ok") /\ TryExecuteNext(queue, running \ {e})
      /\ db' = Effect(db, e.op) /\ slots' = slots
    BY DEF Execute
<1> HIDE DEF k
<1>4. \A d \in Clients : /\ call'[d].op = call[d].op /\ call'[d].n = call[d].n
                         /\ call'[d].standing = standing(d)
    <2> HIDE DEF standing
    <2>0. k \in [Clients -> CallRecords] /\ Started(e) /\ "ok" \in Outcomes
        BY <1>1, <1>2
    <2>1. \A d \in Clients : /\ Answer(e, k, "ok")[d].op = k[d].op
                             /\ Answer(e, k, "ok")[d].n = k[d].n
                             /\ Answer(e, k, "ok")[d].standing = k[d].standing
        BY <2>0, AnswerSame
    <2>. QED
        BY <1>2, <1>3, <2>1
<1>5. Held' = (running \ {e}) \union Elements(queue) /\ Held' \subseteq Held
    BY <1>3, FinishTurn DEF Held
<1>6. OpsMatch'
    BY <1>4, <1>5, OpsKept DEF TurnInv
<1>7. ASSUME slots = 1, NEW c \in Clients, call'[c].standing, IsWrite(call'[c].op)
      PROVE  /\ Effect(db', call'[c].op) = db'
             /\ \A f \in Held' : f.id[1] = c => f.id[2] = call'[c].n
    <2>0. One(running) /\ Before(running, queue) /\ Stands /\ OpsMatch
        BY <1>7 DEF TurnInv, OneByOne
    <2>1. CASE e.id[1] = c /\ e.id[2] = call[c].n
        <3>1. e.op = call[c].op
            BY <1>1, <2>0, <2>1 DEF OpsMatch
        <3>2. Effect(db', call'[c].op) = db'
            <4>0. IsRows(e.op.rows)
                BY <1>1, StoreAssumption DEF Started, AllOps, IsRows
            <4>1. Effect(Effect(db, e.op), e.op) = Effect(db, e.op)
                BY <4>0, RetryIsHarmless DEF IInv, StoreInv
            <4>2. call'[c].op = e.op
                BY <1>4, <3>1
            <4>. QED
                BY <1>3, <4>1, <4>2, Zenon
        <3>3. Held' = Elements(queue)
            BY <1>5, <2>0 DEF One
        <3>4. ASSUME NEW f \in Elements(queue), f.id[1] = c PROVE f.id[2] = call[c].n
            <4>1. e.id[2] <= f.id[2]
                BY <1>4, <1>7, <2>0, <2>1, <3>1, <3>4 DEF Before
            <4>2. Started(f) /\ Current(f) /\ f \in Held
                BY HeldStarted DEF IInv, CurrentInv, Held
            <4>3. f.id[2] <= call[c].n /\ f.id[2] \in Nat
                BY <3>4, <4>2 DEF Current, Started
            <4>. QED
                BY <1>1, <2>1, <4>1, <4>3 DEF Started
        <3>. QED
            BY <1>4, <3>2, <3>3, <3>4
    <2>2. CASE e.id[1] = c /\ e.id[2] # call[c].n
        <3>1. call[c].standing /\ IsWrite(call[c].op)
            BY <1>4, <1>7, <2>2
        <3>. QED
            BY <1>1, <2>0, <2>2, <3>1 DEF Stands
    <2>3. CASE e.id[1] # c
        <3>1. call[c].standing /\ ~IsWrite(e.op) /\ IsWrite(call[c].op)
            BY <1>4, <1>7, <2>3
        <3>2. db' = db
            BY <1>3, <3>1 DEF IsWrite, Reads, Effect
        <3>3. InForce(c) /\ \A f \in Held : f.id[1] = c => f.id[2] = call[c].n
            BY <2>0, <3>1 DEF Stands
        <3>. QED
            BY <1>4, <1>5, <3>2, <3>3 DEF InForce
    <2>. QED
        BY <2>1, <2>2, <2>3
<1>8. ASSUME slots = 1 PROVE Stands'
    BY <1>7, <1>8 DEF Stands, InForce
<1>9. ASSUME slots = 1 PROVE One(running') /\ InTurn(queue') /\ Before(running', queue')
    BY <1>3, <1>9, FinishTurn
<1>. QED
    BY <1>3, <1>6, <1>8, <1>9 DEF TurnInv, OneByOne, One, InTurn, Before, Elements

LEMMA CrashTurn ==
    ASSUME IInv, TurnInv, CallsInv', Crash
    PROVE  TurnInv'
<1>1. call \in [Clients -> CallRecords]
    BY DEF IInv, CallsInv
<1>2. \A d \in Clients : SameCall(call[d], call'[d])
    BY <1>1, FailedSame DEF Crash, SameCall
<1>3. queue' = <<>> /\ running' = {} /\ db' = db /\ slots' = slots
    BY DEF Crash
<1>4. Held' = {}
    BY <1>3 DEF Held, Elements
<1>5. One(running') /\ InTurn(queue') /\ Before(running', queue')
    BY <1>3 DEF One, InTurn, Before
<1>. QED
    BY <1>2, <1>3, <1>4, <1>5, TurnKept

LEMMA InitTurn == Init => TurnInv
<1> SUFFICES ASSUME Init PROVE TurnInv
    OBVIOUS
<1>1. Held = {} /\ One(running) /\ InTurn(queue) /\ Before(running, queue)
    BY DEF Init, Held, Elements, One, InTurn, Before
<1>2. Stands
    BY DEF Init, Stands, NoCall
<1>. QED
    BY <1>1, <1>2 DEF TurnInv, OneByOne, OpsMatch

LEMMA NextTurn == IInv /\ TurnInv /\ [Next]_vars => TurnInv'
<1> SUFFICES ASSUME IInv, TurnInv, [Next]_vars PROVE TurnInv'
    OBVIOUS
<1>0. CallsInv'
    BY NextIInv DEF IInv
<1>1. CASE UNCHANGED vars
    <2>1. UNCHANGED <<db, slots, call, queue, running>>
        BY <1>1 DEF vars
    <2>2. \A d \in Clients : SameCall(call[d], call'[d])
        BY <2>1 DEF SameCall
    <2>. QED
        BY <1>0, <2>1, <2>2, ClientTurn
<1>2. ASSUME NEW c \in Clients, Call(c) \/ Resend(c) \/ ReconnectFails(c) \/ Deadline(c) \/ Receive(c)
      PROVE  TurnInv'
    BY <1>0, <1>2, ClientActionsTurn
<1>3. ASSUME NEW c \in Clients, Arrive(c) PROVE TurnInv'
    BY <1>0, <1>3, ArriveTurn
<1>4. ASSUME NEW e \in Untimed, Timeout(e) PROVE TurnInv'
    BY <1>0, <1>4, TimeoutTurn
<1>5. ASSUME NEW e \in running, Count(e) \/ Execute(e) \/ Fail(e) PROVE TurnInv'
    BY <1>0, <1>5, CountTurn, ExecuteTurn, FailTurn
<1>6. CASE Crash
    BY <1>0, <1>6, CrashTurn
<1>. QED
    BY <1>1, <1>2, <1>3, <1>4, <1>5, <1>6 DEF Next

THEOREM TurnInvariance == Spec => []TurnInv
BY Invariance, InitTurn, NextTurn, PTL DEF Spec

\* With one slot (serverMaxConcurrency = 1), the write of a call that was
\* acknowledged is in force until another client writes, whatever was lost,
\* timed out, ran twice or ran late: a later call of the client cannot be
\* executed before an attempt the client has given up (scheduler.ts, and
\* callWithReconnect() of the remote adapters).
THEOREM AcknowledgedStaysInForce == Spec => []AcknowledgedInForce
<1>1. TurnInv => AcknowledgedInForce
    BY DEF TurnInv, OneByOne, Stands, AcknowledgedInForce, Acknowledged
<1>. QED
    BY <1>1, TurnInvariance, PTL

-----------------------------------------------------------------------------
(* A batch is what its rows are one by one                                 *)

\* The rows that count when the first n have been written.
LastOfFirst(rows, n) ==
    {rows[i] : i \in {j \in 1..n : \A m \in (j + 1)..n : rows[m].key # rows[j].key}}

LEMMA LastOfNone == \A rows : LastOfFirst(rows, 0) = {}
BY DEF LastOfFirst

LEMMA LastOfAll ==
    ASSUME NEW rows, IsRows(rows)
    PROVE  LastOfFirst(rows, Len(rows)) = LastOfEach(rows)
BY DEF LastOfFirst, LastOfEach, IsRows

LEMMA LastOfOne == \A r : LastOfEach(<<r>>) = {r}
<1> TAKE r
<1>1. Len(<<r>>) = 1 /\ DOMAIN <<r>> = 1..1 /\ <<r>>[1] = r
    OBVIOUS
<1>2. {n \in DOMAIN <<r>> : \A m \in (n + 1)..Len(<<r>>) : <<r>>[m].key # <<r>>[n].key} = {1}
    BY <1>1
<1>. QED
    BY <1>1, <1>2 DEF LastOfEach

\* One more row replaces the one with its key.
LEMMA LastOfMore ==
    ASSUME NEW rows, NEW n \in Nat \ {0}
    PROVE  LastOfFirst(rows, n) =
             {r \in LastOfFirst(rows, n - 1) : r.key # rows[n].key} \union {rows[n]}
<1>1. ASSUME NEW r \in LastOfFirst(rows, n), r # rows[n]
      PROVE  r \in LastOfFirst(rows, n - 1) /\ r.key # rows[n].key
    <2>1. PICK j \in 1..n : r = rows[j] /\ \A m \in (j + 1)..n : rows[m].key # rows[j].key
        BY DEF LastOfFirst
    <2>2. j \in 1..(n - 1) /\ n \in (j + 1)..n
        BY <1>1, <2>1
    <2>3. \A m \in (j + 1)..(n - 1) : rows[m].key # rows[j].key
        BY <2>1
    <2>. QED
        BY <2>1, <2>2, <2>3 DEF LastOfFirst
<1>2. ASSUME NEW r \in LastOfFirst(rows, n - 1), r.key # rows[n].key
      PROVE  r \in LastOfFirst(rows, n)
    <2>1. PICK j \in 1..(n - 1) :
              r = rows[j] /\ \A m \in (j + 1)..(n - 1) : rows[m].key # rows[j].key
        BY DEF LastOfFirst
    <2>2. j \in 1..n /\ \A m \in (j + 1)..n : m = n \/ m \in (j + 1)..(n - 1)
        BY <2>1
    <2>. QED
        BY <1>2, <2>1, <2>2 DEF LastOfFirst
<1>3. rows[n] \in LastOfFirst(rows, n)
    <2>1. n \in 1..n /\ \A m \in (n + 1)..n : FALSE
        OBVIOUS
    <2>. QED
        BY <2>1 DEF LastOfFirst
<1>. QED
    BY <1>1, <1>2, <1>3

LEMMA MergeNodesShape ==
    ASSUME NEW d, NEW label, NEW rows, Shape(d)
    PROVE  MergeNodes(d, label, rows) =
             [node |-> {n \in d.node : ~(n.label = label /\ n.key \in Keys(rows))}
                         \union {[label |-> label, key |-> r.key, val |-> r.val] : r \in rows},
              rel |-> d.rel, vec |-> d.vec]
BY DEF MergeNodes, Shape

LEMMA MergeVecsShape ==
    ASSUME NEW d, NEW rows, Shape(d)
    PROVE  MergeVecs(d, rows) =
             [node |-> d.node, rel |-> d.rel, vec |-> {v \in d.vec : v.key \notin Keys(rows)} \union rows]
BY OneField DEF MergeVecs

\* Merging rows, then one more.
LEMMA MergeNodesMore ==
    ASSUME NEW d, NEW label, NEW rows, NEW r, Shape(d)
    PROVE  MergeNodes(MergeNodes(d, label, rows), label, {r})
             = MergeNodes(d, label, {s \in rows : s.key # r.key} \union {r})
<1> DEFINE row(s) == [label |-> label, key |-> s.key, val |-> s.val]
           rest(S, R) == {n \in S : ~(n.label = label /\ n.key \in Keys(R))}
           new(R) == {row(s) : s \in R}
           all == {s \in rows : s.key # r.key} \union {r}
           once == MergeNodes(d, label, rows)
<1>0. \A e, R : Shape(e) =>
          MergeNodes(e, label, R) = [node |-> rest(e.node, R) \union new(R), rel |-> e.rel, vec |-> e.vec]
    BY MergeNodesShape
<1>1. once = [node |-> rest(d.node, rows) \union new(rows), rel |-> d.rel, vec |-> d.vec] /\ Shape(once)
    BY <1>0 DEF Shape
<1>2. MergeNodes(once, label, {r})
        = [node |-> rest(once.node, {r}) \union new({r}), rel |-> once.rel, vec |-> once.vec]
    <2> HIDE DEF once, rest, new
    <2>. QED
        BY <1>0, <1>1
<1>3. MergeNodes(d, label, all)
        = [node |-> rest(d.node, all) \union new(all), rel |-> d.rel, vec |-> d.vec]
    <2> HIDE DEF all, rest, new
    <2>. QED
        BY <1>0
<1>4. rest(rest(d.node, rows) \union new(rows), {r}) \union new({r}) = rest(d.node, all) \union new(all)
    <2> DEFINE A == rest(rest(d.node, rows), {r})
    <2>1. Keys(all) = Keys(rows) \union {r.key} /\ Keys({r}) = {r.key}
        BY DEF Keys
    <2>2. A = rest(d.node, all)
        BY <2>1
    <2>3. rest(new(rows), {r}) = new({s \in rows : s.key # r.key})
        BY <2>1
    <2>4. rest(rest(d.node, rows) \union new(rows), {r}) = A \union rest(new(rows), {r})
        OBVIOUS
    <2>5. new({s \in rows : s.key # r.key}) \union new({r}) = new(all)
        OBVIOUS
    <2> HIDE DEF A, rest, new, all
    <2>. QED
        BY <2>2, <2>3, <2>4, <2>5
<1> HIDE DEF rest, new, all
<1>5. once.node = rest(d.node, rows) \union new(rows) /\ once.rel = d.rel /\ once.vec = d.vec
    BY <1>1
<1> HIDE DEF once
<1>6. MergeNodes(once, label, {r}) = MergeNodes(d, label, all)
    BY <1>2, <1>3, <1>4, <1>5
<1>. QED
    BY <1>6 DEF once, all

LEMMA MergeVecsMore ==
    ASSUME NEW d, NEW rows, NEW r, Shape(d)
    PROVE  MergeVecs(MergeVecs(d, rows), {r})
             = MergeVecs(d, {s \in rows : s.key # r.key} \union {r})
<1> DEFINE rest(S, R) == {v \in S : v.key \notin Keys(R)}
           all == {s \in rows : s.key # r.key} \union {r}
           once == MergeVecs(d, rows)
<1>0. \A e, R : Shape(e) =>
          MergeVecs(e, R) = [node |-> e.node, rel |-> e.rel, vec |-> rest(e.vec, R) \union R]
    BY MergeVecsShape
<1>1. once = [node |-> d.node, rel |-> d.rel, vec |-> rest(d.vec, rows) \union rows] /\ Shape(once)
    BY <1>0 DEF Shape
<1>2. MergeVecs(once, {r}) = [node |-> once.node, rel |-> once.rel, vec |-> rest(once.vec, {r}) \union {r}]
    <2> HIDE DEF once, rest
    <2>. QED
        BY <1>0, <1>1
<1>3. MergeVecs(d, all) = [node |-> d.node, rel |-> d.rel, vec |-> rest(d.vec, all) \union all]
    <2> HIDE DEF all, rest
    <2>. QED
        BY <1>0
<1>4. rest(rest(d.vec, rows) \union rows, {r}) \union {r} = rest(d.vec, all) \union all
    <2>1. Keys(all) = Keys(rows) \union {r.key} /\ Keys({r}) = {r.key}
        BY DEF Keys
    <2>. QED
        BY <2>1
<1> HIDE DEF rest, all
<1>5. once.node = d.node /\ once.rel = d.rel /\ once.vec = rest(d.vec, rows) \union rows
    BY <1>1
<1> HIDE DEF once
<1>6. MergeVecs(once, {r}) = MergeVecs(d, all)
    BY <1>2, <1>3, <1>4, <1>5
<1>. QED
    BY <1>6 DEF once, all

\* Whether a row is merged depends on its key and on the nodes only.
LEMMA MergeRelsMore ==
    ASSUME NEW d, NEW type, NEW rows, NEW r, Shape(d)
    PROVE  LET once == MergeRels(d, type, Linkable(d, type, rows))
               all == {s \in rows : s.key # r.key} \union {r}
           IN  MergeRels(once, type, Linkable(once, type, {r}))
                 = MergeRels(d, type, Linkable(d, type, all))
<1> DEFINE row(s) == [type |-> type, key |-> s.key, val |-> s.val]
           rest(S, R) == {e \in S : ~(e.type = type /\ e.key \in Keys(R))}
           new(R) == {row(s) : s \in R}
           all == {s \in rows : s.key # r.key} \union {r}
           old == Linkable(d, type, rows)
           one == Linkable(d, type, {r})
           both == Linkable(d, type, all)
           once == MergeRels(d, type, old)
<1>0. \A e, R : Shape(e) =>
          MergeRels(e, type, R) = [node |-> e.node, rel |-> rest(e.rel, R) \union new(R), vec |-> e.vec]
    BY MergeRelsShape
<1>1. once = [node |-> d.node, rel |-> rest(d.rel, old) \union new(old), vec |-> d.vec]
    <2> HIDE DEF old, rest, new
    <2>. QED
        BY <1>0
<1>2. once.node = d.node /\ once.rel = rest(d.rel, old) \union new(old) /\ once.vec = d.vec /\ Shape(once)
    BY <1>1 DEF Shape
<1>3. Linkable(once, type, {r}) = one
    <2> HIDE DEF once
    <2>. QED
        BY <1>2 DEF Linkable, HasNode
<1>4. MergeRels(once, type, one) = [node |-> once.node, rel |-> rest(once.rel, one) \union new(one), vec |-> once.vec]
    <2> HIDE DEF once, one, rest, new
    <2>. QED
        BY <1>0, <1>2
<1>5. MergeRels(d, type, both) = [node |-> d.node, rel |-> rest(d.rel, both) \union new(both), vec |-> d.vec]
    <2> HIDE DEF both, rest, new
    <2>. QED
        BY <1>0
<1>6. rest(rest(d.rel, old) \union new(old), one) \union new(one) = rest(d.rel, both) \union new(both)
    <2> DEFINE linked(k) == HasNode(d, RelLabelMap[type][1], k[1]) /\ HasNode(d, RelLabelMap[type][2], k[2])
    <2>1. CASE linked(r.key)
        <3>1. one = {r} /\ both = {s \in old : s.key # r.key} \union {r}
            BY <2>1 DEF Linkable
        <3> HIDE DEF old, one, both
        <3>2. Keys(both) = Keys(old) \union {r.key} /\ Keys(one) = {r.key}
            BY <3>1 DEF Keys
        <3>3. rest(rest(d.rel, old), one) = rest(d.rel, both)
            BY <3>2
        <3>4. rest(new(old), one) = new({s \in old : s.key # r.key})
            BY <3>2
        <3>5. rest(rest(d.rel, old) \union new(old), one) = rest(rest(d.rel, old), one) \union rest(new(old), one)
            OBVIOUS
        <3>6. new({s \in old : s.key # r.key}) \union new(one) = new(both)
            BY <3>1
        <3> HIDE DEF rest, new
        <3>. QED
            BY <3>3, <3>4, <3>5, <3>6
    <2>2. CASE ~linked(r.key)
        <3>1. one = {} /\ both = old
            BY <2>2 DEF Linkable
        <3> HIDE DEF old, one, both
        <3>2. Keys(one) = {} /\ new(one) = {}
            BY <3>1 DEF Keys
        <3>3. \A S : rest(S, one) = S
            BY <3>2
        <3> HIDE DEF rest, new
        <3>. QED
            BY <3>1, <3>2, <3>3
    <2>. QED
        BY <2>1, <2>2
<1> HIDE DEF rest, new, old, one, both
<1>7. MergeRels(once, type, one) = MergeRels(d, type, both)
    <2> HIDE DEF once
    <2>. QED
        BY <1>2, <1>4, <1>5, <1>6
<1>. QED
    BY <1>3, <1>7 DEF once, old, both

IsOp(op) ==
    op = [kind |-> op.kind, on |-> op.on, rows |-> op.rows, prefix |-> op.prefix, limit |-> op.limit]

LEMMA RowOpIs ==
    ASSUME NEW op, IsOp(op), op.kind \in Batches, NEW i
    PROVE  LET r == RowOp(op, i)
           IN  /\ r.on = op.on /\ r.prefix = op.prefix /\ r.limit = op.limit
               /\ r.rows = <<op.rows[i]>>
               /\ op.kind = "CreateNodes" => r.kind = "CreateNode"
               /\ op.kind = "CreateRelationships" => r.kind = "CreateRelationship"
               /\ op.kind = "IndexSymbols" => r.kind = "IndexSymbol"
<1> DEFINE kind == CASE op.kind = "CreateNodes" -> "CreateNode"
                     [] op.kind = "CreateRelationships" -> "CreateRelationship"
                     [] op.kind = "IndexSymbols" -> "IndexSymbol"
           rows == <<op.rows[i]>>
           one == [op EXCEPT !.rows = rows]
<1>1. RowOp(op, i) = [one EXCEPT !.kind = kind]
    BY DEF RowOp
<1>2. /\ op.kind = "CreateNodes" => kind = "CreateNode"
      /\ op.kind = "CreateRelationships" => kind = "CreateRelationship"
      /\ op.kind = "IndexSymbols" => kind = "IndexSymbol"
    OBVIOUS
<1> HIDE DEF kind, rows
<1>3. one = [kind |-> op.kind, on |-> op.on, rows |-> rows, prefix |-> op.prefix, limit |-> op.limit]
    BY DEF IsOp
<1> HIDE DEF one
<1>4. [one EXCEPT !.kind = kind]
        = [kind |-> kind, on |-> op.on, rows |-> rows, prefix |-> op.prefix, limit |-> op.limit]
    BY <1>3
<1>. QED
    BY <1>1, <1>2, <1>4 DEF rows

\* What whole rows make of the records with their keys: themselves, of a
\* relationship what its type declares.
Givens(op, rows) == {[key |-> r.key, val |-> Given(op.on, r.val)] : r \in rows}

\* The effect of the first n rows of a batch.
Part(d, op, n) ==
    CASE op.kind = "CreateNodes" -> MergeNodes(d, op.on, LastOfFirst(op.rows, n))
      [] op.kind = "CreateRelationships" ->
            MergeRels(d, op.on, Linkable(d, op.on, Givens(op, LastOfFirst(op.rows, n))))
      [] OTHER -> MergeVecs(d, LastOfFirst(op.rows, n))

\* Of a row only the key and the properties are merged.
LEMMA MergedRows ==
    ASSUME NEW d, NEW label, NEW rows, Shape(d)
    PROVE  MergeNodes(d, label, {[key |-> r.key, val |-> r.val] : r \in rows}) = MergeNodes(d, label, rows)
<1> DEFINE bare == {[key |-> r.key, val |-> r.val] : r \in rows}
           new(R) == {[label |-> label, key |-> r.key, val |-> r.val] : r \in R}
           kept(R) == {n \in d.node : ~(n.label = label /\ n.key \in Keys(R))}
<1>1. \A R : MergeNodes(d, label, R) = [node |-> kept(R) \union new(R), rel |-> d.rel, vec |-> d.vec]
    BY MergeNodesShape
<1>2. Keys(bare) = Keys(rows) /\ new(bare) = new(rows)
    <2>1. ASSUME NEW r \in rows PROVE \E s \in bare : s.key = r.key /\ s.val = r.val
        <3> DEFINE s == [key |-> r.key, val |-> r.val]
        <3>1. s \in bare /\ s.key = r.key /\ s.val = r.val
            OBVIOUS
        <3>. QED
            BY <3>1
    <2>2. \A s \in bare : \E r \in rows : s.key = r.key /\ s.val = r.val
        OBVIOUS
    <2> HIDE DEF bare
    <2>. QED
        BY <2>1, <2>2 DEF Keys
<1>3. kept(bare) = kept(rows)
    BY <1>2
<1> HIDE DEF bare, new, kept
<1>4. MergeNodes(d, label, bare) = MergeNodes(d, label, rows)
    BY <1>1, <1>2, <1>3
<1>. QED
    BY <1>4 DEF bare

\* The records with the keys of a batch of whole rows have its columns only,
\* before it, after it and between its rows.
LEMMA PartColumns ==
    ASSUME NEW d, NEW op, Shape(d), op.kind = "CreateNodes", WholeRows(d, op), IsRows(op.rows),
           NEW n \in 0..Len(op.rows), NEW i \in DOMAIN op.rows
    PROVE  /\ \A p \in NodeProps(d, op.on, op.rows[i].key) : p[1] \in BatchColumns(op)
           /\ \A p \in NodeProps(Part(d, op, n), op.on, op.rows[i].key) : p[1] \in BatchColumns(op)
<1> DEFINE key == op.rows[i].key
           first == LastOfFirst(op.rows, n)
<1>1. ASSUME NEW m \in d.node, m.label = op.on, m.key = key, NEW p \in m.val
      PROVE  p[1] \in BatchColumns(op)
    BY <1>1 DEF WholeRows, Columns
<1>2. ASSUME NEW r \in first, NEW p \in r.val
      PROVE  p[1] \in BatchColumns(op)
    <2>1. PICK j \in 1..n : r = op.rows[j]
        BY DEF LastOfFirst
    <2>2. j \in DOMAIN op.rows
        BY DEF IsRows
    <2>. QED
        BY <2>1, <2>2 DEF BatchColumns, Columns
<1>3. ASSUME NEW m \in Part(d, op, n).node
      PROVE  m \in d.node \/ \E r \in first : m.val = r.val
    <2>1. Part(d, op, n) = MergeNodes(d, op.on, first)
        BY DEF Part
    <2> HIDE DEF first
    <2>2. m \in {x \in d.node : ~(x.label = op.on /\ x.key \in Keys(first))}
                  \union {[label |-> op.on, key |-> r.key, val |-> r.val] : r \in first}
        BY <2>1, MergeNodesShape
    <2>. QED
        BY <2>2
<1> HIDE DEF first, key
<1>4. \A p \in NodeProps(d, op.on, key) : p[1] \in BatchColumns(op)
    BY <1>1 DEF NodeProps
<1>5. ASSUME NEW p \in NodeProps(Part(d, op, n), op.on, key) PROVE p[1] \in BatchColumns(op)
    <2>1. PICK m \in Part(d, op, n).node : m.label = op.on /\ m.key = key /\ p \in m.val
        BY DEF NodeProps
    <2>. QED
        BY <1>1, <1>2, <1>3, <2>1
<1>. QED
    BY <1>4, <1>5 DEF key

\* A batch of whole rows replaces the records with their keys.
LEMMA WholeNodeRows ==
    ASSUME NEW d, NEW op, Shape(d), op.kind = "CreateNodes", WholeRows(d, op), IsRows(op.rows)
    PROVE  NodeRows(d, op) = {[key |-> r.key, val |-> r.val] : r \in LastOfEach(op.rows)}
<1>1. ASSUME NEW r \in LastOfEach(op.rows)
      PROVE  NodeVal(op, NodeProps(d, op.on, r.key), r.val) = r.val
    <2>1. PICK i \in DOMAIN op.rows : r = op.rows[i]
        BY DEF LastOfEach
    <2>2. 0 \in 0..Len(op.rows)
        BY DEF IsRows
    <2>3. \A p \in NodeProps(d, op.on, r.key) : p[1] \in BatchColumns(op)
        BY <2>1, <2>2, PartColumns
    <2>. QED
        BY <2>3 DEF NodeVal, SetColumns
<1>. QED
    BY <1>1 DEF NodeRows

\* So does each of the rows on its own, after those before it.
LEMMA WholeNodeRow ==
    ASSUME NEW d, NEW op, Shape(d), op.kind = "CreateNodes", WholeRows(d, op), IsRows(op.rows),
           NEW n \in 1..Len(op.rows), NEW row, row.kind = "CreateNode", row.on = op.on,
           LastOfEach(row.rows) = {op.rows[n]}
    PROVE  NodeRows(Part(d, op, n - 1), row)
             = {[key |-> r.key, val |-> r.val] : r \in {op.rows[n]}}
<1> DEFINE r == op.rows[n]
           was == NodeProps(Part(d, op, n - 1), op.on, r.key)
<1>1. n \in DOMAIN op.rows /\ n - 1 \in 0..Len(op.rows)
    BY DEF IsRows
<1>2. \A p \in was : p[1] \in BatchColumns(op)
    BY <1>1, PartColumns
<1>3. Columns(r.val) = BatchColumns(op)
    BY <1>1 DEF WholeRows
<1>4. r.val = {} => was = {}
    BY <1>2, <1>3 DEF Columns
<1>5. NodeVal(row, was, r.val) = r.val
    <2> HIDE DEF was
    <2>. QED
        BY <1>4 DEF NodeVal
<1>. QED
    BY <1>5 DEF NodeRows

\* A relationship gets all that its type declares from each of its whole rows.
LEMMA WholeRelRow ==
    ASSUME NEW e, NEW op, SchemaKept(e), NEW r, NEW row,
           row.kind = "CreateRelationship", row.on = op.on, LastOfEach(row.rows) = {r},
           RelSchemaProps(op.on) \subseteq Columns(r.val)
    PROVE  RelRows(e, row) = Givens(op, {r})
<1> DEFINE was == RelProps(e, op.on, r.key)
           given == Given(op.on, r.val)
<1>1. ASSUME NEW p \in was PROVE p[1] \in RelSchemaProps(op.on)
    <2>1. PICK f \in e.rel : f.type = op.on /\ p \in f.val
        BY DEF RelProps
    <2>. QED
        BY <2>1 DEF SchemaKept, Columns
<1>2. RelSchemaProps(op.on) \subseteq Columns(given)
    BY DEF Given, Columns
<1>3. RelVal(row, was, r.val) = given
    <2>1. RelVal(row, was, r.val) = SetColumns(was, Columns(given), given)
        BY DEF RelVal
    <2> HIDE DEF was, given
    <2>. QED
        BY <1>1, <1>2, <2>1 DEF SetColumns
<1> HIDE DEF was, given
<1>. QED
    BY <1>3 DEF RelRows, Givens, was, given

LEMMA PartNone ==
    ASSUME NEW d, NEW op, Shape(d)
    PROVE  Part(d, op, 0) = d
<1>0. PICK none : none = {}
    OBVIOUS
<1>1. Keys(none) = {} /\ d = [node |-> d.node, rel |-> d.rel, vec |-> d.vec]
    BY <1>0 DEF Keys, Shape
<1>2. MergeNodes(d, op.on, none) = d
    <2> DEFINE nodes == {n \in d.node : ~(n.label = op.on /\ n.key \in Keys(none))}
                          \union {[label |-> op.on, key |-> r.key, val |-> r.val] : r \in none}
    <2>1. nodes = d.node
        BY <1>0, <1>1
    <2>2. MergeNodes(d, op.on, none) = [node |-> nodes, rel |-> d.rel, vec |-> d.vec]
        BY MergeNodesShape
    <2> HIDE DEF nodes
    <2>. QED
        BY <1>1, <2>1, <2>2
<1>3. Linkable(d, op.on, none) = none /\ MergeRels(d, op.on, none) = d
    <2> DEFINE rels == {e \in d.rel : ~(e.type = op.on /\ e.key \in Keys(none))}
                         \union {[type |-> op.on, key |-> r.key, val |-> r.val] : r \in none}
    <2>1. rels = d.rel
        BY <1>0, <1>1
    <2>2. MergeRels(d, op.on, none) = [node |-> d.node, rel |-> rels, vec |-> d.vec]
        BY MergeRelsShape
    <2>3. Linkable(d, op.on, none) = none
        BY <1>0 DEF Linkable
    <2> HIDE DEF rels
    <2>. QED
        BY <1>1, <2>1, <2>2, <2>3
<1>4. MergeVecs(d, none) = d
    <2> DEFINE vecs == {v \in d.vec : v.key \notin Keys(none)} \union none
    <2>1. vecs = d.vec
        BY <1>0, <1>1
    <2>2. MergeVecs(d, none) = [node |-> d.node, rel |-> d.rel, vec |-> vecs]
        BY MergeVecsShape
    <2> HIDE DEF vecs
    <2>. QED
        BY <1>1, <2>1, <2>2
<1>5. LastOfFirst(op.rows, 0) = none /\ Givens(op, none) = none
    BY <1>0, LastOfNone DEF Givens
<1>. QED
    BY <1>2, <1>3, <1>4, <1>5 DEF Part

LEMMA PartAll ==
    ASSUME NEW d, NEW op, Shape(d), WholeRows(d, op), IsRows(op.rows), op.kind \in Batches
    PROVE  Part(d, op, Len(op.rows)) = Effect(d, op)
<1>1. LastOfFirst(op.rows, Len(op.rows)) = LastOfEach(op.rows)
    BY LastOfAll
<1>2. CASE op.kind = "CreateNodes"
    <2>1. Effect(d, op) = MergeNodes(d, op.on, NodeRows(d, op))
        BY <1>2 DEF Effect
    <2>2. Part(d, op, Len(op.rows)) = MergeNodes(d, op.on, LastOfEach(op.rows))
        BY <1>1, <1>2 DEF Part
    <2>. QED
        BY <1>2, <2>1, <2>2, WholeNodeRows, MergedRows
<1>3. CASE op.kind = "CreateRelationships"
    <2>1. RelRows(d, op) = Givens(op, LastOfEach(op.rows))
        BY <1>3 DEF RelRows, RelVal, Givens
    <2>. QED
        BY <1>1, <1>3, <2>1 DEF Part, Effect
<1>4. CASE op.kind = "IndexSymbols"
    BY <1>1, <1>4 DEF Part, Effect
<1>. QED
    BY <1>2, <1>3, <1>4 DEF Batches

\* The relationships written so far have the columns of their type.
LEMMA PartSchema ==
    ASSUME NEW d, NEW op, Shape(d), SchemaKept(d), op.kind = "CreateRelationships", NEW n
    PROVE  SchemaKept(Part(d, op, n))
<1> DEFINE rows == Linkable(d, op.on, Givens(op, LastOfFirst(op.rows, n)))
<1>1. Part(d, op, n) = MergeRels(d, op.on, rows)
    BY DEF Part
<1>2. ASSUME NEW r \in rows PROVE Columns(r.val) \subseteq RelSchemaProps(op.on)
    BY DEF Linkable, Givens, Given, Columns
<1> HIDE DEF rows
<1>3. ASSUME NEW e \in Part(d, op, n).rel PROVE Columns(e.val) \subseteq RelSchemaProps(e.type)
    <2>1. e \in d.rel \/ \E r \in rows : e = [type |-> op.on, key |-> r.key, val |-> r.val]
        BY <1>1, MergeRelsShape
    <2>2. CASE e \in d.rel
        BY <2>2 DEF SchemaKept
    <2>3. CASE \E r \in rows : e = [type |-> op.on, key |-> r.key, val |-> r.val]
        <3>1. PICK r \in rows : e = [type |-> op.on, key |-> r.key, val |-> r.val]
            BY <2>3
        <3>2. e.val = r.val /\ e.type = op.on
            BY <3>1
        <3>. QED
            BY <1>2, <3>2
    <2>. QED
        BY <2>1, <2>2, <2>3
<1>. QED
    BY <1>3 DEF SchemaKept

LEMMA PartMore ==
    ASSUME NEW d, NEW op, Shape(d), SchemaKept(d), IsOp(op), IsRows(op.rows), WholeRows(d, op),
           op.kind \in Batches, NEW n \in 1..Len(op.rows)
    PROVE  Part(d, op, n) = Effect(Part(d, op, n - 1), RowOp(op, n))
<1> DEFINE r == op.rows[n]
           before == LastOfFirst(op.rows, n - 1)
           all == {s \in before : s.key # r.key} \union {r}
           row == RowOp(op, n)
           once == Part(d, op, n - 1)
<1>0. n \in Nat \ {0} /\ n \in DOMAIN op.rows
    BY DEF IsRows
<1>1. LastOfFirst(op.rows, n) = all
    BY <1>0, LastOfMore
<1>2. row.on = op.on /\ LastOfEach(row.rows) = {r}
    <2>1. row.on = op.on /\ row.rows = <<r>>
        BY RowOpIs
    <2> HIDE DEF row, r
    <2>. QED
        BY <2>1, LastOfOne
<1>3. /\ op.kind = "CreateNodes" => row.kind = "CreateNode"
      /\ op.kind = "CreateRelationships" => row.kind = "CreateRelationship"
      /\ op.kind = "IndexSymbols" => row.kind = "IndexSymbol"
    BY RowOpIs
<1>4. CASE op.kind = "CreateNodes"
    <2>1. once = MergeNodes(d, op.on, before) /\ Part(d, op, n) = MergeNodes(d, op.on, all)
        BY <1>1, <1>4 DEF Part
    <2>2. NodeRows(once, row) = {[key |-> s.key, val |-> s.val] : s \in {r}}
        BY <1>2, <1>3, <1>4, WholeNodeRow
    <2>4. Shape(once)
        BY <2>1, MergeNodesShape DEF Shape
    <2> HIDE DEF once, before, row, r
    <2>5. Effect(once, row) = MergeNodes(once, op.on, NodeRows(once, row))
        BY <1>2, <1>3, <1>4 DEF Effect
    <2>6. Effect(once, row) = MergeNodes(once, op.on, {r})
        BY <2>2, <2>4, <2>5, MergedRows
    <2>3. Part(d, op, n) = Effect(once, row)
        BY <2>1, <2>6, MergeNodesMore
    <2>. QED
        BY <2>3 DEF once, row
<1>5. CASE op.kind = "CreateRelationships"
    <2> DEFINE rels == Givens(op, before)
               g == [key |-> r.key, val |-> Given(op.on, r.val)]
    <2>1. /\ once = MergeRels(d, op.on, Linkable(d, op.on, rels))
          /\ Part(d, op, n) = MergeRels(d, op.on, Linkable(d, op.on, Givens(op, all)))
        BY <1>1, <1>5 DEF Part
    <2>2. RelRows(once, row) = Givens(op, {r})
        <3>1. SchemaKept(once) /\ RelSchemaProps(op.on) \subseteq Columns(r.val)
            BY <1>0, <1>5, PartSchema DEF WholeRows
        <3> HIDE DEF once, row, r
        <3>. QED
            BY <1>2, <1>3, <1>5, <3>1, WholeRelRow
    <2>4. Givens(op, {r}) = {g} /\ g.key = r.key
        BY DEF Givens
    <2>5. Givens(op, all) = {s \in rels : s.key # g.key} \union {g}
        <3> HIDE DEF before, r
        <3>. QED
            BY DEF Givens
    <2> HIDE DEF once, before, row, r, rels, g, all
    <2>6. Effect(once, row) = MergeRels(once, op.on, Linkable(once, op.on, {g}))
        BY <1>2, <1>3, <1>5, <2>2, <2>4 DEF Effect
    <2>3. Part(d, op, n) = Effect(once, row)
        BY <2>1, <2>5, <2>6, MergeRelsMore
    <2>. QED
        BY <2>3 DEF once, row
<1>6. CASE op.kind = "IndexSymbols"
    <2>1. once = MergeVecs(d, before) /\ Part(d, op, n) = MergeVecs(d, all)
        BY <1>1, <1>6 DEF Part
    <2> HIDE DEF once, before, row, r
    <2>2. Effect(once, row) = MergeVecs(once, {r})
        BY <1>2, <1>3, <1>6 DEF Effect
    <2>3. Part(d, op, n) = Effect(once, row)
        BY <2>1, <2>2, MergeVecsMore
    <2>. QED
        BY <2>3 DEF once, row
<1>. QED
    BY <1>4, <1>5, <1>6 DEF Batches

\* The recursion has one solution, which is Part: there is no least row at
\* which another one could differ.
LEMMA RowByRowIs ==
    ASSUME NEW d, NEW op, Shape(d), SchemaKept(d), IsOp(op), IsRows(op.rows), WholeRows(d, op),
           op.kind \in Batches
    PROVE  RowByRow(d, op) = Part(d, op, Len(op.rows))
<1> DEFINE N == Len(op.rows)
           Solves(f) == f = [i \in 0..N |-> IF i = 0 THEN d ELSE Effect(f[i - 1], RowOp(op, i))]
           g == [i \in 0..N |-> Part(d, op, i)]
           f == CHOOSE h : Solves(h)
<1>0. N \in Nat
    BY DEF IsRows
<1>1. RowByRow(d, op) = f[N]
    BY DEF RowByRow
<1>2. Solves(g)
    <2>1. ASSUME NEW i \in 0..N
          PROVE  g[i] = IF i = 0 THEN d ELSE Effect(g[i - 1], RowOp(op, i))
        <3>1. CASE i = 0
            BY <3>1, PartNone
        <3>2. CASE i # 0
            <4>1. i - 1 \in 0..N /\ i \in 1..N
                BY <1>0, <3>2
            <4>2. g[i] = Part(d, op, i) /\ g[i - 1] = Part(d, op, i - 1)
                BY <4>1
            <4>. QED
                BY <3>2, <4>1, <4>2, PartMore
        <3>. QED
            BY <3>1, <3>2
    <2>. QED
        BY <2>1
<1>3. Solves(f)
    <2> HIDE DEF Solves, g
    <2>. QED
        BY <1>2
<1> HIDE DEF f
<1>4. \A i \in 0..N : f[i] = IF i = 0 THEN d ELSE Effect(f[i - 1], RowOp(op, i))
    BY <1>3
<1> HIDE DEF Solves, N
<1>5. ASSUME NEW i \in 0..N, f[i] # Part(d, op, i) PROVE FALSE
    <2> DEFINE wrong == {j \in 0..N : f[j] # Part(d, op, j)}
    <2>1. wrong \in SUBSET Nat /\ wrong # {}
        BY <1>5
    <2>2. PICK j \in wrong : \A m \in wrong : j <= m
        BY <2>1, LeastNatural
    <2>3. j # 0
        BY <1>4, <2>2, PartNone
    <2>4. j - 1 \in 0..N /\ j \in 1..N /\ ~(j <= j - 1)
        BY <1>0, <2>2, <2>3
    <2>5. f[j - 1] = Part(d, op, j - 1)
        BY <2>2, <2>4
    <2>6. f[j] = Effect(f[j - 1], RowOp(op, j))
        BY <1>4, <2>2, <2>3
    <2>7. Part(d, op, j) = Effect(Part(d, op, j - 1), RowOp(op, j))
        BY <2>4, PartMore DEF N
    <2>. QED
        BY <2>2, <2>5, <2>6, <2>7
<1>. QED
    BY <1>0, <1>1, <1>5 DEF N

\* Writing a batch of whole rows is writing its rows one by one, however often
\* a key is repeated and whichever relationships lack an end: setting columns
\* then comes to replacing records (createNodes(), createRelationships() and
\* indexSymbols() against their per-row methods).
THEOREM BatchWritesItsRows ==
    ASSUME NEW d, NEW op, Shape(d), SchemaKept(d), IsOp(op), IsRows(op.rows), WholeRows(d, op),
           op.kind \in Batches
    PROVE  Effect(d, op) = RowByRow(d, op)
BY PartAll, RowByRowIs

\* A batch is accepted when each of its rows is.
LEMMA BatchAccepted ==
    ASSUME NEW op, IsOp(op), IsRows(op.rows), op.kind \in Batches, op.prefix = "own", op.on # Blank
    PROVE  Accepts(op) <=> \A i \in DOMAIN op.rows : RowSound(op, i)
<1>1. ASSUME NEW i
      PROVE  LET r == RowOp(op, i)
             IN  /\ r.on = op.on /\ r.prefix = op.prefix /\ DOMAIN r.rows = {1} /\ r.rows[1] = op.rows[i]
                 /\ op.kind = "CreateNodes" => r.kind = "CreateNode"
                 /\ op.kind = "CreateRelationships" => r.kind = "CreateRelationship"
                 /\ op.kind = "IndexSymbols" => r.kind = "IndexSymbol"
    <2>1. LET r == RowOp(op, i)
          IN  /\ r.on = op.on /\ r.prefix = op.prefix /\ r.rows = <<op.rows[i]>>
              /\ op.kind = "CreateNodes" => r.kind = "CreateNode"
              /\ op.kind = "CreateRelationships" => r.kind = "CreateRelationship"
              /\ op.kind = "IndexSymbols" => r.kind = "IndexSymbol"
        BY RowOpIs
    <2>2. DOMAIN <<op.rows[i]>> = {1} /\ <<op.rows[i]>>[1] = op.rows[i]
        OBVIOUS
    <2>. QED
        BY <2>1, <2>2
<1>2. CASE op.kind = "CreateNodes"
    <2>1. Accepts(op) <=> \A i \in DOMAIN op.rows : op.rows[i].key # Blank
        BY <1>2 DEF Accepts, AcceptsMetadata, AcceptsGraph, GraphMethods, VectorMethods
    <2>2. ASSUME NEW i PROVE RowSound(op, i) <=> op.rows[i].key # Blank
        BY <1>1, <1>2 DEF RowSound, Accepts, AcceptsMetadata, AcceptsGraph, GraphMethods, VectorMethods
    <2>. QED
        BY <2>1, <2>2
<1>3. CASE op.kind = "CreateRelationships"
    <2>1. Accepts(op) <=>
              \A i \in DOMAIN op.rows : op.rows[i].key[1] # Blank /\ op.rows[i].key[2] # Blank
        BY <1>3 DEF Accepts, AcceptsMetadata, AcceptsGraph, GraphMethods, VectorMethods
    <2>2. ASSUME NEW i
          PROVE  RowSound(op, i) <=> op.rows[i].key[1] # Blank /\ op.rows[i].key[2] # Blank
        BY <1>1, <1>3 DEF RowSound, Accepts, AcceptsMetadata, AcceptsGraph, GraphMethods, VectorMethods
    <2>. QED
        BY <2>1, <2>2
<1>4. CASE op.kind = "IndexSymbols"
    <2>1. Accepts(op) <=>
              \A i \in DOMAIN op.rows : op.rows[i].key # Blank /\ Sound(op.rows[i].val)
        BY <1>4 DEF Accepts, AcceptsMetadata, AcceptsVector, GraphMethods, VectorMethods
    <2>2. ASSUME NEW i
          PROVE  RowSound(op, i) <=> op.rows[i].key # Blank /\ Sound(op.rows[i].val)
        BY <1>1, <1>4 DEF RowSound, Accepts, AcceptsMetadata, AcceptsVector, GraphMethods, VectorMethods
    <2>. QED
        BY <2>1, <2>2
<1>. QED
    BY <1>2, <1>3, <1>4 DEF Batches

\* The batch methods of the adapters and the checks of the router agree with
\* the per-row ones, in every state and, as to what is written, for whole rows
\* (router.ts, ladybug-graph-adapter.ts,
\* ladybug-vector-adapter.ts).
THEOREM BatchesAreTheirRows == Spec => []BatchIsRows
<1>1. IInv => BatchIsRows
    <2> SUFFICES ASSUME IInv, NEW c \in Clients, call[c].op.kind \in Batches,
                        call[c].op.prefix = "own", call[c].op.on # Blank
                 PROVE  /\ Accepts(call[c].op) <=> \A i \in DOMAIN call[c].op.rows : RowSound(call[c].op, i)
                        /\ WholeRows(db, call[c].op) => Effect(db, call[c].op) = RowByRow(db, call[c].op)
        BY DEF BatchIsRows
    <2>1. call[c].op \in AllOps
        BY DEF IInv, CallsInv, CallRecords, NoCall, Batches
    <2>2. IsOp(call[c].op) /\ IsRows(call[c].op.rows)
        BY <2>1, StoreAssumption DEF AllOps, IsOp, IsRows
    <2>3. Shape(db) /\ SchemaKept(db)
        BY DEF IInv, StoreInv, Consistent
    <2>. QED
        BY <2>2, <2>3, BatchAccepted, BatchWritesItsRows
<1>. QED
    BY <1>1, Invariance, PTL

=============================================================================
