----------------------------- MODULE GraphStore -----------------------------
(***************************************************************************)
(* The database behind the graph and vector adapters, as a value, and what *)
(* the operations of the adapters do to it                                 *)
(* (src/infrastructure/persistence/ladybug-graph-adapter.ts,               *)
(* ladybug-vector-adapter.ts; the database itself is external).            *)
(*                                                                         *)
(*    node  records [label, key, val]                                      *)
(*    rel   records [type, key, val]: key is <<from, to>>                  *)
(*    vec   records [key, val]: the embeddings table                       *)
(*                                                                         *)
(* val is the set of the record's properties, each a pair of a column and  *)
(* its value: a column that is null has no pair.  An operation is a record *)
(* [kind, on, rows]: on is the label or the type, rows the sequence of     *)
(* [key, val] it writes, one for the per-row methods; the rows of a        *)
(* deletion by file paths have the paths as keys.                          *)
(***************************************************************************)
EXTENDS Naturals, Sequences, FiniteSets

\* initializeSchema() creates a table for each label and for each type, the
\* latter from one label to another; REL_LABEL_MAP repeats the endpoints.
Labels == {"Symbol", "Cluster", "Process", "Metadata", "ExternalDependency"}
RelLabelMap ==
    [t \in {"CALLS", "IMPORTS", "INHERITS", "IMPLEMENTS", "REFERENCES",
            "DEFINES", "CONTAINS", "HAS_STEP", "DEPENDS_ON"} |->
        CASE t = "CONTAINS" -> <<"Cluster", "Symbol">>
          [] t = "HAS_STEP" -> <<"Process", "Symbol">>
          [] t = "DEPENDS_ON" -> <<"Symbol", "ExternalDependency">>
          [] OTHER -> <<"Symbol", "Symbol">>]
Types == DOMAIN RelLabelMap

\* The columns a relationship of a type can have.
RelSchemaProps(type) == IF type = "HAS_STEP" THEN {"step_order"} ELSE {}

Empty == [node |-> {}, rel |-> {}, vec |-> {}]

Reads == {"QueryNodes", "QueryRelationships", "RunCypher", "SemanticSearch"}
Batches == {"CreateNodes", "CreateRelationships", "IndexSymbols"}
Deletions == {"DeleteNodesByLabel", "DeleteRelationshipsByType", "DeleteAll",
              "DeleteSymbolsByFilePaths", "DeleteByFilePaths"}

\* A statement on a table the schema does not have fails, also after
\* execWithSchemaRetry() has created the schema again; an empty batch has no
\* statement.
HasTable(op) ==
    \/ op.kind \in Batches /\ op.rows = <<>>
    \/ CASE op.kind \in {"CreateNode", "CreateNodes", "QueryNodes",
                         "DeleteNodesByLabel"} -> op.on \in Labels
         [] op.kind \in {"CreateRelationship", "CreateRelationships",
                         "QueryRelationships", "DeleteRelationshipsByType"} ->
               op.on \in Types
         [] OTHER -> TRUE

-----------------------------------------------------------------------------
\* Regression: the first row with a key wins.
FirstOfEach(rows) ==
    {rows[i] : i \in {n \in DOMAIN rows : \A m \in 1..(n - 1) : rows[m].key # rows[n].key}}

\* UNWIND runs MERGE and SET row by row: the last row with a key wins.
LastOfEach(rows) ==
    {rows[i] : i \in {n \in DOMAIN rows :
                         \A m \in (n + 1)..Len(rows) : rows[m].key # rows[n].key}}

Keys(rows) == {r.key : r \in rows}

Columns(props) == {p[1] : p \in props}
BatchColumns(op) == UNION {Columns(op.rows[i].val) : i \in DOMAIN op.rows}

\* The columns are set: to what the row has in them, or to null.
SetColumns(was, columns, row) == {p \in was : p[1] \notin columns} \union row

\* createNode() replaces all the properties of a node, SET n = {...}, unless it
\* is given none.  createNodes() sets in every row the columns that some row of
\* the batch has, SET n.c = row.c, and leaves the others.
NodeVal(op, was, row) ==
    IF op.kind = "CreateNodes" THEN SetColumns(was, BatchColumns(op), row)
    ELSE IF row = {} THEN was ELSE row

\* Properties the type does not declare are dropped.  createRelationship() sets
\* the ones it is given, createRelationships() all the type declares.
Given(type, row) == {p \in row : p[1] \in RelSchemaProps(type)}
RelVal(op, was, row) ==
    LET given == Given(op.on, row)
    IN  IF op.kind = "CreateRelationships" THEN given
        ELSE SetColumns(was, Columns(given), given)

NodeProps(d, label, key) ==
    UNION {n.val : n \in {m \in d.node : m.label = label /\ m.key = key}}
RelProps(d, type, key) ==
    UNION {e.val : e \in {f \in d.rel : f.type = type /\ f.key = key}}

\* What the rows of an operation make of the records with their keys.
NodeRows(d, op) ==
    {[key |-> r.key, val |-> NodeVal(op, NodeProps(d, op.on, r.key), r.val)] :
        r \in LastOfEach(op.rows)}
RelRows(d, op) ==
    {[key |-> r.key, val |-> RelVal(op, RelProps(d, op.on, r.key), r.val)] :
        r \in LastOfEach(op.rows)}

\* MERGE ... SET: a record with the key of a row becomes what the row makes of
\* it, or is created.
MergeNodes(d, label, rows) ==
    [d EXCEPT !.node = {n \in @ : ~(n.label = label /\ n.key \in Keys(rows))}
        \union {[label |-> label, key |-> r.key, val |-> r.val] : r \in rows}]

HasNode(d, label, key) == \E n \in d.node : n.label = label /\ n.key = key

\* Regression: a relationship is merged when its source is there.
LinkableFrom(d, type, rows) ==
    {r \in rows : HasNode(d, RelLabelMap[type][1], r.key[1])}

\* MATCH finds both endpoints or the row does nothing.
Linkable(d, type, rows) ==
    {r \in rows : /\ HasNode(d, RelLabelMap[type][1], r.key[1])
                  /\ HasNode(d, RelLabelMap[type][2], r.key[2])}

MergeRels(d, type, rows) ==
    [d EXCEPT !.rel = {e \in @ : ~(e.type = type /\ e.key \in Keys(rows))}
        \union {[type |-> type, key |-> r.key, val |-> r.val] : r \in rows}]

\* indexSymbol() and indexSymbols() set every column of the table.
MergeVecs(d, rows) ==
    [d EXCEPT !.vec = {v \in @ : v.key \notin Keys(rows)} \union rows]

\* DETACH DELETE of nodes, with every relationship that ends at one of them.
Detach(d, nodes) ==
    LET gone(label, key) == \E n \in nodes : n.label = label /\ n.key = key
    IN  [node |-> d.node \ nodes,
         rel  |-> {e \in d.rel : /\ ~gone(RelLabelMap[e.type][1], e.key[1])
                                 /\ ~gone(RelLabelMap[e.type][2], e.key[2])},
         vec  |-> d.vec]

\* A record of one of the files a deletion names.
LiesIn(r, op) == \E i \in DOMAIN op.rows : <<"filePath", op.rows[i].key>> \in r.val

-----------------------------------------------------------------------------
\* What the last statement of an operation does.
Effect(d, op) ==
    CASE op.kind \in {"CreateNode", "CreateNodes"} ->
            MergeNodes(d, op.on, NodeRows(d, op))
      [] op.kind \in {"CreateRelationship", "CreateRelationships"} ->
            MergeRels(d, op.on, Linkable(d, op.on, RelRows(d, op)))
      [] op.kind \in {"IndexSymbol", "IndexSymbols"} ->
            MergeVecs(d, LastOfEach(op.rows))
      [] op.kind = "DeleteNodesByLabel" ->
            Detach(d, {n \in d.node : n.label = op.on})
      [] op.kind = "DeleteRelationshipsByType" ->
            [d EXCEPT !.rel = {e \in @ : e.type # op.on}]
      [] op.kind = "DeleteAll" -> [d EXCEPT !.vec = {}]
      [] op.kind = "DeleteSymbolsByFilePaths" ->
            Detach(d, {n \in d.node : n.label = "Symbol" /\ LiesIn(n, op)})
      [] op.kind = "DeleteByFilePaths" ->
            [d EXCEPT !.vec = {v \in @ : ~LiesIn(v, op)}]
      [] OTHER -> d

\* What the first statement of a deletion counts.
CountRows(d, op) ==
    Cardinality(d.node \ Effect(d, op).node) +
        (IF op.kind = "DeleteRelationshipsByType"
         THEN Cardinality(d.rel \ Effect(d, op).rel) ELSE 0) +
        Cardinality(d.vec \ Effect(d, op).vec)

-----------------------------------------------------------------------------
(* What the database always is: one record for a key, and relationships    *)
(* only between nodes there are and with the columns of their type.        *)

KeysUnique(d) ==
    /\ \A m, n \in d.node : m.label = n.label /\ m.key = n.key => m = n
    /\ \A e, f \in d.rel : e.type = f.type /\ e.key = f.key => e = f
    /\ \A v, w \in d.vec : v.key = w.key => v = w

NoDanglingRel(d) ==
    \A e \in d.rel : /\ HasNode(d, RelLabelMap[e.type][1], e.key[1])
                     /\ HasNode(d, RelLabelMap[e.type][2], e.key[2])

SchemaKept(d) == \A e \in d.rel : Columns(e.val) \subseteq RelSchemaProps(e.type)

Consistent(d) == KeysUnique(d) /\ NoDanglingRel(d) /\ SchemaKept(d)
=============================================================================
