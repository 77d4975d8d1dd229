------------------------------ MODULE Catalog ------------------------------
(***************************************************************************)
(* Reading a catalog from SQLite (database/sqlite.py, _sqlite_sql.py) or   *)
(* PostgreSQL (database/_postgresql_catalog.py), making it whole           *)
(* (database/_catalog.py), and finding later whether the database is still *)
(* the one that was read.  A call has one read-only transaction: the       *)
(* database does not change while it is read, only between two calls.      *)
(*                                                                         *)
(* In SQLite two names are the same if they differ in case alone: the      *)
(* numbers 2k and 2k + 1 are such a pair.  An expression is a sequence of  *)
(* words.  Types are opaque for SQLite.                                    *)
(*                                                                         *)
(* What a catalog is, comes first: the contract (contracts/database.py),   *)
(* the graph of its foreign keys (domain/database_graph.py) and the        *)
(* canonical form behind its fingerprint (domain/database_fingerprint.py). *)
(* A table's identifier is <<schema, name>>, a column's is <<table, name>>:*)
(* identifiers are hashes of these.  Names are numbers, which also gives   *)
(* the order in which tables are sorted.  A collection whose order is only *)
(* that of hashes is a set.                                                *)
(***************************************************************************)
EXTENDS Integers, Sequences, FiniteSets
LOCAL INSTANCE SequencesExt
LOCAL INSTANCE FiniteSetsExt
LOCAL INSTANCE Functions

CONSTANTS
    Nothing,        \* a model value: what is not there
    Targets,        \* [dialect, include, deny, schemas, database, changes : a set of [database, same]]
    CatalogLimits,  \* [tables, columns, constraints, depth]
    Types           \* PostgreSQL: oid -> [kind, base, not_null, schema]

VARIABLES
    target,
    database,       \* table -> what the database holds of it
    reader,         \* the call: phase, names still to read, tables read, error, catalog, canonical form
    before          \* the canonical form a first call has found

catalogVars == <<target, database, reader, before>>

ColumnId(table, name) == <<table, name>>
ColumnIds(t) == {t.columns[i].id : i \in DOMAIN t.columns}

-----------------------------
(* The contract. *)

(* PK columns are not nullable; what the database computes is not written. *)
ColumnFits(c) ==
    /\ ~(c.primary_key /\ c.nullable)
    /\ (c.generation # Nothing \/ c.identity = "always") => ~c.writable
    /\ c.autoincrement => c.rowid_alias

KeyFits(k) ==
    /\ k.columns # <<>> /\ Len(k.columns) = Len(k.parent_columns)
    /\ IsInjective(k.columns) /\ IsInjective(k.parent_columns)
    /\ k.on_delete_columns \subseteq ToSet(k.columns)

IndexFits(x) == x.keys # <<>> /\ \A i \in DOMAIN x.keys : x.keys[i].column = Nothing <=> x.keys[i].expression # Nothing

IndexColumns(x) == {x.keys[i].column : i \in DOMAIN x.keys} \ {Nothing}

TableFits(t) ==
    /\ t.columns # <<>> /\ Cardinality(ColumnIds(t)) = Len(t.columns)
    /\ \A i \in DOMAIN t.columns : ColumnFits(t.columns[i])
    /\ t.kind # "table" => ~t.writable /\ \A i \in DOMAIN t.columns : ~t.columns[i].writable
    /\ \A x, y \in ToSet(t.indexes) : x.name = y.name => x = y
    /\ \A x \in ToSet(t.indexes) : IndexFits(x) /\ IndexColumns(x) \cup x.include \subseteq ColumnIds(t)
    /\ \A c \in t.constraints : ToSet(c.columns) \subseteq ColumnIds(t)
    /\ IsInjective(t.primary_key)
    /\ ToSet(t.primary_key) = {t.columns[i].id : i \in {j \in DOMAIN t.columns : t.columns[j].primary_key}}
    /\ \A j, k \in t.foreign_keys : j.id = k.id => j = k
    /\ \A k \in t.foreign_keys : KeyFits(k) /\ ToSet(k.columns) \subseteq ColumnIds(t)
    /\ IsInjective(t.uniques)
    /\ \A u \in ToSet(t.uniques) : u # <<>> /\ IsInjective(u) /\ ToSet(u) \subseteq ColumnIds(t)

(* A snapshot's foreign keys lead to tables and columns of the snapshot. *)
SnapshotFits(tables) ==
    /\ Cardinality({tables[i].id : i \in DOMAIN tables}) = Len(tables)
    /\ \A t \in ToSet(tables) : \A k \in t.foreign_keys : \E p \in ToSet(tables) :
         p.id = k.parent /\ ToSet(k.parent_columns) \subseteq ColumnIds(p)

-----------------------------
(* The graph: edges lead from the parent to the child. *)

Edges(tables) ==
    {[parent |-> k.parent, child |-> t.id, key |-> k.id,
      parent_columns |-> k.parent_columns, child_columns |-> k.columns]
        : <<t, k>> \in {<<u, j>> \in ToSet(tables) \X UNION {v.foreign_keys : v \in ToSet(tables)}
                          : j \in u.foreign_keys}}

Children(nodes, edges) == [n \in nodes |-> {e.child : e \in {d \in edges : d.parent = n}} \cap nodes]
Parents(nodes, edges) == [n \in nodes |-> {e.parent : e \in {d \in edges : d.child = n}} \cap nodes]

Precedes(m, n) == m[1] < n[1] \/ (m[1] = n[1] /\ m[2] < n[2])
Sorted(nodes) == SetToSortSeq(nodes, Precedes)
Least(nodes) == Sorted(nodes)[1]

(* Kahn's algorithm with a heap: the least node whose parents are all done. *)
RECURSIVE Ordered(_, _, _, _)
Ordered(order, ready, indegrees, children) ==
    IF ready = {} THEN order
    ELSE LET node == Least(ready)
             left == [n \in DOMAIN indegrees |-> indegrees[n] - (IF n \in children[node] THEN 1 ELSE 0)]
         IN Ordered(Append(order, node),
                    (ready \ {node}) \cup {n \in children[node] : left[n] = 0}, left, children)

(* Slip: a child is ready with its first parent. *)
RECURSIVE Ordered_First(_, _, _, _)
Ordered_First(order, ready, indegrees, children) ==
    IF ready = {} THEN order
    ELSE LET node == Least(ready)
         IN Ordered_First(Append(order, node),
                (ready \ {node}) \cup {n \in children[node] : indegrees[n] > 0},
                [n \in DOMAIN indegrees |-> IF n \in children[node] THEN 0 ELSE indegrees[n]], children)
DependencyOrder_First(nodes, edges) ==
    LET parents == Parents(nodes, edges)
        order == Ordered_First(<<>>, {n \in nodes : parents[n] = {}},
                         [n \in nodes |-> Cardinality(parents[n])], Children(nodes, edges))
    IN IF Len(order) = Cardinality(nodes) THEN order ELSE Nothing

DependencyOrder(nodes, edges) ==
    LET parents == Parents(nodes, edges)
        order == Ordered(<<>>, {n \in nodes : parents[n] = {}},
                         [n \in nodes |-> Cardinality(parents[n])], Children(nodes, edges))
    IN IF Len(order) = Cardinality(nodes) THEN order ELSE Nothing

(* Kosaraju's algorithm: the order in which a depth-first walk along the    *)
(* children leaves the nodes, then walks along the parents from the last.   *)
RECURSIVE Finished(_, _, _)
Finished(roots, walk, children) ==
    IF roots = <<>> THEN walk
    ELSE Finished(Tail(roots),
            IF roots[1] \in walk.visited THEN walk
            ELSE LET below == Finished(Sorted(children[roots[1]]),
                                       [walk EXCEPT !.visited = @ \cup {roots[1]}], children)
                 IN [below EXCEPT !.finished = Append(@, roots[1])],
            children)

RECURSIVE Reached(_, _, _)
Reached(from, visited, next) ==
    IF from = {} THEN visited
    ELSE Reached((UNION {next[n] : n \in from}) \ visited, visited \cup UNION {next[n] : n \in from}, next)

RECURSIVE Gathered(_, _, _, _)
Gathered(roots, visited, components, parents) ==
    IF roots = <<>> THEN components
    ELSE LET found == Reached({roots[1]}, visited \cup {roots[1]}, parents) \ visited
         IN IF roots[1] \in visited THEN Gathered(Tail(roots), visited, components, parents)
            ELSE Gathered(Tail(roots), visited \cup found, components \cup {found}, parents)

Components(nodes, edges) ==
    Gathered(Reverse(Finished(Sorted(nodes), [visited |-> {}, finished |-> <<>>], Children(nodes, edges)).finished),
             {}, {}, Parents(nodes, edges))

Within(members, edges) == {e \in edges : e.parent \in members /\ e.child \in members}
Cycles(components, edges) ==
    {[tables |-> members, keys |-> Within(members, edges)]
        : members \in {c \in components : Within(c, edges) # {}}}

(* A table that only relates two others: two foreign keys to two tables     *)
(* cover all its columns, and a key of the table is made of all of them.    *)
IsJoin(t) ==
    /\ t.kind = "table" /\ Cardinality(t.foreign_keys) = 2
    /\ \A j, k \in t.foreign_keys : j # k =>
         /\ j.parent # k.parent /\ t.id # j.parent
         /\ ToSet(j.columns) \cap ToSet(k.columns) = {}
    /\ UNION {ToSet(k.columns) : k \in t.foreign_keys} = ColumnIds(t)
    /\ \A i \in DOMAIN t.columns :
         ~t.columns[i].nullable /\ t.columns[i].generation = Nothing /\ t.columns[i].identity = Nothing
    /\ \A c \in t.constraints : c.kind \in {"foreign_key", "primary_key", "unique"} => c.validated /\ c.enforced
    /\ \E u \in {t.primary_key} \cup ToSet(t.uniques) : ToSet(u) = ColumnIds(t)

Graph(tables, nodes, edges, order, cycles) ==
    [nodes |-> nodes, edges |-> edges,
     order |-> IF cycles = {} THEN order ELSE Nothing,
     load |-> IF cycles = {} THEN SelectSeq(order, LAMBDA n : \E t \in ToSet(tables) : t.id = n /\ t.writable)
              ELSE Nothing,
     cycles |-> cycles,
     joins |-> {t.id : t \in {u \in ToSet(tables) : IsJoin(u) /\ \A c \in cycles : u.id \notin c.tables}}]

ComponentsIf(order, nodes, edges) == IF order # Nothing THEN {} ELSE Components(nodes, edges)
GraphFor(tables, nodes, edges, order) ==
    Graph(tables, nodes, edges, IF order = Nothing THEN <<>> ELSE order,
          Cycles(ComponentsIf(order, nodes, edges), edges))
BuildGraph(tables, nodes, edges) == GraphFor(tables, nodes, edges, DependencyOrder(nodes, edges))

(* The graph's own contract. *)
CycleFits(c) ==
    /\ c.tables # {} /\ c.keys # {}
    /\ {e.parent : e \in c.keys} = c.tables /\ {e.child : e \in c.keys} = c.tables
    /\ LET first == CHOOSE n \in c.tables : TRUE
       IN \A next \in {Children(c.tables, c.keys), Parents(c.tables, c.keys)} :
            Reached({first}, {first}, next) = c.tables

(* The cycles are all there is: with each of them made one node, the rest   *)
(* of the graph has an order.                                               *)
Condensed(n, cycles) == IF \E c \in cycles : n \in c.tables
                        THEN Least((CHOOSE c \in cycles : n \in c.tables).tables) ELSE n
CoverageFits(g) ==
    LET outer == {[parent |-> Condensed(e.parent, g.cycles), child |-> Condensed(e.child, g.cycles)] : e \in g.edges}
    IN /\ \A e \in g.edges : Condensed(e.parent, g.cycles) = Condensed(e.child, g.cycles)
                               => \E c \in g.cycles : e \in c.keys
       /\ DependencyOrder({Condensed(n, g.cycles) : n \in g.nodes}, {e \in outer : e.parent # e.child}) # Nothing

Place(seq, x) == CHOOSE i \in DOMAIN seq : seq[i] = x
GraphFits(g) ==
    /\ \A e \in g.edges : {e.parent, e.child} \subseteq g.nodes
    /\ g.cycles # {} =>
         /\ \A c \in g.cycles : CycleFits(c) /\ c.tables \subseteq g.nodes /\ c.keys \subseteq g.edges
         /\ \A c, d \in g.cycles : c # d => c.tables \cap d.tables = {}
         /\ CoverageFits(g)
    /\ g.cycles = {} =>
         /\ IsInjective(g.order) /\ ToSet(g.order) = g.nodes
         /\ \A e \in g.edges : Place(g.order, e.parent) < Place(g.order, e.child)
         /\ IsInjective(g.load) /\ ToSet(g.load) \subseteq g.nodes
         /\ \A i, j \in DOMAIN g.load : i < j => Place(g.order, g.load[i]) < Place(g.order, g.load[j])

CatalogFits(tables, graph) ==
    /\ SnapshotFits(tables)
    /\ graph.nodes = {t.id : t \in ToSet(tables)}
    /\ graph.edges = Edges(tables)
    /\ graph.load # Nothing => ToSet(graph.load) = {t.id : t \in {u \in ToSet(tables) : u.writable}}

-----------------------------
(* Identifiers of foreign keys that do not depend on the order in which the *)
(* database reports them: equal keys are told apart by a count.             *)
KeyBase(t, k) == <<t.id, k.parent, k.columns, k.parent_columns, k.actions>>
StableKeys(t) ==
    {[k EXCEPT !.id = <<"fk", KeyBase(t, k),
                        Cardinality({j \in t.foreign_keys : KeyBase(t, j) = KeyBase(t, k) /\ j.place <= k.place})>>,
               !.place = 0]
        : k \in t.foreign_keys}
Stable(tables) == [i \in DOMAIN tables |-> [tables[i] EXCEPT !.foreign_keys = StableKeys(tables[i])]]

(* The canonical form: names for identifiers, and every collection sorted   *)
(* by its members' own content, so that only how often a member occurs      *)
(* counts.                                                                  *)
Bag(seq) == [x \in ToSet(seq) |-> Cardinality({i \in DOMAIN seq : seq[i] = x})]
NamesOf(ids) == [i \in DOMAIN ids |-> ids[i][2]]
BagOver(set, Item(_)) == [x \in {Item(y) : y \in set} |-> Cardinality({y \in set : Item(y) = x})]

PrintOfColumn(c) ==
    [name |-> c.id[2], type |-> c.type, ordinal |-> c.ordinal, nullable |-> c.nullable, key |-> c.primary_key,
     unique |-> c.unique, generation |-> c.generation, expression |-> c.expression, identity |-> c.identity,
     auto |-> c.autoincrement, alias |-> c.rowid_alias]
PrintOfKey(k) ==
    [columns |-> NamesOf(k.columns), parent |-> k.parent, parent_columns |-> NamesOf(k.parent_columns),
     actions |-> k.actions, on_delete |-> {c[2] : c \in k.on_delete_columns}]
PrintOfIndexKey(x) == [x EXCEPT !.column = IF x.column = Nothing THEN Nothing ELSE x.column[2]]
PrintOfIndex(x, dialect) ==
    [name |-> IF dialect = "sqlite" /\ x.origin # "index" THEN Nothing ELSE x.name,
     keys |-> [i \in DOMAIN x.keys |-> PrintOfIndexKey(x.keys[i])],
     unique |-> x.unique, predicate |-> x.predicate, origin |-> x.origin, include |-> {c[2] : c \in x.include}]
PrintOfTable(t, dialect) ==
    [id |-> t.id, kind |-> t.kind, flags |-> t.flags,
     columns |-> {PrintOfColumn(t.columns[i]) : i \in DOMAIN t.columns},
     primary_key |-> NamesOf(t.primary_key),
     foreign_keys |-> BagOver(t.foreign_keys, PrintOfKey),
     uniques |-> Bag([i \in DOMAIN t.uniques |-> NamesOf(t.uniques[i])]),
     checks |-> Bag(t.checks),
     constraints |-> {[c EXCEPT !.columns = NamesOf(c.columns)] : c \in t.constraints},
     indexes |-> Bag([i \in DOMAIN t.indexes |-> PrintOfIndex(t.indexes[i], dialect)])]

CanonicalCatalog(tables, dialect) == {PrintOfTable(tables[i], dialect) : i \in DOMAIN tables}

-----------------------------
(* Reading. *)

Same(m, n) == m \div 2 = n \div 2       \* _sqlite_name
NoCatalog == [tables |-> <<>>, graph |-> Nothing]
NewCall == [phase |-> "scope", rest |-> <<>>, tables |-> <<>>, error |-> Nothing,
            catalog |-> NoCatalog, print |-> Nothing]
Fails(error) == [NewCall EXCEPT !.phase = "failed", !.error = error]

-----------------------------
(* What may be read. *)

SqliteAllowed(t) == {id \in t.include : \A d \in t.deny : ~Same(d[2], id[2])}
PostgresAllowed(t) ==
    {id \in t.include : id \notin t.deny /\ (t.requested = {} \/ id[1] \in t.requested) /\ id[1] \in t.schemas}
InScope(t) == IF t.dialect = "sqlite" THEN SqliteAllowed(t) ELSE PostgresAllowed(t)

ScopeError(t) ==
    CASE ~(t.requested \subseteq t.schemas) -> "TARGET_NOT_ALLOWED"
      [] InScope(t) = {} -> "TARGET_NOT_ALLOWED"
      [] Cardinality(InScope(t)) > CatalogLimits.tables -> "SECURITY_LIMIT_EXCEEDED"
      [] OTHER -> Nothing

-----------------------------
(* SQLite keeps the text of CREATE TABLE; the parts PRAGMAs do not report   *)
(* are found in it.  Depth counts the open parentheses.                     *)

Word(word, depth) == [word |-> word, name |-> Nothing, quoted |-> FALSE, depth |-> depth]
Parenthesised(words) ==
    <<Word("(", 1)>> \o [i \in DOMAIN words |-> Word(words[i], 2)] \o <<Word(")", 1)>>
NameToken(c) == [word |-> IF c.quoted THEN "CHECK" ELSE "id", name |-> c.name, quoted |-> c.quoted, depth |-> 1]

ColumnSql(c) ==
    <<NameToken(c), Word(c.type, 1)>>
    \o (IF c.generation = Nothing THEN <<>> ELSE <<Word("AS", 1)>> \o Parenthesised(c.expression))
    \o (IF c.check = Nothing THEN <<>> ELSE <<Word("CHECK", 1)>> \o Parenthesised(c.check))
    \o (IF c.auto THEN <<Word("AUTOINCREMENT", 1)>> ELSE <<>>)
CheckSql(check) == <<Word("CONSTRAINT", 1), Word("id", 1), Word("CHECK", 1)>> \o Parenthesised(check)
OddSql(t) == IF t.odd = Nothing THEN <<>> ELSE <<Word("UNIQUE", 1)>> \o Parenthesised(<<"id">>) \o t.odd
Joined(parts) == FoldLeft(LAMBDA all, part : all \o (IF all = <<>> \/ part = <<>> THEN <<>> ELSE <<Word(",", 1)>>) \o part,
                          <<>>, parts)
TableSql(t) == Joined([i \in DOMAIN t.columns |-> ColumnSql(t.columns[i])]
                      \o [i \in DOMAIN t.checks |-> CheckSql(t.checks[i])] \o <<OddSql(t)>>)

Keyword(token, words) == ~token.quoted /\ token.word \in words
GroupEnd(tokens, i) == CHOOSE j \in i + 1..Len(tokens) :
    /\ Keyword(tokens[j], {")"}) /\ tokens[j].depth = tokens[i].depth
    /\ \A k \in i + 1..j - 1 : ~(Keyword(tokens[k], {")"}) /\ tokens[k].depth = tokens[i].depth)
ExpressionAt(tokens, i) == [k \in 1..GroupEnd(tokens, i) - i - 1 |-> tokens[i + k].word]

TableConstraints == {"CONSTRAINT", "PRIMARY", "UNIQUE", "CHECK", "FOREIGN"}
IsOdd(tokens, i) ==
    \/ Keyword(tokens[i], {"DEFERRABLE", "COLLATE"})
    \/ Keyword(tokens[i], {"ON"}) /\ i < Len(tokens) /\ Keyword(tokens[i + 1], {"CONFLICT"})

(* One token of depth 1 that is neither odd nor a comma.  A column of the   *)
(* definition is at stake from its name to the next comma.                  *)
ColumnAt(d, token, names) ==
    IF ~d.at_start THEN d.column
    ELSE IF token.name \in names /\ ~Keyword(token, TableConstraints) THEN token.name ELSE Nothing
Takes(d, tokens, i, column) ==
    IF d.at_start /\ column # Nothing THEN [d EXCEPT !.at_start = FALSE, !.column = column]
    ELSE [d EXCEPT !.at_start = FALSE, !.column = column,
                   !.checks = IF Keyword(tokens[i], {"CHECK"}) THEN Append(@, ExpressionAt(tokens, i + 1)) ELSE @,
                   !.generated = IF Keyword(tokens[i], {"AS"}) /\ column # Nothing
                                 THEN [@ EXCEPT ![column] = ExpressionAt(tokens, i + 1)] ELSE @,
                   !.auto = @ \/ Keyword(tokens[i], {"AUTOINCREMENT"})]
TokenStep(d, tokens, i, names) ==
    IF tokens[i].depth # 1 THEN d
    ELSE IF IsOdd(tokens, i) THEN [d EXCEPT !.odd = TRUE]
    ELSE IF Keyword(tokens[i], {","}) THEN [d EXCEPT !.at_start = TRUE, !.column = Nothing]
    ELSE Takes(d, tokens, i, ColumnAt(d, tokens[i], names))

NewDefinition(names) == [at_start |-> TRUE, column |-> Nothing, checks |-> <<>>, auto |-> FALSE, odd |-> FALSE,
                         generated |-> [n \in names |-> Nothing]]
TableDefinition(tokens, names) ==
    FoldLeftDomain(LAMBDA d, i : TokenStep(d, tokens, i, names), NewDefinition(names), tokens)

-----------------------------
(* A table of SQLite. *)

SqliteNames(t) == {t.columns[i].name : i \in DOMAIN t.columns}
DefinitionOf(t) == IF t.kind = "table" THEN TableDefinition(TableSql(t), SqliteNames(t))
                   ELSE NewDefinition(SqliteNames(t))
PrimaryOf(t) == SetToSortSeq({i \in DOMAIN t.columns : t.columns[i].pk > 0},
                             LAMBDA i, j : t.columns[i].pk < t.columns[j].pk)
RowidAlias(t) ==
    /\ Len(PrimaryOf(t)) = 1 /\ t.columns[PrimaryOf(t)[1]].type = "INTEGER"
    /\ "without_rowid" \notin t.flags
    /\ \A i \in DOMAIN t.indexes : t.indexes[i].origin # "pk"

(* A column of its own unique: the one key of an unconditional index. *)
UniqueAlone(t) ==
    {x.keys[1].column : x \in {y \in ToSet(t.indexes) :
        y.unique /\ y.origin # "pk" /\ y.predicate = Nothing /\ Len(y.keys) = 1}}

SqliteNullable(t, c) == c.null /\ ~(c.pk > 0 /\ (RowidAlias(t) \/ t.flags # {}))

SqliteColumn(id, t, i, definition) ==
    LET c == t.columns[i] IN
    [id |-> ColumnId(id, c.name), ordinal |-> i - 1, type |-> c.type,
     nullable |-> SqliteNullable(t, c), primary_key |-> c.pk > 0, unique |-> c.name \in UniqueAlone(t),
     generation |-> c.generation, expression |-> definition.generated[c.name], identity |-> Nothing,
     writable |-> definition.generated[c.name] = Nothing /\ t.kind = "table",
     autoincrement |-> c.pk > 0 /\ definition.auto, rowid_alias |-> c.pk > 0 /\ RowidAlias(t)]

Origins == [c |-> "index", u |-> "unique_constraint", pk |-> "primary_key"]
SqliteIndex(id, x) ==
    [name |-> x.name, origin |-> Origins[x.origin], unique |-> x.unique, predicate |-> x.predicate, include |-> {},
     keys |-> [i \in DOMAIN x.keys |->
        [column |-> IF x.keys[i].column = Nothing THEN Nothing ELSE ColumnId(id, x.keys[i].column),
         expression |-> x.keys[i].expression, collation |-> x.keys[i].collation]]]

SqliteTable(id, t, definition) ==
    [id |-> id, kind |-> IF t.kind = "view" THEN "view" ELSE "table", flags |-> t.flags,
     columns |-> [i \in DOMAIN t.columns |-> SqliteColumn(id, t, i, definition)],
     primary_key |-> [k \in DOMAIN PrimaryOf(t) |-> ColumnId(id, t.columns[PrimaryOf(t)[k]].name)],
     uniques |-> LET own == SelectSeq(t.indexes, LAMBDA x : x.origin = "u")
                 IN [i \in DOMAIN own |-> [k \in DOMAIN own[i].keys |-> ColumnId(id, own[i].keys[k].column)]],
     checks |-> definition.checks, constraints |-> {}, writable |-> t.kind = "table",
     indexes |-> [i \in DOMAIN t.indexes |-> SqliteIndex(id, t.indexes[i])],
     foreign_keys |-> {}]

SqliteError(id, t, definition) ==
    CASE t.kind = "virtual" -> "DATABASE_METADATA_UNSUPPORTED"
      [] Len(t.columns) > CatalogLimits.columns -> "SECURITY_LIMIT_EXCEEDED"
      [] definition.odd -> "DATABASE_METADATA_UNSUPPORTED"
      [] \E i \in DOMAIN t.indexes : \E k \in DOMAIN t.indexes[i].keys :
           t.indexes[i].keys[k].column = Nothing /\ t.indexes[i].keys[k].expression = Nothing
             -> "DATABASE_METADATA_UNSUPPORTED"
      [] \E i \in DOMAIN t.columns : t.columns[i].pk > 0 /\ SqliteNullable(t, t.columns[i])
             -> "DATABASE_METADATA_UNSUPPORTED"
      [] \E i \in DOMAIN t.columns :
           t.columns[i].generation # Nothing <=> definition.generated[t.columns[i].name] = Nothing
             -> "DATABASE_METADATA_UNSUPPORTED"
      [] Len(definition.checks) + Len(t.indexes) + Len(t.keys) > CatalogLimits.constraints -> "SECURITY_LIMIT_EXCEEDED"
      [] ~TableFits(SqliteTable(id, t, definition)) -> "DATABASE_INSPECTION_FAILED"
      [] OTHER -> Nothing

FirstError(errors) == LET told == SelectSeq(errors, LAMBDA e : e # Nothing)
                      IN IF told = <<>> THEN Nothing ELSE told[1]

(* Foreign keys, once all tables are read.  place is where the key stands   *)
(* among those the database reports, and its identifier until the catalog   *)
(* is assembled.                                                            *)
NamedIn(tables, name) == {t \in ToSet(tables) : Same(t.id[2], name)}
Resolvable(t, names) == \A i \in DOMAIN names : \E c \in ColumnIds(t) : Same(c[2], names[i])
ColumnsNamed(t, names) == [i \in DOMAIN names |-> CHOOSE c \in ColumnIds(t) : Same(c[2], names[i])]
ParentColumns(p, k) == IF k.parent_columns = Nothing THEN p.primary_key ELSE ColumnsNamed(p, k.parent_columns)
SqliteKey(t, p, k, place) ==
    [id |-> <<place>>, place |-> place, columns |-> ColumnsNamed(t, k.columns), parent |-> p.id,
     parent_columns |-> ParentColumns(p, k), actions |-> k.actions, on_delete_columns |-> {}]

KeyError(t, tables, k) ==
    CASE NamedIn(tables, k.parent) = {} -> "DATABASE_CATALOG_SCOPE_INCOMPLETE"
      [] ~Resolvable(t, k.columns) -> "DATABASE_CATALOG_SCOPE_INCOMPLETE"
      [] k.parent_columns # Nothing /\ \E p \in NamedIn(tables, k.parent) : ~Resolvable(p, k.parent_columns)
           -> "DATABASE_CATALOG_SCOPE_INCOMPLETE"
      [] \E p \in NamedIn(tables, k.parent) : Len(ParentColumns(p, k)) # Len(k.columns)
           -> "DATABASE_METADATA_UNSUPPORTED"
      [] OTHER -> Nothing

KeysHeld(id) == IF database[id].kind = "table" THEN database[id].keys ELSE <<>>
KeyErrors(t, tables) == [i \in DOMAIN KeysHeld(t.id) |-> KeyError(t, tables, KeysHeld(t.id)[i])]
ResolveError(tables) == FirstError(FlattenSeq([i \in DOMAIN tables |-> KeyErrors(tables[i], tables)]))
WithKeys(t, tables) ==
    [t EXCEPT !.foreign_keys = {SqliteKey(t, CHOOSE p \in NamedIn(tables, KeysHeld(t.id)[i].parent) : TRUE, KeysHeld(t.id)[i], i)
                                  : i \in DOMAIN KeysHeld(t.id)}]
Resolved(tables) == [i \in DOMAIN tables |-> WithKeys(tables[i], tables)]

-----------------------------
(* A table of PostgreSQL.  A column is referred to by its number, which a   *)
(* dropped column leaves unused.                                            *)

RECURSIVE TypeError(_, _)
TypeError(oid, depth) ==
    IF depth >= CatalogLimits.depth THEN "SECURITY_LIMIT_EXCEEDED"
    ELSE IF oid \notin DOMAIN Types \/ (Types[oid].schema # Nothing /\ Types[oid].schema \notin {n[1] : n \in InScope(target)})
    THEN "DATABASE_CATALOG_SCOPE_INCOMPLETE"
    ELSE IF Types[oid].base = Nothing THEN Nothing ELSE TypeError(Types[oid].base, depth + 1)

(* A domain over a domain that refuses NULL refuses it too; an array of     *)
(* such a domain does not.                                                  *)
RECURSIVE DomainNotNull(_)
DomainNotNull(oid) ==
    Types[oid].kind = "domain" /\ (Types[oid].not_null \/ DomainNotNull(Types[oid].base))

Numbered(id, t, n) == ColumnId(id, t.columns[CHOOSE i \in DOMAIN t.columns : t.columns[i].number = n].name)
AllNumbered(t, numbers) == ToSet(numbers) \subseteq {t.columns[i].number : i \in DOMAIN t.columns}
NumberedAll(id, t, numbers) == [i \in DOMAIN numbers |-> Numbered(id, t, numbers[i])]
OfKind(t, kind) == SelectSeq(t.constraints, LAMBDA c : c.kind = kind)
Ordinals(t) == SetToSortSeq(DOMAIN t.columns, LAMBDA i, j : t.columns[i].number < t.columns[j].number)

PostgresPrimary(id, t) == IF OfKind(t, "p") = <<>> THEN <<>> ELSE NumberedAll(id, t, Last(OfKind(t, "p")).columns)
PostgresUniques(id, t) == {NumberedAll(id, t, c.columns) : c \in ToSet(OfKind(t, "u"))}
IsWritable(t) == t.kind \in {"r", "p"}

PostgresColumn(id, t, place) ==
    LET c == t.columns[Ordinals(t)[place]]
        own == ColumnId(id, c.name)
    IN [id |-> own, ordinal |-> place - 1, type |-> c.type,
        nullable |-> c.null /\ ~DomainNotNull(c.type),
        primary_key |-> own \in ToSet(PostgresPrimary(id, t)), unique |-> <<own>> \in PostgresUniques(id, t),
        generation |-> c.generation, expression |-> c.expression, identity |-> c.identity,
        writable |-> IsWritable(t) /\ c.generation = Nothing /\ c.identity # "always",
        autoincrement |-> FALSE, rowid_alias |-> FALSE]

ConstraintKinds == [p |-> "primary_key", u |-> "unique", c |-> "check", f |-> "foreign_key", n |-> "not_null"]
PostgresKey(id, t, c) ==
    [id |-> c.name, place |-> 0, columns |-> NumberedAll(id, t, c.columns), parent |-> c.parent,
     parent_columns |-> NumberedAll(c.parent, database[c.parent], c.parent_columns),
     actions |-> <<c.name, c.actions>>, on_delete_columns |-> ToSet(NumberedAll(id, t, c.on_delete))]
PostgresIndex(id, t, x) ==
    [name |-> x.name, unique |-> x.unique, predicate |-> x.predicate,
     origin |-> IF x.primary THEN "primary_key" ELSE IF x.constraint THEN "unique_constraint" ELSE "index",
     include |-> ToSet(NumberedAll(id, t, x.include)),
     keys |-> [i \in DOMAIN x.keys |->
        [column |-> IF x.keys[i].number = 0 THEN Nothing ELSE Numbered(id, t, x.keys[i].number),
         expression |-> IF x.keys[i].number = 0 THEN x.keys[i].expression ELSE Nothing,
         collation |-> x.keys[i].collation]]]

PostgresTable(id, t) ==
    [id |-> id, kind |-> CASE t.kind = "v" -> "view" [] t.kind = "m" -> "materialized_view" [] OTHER -> "table",
     flags |-> IF t.kind = "p" THEN {"partitioned"} ELSE {},
     columns |-> [i \in DOMAIN t.columns |-> PostgresColumn(id, t, i)],
     primary_key |-> PostgresPrimary(id, t), uniques |-> SetToSeq(PostgresUniques(id, t)),
     checks |-> [i \in DOMAIN OfKind(t, "c") |-> OfKind(t, "c")[i].expression],
     constraints |-> {[kind |-> ConstraintKinds[c.kind], name |-> c.name, columns |-> NumberedAll(id, t, c.columns),
                       expression |-> c.expression, validated |-> c.validated,
                       enforced |-> c.enforced] : c \in ToSet(t.constraints)},
     writable |-> IsWritable(t),
     indexes |-> [i \in DOMAIN t.indexes |-> PostgresIndex(id, t, t.indexes[i])],
     foreign_keys |-> {PostgresKey(id, t, c) : c \in ToSet(OfKind(t, "f"))}]

(* Before any table is put together, every relation is looked at: no key    *)
(* leads out of the scope, and no column has a collation of its own.        *)
RelationError(t) ==
    CASE t.kind \notin {"r", "p", "v", "m"} -> "DATABASE_METADATA_UNSUPPORTED"
      [] Len(t.constraints) > CatalogLimits.constraints -> "SECURITY_LIMIT_EXCEEDED"
      [] \E c \in ToSet(t.constraints) : c.kind = "f" /\ c.parent \notin InScope(target)
           -> "DATABASE_CATALOG_SCOPE_INCOMPLETE"
      [] Len(t.columns) > CatalogLimits.columns -> "SECURITY_LIMIT_EXCEEDED"
      [] \E i \in DOMAIN t.columns : t.columns[i].collated -> "DATABASE_METADATA_UNSUPPORTED"
      [] OTHER -> Nothing

TypeErrorOf(t) == FirstError([i \in DOMAIN t.columns |-> TypeError(t.columns[i].type, 0)])
PostgresError(id, t) ==
    CASE \E c \in ToSet(t.constraints) : c.kind \notin DOMAIN ConstraintKinds \/ ~AllNumbered(t, c.columns)
           -> "DATABASE_METADATA_UNSUPPORTED"
      [] TypeErrorOf(t) # Nothing -> TypeErrorOf(t)
      [] ~TableFits(PostgresTable(id, t)) -> "DATABASE_METADATA_UNSUPPORTED"
      [] OTHER -> Nothing
TableError(tables) == FirstError([i \in DOMAIN tables |-> PostgresError(tables[i].id, database[tables[i].id])])

-----------------------------
(* A call: inspect(request). *)

Scope ==
    /\ reader.phase = "scope"
    /\ reader' = IF ScopeError(target) # Nothing THEN Fails(ScopeError(target))
                 ELSE [NewCall EXCEPT !.phase = "read", !.rest = Sorted(InScope(target))]
    /\ UNCHANGED <<target, database, before>>

Reads(table) == [reader EXCEPT !.rest = Tail(@), !.tables = Append(@, table),
                               !.phase = IF Len(reader.rest) = 1 THEN "resolve" ELSE "read"]

(* Only a name spelled as the database spells it is found. *)
ReadMissing ==
    /\ reader.phase = "read" /\ reader.rest[1] \notin DOMAIN database
    /\ reader' = Fails("DATABASE_OBJECT_NOT_FOUND")
    /\ UNCHANGED <<target, database, before>>

SqliteRead(id, t, definition) ==
    IF SqliteError(id, t, definition) # Nothing THEN Fails(SqliteError(id, t, definition))
    ELSE Reads(SqliteTable(id, t, definition))

ReadSqlite ==
    /\ reader.phase = "read" /\ target.dialect = "sqlite" /\ reader.rest[1] \in DOMAIN database
    /\ reader' = SqliteRead(reader.rest[1], database[reader.rest[1]], DefinitionOf(database[reader.rest[1]]))
    /\ UNCHANGED <<target, database, before>>

ReadPostgres ==
    /\ reader.phase = "read" /\ target.dialect = "postgresql" /\ reader.rest[1] \in DOMAIN database
    /\ reader' = IF RelationError(database[reader.rest[1]]) # Nothing THEN Fails(RelationError(database[reader.rest[1]]))
                 ELSE Reads([id |-> reader.rest[1]])
    /\ UNCHANGED <<target, database, before>>

Snapshot(tables, failure) ==
    IF (\A i \in DOMAIN tables : TableFits(tables[i])) /\ SnapshotFits(tables)
    THEN [reader EXCEPT !.phase = "assemble", !.tables = tables]
    ELSE Fails(failure)

ResolveSqlite ==
    /\ reader.phase = "resolve" /\ target.dialect = "sqlite"
    /\ reader' = IF ResolveError(reader.tables) # Nothing THEN Fails(ResolveError(reader.tables))
                 ELSE Snapshot(Resolved(reader.tables), "DATABASE_INSPECTION_FAILED")
    /\ UNCHANGED <<target, database, before>>

ResolvePostgres ==
    /\ reader.phase = "resolve" /\ target.dialect = "postgresql"
    /\ reader' = IF TableError(reader.tables) # Nothing THEN Fails(TableError(reader.tables))
                 ELSE Snapshot([i \in DOMAIN reader.tables |->
                                 PostgresTable(reader.tables[i].id, database[reader.tables[i].id])],
                               "DATABASE_METADATA_UNSUPPORTED")
    /\ UNCHANGED <<target, database, before>>

(* In a thread, after the connection is closed.  A contract that fails here *)
(* would be reported by no code of the adapter's.                           *)
Whole(tables, graph) ==
    IF ~GraphFits(graph) \/ ~CatalogFits(tables, graph) \/ \E i \in DOMAIN tables : ~TableFits(tables[i])
    THEN Fails("untyped")
    ELSE [NewCall EXCEPT !.phase = "given", !.catalog = [tables |-> tables, graph |-> graph],
                         !.print = CanonicalCatalog(tables, target.dialect)]
IdsOf(tables) == {tables[i].id : i \in DOMAIN tables}
Assembled(tables) == Whole(tables, BuildGraph(tables, IdsOf(tables), Edges(tables)))

Assemble ==
    /\ reader.phase = "assemble"
    /\ reader' = Assembled(Stable(reader.tables))
    /\ UNCHANGED <<target, database, before>>

(* Time passes, and a second call compares with what the first has found. *)
Change ==
    /\ reader.phase = "given" /\ before = Nothing
    /\ \E change \in target.changes :
         /\ database' = change.database
         /\ target' = [target EXCEPT !.changes = {change}]
    /\ before' = reader.print
    /\ reader' = NewCall

(* verify_database_fingerprint *)
VerifyCatalog ==
    /\ reader.phase = "given" /\ before # Nothing
    /\ reader' = [reader EXCEPT !.phase = IF reader.print = before THEN "same" ELSE "drifted"]
    /\ UNCHANGED <<target, database, before>>

CatalogInit ==
    /\ target \in Targets
    /\ database = target.database
    /\ reader = NewCall
    /\ before = Nothing

CatalogNext ==
    \/ Scope
    \/ ReadMissing
    \/ ReadSqlite
    \/ ReadPostgres
    \/ ResolveSqlite
    \/ ResolvePostgres
    \/ Assemble
    \/ Change
    \/ VerifyCatalog

CatalogSpec == CatalogInit /\ [][CatalogNext]_catalogVars

-----------------------------
(* What the database itself says, table by table. *)

KeyTuples(id) ==
    IF target.dialect = "sqlite" THEN database[id].keys ELSE OfKind(database[id], "f")
ParentOf(id, k) ==
    IF target.dialect = "sqlite" THEN CHOOSE p \in InScope(target) : Same(p[2], k.parent) ELSE k.parent
IsChildOf(child, parent) == \E k \in ToSet(KeyTuples(child)) : ParentOf(child, k) = parent

(* The tables that rows of a table depend on, through any number of keys. *)
RECURSIVE Ancestors(_, _)
Ancestors(found, rest) ==
    IF rest = {} THEN found
    ELSE LET more == {p \in InScope(target) : \E c \in rest : IsChildOf(c, p)} \ found
         IN Ancestors(found \cup more, more)
DependsOn(id) == Ancestors({}, {id})
Circular == {id \in InScope(target) : id \in DependsOn(id)}

KeysAreWhole(catalog) ==
    \A i \in DOMAIN catalog.tables :
        LET t == catalog.tables[i] IN
        /\ Cardinality(t.foreign_keys) = Len(KeyTuples(t.id))
        /\ \A k \in ToSet(KeyTuples(t.id)) : \E f \in t.foreign_keys :
             f.parent = ParentOf(t.id, k) /\ Len(f.columns) = Len(k.columns)
        /\ \A j \in DOMAIN t.columns :
             t.columns[j].writable => database[t.id].kind \in {"table", "r", "p"} /\ t.columns[j].generation = Nothing
        /\ target.dialect = "sqlite" =>
             Len(t.checks) = Cardinality({c \in DOMAIN database[t.id].columns : database[t.id].columns[c].check # Nothing})
                               + Len(database[t.id].checks)
OrderIsTrue(graph) ==
    /\ graph.load # Nothing <=> Circular = {}
    /\ graph.load # Nothing =>
         /\ \A id \in InScope(target) : database[id].kind \in {"table", "r", "p"}
                                          => Cardinality({i \in DOMAIN graph.load : graph.load[i] = id}) = 1
         /\ \A i, j \in DOMAIN graph.load : graph.load[i] \in DependsOn(graph.load[j]) => i < j
    /\ UNION {c.tables : c \in graph.cycles} = Circular
    /\ \A c \in graph.cycles : \A m, n \in c.tables : m \in DependsOn(n)
    /\ \A m, n \in Circular : m \in DependsOn(n) /\ n \in DependsOn(m)
         => \E c \in graph.cycles : {m, n} \subseteq c.tables

(* A later call tells whether the structure has changed: not if only the    *)
(* order has in which the database reports it, and always if a key, a       *)
(* constraint, a column or an index has.                                    *)
DriftIsSeen ==
    reader.phase \in {"same", "drifted"} =>
        (reader.phase = "same") = (CHOOSE change \in target.changes : TRUE).same

(* A catalog that is given is the whole scope: every foreign key is there,  *)
(* as often as the database has it, and leads to the columns it leads to in *)
(* the database; there is an order to load in exactly if no table depends   *)
(* on itself, it has every table that can be written once, and parents      *)
(* first; otherwise the tables that depend on each other are told.  The     *)
(* contracts never fail where no code of the adapter's would report it.     *)
(* And a later call sees every change that matters, and no other            *)
(* (database/sqlite.py:_resolve_foreign_keys, domain/database_graph.py,     *)
(* domain/database_fingerprint.py).                                         *)
CatalogIsTrue ==
    /\ reader.error # "untyped"
    /\ reader.phase \in {"given", "same", "drifted"} =>
         KeysAreWhole(reader.catalog) /\ OrderIsTrue(reader.catalog.graph)
    /\ DriftIsSeen
=============================================================================
