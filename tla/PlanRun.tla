------------------------------ MODULE PlanRun ------------------------------
(***************************************************************************)
(* A plan applied to a source: structure/_runtime.py selects the records,  *)
(* once for the validator (structure/validation.py) and once more for the  *)
(* executor (structure/execution.py), which yields them in batches.        *)
(*                                                                         *)
(* A job is a plan and the batches of one extraction.  A batch is          *)
(* [index, lineage, print, claims, tables, objects, nodes]: print is what  *)
(* its payload hashes to, claims the fingerprint it carries.  A table is   *)
(* [id, rows], a row [at, cells]; an object (line or block) is             *)
(* [id, text, lines]; a node [id, parent, name, kind, value, in, segment,  *)
(* last].  Texts and values are sequences of words; <<"dec">> is a decimal,*)
(* <<"bytes">> are bytes.                                                  *)
(***************************************************************************)
EXTENDS ParsePlan
LOCAL INSTANCE SequencesExt
LOCAL INSTANCE FiniteSetsExt

CONSTANTS
    Jobs,           \* [plan, batches, objects : {"line", "block"}]
    RunLimits       \* items of a record; batches that are yielded, bytes and per_batch of each, and
                    \* the envelope of it, or of a manifest; sources, heavy, objects and units
                    \* of what is read: batches, references of one, of all, and their items

VARIABLES
    job,
    doing,          \* "prepare", "validate", "accepted", "rejected", "execute", "closing", ...
    at,             \* the number of batches read in this pass
    runtime,        \* PlanRuntime
    out,            \* _Output
    verdict         \* the reason of a failure

planVars == <<job, doing, at, runtime, out, verdict>>

Failed(r, reason) == [r EXCEPT !.error = reason]
Works(r) == r.error = Missing

NewRuntime(plan) ==
    [error |-> Missing, records |-> <<>>, required |-> PlanRefs(plan),
     seen |-> [f \in DOMAIN plan.fields |-> {}],
     header |-> Missing, rows |-> 0, footer |-> FALSE,
     rooted |-> Missing, pathed |-> FALSE, buffer |-> <<>>, counts |-> <<>>,
     quotes |-> {}, scope |-> 0, position |-> 0, pending |-> <<>>, objects |-> 0, units |-> 0]

(* _observe: each field has seen those of its references that Refs names. *)
ObservedByAll(r, plan, Refs(_)) ==
    [r EXCEPT !.seen = [f \in DOMAIN @ |-> @[f] \cup (Refs(f) \cap ToSet(plan.fields[f].refs))]]

Recorded(r, record) ==
    IF Len(r.records) = PlanLimits.records THEN Failed(r, "records_limit")
    ELSE [r EXCEPT !.records = Append(@, record)]

-----------------------------
(* A record under its budget: items are entities, values and their origins. *)
NewBudget == [error |-> Missing, values |-> <<>>, items |-> 0, entities |-> <<>>]

Spent(acc, items) ==
    IF acc.items + items > RunLimits.items THEN Failed(acc, "record_budget")
    ELSE [acc EXCEPT !.items = @ + items]

WithEntity(acc) == [Spent(acc, 1) EXCEPT !.values = <<>>]

Valued(acc, plan, v) ==
    IF plan.fields[v.field].type = "money" /\ v.out # <<"dec">>
    THEN Failed(acc, "money_requires_native_decimal")
    ELSE LET s == Spent(acc, Len(v.origins) + 1)
         IN IF Works(s) THEN [s EXCEPT !.values = Append(@, v)] ELSE s

Copied(acc, plan, f, ref, raw) ==
    IF raw = <<"bytes">> THEN Failed(acc, "bytes_conversion_policy_required")
    ELSE Valued(acc, plan, [field |-> f, raw |-> raw, out |-> raw, origins |-> <<ref>>, op |-> "copy"])

(* The values of one entity, in the order of the plan's fields. *)
OverFields(acc, plan, e, Value(_, _)) ==
    FoldLeft(LAMBDA a, f : IF Works(a) /\ f \in ToSet(plan.entities[e].fields) THEN Value(a, f) ELSE a,
             acc, [f \in DOMAIN plan.fields |-> f])

Entity(e, parent, values) == [entity |-> e, parent |-> parent, values |-> values]

Closed(r, acc, e) ==
    IF Works(acc) THEN Recorded(r, <<Entity(e, 0, acc.values)>>) ELSE Failed(r, acc.error)

-----------------------------
(* Rows of a table. *)

CellRef(i, row, column) == <<"cell", i, 10 * row.at + column>>

RowRefs(plan, i, row, f) ==
    ({plan.table} \cap {<<"table", i, plan.table[3]>>})
      \cup {CellRef(i, row, c) : c \in {plan.fields[f].sel.column} \cap DOMAIN row.cells}

RowSeen(r, plan, i, row) ==
    ObservedByAll(
        [r EXCEPT !.header = IF row.at = plan.header THEN row.cells ELSE @,
                  !.footer = @ \/ row.at = plan.footer,
                  !.rows = IF row.at \in plan.start..plan.end THEN @ + 1 ELSE @],
        plan, LAMBDA f : RowRefs(plan, i, row, f))

RowValues(plan, i, row) ==
    OverFields(WithEntity(NewBudget), plan, 1, LAMBDA a, f :
        LET c == plan.fields[f].sel.column
        IN IF c \notin DOMAIN row.cells THEN Failed(a, "cell_missing")
           ELSE Copied(a, plan, f, CellRef(i, row, c), row.cells[c]))

RowTakenBy(r, plan, i, row) ==
    IF row.at \in ToSet(plan.repeated)
    THEN IF r.header = Missing \/ r.header # row.cells THEN Failed(r, "repeated_header_mismatch") ELSE r
    ELSE IF row.at \notin plan.start..plan.end THEN r
    ELSE Closed(r, RowValues(plan, i, row), 1)

RowsOf(plan, b) ==
    FlattenSeq([t \in DOMAIN b.tables |-> IF b.tables[t].id = plan.table[3] THEN b.tables[t].rows ELSE <<>>])

TableSelected(r, plan, b) ==
    FoldLeft(LAMBDA q, row : IF Works(q) THEN RowTakenBy(RowSeen(q, plan, b.index, row), plan, b.index, row) ELSE q,
             r, RowsOf(plan, b))

-----------------------------
(* Lines and blocks. *)

JoinedLines(texts) == FlattenSeq(texts)
TextOf(o) == IF o.text # Missing THEN o.text ELSE JoinedLines(o.lines)

OriginsOf(o) ==
    IF o.text # Missing THEN <<o.ref>>
    ELSE [n \in DOMAIN o.lines |-> <<"line", o.ref[2], 10 * o.ref[3] + n>>]

Behind(text) == CHOOSE i \in DOMAIN text : text[i] = ":" /\ \A j \in 1..(i - 1) : text[j] # ":"

(* What a selector takes from one object: [out, op], or the reason it fails. *)
Take(s, o) ==
    LET text == TextOf(o)
        HasKey == ":" \in ToSet(text)
        key == SubSeq(text, 1, Behind(text) - 1)
    IN CASE s.kind = "token" ->
              IF Len(text) > RunLimits.items THEN [error |-> "token_limit"]
              ELSE IF s.token >= Len(text) THEN [error |-> "token_missing"]
              ELSE [error |-> Missing, out |-> <<text[s.token + 1]>>, op |-> "token"]
         [] s.target = "block_text" ->
              [error |-> Missing, out |-> text, op |-> IF o.text # Missing THEN "copy" ELSE "join"]
         [] ~HasKey \/ (s.key # Missing /\ key # s.key) -> [error |-> "document_key_mismatch"]
         [] s.target = "key" -> [error |-> Missing, out |-> key, op |-> "key"]
         [] OTHER -> [error |-> Missing, out |-> SubSeq(text, Behind(text) + 1, Len(text)), op |-> "value"]

TakenFrom(acc, plan, f, o) ==
    LET s == plan.fields[f].sel
        took == Take(s, o)
    IN IF o.text = Missing /\ o.lines = <<>> THEN Failed(acc, "block_text_missing_or_line_limit")
       ELSE IF took.error # Missing THEN Failed(acc, took.error)
       ELSE IF took.op \notin {"copy", "join"} /\ plan.fields[f].type = "money"
            THEN Failed(acc, "money_conversion_policy_required")
       ELSE Valued(acc, plan, [field |-> f, raw |-> TextOf(o), out |-> took.out,
                               origins |-> OriginsOf(o), op |-> took.op])

GroupValues(plan, e, group) ==
    OverFields(WithEntity(NewBudget), plan, e, LAMBDA a, f :
        LET s == plan.fields[f].sel
        IN IF s.kind = "record"
           THEN LET text == JoinedLines([n \in DOMAIN group |-> TextOf(group[n])])
                IN Valued(a, plan, [field |-> f, raw |-> text, out |-> text,
                                    origins |-> [n \in DOMAIN group |-> group[n].ref], op |-> "join"])
           ELSE IF OffsetOf(s) >= Len(group) THEN Failed(a, "selector_offset")
           ELSE TakenFrom(a, plan, f, group[OffsetOf(s) + 1]))

(* _group_record: what is pending becomes a record. *)
Grouped(r, plan, e) ==
    Closed([r EXCEPT !.pending = <<>>,
                     !.seen = [f \in DOMAIN @ |->
                        IF f \in ToSet(plan.entities[e].fields)
                        THEN @[f] \cup ({r.pending[n].ref : n \in DOMAIN r.pending} \cap ToSet(plan.fields[f].refs))
                        ELSE @[f]]],
           GroupValues(plan, e, r.pending), e)

Pushed(r, plan, o) ==
    IF Len(r.pending) + 1 > (IF plan.kind = "log" THEN plan.most ELSE 64)
    THEN Failed(r, "pending_record_limit")
    ELSE [r EXCEPT !.pending = Append(@, o)]

GroupedAt(r, plan, e, length) ==
    IF Works(r) /\ Len(r.pending) = length THEN Grouped(r, plan, e) ELSE r

(* The entity and the explicit record of an object, if there is one. *)
ExplicitAt(plan, ref) ==
    {x \in {<<e, n>> : e \in DOMAIN plan.entities, n \in 1..Len(plan.scope)} :
        /\ plan.entities[x[1]].group.kind = "explicit"
        /\ x[2] <= Len(plan.entities[x[1]].group.records)
        /\ ref \in ToSet(plan.entities[x[1]].group.records[x[2]])}

ExplicitTaken(r, plan, o, e, record) ==
    IF \/ \A n \in DOMAIN record : record[n] = o.ref => n # Len(r.pending) + 1
       \/ r.pending # <<>> /\ r.pending[1].ref # record[1]
    THEN Failed(r, "overlapping_record")
    ELSE GroupedAt(Pushed(r, plan, o), plan, e, Len(record))

FullAt(g) ==
    CASE g.kind = "blocks" -> g.most
      [] g.strategy = "fixed_lines" -> g.lines
      [] g.strategy = "one_line" -> 1
      [] OTHER -> Missing

GroupTaken(r, plan, o, g) ==
    IF g.kind = "lines" /\ g.strategy = "blank_line" /\ TextOf(o) = <<>>
    THEN IF r.pending # <<>> THEN Grouped(r, plan, 1) ELSE r
    ELSE GroupedAt(Pushed(r, plan, o), plan, 1, FullAt(g))

InScope(r, plan, o) ==
    IF r.scope = Len(plan.scope) \/ plan.scope[r.scope + 1] # o.ref THEN Failed(r, "physical_scope_order")
    ELSE IF r.pending # <<>> /\ Last(r.pending).place + 1 # r.position THEN Failed(r, "noncontiguous_record")
    ELSE [r EXCEPT !.scope = @ + 1]

ObjectTaken(r, plan, o) ==
    LET explicit == ExplicitAt(plan, o.ref)
        q == InScope(r, plan, o)
    IN IF o.ref \notin ToSet(plan.scope) THEN r
       ELSE IF ~Works(q) THEN q
       ELSE IF explicit # {}
            THEN LET x == CHOOSE x \in explicit : TRUE
                 IN ExplicitTaken(q, plan, o, x[1], plan.entities[x[1]].group.records[x[2]])
       ELSE GroupTaken(q, plan, o, plan.entities[1].group)

Placed(r, b, o, kind) ==
    [id |-> o.id, text |-> o.text, lines |-> o.lines, ref |-> <<kind, b.index, o.id>>, place |-> r.position]

ObjectsSelected(r, plan, b, kind) ==
    FoldLeft(LAMBDA q, o :
                IF ~Works(q) THEN q
                ELSE LET moved == [q EXCEPT !.position = @ + 1]
                     IN ObjectTaken(moved, plan, Placed(moved, b, o, kind)),
             r, b.objects)

-----------------------------
(* Nodes of a tree. *)

Children(tree, id) == SelectSeq(tree, LAMBDA n : n.parent = id)

(* _walk: the root of the plan counts, per name, what earlier batches held. *)
Stepped(w, plan, tree, counts, step, legacy) ==
    FoldLeft(LAMBDA a, parent :
        LET below == Children(tree, parent.id)
            named == SelectSeq(below, LAMBDA n : n.name = step.name)
            passed == IF parent.id = plan.root[3] /\ step.name \in DOMAIN counts THEN counts[step.name] ELSE 0
            place == step.occurrence - passed
        IN IF ~Works(a) THEN a
           ELSE IF step.op = "item"
           THEN IF parent.kind # "array" THEN Failed(a, "item_requires_array")
                ELSE [a EXCEPT !.found = @ \o below, !.empty = @ \/ below = <<>>]
           ELSE IF legacy /\ Len(named) > 1 THEN Failed(a, "ambiguous_legacy_path")
           ELSE IF place \in 0..(Len(named) - 1) THEN [a EXCEPT !.found = Append(@, named[place + 1])]
           ELSE a,
        [w EXCEPT !.found = <<>>, !.empty = FALSE], w.found)

Walk(plan, tree, counts, starts, steps, legacy) ==
    FoldLeft(LAMBDA w, step : Stepped(w, plan, tree, counts, step, legacy),
             [found |-> starts, empty |-> FALSE, error |-> Missing], steps)

Exists(w) == w.found # <<>> \/ w.empty

NodeRef(n) == <<"node", n.in, n.id>>

NodeValued(acc, plan, f, w) ==
    LET n == w.found[1] IN
    IF ~Works(w) THEN Failed(acc, w.error)
    ELSE IF Len(w.found) # 1 THEN Failed(acc, "field_path_cardinality")
    ELSE IF plan.fields[f].sel.source = "name"
    THEN Valued(acc, plan, [field |-> f, raw |-> <<n.name>>, out |-> <<n.name>>,
                            origins |-> <<NodeRef(n)>>, op |-> "name"])
    ELSE IF n.value = Missing THEN Failed(acc, "node_value_missing")
    ELSE Copied(acc, plan, f, NodeRef(n), n.value)

NodeSeen(acc, plan, f, n) ==
    [acc EXCEPT !.seen[f] = @ \cup ({NodeRef(n), plan.root, <<"value", n.in, n.id>>}
                                      \cap ToSet(plan.fields[f].refs))]

FieldSteps(s) == IF s.steps # <<>> THEN s.steps ELSE KeysOf(s.path)

NodeTarget(acc, plan, f, w) ==
    NodeValued(IF Works(w) /\ Len(w.found) = 1 THEN NodeSeen(acc, plan, f, w.found[1]) ELSE acc, plan, f, w)

NodeField(acc, plan, tree, counts, node, f) ==
    LET s == plan.fields[f].sel
    IN NodeTarget(acc, plan, f, Walk(plan, tree, counts, <<node>>, FieldSteps(s), s.path # <<>>))

(* The nodes below a node that are its entities of one kind. *)
Collection(plan, tree, counts, node, e, c) ==
    Walk(plan, tree, counts, <<node>>,
         SubSeq(StepsOf(plan.entities[c].group), Len(StepsOf(plan.entities[e].group)) + 1,
                Len(StepsOf(plan.entities[c].group))),
         plan.entities[c].group.path # <<>>)

CollectedBelow(acc, w, Taking(_, _)) ==
    IF ~Works(w) THEN Failed(acc, w.error)
    ELSE IF ~Exists(w) THEN Failed(acc, "child_collection_missing")
    ELSE FoldLeft(LAMBDA a, n : IF Works(a) THEN Taking(a, n) ELSE a, acc, w.found)

(* _tree_entity: an entity, then those below it. *)
RECURSIVE NodeEntity(_, _, _, _, _, _, _)
BelowNode(acc, plan, tree, counts, e, node, self) ==
    FoldLeft(LAMBDA a, c :
                IF ~Works(a) \/ plan.entities[c].parent # e THEN a
                ELSE CollectedBelow(a, Collection(plan, tree, counts, node, e, c),
                               LAMBDA q, n : NodeEntity(q, plan, tree, counts, c, n, self)),
             acc, [c \in DOMAIN plan.entities |-> c])

WithOwn(acc, e, parent) ==
    IF Works(acc) THEN [acc EXCEPT !.entities = Append(@, Entity(e, parent, acc.values))] ELSE acc

NodeEntity(acc, plan, tree, counts, e, node, parent) ==
    BelowNode(
        WithOwn(OverFields(WithEntity(acc), plan, e, LAMBDA a, f : NodeField(a, plan, tree, counts, node, f)),
                e, parent),
        plan, tree, counts, e, node, Len(acc.entities) + 1)

TreeClosed(r, acc) ==
    IF Works(acc) THEN Recorded([r EXCEPT !.seen = acc.seen], acc.entities)
    ELSE Failed([r EXCEPT !.seen = acc.seen], acc.error)

TreeRecorded(r, plan, tree, node, e) ==
    TreeClosed(r, NodeEntity([error |-> Missing, values |-> <<>>, items |-> 0, entities |-> <<>>, seen |-> r.seen],
                             plan, tree, r.counts, e, node, 0))

CountOf(r, tree, id, name) ==
    (IF name \in DOMAIN r.counts THEN r.counts[name] ELSE 0)
      + Len(SelectSeq(Children(tree, id), LAMBDA n : n.name = name))

KeysBounded(r) ==
    IF Cardinality(DOMAIN r.counts) > PlanLimits.columns THEN Failed(r, "root_key_limit") ELSE r

(* Slip: every batch counts the names below its root anew. *)
Counted_Not(r, root, tree) == r

Counted(r, root, tree) ==
    IF ~Works(r) \/ root.kind # "object" THEN r
    ELSE KeysBounded([r EXCEPT !.counts =
            [name \in DOMAIN @ \cup {n.name : n \in ToSet(Children(tree, root.id))} |->
                CountOf(r, tree, root.id, name)]])

RootEntity(plan) == CHOOSE e \in DOMAIN plan.entities : plan.entities[e].parent = 0

TreeRecords(r, plan, tree, w) ==
    IF ~Works(w) THEN Failed(r, w.error)
    ELSE FoldLeft(LAMBDA q, n : IF Works(q) THEN TreeRecorded(q, plan, tree, n, RootEntity(plan)) ELSE q,
                  [r EXCEPT !.pathed = @ \/ Exists(w)], w.found)

TreeTaken(r, plan, root, tree) ==
    LET group == plan.entities[RootEntity(plan)].group
    IN Counted(TreeRecords(r, plan, tree, Walk(plan, tree, r.counts, <<root>>, StepsOf(group), group.path # <<>>)),
               root, tree)

(* A record that is the root itself waits for the last segment of it. *)
Kept(r, root, tree) ==
    LET new == SelectSeq(tree, LAMBDA n : n.id # root.id \/ r.buffer = <<>>)
    IN IF Len(r.buffer) + Len(new) > RunLimits.items THEN Failed(r, "tree_record_budget")
       ELSE IF \E n \in DOMAIN new, m \in DOMAIN r.buffer : new[n].id = r.buffer[m].id
       THEN Failed(r, "duplicate_buffered_tree_node")
       ELSE [r EXCEPT !.buffer = @ \o new]

IsBuffered(plan) == StepsOf(plan.entities[RootEntity(plan)].group) = <<>>

Waiting(r, plan, root) == ~Works(r) \/ (IsBuffered(plan) /\ root.last = FALSE)

(* A root that was buffered is the last segment's, under the first one's    *)
(* reference.                                                               *)
FromBuffer(r, plan, root) ==
    TreeTaken([r EXCEPT !.buffer = <<>>], plan,
              [root EXCEPT !.in = (CHOOSE n \in ToSet(r.buffer) : n.id = root.id).in], r.buffer)

TreeSettled(r, plan, root, tree) ==
    IF Waiting(r, plan, root) THEN r
    ELSE IF IsBuffered(plan) THEN FromBuffer(r, plan, root) ELSE TreeTaken(r, plan, root, tree)

RootTaken(r, plan, root, tree) ==
    TreeSettled(IF IsBuffered(plan) THEN Kept(r, root, tree) ELSE r, plan, root, tree)

Stamp(n) == <<n.name, n.kind, n.parent>>

RECURSIVE Under(_, _, _)
Under(nodes, n, id) ==
    n.id = id \/ \E m \in DOMAIN nodes : nodes[m].id = n.parent /\ Under(nodes, nodes[m], id)

NodesSelected(r, plan, b) ==
    LET roots == SelectSeq(b.nodes, LAMBDA n : n.id = plan.root[3])
        root == roots[1]
        tree == [n \in DOMAIN b.nodes |-> [b.nodes[n] EXCEPT !.in = b.index]]
    IN IF roots = <<>> THEN r
       ELSE IF r.rooted # Missing /\ root.segment \in {Missing, 0} THEN Failed(r, "tree_root_repeated")
       ELSE IF r.rooted \notin {Missing, Stamp(root)} THEN Failed(r, "tree_root_changed")
       ELSE RootTaken(ObservedByAll([r EXCEPT !.rooted = Stamp(root)], plan, LAMBDA f : {plan.root}),
                      plan, [root EXCEPT !.in = b.index],
                      SelectSeq(tree, LAMBDA n : Under(tree, n, root.id)))

-----------------------------
(* Quotations: they are compared with the text, and make records at the end. *)

SpansOn(plan, ref) ==
    {s \in UNION {ToSet(plan.fields[f].sel.spans) : f \in DOMAIN plan.fields}
             \cup {plan.entities[e].group.anchor : e \in DOMAIN plan.entities} : s.ref = ref}

(* text_sources: blocks (or their lines), lines, or texts of nodes. *)
LineTexts(o, i) == [n \in DOMAIN o.lines |-> [ref |-> <<"line", i, 10 * o.id + n>>, text |-> o.lines[n]]]

TextSources(b, kind) ==
    IF b.objects # <<>>
    THEN FlattenSeq([n \in DOMAIN b.objects |->
            IF b.objects[n].text # Missing
            THEN <<[ref |-> <<kind, b.index, b.objects[n].id>>, text |-> b.objects[n].text]>>
            ELSE LineTexts(b.objects[n], b.index)])
    ELSE LET texts == SelectSeq(b.nodes, LAMBDA n : n.value \notin {Missing, <<"dec">>, <<"bytes">>})
         IN [n \in DOMAIN texts |-> [ref |-> <<"node", b.index, texts[n].id>>, text |-> texts[n].value]]

QuotedWords(spans) == MapThenSumSet(LAMBDA s : s.end - s.start, spans)

Quotes(r, plan, source) ==
    LET spans == SpansOn(plan, source.ref) IN
    IF \E s \in spans : s.end > Len(source.text) THEN Failed(r, "span_outside_source")
    ELSE IF \E s \in spans : SubSeq(source.text, s.start + 1, s.end) # s.quote
    THEN Failed(r, "span_quote_mismatch")
    ELSE IF QuotedWords(r.quotes \cup spans) > RunLimits.bytes THEN Failed(r, "span_buffer_limit")
    ELSE ObservedByAll([r EXCEPT !.quotes = @ \cup spans], plan, LAMBDA f :
            {source.ref} \cap {s.ref : s \in ToSet(plan.fields[f].sel.spans)})

SpansCollected(r, plan, b, kind) ==
    FoldLeft(LAMBDA q, source : IF Works(q) THEN Quotes(q, plan, source) ELSE q, r, TextSources(b, kind))

(* The entities of one record, each behind its parent. *)
RECURSIVE Lineup(_, _, _)
Lineup(plan, pending, placed) ==
    LET ready == SelectSeq(pending, LAMBDA e : plan.entities[e].parent \in {0} \cup ToSet(placed))
    IN IF ready = <<>> THEN placed
       ELSE Lineup(plan, SelectSeq(pending, LAMBDA e : e # ready[1]), Append(placed, ready[1]))

PlaceOf(placed, e) == IF e = 0 THEN 0 ELSE CHOOSE n \in DOMAIN placed : placed[n] = e

Unrepeated(seq) == FoldLeft(LAMBDA s, x : IF x \in ToSet(s) THEN s ELSE Append(s, x), <<>>, seq)

SpanValues(r, plan, acc, e) ==
    OverFields(WithEntity(acc), plan, e, LAMBDA a, f :
        LET spans == plan.fields[f].sel.spans
            text == FlattenSeq([n \in DOMAIN spans |-> spans[n].quote])
        IN IF ToSet(spans) \ r.quotes # {} THEN Failed(a, "span_source_missing")
           ELSE Valued(a, plan, [field |-> f, raw |-> text, out |-> text, op |-> "spans",
                                 origins |-> Unrepeated([n \in DOMAIN spans |-> spans[n].ref])]))

SpanRecord(r, plan, definitions) ==
    LET placed == Lineup(plan, definitions, <<>>)
        acc == FoldLeft(LAMBDA a, e :
                  IF ~Works(a) THEN a
                  ELSE LET own == SpanValues(r, plan, a, e)
                       IN [own EXCEPT !.entities = Append(@, Entity(e, PlaceOf(placed, plan.entities[e].parent), own.values))],
                  NewBudget, placed)
    IN IF Len(placed) # Len(definitions) THEN Failed(r, "span_parent_cycle")
       ELSE IF ~Works(acc) THEN Failed(r, acc.error)
       ELSE Recorded(r, acc.entities)

SpanRecords(r, plan) ==
    LET records == Unrepeated([e \in DOMAIN plan.entities |-> plan.entities[e].group.record])
        Of(record) == SelectSeq([e \in DOMAIN plan.entities |-> e], LAMBDA e : plan.entities[e].group.record = record)
    IN IF \E e \in DOMAIN plan.entities : plan.entities[e].group.anchor \notin r.quotes
       THEN Failed(r, "span_anchor_missing")
       ELSE FoldLeft(LAMBDA q, record : IF Works(q) THEN SpanRecord(q, plan, Of(record)) ELSE q, r, records)

-----------------------------
(* A batch, and the end of the source. *)

BatchRefs(b, kind) ==
    UNION {{<<"table", b.index, t.id>>}
             \cup UNION {{CellRef(b.index, row, c) : c \in DOMAIN row.cells} : row \in ToSet(t.rows)} : t \in ToSet(b.tables)}
      \cup UNION {{<<kind, b.index, o.id>>} \cup {x.ref : x \in ToSet(LineTexts(o, b.index))} : o \in ToSet(b.objects)}
      \cup {<<"node", b.index, n.id>> : n \in ToSet(b.nodes)}
      \cup {<<"value", b.index, n.id>> : n \in {x \in ToSet(b.nodes) : x.value # Missing}}

Selected(r, plan, b, kind) ==
    CASE plan.kind = "tabular" -> TableSelected(r, plan, b)
      [] plan.kind = "tree" -> NodesSelected(r, plan, b)
      [] IsQuoting(plan) -> SpansCollected(r, plan, b, kind)
      [] OTHER -> ObjectsSelected(r, plan, b, kind)

TooWide(b) ==
    \E t \in ToSet(b.tables) : \E row \in ToSet(t.rows) : \E c \in DOMAIN row.cells : c >= PlanLimits.columns

(* What the items of a batch count: rows by the range they span, a node that *)
(* goes on in the next segment once.                                         *)
SpanOf(rows) == IF rows = <<>> THEN 0 ELSE Last(rows).at - rows[1].at + 1

PhysicalUnits(b) ==
    Total(b.tables, LAMBDA t : SpanOf(t.rows)) + Len(b.objects)
      + Len(SelectSeq(b.nodes, LAMBDA n : n.segment \in {Missing, 0}))

(* StreamCheck.accept: too many batches or one too heavy (the preflight),    *)
(* then too many objects of them all.                                        *)
TooHeavy(read, b, kind) ==
    read = RunLimits.sources \/ Cardinality(BatchRefs(b, kind)) > RunLimits.heavy

Unstreamed(r, j, read, b) ==
    CASE read = Len(j.batches) -> "physical_stream_integrity"
      [] TooHeavy(read, b, j.objects) -> "physical_source_limit"
      [] b.index # read -> "physical_stream_integrity"
      [] r.objects > RunLimits.objects -> "physical_source_limit"
      [] b.claims # b.print \/ (read > 0 /\ b.lineage # j.batches[1].lineage) -> "physical_stream_integrity"
      [] OTHER -> Missing

WhyRefused(r, j, read, b) ==
    CASE Unstreamed(r, j, read, b) # Missing -> Unstreamed(r, j, read, b)
      [] TooWide(b) -> "source_columns_limit"
      [] r.units > RunLimits.units -> "source_total_items"
      [] b.claims # j.batches[read + 1].claims \/ b.lineage # j.batches[1].lineage -> "source_snapshot_changed"
      [] OTHER -> Missing

Weighed(r, j, b) ==
    [r EXCEPT !.objects = @ + Cardinality(BatchRefs(b, j.objects)), !.units = @ + PhysicalUnits(b)]

(* consume: nothing is selected from a batch that is not the manifest's. *)
Consumed(r, j, read, b) ==
    LET w == Weighed(r, j, b)
        reason == WhyRefused(w, j, read, b)
    IN IF reason # Missing THEN Failed(r, reason)
       ELSE Selected([w EXCEPT !.required = @ \ BatchRefs(b, j.objects)], j.plan, b, j.objects)

Rest(r, plan) ==
    CASE plan.kind = "tabular" ->
           IF \/ r.header = Missing \/ r.rows # plan.end - plan.start + 1
              \/ plan.footer # Missing /\ ~r.footer
           THEN Failed(r, "row_range_missing") ELSE r
      [] plan.kind = "tree" ->
           IF r.rooted = Missing \/ ~r.pathed \/ r.buffer # <<>>
           THEN Failed(r, "record_path_missing_or_incomplete") ELSE r
      [] IsQuoting(plan) -> SpanRecords(r, plan)
      [] r.scope # Len(plan.scope) -> Failed(r, "physical_scope_missing")
      [] r.pending = <<>> -> r
      [] plan.entities[1].group.kind = "lines" /\ plan.entities[1].group.strategy = "blank_line" ->
           Grouped(r, plan, 1)
      [] OTHER -> Failed(r, "incomplete_record")

Witnessed(r, plan) ==
    IF Works(r) /\ \E f \in DOMAIN plan.fields : ~(ToSet(plan.fields[f].refs) \subseteq r.seen[f])
    THEN Failed(r, "field_evidence_outside_scope") ELSE r

Ended(r, j, read) ==
    IF read # Len(j.batches) THEN Failed(r, "terminal_source_missing")
    ELSE IF r.required # {} THEN Failed(r, "source_reference_missing")
    ELSE Witnessed(Rest(r, j.plan), j.plan)

-----------------------------
(* _Output: records become batches of bounded numbers and bytes.  A record   *)
(* is as long as its values; what surrounds the records of a batch, and the  *)
(* manifest of the last one, come on top of what Room counts.                *)
NewOutput == [error |-> Missing, batches |-> <<>>, pending |-> <<>>, bytes |-> 0, count |-> 0]

NormalValue(plan, k, i, n, v) ==
    [id |-> <<"value", k, i, n>>, name |-> plan.fields[v.field].name, type |-> plan.fields[v.field].type,
     raw |-> v.raw, out |-> v.out, refs |-> Unrepeated(v.origins), origins |-> v.origins, op |-> v.op,
     steps |-> IF v.op = "copy" THEN <<>> ELSE <<v.op>>]

RefsOfAll(parts) == Unrepeated(FlattenSeq([n \in DOMAIN parts |-> parts[n].refs]))

NormalEntity(plan, k, i, e, values) ==
    [id |-> <<"entity", k, i>>, type |-> plan.entities[e.entity].type, values |-> values,
     refs |-> RefsOfAll(values), parent |-> IF e.parent = 0 THEN Missing ELSE <<"entity", k, e.parent>>]

NormalOf(k, entities) == [id |-> <<"record", k>>, entities |-> entities, refs |-> RefsOfAll(entities)]

Normal(plan, k, record) ==
    NormalOf(k, [i \in DOMAIN record |->
        NormalEntity(plan, k, i, record[i], [n \in DOMAIN record[i].values |->
            NormalValue(plan, k, i, n, record[i].values[n])])])

SizeOf(record) == Total(SemanticValues(record.entities), LAMBDA v : Len(v.out))

SizeOfAll(records) == Total(records, SizeOf)

SizeOfBatch(b) ==
    RunLimits.envelope + SizeOfAll(b.records)
      + IF b.last THEN RunLimits.envelope + Len(b.manifest.batches) ELSE 0

BatchOf(o) == [index |-> Len(o.batches), records |-> o.pending, last |-> FALSE, manifest |-> Missing]

(* _batch_limit: a finished batch is measured again, when its records are    *)
(* pending no more.                                                          *)
Remeasured(o, b) ==
    LET left == [o EXCEPT !.pending = <<>>, !.bytes = 0]
    IN IF SizeOfBatch(b) > RunLimits.bytes THEN Failed(left, "output_batch_bytes")
       ELSE [left EXCEPT !.batches = Append(@, b)]

HasNoBatchLeft(o) == Len(o.batches) = RunLimits.batches

Yield(o) == IF HasNoBatchLeft(o) THEN Failed(o, "output_batch_limit") ELSE Remeasured(o, BatchOf(o))

Room(o, size) == IF o.pending # <<>> /\ o.bytes + size > RunLimits.bytes THEN Yield(o) ELSE o

Filled(o) == IF Works(o) /\ Len(o.pending) >= RunLimits.per_batch THEN Yield(o) ELSE o

Joining(o, record) ==
    IF ~Works(o) THEN o
    ELSE [o EXCEPT !.pending = Append(@, record), !.bytes = @ + SizeOf(record)]

(* A record may end the batch before it and its own; if either fails, append *)
(* gives out none.                                                           *)
Appended(o, record) ==
    LET counted == [o EXCEPT !.count = @ + 1]
        q == IF SizeOf(record) > RunLimits.bytes THEN Failed(counted, "output_record_bytes")
             ELSE Filled(Joining(Room(counted, SizeOf(record)), record))
    IN IF Works(q) THEN q ELSE [q EXCEPT !.batches = o.batches, !.pending = <<>>]

AppendedAll(o, plan, records) ==
    FoldLeft(LAMBDA q, record : IF Works(q) THEN Appended(q, Normal(plan, q.count, record)) ELSE q, o, records)

SchemaOf(plan) ==
    Unrepeated(FlattenSeq([e \in DOMAIN plan.entities |->
        [n \in DOMAIN plan.entities[e].fields |->
            LET f == plan.fields[plan.entities[e].fields[n]]
            IN [entity |-> plan.entities[e].type, name |-> f.name, type |-> f.type]]]))

ManifestFor(plan, batches) ==
    LET summaries == [n \in DOMAIN batches |-> NormalizedSummary(batches[n])]
        schema == SchemaOf(plan)
    IN [batches |-> summaries, records |-> Total(summaries, LAMBDA s : s.records),
        entities |-> Total(summaries, LAMBDA s : s.entities), values |-> Total(summaries, LAMBDA s : s.values),
        schema |-> schema, fields |-> Unrepeated([n \in DOMAIN schema |-> schema[n].name]),
        index |-> [n \in DOMAIN schema |-> FieldRef(schema[n])]]

(* The last batch carries the manifest; a manifest the contract refuses      *)
(* raises what no caller of execute is told to expect.                       *)
LastYield(o, plan) ==
    LET manifest == ManifestFor(plan, Append(o.batches, BatchOf(o)))
    IN IF HasNoBatchLeft(o) THEN Failed(o, "output_batch_limit")
       ELSE IF ~IsUnique([n \in DOMAIN manifest.schema |-> FieldRef(manifest.schema[n])])
       THEN Failed([o EXCEPT !.pending = <<>>], "untyped_error")
       ELSE Remeasured(o, [BatchOf(o) EXCEPT !.last = TRUE, !.manifest = manifest])

-----------------------------
(* One pass of the validator, one of the executor. *)

PlanRunInit ==
    /\ job \in Jobs /\ doing = "prepare" /\ at = 0
    /\ runtime = NewRuntime(job.plan) /\ out = NewOutput /\ verdict = Missing

Fails(reason) ==
    /\ verdict' = reason
    /\ doing' = IF doing \in {"prepare", "validate", "checked"} THEN "rejected" ELSE "failed"

Prepare ==
    /\ doing = "prepare"
    /\ \/ PlanFits(job.plan) /\ StaticFits(job.plan) /\ doing' = "validate" /\ UNCHANGED verdict
       \/ PlanFits(job.plan) /\ StaticFits(job.plan) /\ Fails("physical_replay_required")
       \/ PlanFits(job.plan) /\ ~StaticFits(job.plan) /\ Fails("unsupported")
       \/ ~PlanFits(job.plan) /\ Fails("request_contract")
    /\ UNCHANGED <<job, at, runtime, out>>

(* Thrice what a batch holds, the copies behind it. *)
Repeats(items, Moved(_, _)) ==
    FlattenSeq([k \in 1..3 |-> [n \in DOMAIN items |-> Moved(items[n], 50 * (k - 1))]])

Heavier(b) ==
    [b EXCEPT !.print = -1, !.claims = -1,
              !.tables = [n \in DOMAIN @ |->
                  [@[n] EXCEPT !.rows = Repeats(@, LAMBDA row, by : [row EXCEPT !.at = @ + by])]],
              !.objects = Repeats(@, LAMBDA o, by : [o EXCEPT !.id = @ + by]),
              !.nodes = Repeats(@, LAMBDA n, by : [n EXCEPT !.id = @ + by])]

(* What an iterator may bring instead of the next batch: another one, one of *)
(* another source, or one whose content is not what was extracted.           *)
Altered ==
    {[b EXCEPT !.index = @ + 1] : b \in ToSet(job.batches)}
      \cup UNION {{b, [b EXCEPT !.lineage = 0], [b EXCEPT !.print = -1],
                   [b EXCEPT !.print = -1, !.claims = -1], Heavier(b)} : b \in ToSet(job.batches)}

NewRecords == SubSeq(runtime'.records, Len(runtime.records) + 1, Len(runtime'.records))

(* The records a step selects go to the output at once. *)
Emit ==
    out' = IF doing = "execute" THEN AppendedAll(out, job.plan, NewRecords) ELSE out

OrElse(next) ==
    IF ~Works(out') THEN Fails(out'.error)
    ELSE IF ~Works(runtime') THEN Fails(runtime'.error)
    ELSE doing' = next /\ UNCHANGED verdict

Brought == {job.batches[n] : n \in {at + 1} \cap DOMAIN job.batches} \cup Altered

ReadBatch ==
    /\ doing \in {"validate", "execute"}
    /\ \E b \in Brought : runtime' = Consumed(runtime, job, at, b)
    /\ at' = IF Works(runtime') THEN at + 1 ELSE at
    /\ Emit /\ OrElse(doing)
    /\ UNCHANGED job

SourceBreaks ==
    /\ doing \in {"validate", "execute"} /\ Fails("source_read_failed")
    /\ UNCHANGED <<job, at, runtime, out>>

Deadline ==
    /\ doing \in {"validate", "execute", "emit"} /\ Fails("deadline")
    /\ UNCHANGED <<job, at, runtime, out>>

SourceEnds ==
    /\ doing \in {"validate", "execute"}
    /\ runtime' = Ended(runtime, job, at)
    /\ Emit /\ OrElse(IF doing = "validate" THEN "checked" ELSE "emit")
    /\ UNCHANGED <<job, at>>

(* The source is closed before anything is accepted, or the manifest is      *)
(* yielded.                                                                  *)
CloseSource ==
    /\ doing \in {"checked", "emit"}
    /\ \/ Fails("cleanup_failed") /\ UNCHANGED out
       \/ doing = "checked" /\ doing' = "accepted" /\ UNCHANGED <<out, verdict>>
       \/ /\ doing = "emit" /\ out' = LastYield(out, job.plan)
          /\ IF Works(out') THEN doing' = "done" /\ UNCHANGED verdict ELSE Fails(out'.error)
    /\ UNCHANGED <<job, at, runtime>>

(* The executor repeats the static checks, and that it is bound to what the  *)
(* validator saw: the same plan, profile, extraction and options.            *)
Execute ==
    /\ doing = "accepted"
    /\ \/ doing' = "execute" /\ at' = 0 /\ runtime' = NewRuntime(job.plan) /\ UNCHANGED verdict
       \/ Fails("execution_contract") /\ UNCHANGED <<at, runtime>>
    /\ UNCHANGED <<job, out>>

(* The consumer stops reading at a batch it was given. *)
ConsumerLeaves ==
    /\ doing \in {"execute", "emit"} /\ out.batches # <<>>
    /\ doing' = "left" /\ UNCHANGED <<job, at, runtime, out, verdict>>

PlanRunNext ==
    \/ Prepare \/ ReadBatch \/ SourceBreaks \/ Deadline \/ SourceEnds \/ CloseSource
    \/ Execute \/ ConsumerLeaves

-----------------------------
(* What the plan means, of the whole source at once. *)

AllRows(j) ==
    FlattenSeq([i \in DOMAIN j.batches |-> LET rows == RowsOf(j.plan, j.batches[i])
                                           IN [n \in DOMAIN rows |-> [at |-> rows[n].at, cells |-> rows[n].cells]]])

MeantRows(j) ==
    LET p == j.plan
        rows == SelectSeq(AllRows(j), LAMBDA row : row.at \in (p.start..p.end) \ ToSet(p.repeated))
    IN [n \in DOMAIN rows |-> <<[f \in DOMAIN p.fields |-> rows[n].cells[p.fields[f].sel.column]]>>]

(* The objects of the scope, and how they group. *)
ScopeObjects(j) ==
    LET all == FlattenSeq([i \in DOMAIN j.batches |->
                  [n \in DOMAIN j.batches[i].objects |->
                     LET o == j.batches[i].objects[n]
                     IN [text |-> o.text, lines |-> o.lines, ref |-> <<j.objects, i - 1, o.id>>]]])
    IN SelectSeq(all, LAMBDA o : o.ref \in ToSet(j.plan.scope))

(* The last of the lines that follow the i-th without a blank one. *)
LastBeforeBlank(objs, i) ==
    CHOOSE k \in i..Len(objs) :
        /\ \A m \in i..k : TextOf(objs[m]) # <<>>
        /\ k = Len(objs) \/ TextOf(objs[k + 1]) = <<>>

Unbroken(objs) ==
    LET starts == SelectSeq([i \in DOMAIN objs |-> i], LAMBDA i :
                     TextOf(objs[i]) # <<>> /\ (i = 1 \/ TextOf(objs[i - 1]) = <<>>))
    IN [n \in DOMAIN starts |-> SubSeq(objs, starts[n], LastBeforeBlank(objs, starts[n]))]

Chunks(objs, n) == [k \in 1..(Len(objs) \div n) |-> SubSeq(objs, (k - 1) * n + 1, k * n)]

TakenOut(plan, e, group) ==
    LET fields == SelectSeq([f \in DOMAIN plan.fields |-> f], LAMBDA f : f \in ToSet(plan.entities[e].fields))
    IN [n \in DOMAIN fields |->
          LET s == plan.fields[fields[n]].sel
          IN IF s.kind = "record" THEN FlattenSeq([m \in DOMAIN group |-> TextOf(group[m])])
             ELSE Take(s, group[OffsetOf(s) + 1]).out]

(* Explicit records, in the order in which they begin in the scope. *)
MeantExplicit(j, objs) ==
    LET begins == SelectSeq([i \in DOMAIN objs |-> i], LAMBDA i :
                     \E g \in Groups(j.plan) : \E r \in ToSet(g.records) : r[1] = objs[i].ref)
        Of(i) == CHOOSE x \in ExplicitAt(j.plan, objs[i].ref) : TRUE
        Length(i) == Len(j.plan.entities[Of(i)[1]].group.records[Of(i)[2]])
    IN [n \in DOMAIN begins |->
          <<TakenOut(j.plan, Of(begins[n])[1], SubSeq(objs, begins[n], begins[n] + Length(begins[n]) - 1))>>]

MeantGroups(j) ==
    LET g == j.plan.entities[1].group
        groups == IF FullAt(g) = Missing THEN Unbroken(ScopeObjects(j)) ELSE Chunks(ScopeObjects(j), FullAt(g))
    IN [n \in DOMAIN groups |-> <<TakenOut(j.plan, 1, groups[n])>>]

(* The whole tree, its root once.  A name twice below the root is ambiguous  *)
(* for a legacy path only within one batch: over several the first counts.   *)
WholeTree(j) ==
    FlattenSeq([i \in DOMAIN j.batches |->
        SelectSeq([n \in DOMAIN j.batches[i].nodes |-> [j.batches[i].nodes[n] EXCEPT !.in = i - 1]],
                  LAMBDA n : i = 1 \/ n.id # j.plan.root[3])])

OutsOf(entities) ==
    [n \in DOMAIN entities |-> [m \in DOMAIN entities[n].values |-> entities[n].values[m].out]]

MeantTree(j) ==
    LET tree == WholeTree(j)
        group == j.plan.entities[RootEntity(j.plan)].group
        w == Walk(j.plan, tree, <<>>, SelectSeq(tree, LAMBDA n : n.id = j.plan.root[3]), StepsOf(group), FALSE)
        Entities(n) == NodeEntity([error |-> Missing, values |-> <<>>, items |-> 0, entities |-> <<>>,
                                   seen |-> NewRuntime(j.plan).seen], j.plan, tree, <<>>, RootEntity(j.plan), n, 0).entities
    IN [n \in DOMAIN w.found |-> OutsOf(Entities(w.found[n]))]

MeantSpans(j) ==
    LET plan == j.plan
        records == Unrepeated([e \in DOMAIN plan.entities |-> plan.entities[e].group.record])
        Of(record) == SelectSeq([e \in DOMAIN plan.entities |-> e], LAMBDA e : plan.entities[e].group.record = record)
        Quote(f) == FlattenSeq([n \in DOMAIN plan.fields[f].sel.spans |-> plan.fields[f].sel.spans[n].quote])
        Values(e) == LET fields == SelectSeq([f \in DOMAIN plan.fields |-> f], LAMBDA f : f \in ToSet(plan.entities[e].fields))
                     IN [n \in DOMAIN fields |-> Quote(fields[n])]
    IN [k \in DOMAIN records |-> LET placed == Lineup(plan, Of(records[k]), <<>>)
                                 IN [n \in DOMAIN placed |-> Values(placed[n])]]

Meant(j) ==
    CASE j.plan.kind = "tabular" -> MeantRows(j)
      [] j.plan.kind = "tree" -> MeantTree(j)
      [] IsQuoting(j.plan) -> MeantSpans(j)
      [] j.plan.entities[1].group.kind = "explicit" -> MeantExplicit(j, ScopeObjects(j))
      [] OTHER -> MeantGroups(j)

WasAccepted == doing \in {"accepted", "execute", "emit", "done", "left", "failed"}
IsWhole == doing \in {"accepted", "emit", "done"}

(* A record's entities stand behind their parents, of the plan's relation. *)
ParentsHold(plan, record) ==
    \A i \in DOMAIN record :
        /\ record[i].parent < i
        /\ plan.entities[record[i].entity].parent
             = IF record[i].parent = 0 THEN 0 ELSE record[record[i].parent].entity

(* However the parser cut the source into batches - a table between any two  *)
(* rows, a group of lines, a root between any two of its children - an       *)
(* accepted plan selects the records it means of the whole source, in their  *)
(* order, the validator and the executor alike (PlanRuntime).  What the      *)
(* contract and the static check rule out never fails later: records do not  *)
(* overlap, parents do not go round, and only a group that ends at a blank   *)
(* line can be shorter than a selector needs.                                *)
MeantIsSelected ==
    /\ WasAccepted =>
         LET outs == [n \in DOMAIN runtime.records |-> OutsOf(runtime.records[n])]
         IN /\ IsPrefix(outs, Meant(job))
            /\ IsWhole => outs = Meant(job)
            /\ \A n \in DOMAIN runtime.records : ParentsHold(job.plan, runtime.records[n])
    /\ verdict \notin {"overlapping_record", "span_parent_cycle"}
    /\ verdict = "selector_offset" => FullAt(job.plan.entities[1].group) = Missing

LateFailures ==
    {"physical_stream_integrity", "source_snapshot_changed", "terminal_source_missing", "source_read_failed",
     "physical_source_limit", "source_total_items", "source_columns_limit", "deadline", "cleanup_failed",
     "execution_contract", "output_record_bytes", "output_batch_bytes", "output_batch_limit"}

(* A plan is accepted, and the last batch is yielded, only when every batch  *)
(* of the manifest came in its order, and with it every reference of the     *)
(* plan.  What was accepted once fails later only because the source, the    *)
(* time or the bounds of the output do (ParsePlanExecutor.execute).  What is *)
(* yielded holds the records in their order, every batch within the bounds   *)
(* with all that surrounds its records, the manifest too, and its last batch *)
(* makes it a stream the contract takes.                                     *)
YieldedIsAccounted ==
    LET yielded == FlattenSeq([n \in DOMAIN out.batches |-> out.batches[n].records])
        all == yielded \o out.pending
    IN /\ IsWhole =>
            /\ at = Len(job.batches)
            /\ PlanRefs(job.plan) \subseteq UNION {BatchRefs(b, job.objects) : b \in ToSet(job.batches)}
       /\ doing = "failed" => verdict \in LateFailures
       /\ \A n \in DOMAIN all : all[n] = Normal(job.plan, n - 1, runtime.records[n])
       /\ \A n \in DOMAIN out.batches :
            /\ Len(out.batches[n].records) <= RunLimits.per_batch
            /\ SizeOfBatch(out.batches[n]) <= RunLimits.bytes
            /\ NormalizedBatchFits(out.batches[n])
       /\ Len(out.batches) <= RunLimits.batches
       /\ doing \in {"execute", "emit"} => Len(all) = Len(runtime.records)
       /\ doing = "done" => Len(yielded) = Len(runtime.records) /\ NormalizedStreamFits(out.batches)

(* What is yielded of a source is what the plan means of it, and no more is *)
(* promised of it than is known.                                            *)
PlanIsFollowed == MeantIsSelected /\ YieldedIsAccounted

(* What execute raises is a ParseExecutionError, whatever the plan that was  *)
(* accepted (the docstring of ParsePlanExecutor.execute): the caller learns  *)
(* the reason, and how many batches it has to take back.                     *)
FailuresAreTyped == doing = "failed" => verdict # "untyped_error"
=============================================================================
