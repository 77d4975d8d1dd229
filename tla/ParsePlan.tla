----------------------------- MODULE ParsePlan -----------------------------
(***************************************************************************)
(* What a plan of parsing may say - the contract (contracts/parsing.py)    *)
(* and the static check before a source is read (structure/_plan_check.py) *)
(* - and what its records make, the contract of a normalized dataset.      *)
(* Fields and entities are named by their positions, a physical reference  *)
(* is <<kind, batch, id>>, and all references are of one extraction.       *)
(***************************************************************************)
EXTENDS Extraction
LOCAL INSTANCE SequencesExt

CONSTANT PlanLimits     \* [records, columns, lines]: of the executor's options

KindsIn(refs) == {refs[i][1] : i \in DOMAIN refs}

-----------------------------
(* The parts of a plan. *)

SelectorFits(s) ==
    /\ s.kind = "path" => s.steps = <<>> \/ s.path = <<>>
    /\ s.kind = "spans" => s.spans # <<>> /\ IsUnique(s.spans)
    /\ s.kind = "target" /\ s.target = "table_column" =>
         s.column # Missing /\ s.block = Missing /\ s.key = Missing
    /\ s.kind = "target" /\ s.target # "table_column" =>
         /\ s.column = Missing /\ s.block # Missing
         /\ s.target = "value" <=> s.key # Missing

GroupFits(g) ==
    /\ g.kind = "nodes" => g.steps = <<>> \/ (g.path = <<>> /\ ~g.descendants)
    /\ g.kind = "lines" => (g.strategy = "fixed_lines") <=> (g.lines # Missing)
    /\ g.kind = "blocks" /\ g.strategy = "per_block" => g.most = 1

FieldFits(f) == f.refs # <<>> /\ IsUnique(f.refs) /\ SelectorFits(f.sel)

EntityFits(e) ==
    /\ e.fields # <<>> /\ IsUnique(e.fields)
    /\ IsUnique(e.identity) /\ ToSet(e.identity) \subseteq ToSet(e.fields)
    /\ GroupFits(e.group)

Selectors(plan) == {plan.fields[i].sel : i \in DOMAIN plan.fields}
Groups(plan) == {plan.entities[i].group : i \in DOMAIN plan.entities}
FieldKinds(plan) == UNION {KindsIn(plan.fields[i].refs) : i \in DOMAIN plan.fields}
HasSpans(plan) == \E s \in Selectors(plan) : s.kind = "spans"

(* What only schema 1.1.0 knows, numbered 1. *)
IsExtended(plan) ==
    \/ \E s \in Selectors(plan) : s.kind = "record" \/ (s.kind = "path" /\ s.steps # <<>>)
    \/ \E g \in Groups(plan) : g.kind = "explicit" \/ (g.kind = "nodes" /\ g.steps # <<>>)

Assigned(plan) == FlattenSeq([i \in DOMAIN plan.entities |-> plan.entities[i].fields])

(* Parents are entities, and no parents go round in a circle. *)
EntityTreeFits(plan) ==
    LET all == DOMAIN plan.entities IN
    /\ \A i \in all : plan.entities[i].parent \in {0} \cup all
    /\ \A S \in (SUBSET all) \ {{}} : \E i \in S : plan.entities[i].parent \notin S

BaseFits(plan) ==
    /\ IsExtended(plan) => plan.version >= 1
    /\ HasSpans(plan) => plan.version = 2
    /\ plan.fields # <<>> /\ plan.entities # <<>> /\ plan.evidence # <<>>
    /\ Each(plan.fields, FieldFits) /\ Each(plan.entities, EntityFits)
    /\ HasSpans(plan) \/ IsUnique([i \in DOMAIN plan.fields |-> plan.fields[i].name])
    /\ IsUnique(Assigned(plan)) /\ ToSet(Assigned(plan)) = DOMAIN plan.fields
    /\ EntityTreeFits(plan)
    /\ IsUnique(plan.evidence)

-----------------------------
(* The four kinds of plan. *)

TabularFits(plan) ==
    /\ plan.table[1] = "table"
    /\ plan.start > plan.header
    /\ plan.end # Missing => plan.end >= plan.start
    /\ plan.footer # Missing => plan.footer > plan.start
    /\ plan.end # Missing /\ plan.footer # Missing => plan.footer > plan.end
    /\ IsUnique(plan.repeated)
    /\ \A i \in DOMAIN plan.repeated :
         /\ plan.repeated[i] >= plan.start
         /\ plan.end # Missing => plan.repeated[i] <= plan.end
         /\ plan.footer # Missing => plan.repeated[i] < plan.footer
    /\ \A s \in Selectors(plan) : s.kind = "column"
    /\ FieldKinds(plan) \subseteq {"table", "cell", "value"}
    /\ \A g \in Groups(plan) : g.kind = "rows"

TreeFits(plan) ==
    /\ plan.steps = <<>> \/ plan.path = <<>>
    /\ plan.root[1] = "node"
    /\ \A s \in Selectors(plan) : s.kind = "path"
    /\ FieldKinds(plan) \subseteq {"node", "value"}
    /\ \A g \in Groups(plan) : g.kind = "nodes"
    /\ \A i \in DOMAIN plan.entities : plan.entities[i].parent = 0 =>
         plan.entities[i].group.steps = plan.steps /\ plan.entities[i].group.path = plan.path

OffsetOf(s) == IF s.kind = "target" THEN s.block ELSE IF s.kind = "token" THEN s.line ELSE Missing
SelectorsOf(plan, e) == {plan.fields[e.fields[i]].sel : i \in DOMAIN e.fields}
OffsetsStayBelow(plan, e, bound) ==
    \A s \in SelectorsOf(plan, e) : OffsetOf(s) # Missing => OffsetOf(s) < bound

(* Explicit records: all entities have them or none, they cover the scope   *)
(* exactly once, and no selector points behind its record.                  *)
ExplicitFits(plan, most) ==
    (\E g \in Groups(plan) : g.kind = "explicit") =>
        /\ \A g \in Groups(plan) : g.kind = "explicit"
        /\ \A i \in DOMAIN plan.entities : \A r \in ToSet(plan.entities[i].group.records) :
             Len(r) <= most /\ OffsetsStayBelow(plan, plan.entities[i], Len(r))
        /\ LET refs == FlattenSeq([i \in DOMAIN plan.entities |->
                                     FlattenSeq(plan.entities[i].group.records)])
           IN IsUnique(refs) /\ ToSet(refs) = ToSet(plan.scope)

LinesBound(plan, g) ==
    CASE g.strategy = "one_line" -> 1
      [] g.strategy = "fixed_lines" -> g.lines
      [] OTHER -> plan.most

LogFits(plan) ==
    /\ plan.scope # <<>> /\ IsUnique(plan.scope) /\ KindsIn(plan.scope) = {"line"}
    /\ \A s \in Selectors(plan) : s.kind \in {"token", "record"}
    /\ FieldKinds(plan) \subseteq {"line", "value"}
    /\ \A g \in Groups(plan) : g.kind \in {"lines", "explicit"}
    /\ \A g \in Groups(plan) : g.kind = "lines" /\ g.lines # Missing => g.lines <= plan.most
    /\ ExplicitFits(plan, plan.most)
    /\ \A i \in DOMAIN plan.entities : plan.entities[i].group.kind = "lines" =>
         OffsetsStayBelow(plan, plan.entities[i], LinesBound(plan, plan.entities[i].group))
    /\ LET starts == SelectSeq(plan.entities, LAMBDA e : e.group.kind = "lines") IN
       /\ IsUnique([i \in DOMAIN starts |-> starts[i].group.start])
       /\ Len(plan.entities) > 1 => \A i \in DOMAIN starts : starts[i].group.start # "every_line"

(* Quotations: each entity is anchored in the scope, and stays in the       *)
(* record of its parent.                                                    *)
SpansFit(plan) ==
    /\ plan.version = 2 /\ plan.scope # <<>> /\ IsUnique(plan.scope)
    /\ KindsIn(plan.scope) \subseteq {"block", "line", "node"}
    /\ \A g \in Groups(plan) : g.kind = "spans" /\ g.anchor.ref \in ToSet(plan.scope)
    /\ \A i \in DOMAIN plan.entities : LET e == plan.entities[i] IN
         /\ IsUnique([j \in DOMAIN e.fields |-> plan.fields[e.fields[j]].name])
         /\ e.parent # 0 => plan.entities[e.parent].group.record = e.group.record
    /\ \A i \in DOMAIN plan.fields : LET f == plan.fields[i] IN
         /\ {f.sel.spans[j].ref : j \in DOMAIN f.sel.spans} = ToSet(f.refs)
         /\ ToSet(f.refs) \subseteq ToSet(plan.scope)

BlocksFit(plan) ==
    /\ plan.scope # <<>> /\ IsUnique(plan.scope) /\ KindsIn(plan.scope) = {"block"}
    /\ \A s \in Selectors(plan) : s.kind = "target"
    /\ FieldKinds(plan) \subseteq {"block", "table", "cell", "value"}
    /\ \A g \in Groups(plan) : g.kind \in {"blocks", "explicit"}
    /\ ExplicitFits(plan, 64)
    /\ \A i \in DOMAIN plan.entities : plan.entities[i].group.kind = "blocks" =>
         OffsetsStayBelow(plan, plan.entities[i], plan.entities[i].group.most)

IsQuoting(plan) == plan.kind = "document" /\ \A s \in Selectors(plan) : s.kind = "spans"

PlanFits(plan) ==
    /\ BaseFits(plan)
    /\ CASE plan.kind = "tabular" -> TabularFits(plan)
         [] plan.kind = "tree" -> TreeFits(plan)
         [] plan.kind = "log" -> LogFits(plan)
         [] IsQuoting(plan) -> SpansFit(plan)
         [] OTHER -> BlocksFit(plan)

-----------------------------
(* What the executor supports. *)

KeysOf(path) == [i \in DOMAIN path |-> [op |-> "key", name |-> path[i], occurrence |-> 0]]
StepsOf(g) == IF g.steps # <<>> THEN g.steps ELSE KeysOf(g.path)

StaticTabular(plan) ==
    /\ Len(plan.entities) = 1 /\ plan.entities[1].group.rows = 1
    /\ plan.entities[1].parent = 0 /\ plan.end # Missing
    /\ plan.end - plan.start + 1 <= PlanLimits.records
    /\ \A s \in Selectors(plan) : s.column < PlanLimits.columns

StaticTree(plan) ==
    /\ Cardinality({i \in DOMAIN plan.entities : plan.entities[i].parent = 0}) = 1
    /\ IsUnique([i \in DOMAIN plan.entities |-> StepsOf(plan.entities[i].group)])
    /\ \A i \in DOMAIN plan.entities : LET e == plan.entities[i] IN
         /\ ~e.group.descendants
         /\ e.parent # 0 =>
              IsStrictPrefix(StepsOf(plan.entities[e.parent].group), StepsOf(e.group))
    /\ \A s \in Selectors(plan) : \A i \in DOMAIN s.steps : s.steps[i].op # "item"

(* The references of an explicit record follow one another in the scope. *)
RecordsAreRuns(plan) ==
    \A g \in Groups(plan) : \A r \in ToSet(g.records) :
        \E i \in DOMAIN plan.scope :
            /\ i + Len(r) - 1 <= Len(plan.scope)
            /\ r = SubSeq(plan.scope, i, i + Len(r) - 1)

StaticGroups(plan) ==
    /\ \A i \in DOMAIN plan.entities : plan.entities[i].parent = 0
    /\ \/ (\A g \in Groups(plan) : g.kind = "explicit") /\ RecordsAreRuns(plan)
       \/ /\ Len(plan.entities) = 1 /\ plan.entities[1].group.kind # "explicit"
          /\ plan.kind = "log" => plan.entities[1].group.start = "every_line"
    /\ \A s \in Selectors(plan) : s.kind = "target" => s.target # "table_column"
    /\ plan.kind = "log" => plan.most <= PlanLimits.lines

StaticFits(plan) ==
    /\ ~plan.rules /\ \A i \in DOMAIN plan.fields : ~plan.fields[i].rules
    /\ \A i \in DOMAIN plan.entities : plan.entities[i].identity = <<>>
    /\ CASE plan.kind = "tabular" -> StaticTabular(plan)
         [] plan.kind = "tree" -> StaticTree(plan)
         [] IsQuoting(plan) -> TRUE
         [] OTHER -> StaticGroups(plan)

(* Every reference of the plan: a source without one of them is another. *)
PlanRefs(plan) ==
    ToSet(plan.evidence) \cup UNION {ToSet(plan.fields[i].refs) : i \in DOMAIN plan.fields}
      \cup CASE plan.kind = "tabular" -> {plan.table}
             [] plan.kind = "tree" -> {plan.root}
             [] OTHER -> ToSet(plan.scope)
-----------------------------
(* The result of a plan, contracts/normalized.py: values with their        *)
(* origins, entities, records, batches and the manifest of a stream.       *)
(* Fingerprints are opaque; extraction, plan and producer are the same for *)
(* a whole stream.                                                         *)

SemanticValueFits(v) ==
    /\ (v.origins # <<>>) <=> (v.op # Missing)
    /\ ToSet(v.origins) \subseteq ToSet(v.refs) /\ IsUnique(v.origins)
    /\ v.op # Missing => v.steps = IF v.op = "copy" THEN <<>> ELSE <<v.op>>
    /\ v.op = "copy" => Len(v.origins) = 1
    /\ v.refs # <<>> /\ IsUnique(v.refs) /\ IsUnique(v.steps)
    /\ v.steps = <<>> => v.raw = v.out
    /\ v.type = "money" => v.out = <<"dec">>

SemanticEntityFits(e) ==
    /\ e.values # <<>> /\ Each(e.values, SemanticValueFits)
    /\ e.refs # <<>> /\ IsUnique(e.refs)
    /\ IsUnique(Ids(e.values))
    /\ IsUnique([i \in DOMAIN e.values |-> e.values[i].name])
    /\ e.parent # e.id
    /\ \A i \in DOMAIN e.values : ToSet(e.values[i].refs) \subseteq ToSet(e.refs)

NormalizedRecordFits(r) ==
    /\ r.entities # <<>> /\ Each(r.entities, SemanticEntityFits)
    /\ r.refs # <<>> /\ IsUnique(r.refs)
    /\ IsUnique(Ids(r.entities))
    /\ \A i \in DOMAIN r.entities :
         /\ ToSet(r.entities[i].refs) \subseteq ToSet(r.refs)
         /\ r.entities[i].parent \in {Missing} \cup ToSet(Ids(r.entities))
    /\ \A S \in (SUBSET DOMAIN r.entities) \ {{}} :
         \E i \in S : \A j \in S : r.entities[i].parent # r.entities[j].id

EntitiesOf(records) == FlattenSeq([i \in DOMAIN records |-> records[i].entities])
SemanticValues(entities) == FlattenSeq([i \in DOMAIN entities |-> entities[i].values])

NormalizedSummary(b) ==
    [index |-> b.index, records |-> Len(b.records), entities |-> Len(EntitiesOf(b.records)),
     values |-> Len(SemanticValues(EntitiesOf(b.records)))]

SummaryFits(s) == s.records <= s.entities /\ s.entities <= s.values

Total(batches, Count(_)) == FoldLeft(LAMBDA n, s : n + Count(s), 0, batches)

FieldRef(f) == <<f.entity, f.name>>

NormalizedManifestFits(m) ==
    /\ m.batches # <<>> /\ Each(m.batches, SummaryFits)
    /\ \A i \in DOMAIN m.batches : m.batches[i].index = i - 1
    /\ m.records = Total(m.batches, LAMBDA s : s.records)
    /\ m.entities = Total(m.batches, LAMBDA s : s.entities)
    /\ m.values = Total(m.batches, LAMBDA s : s.values)
    /\ IsUnique(m.fields) /\ IsUnique(m.index)
    /\ IsUnique([i \in DOMAIN m.schema |-> FieldRef(m.schema[i])])
    /\ {FieldRef(m.schema[i]) : i \in DOMAIN m.schema} = ToSet(m.index)
    /\ {m.schema[i].name : i \in DOMAIN m.schema} = ToSet(m.fields)

SchemaIn(b) ==
    UNION {{[entity |-> e.type, name |-> e.values[i].name, type |-> e.values[i].type] : i \in DOMAIN e.values} :
              e \in ToSet(EntitiesOf(b.records))}

(* _validate_bound_batch: a batch is the one its manifest speaks of. *)
NormalizedHas(m, b) ==
    /\ b.index < Len(m.batches) /\ NormalizedSummary(b) = m.batches[b.index + 1]
    /\ b.last <=> b.index = Len(m.batches) - 1
    /\ b.last => b.manifest = m
    /\ SchemaIn(b) \subseteq ToSet(m.schema)

NormalizedBatchFits(b) ==
    /\ b.last <=> b.manifest # Missing
    /\ Each(b.records, NormalizedRecordFits)
    /\ IsUnique(Ids(b.records)) /\ IsUnique(Ids(EntitiesOf(b.records)))
    /\ IsUnique(Ids(SemanticValues(EntitiesOf(b.records))))
    /\ b.last =>
         /\ NormalizedManifestFits(b.manifest)
         /\ b.manifest.batches[Len(b.manifest.batches)].index = b.index
         /\ NormalizedHas(b.manifest, b)

(* validate_batches: the whole stream, and identifiers unique in all of it. *)
NormalizedStreamFits(batches) ==
    LET m == batches[Len(batches)].manifest
        records == FlattenSeq([i \in DOMAIN batches |-> batches[i].records])
    IN /\ \A i \in DOMAIN batches : batches[i].index = i - 1 /\ NormalizedHas(m, batches[i])
       /\ Len(batches) = Len(m.batches)
       /\ IsUnique(Ids(records)) /\ IsUnique(Ids(EntitiesOf(records)))
       /\ IsUnique(Ids(SemanticValues(EntitiesOf(records))))
       /\ <<m.records, m.entities, m.values>> =
            <<Len(records), Len(EntitiesOf(records)), Len(SemanticValues(EntitiesOf(records)))>>
=============================================================================
