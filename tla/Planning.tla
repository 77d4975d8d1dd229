------------------------------ MODULE Planning ------------------------------
(***************************************************************************)
(* A plan made from a source without any model: the batches are sampled,   *)
(* profiled, and each family - tables, trees, logs, documents - drafts     *)
(* plans (structure/planning.py); one draft, and only if it is sure and    *)
(* about everything, becomes the plan (structure/analysis.py).  The plan   *)
(* then runs over the same source (PlanRun).  Confidences are per cent,    *)
(* ties that the code breaks by a hash go by the order of the source.      *)
(***************************************************************************)
EXTENDS Profile
LOCAL INSTANCE SequencesExt
LOCAL INSTANCE FiniteSetsExt
LOCAL INSTANCE TLC

CONSTANT Sources    \* [batches, hidden, legacy]

VARIABLES
    physical,       \* the source
    samples,        \* Samples
    analysis        \* the StructureAnalysisResult, or Missing

planningVars == <<physical, samples, analysis>>

-----------------------------
(* Drafts.  Planner.candidate: nothing is drafted beyond the limit, or about *)
(* what no observation touches.                                              *)

NewPlanner == [drafts |-> <<>>, overflow |-> FALSE, unhandled |-> FALSE]

Touching(profile, refs) == SelectSeq(profile.observations, LAMBDA o : ToSet(o.refs) \cap ToSet(refs) # {})

Coverage(s) == IF s.seen = 0 THEN 0 ELSE (100 * s.retained) \div s.seen

EvidenceFor(profile, refs) ==
    Unrepeated(FlattenSeq([n \in DOMAIN Touching(profile, refs) |-> Touching(profile, refs)[n].refs]))

Blocked(profile, blockers) ==
    blockers \cup IF profile.complete THEN {} ELSE {"incomplete_coverage"}

Draft(profile, boundary, regularity, blockers, plan) ==
    [confidence |-> Min({boundary, regularity, Coverage(profile.samples)}), blockers |-> Blocked(profile, blockers),
     plan |-> IF Blocked(profile, blockers) = {} THEN plan ELSE Missing]

Drafting(p, profile, refs, draft) ==
    IF Len(p.drafts) >= SampleLimits.candidates THEN [p EXCEPT !.overflow = TRUE]
    ELSE IF Touching(profile, refs) = <<>> THEN p
    ELSE [p EXCEPT !.drafts = Append(@, draft)]

Unresolved(name, refs, selector) ==
    [name |-> name, type |-> "unresolved", refs |-> refs, sel |-> selector, rules |-> FALSE]

EntityFor(fields, parent, group) ==
    [type |-> "unresolved", fields |-> fields, identity |-> <<>>, parent |-> parent, group |-> group]

BaseFor(kind, fields, entities, evidence) ==
    [kind |-> kind, version |-> 1, fields |-> fields, entities |-> entities, evidence |-> evidence, rules |-> FALSE]

Reported(before, after) ==
    IF Len(before.drafts) = Len(after.drafts) THEN [after EXCEPT !.unhandled = TRUE] ELSE after

-----------------------------
(* Tables: below every header that is seen. *)

IsSeen(profile, key) == \E n \in DOMAIN profile.observations : profile.observations[n].key = key

TableHeaders(profile, t) ==
    LET rows == SelectSeq(HeaderRows(t), LAMBDA row : IsSeen(profile, <<"header", t.id, row.at>>))
        first == SelectSeq([n \in DOMAIN rows |-> n], LAMBDA n : \A m \in 1..(n - 1) : rows[m].cells # rows[n].cells)
    IN [n \in DOMAIN first |-> rows[first[n]]]

FooterRows(profile, t) == SelectSeq(t.rows, LAMBDA row : IsSeen(profile, <<"footer", t.id, row.at>>))
FooterAt(profile, t) == IF FooterRows(profile, t) = <<>> THEN Missing ELSE FooterRows(profile, t)[1].at

RepeatedBelow(t, header) == SelectSeq(t.rows, LAMBDA row : row.at > header.at /\ row.cells = header.cells)

DataBelow(t, header, footer) ==
    SelectSeq(t.rows, LAMBDA row :
        /\ row.at > header.at /\ row.cells # header.cells
        /\ footer = Missing \/ row.at < footer)

Regularity(header, data) ==
    (100 * Cardinality({n \in DOMAIN data : DOMAIN data[n].cells = DOMAIN header.cells})) \div Len(data)

Contrasts(data) ==
    \E n \in DOMAIN data : \E c \in DOMAIN data[n].cells :
        Hint(data[n].cells[c]) \notin {"string", "null", "identifier"}

IsNumber(text) == Hint(text) \in {"integer", "decimal"}

TotalOf(data, c) == FoldLeft(LAMBDA sum, row : sum + Tenths(row.cells[c][1]), 0, data)

(* _verified_total: every number of the footer but the first is the sum of  *)
(* its column, and there is one.                                            *)
IsTotal(footer, data) ==
    LET columns == {c \in DOMAIN footer.cells \ {Min(DOMAIN footer.cells)} : IsNumber(footer.cells[c])}
    IN /\ columns # {}
       /\ \A c \in columns :
            /\ \A n \in DOMAIN data : c \in DOMAIN data[n].cells /\ IsNumber(data[n].cells[c])
            /\ TotalOf(data, c) = Tenths(footer.cells[c][1])

HoldsNothing(row) ==
    \A c \in DOMAIN row.cells : IsBlankText(row.cells[c]) \/ Hint(row.cells[c]) \in {"null", "bytes"}

TableBlockers(profile, t, header, footer, data) ==
    (IF Regularity(header, data) = 100 THEN {} ELSE {"ragged_data"})
      \cup (IF \E n \in DOMAIN data : HoldsNothing(data[n]) THEN {"empty_data_region"} ELSE {})
      \cup (IF \E row \in ToSet(t.rows) : row.at > header.at /\ IsSeen(profile, <<"summary", t.id, row.at>>)
            THEN {"ambiguous_region"} ELSE {})
      \cup (IF footer # Missing /\ ~IsTotal(FooterRows(profile, t)[1], data) THEN {"unconfirmed_footer"} ELSE {})

ColumnsOf(header) == SetToSortSeq(DOMAIN header.cells, LAMBDA a, b : a < b)

TablePlanFor(profile, t, header, footer, data) ==
    BaseFor("tabular",
        [n \in DOMAIN ColumnsOf(header) |->
            Unresolved(<<ColumnsOf(header)[n]>>, <<t.ref>>, [kind |-> "column", column |-> ColumnsOf(header)[n]])],
        <<EntityFor([n \in DOMAIN ColumnsOf(header) |-> n], 0, [kind |-> "rows", rows |-> 1])>>,
        EvidenceFor(profile, <<t.ref>>))
    @@ [table |-> t.ref, header |-> header.at, start |-> data[1].at, end |-> Last(data).at, footer |-> footer,
        repeated |-> SelectSeq([n \in DOMAIN RepeatedBelow(t, header) |-> RepeatedBelow(t, header)[n].at],
                               LAMBDA r : r <= Last(data).at)]

HeaderDrafted(p, profile, t, header, footer, data) ==
    IF data = <<>> THEN p
    ELSE Drafting(p, profile, <<t.ref>>,
            Draft(profile, IF Contrasts(data) THEN 90 ELSE 55, Regularity(header, data),
                  TableBlockers(profile, t, header, footer, data), TablePlanFor(profile, t, header, footer, data)))

TableDrafted(p, profile, t) ==
    Reported(p, FoldLeft(LAMBDA q, header :
                    HeaderDrafted(q, profile, t, header, FooterAt(profile, t),
                                  DataBelow(t, header, FooterAt(profile, t))),
                p, TableHeaders(profile, t)))

TablesDrafted(p, profile) == FoldLeft(LAMBDA q, t : TableDrafted(q, profile, t), p, profile.samples.tables)

-----------------------------
(* Trees: collections of objects or scalars, and the root if it has fields   *)
(* of its own.                                                               *)

IsItem(step) == step.op = "item"
HasObject(group) == \E n \in ToSet(group.nodes) : n.kind = "object"
AllScalar(group) == \A n \in ToSet(group.nodes) : n.value # Missing
ItemsIn(path) == Len(SelectSeq(path, IsItem))
GroupAt(groups, path) == groups[CHOOSE n \in DOMAIN groups : groups[n].path = path]
BehindPath(group, path) == SubSeq(group.path, Len(path) + 1, Len(group.path))

CollectionPaths(groups) ==
    LET some == SelectSeq(groups, LAMBDA g :
                   g.path # <<>> /\ IsItem(Last(g.path)) /\ (HasObject(g) \/ HasScalar(g)))
    IN [n \in DOMAIN some |-> some[n].path]

(* Slip: fields beside the collections are forgotten. *)
HasOuterFields_Never(groups) == FALSE

HasOuterFields(groups) == \E g \in ToSet(groups) : AllScalar(g) /\ ItemsIn(g.path) = 0

RecordPaths(groups) ==
    IF /\ \E g \in ToSet(groups) : g.path = <<>> /\ HasObject(g)
       /\ CollectionPaths(groups) = <<>> \/ HasOuterFields(groups)
    THEN <<<<>>>> \o CollectionPaths(groups) ELSE CollectionPaths(groups)

TopPaths(paths) == SelectSeq(paths, LAMBDA p : \A q \in ToSet(paths) : ~IsStrictPrefix(q, p))

(* Shorter paths first: an entity comes behind its parent. *)
EntityPaths(paths, top) ==
    SortSeq(SelectSeq(paths, LAMBDA p : IsPrefix(top, p)), LAMBDA p, q : Len(p) < Len(q))

BelowPath(groups, top) == SelectSeq(groups, LAMBDA g : IsPrefix(top, g.path))
NodeRefs(groups) == FlattenSeq([n \in DOMAIN groups |-> [m \in DOMAIN groups[n].nodes |-> groups[n].nodes[m].ref]])

(* A field of an entity: a scalar below it, and below no entity in between,  *)
(* that no other collection stands before.                                   *)
IsField(g, path) == IsPrefix(path, g.path) /\ AllScalar(g) /\ ItemsIn(BehindPath(g, path)) = 0

FieldGroups(groups, entities, path) ==
    SelectSeq(groups, LAMBDA g :
        IsField(g, path) /\ \A child \in ToSet(entities) : IsStrictPrefix(path, child) => ~IsPrefix(child, g.path))

TreeBlockers(profile, entities, top) ==
    (IF Len(entities) > 32 THEN {"entity_limit"} ELSE {})
      \cup (IF Cardinality({n \in DOMAIN profile.samples.nodes : profile.samples.nodes[n].parent = 0}) # 1
            THEN {"multiple_physical_roots"} ELSE {})
      \cup (IF ItemsIn(top) > 1 THEN {"array_container_policy_required"} ELSE {})
      \cup (IF \E path \in ToSet(entities) : \E g \in ToSet(profile.groups) :
                  IsField(g, path) /\ Len(g.nodes) # Len(GroupAt(profile.groups, path).nodes)
            THEN {"optional_field_policy_required"} ELSE {})
      \cup (IF \E g \in ToSet(BelowPath(profile.groups, top)) : Cardinality({n.kind : n \in ToSet(g.nodes)}) > 1
            THEN {"heterogeneous_tree"} ELSE {})

TreeFields(groups, entities) ==
    FlattenSeq([e \in DOMAIN entities |->
        LET own == FieldGroups(groups, entities, entities[e])
        IN [n \in DOMAIN own |->
              Unresolved(<<e, n>>, FirstRefs(own[n].nodes, 4),
                         [kind |-> "path", path |-> <<>>, steps |-> BehindPath(own[n], entities[e]), source |-> "value"])]])

(* The fields of an entity are those that carry its number. *)
FieldsNumbered(fields, e) == SelectSeq([f \in DOMAIN fields |-> f], LAMBDA f : fields[f].name[1] = e)

ParentPath(entities, e) ==
    LET above == {p \in DOMAIN entities : IsStrictPrefix(entities[p], entities[e])}
    IN IF above = {} THEN 0 ELSE CHOOSE p \in above : \A q \in above : Len(entities[q]) <= Len(entities[p])

RECURSIVE RootAbove(_, _)
RootAbove(nodes, n) == IF n.parent = 0 THEN n ELSE RootAbove(nodes, nodes[CHOOSE p \in ParentsOf(nodes, n) : TRUE])

TreePlanFor(profile, entities, fields, top) ==
    BaseFor("tree", fields,
        [e \in DOMAIN entities |->
            EntityFor(FieldsNumbered(fields, e), ParentPath(entities, e),
                      [kind |-> "nodes", path |-> <<>>, steps |-> entities[e], descendants |-> FALSE])],
        EvidenceFor(profile, NodeRefs(BelowPath(profile.groups, top))))
    @@ [root |-> RootAbove(profile.samples.nodes, GroupAt(profile.groups, top).nodes[1]).ref,
        path |-> <<>>, steps |-> top]

(* An entity without a field leaves the draft without a plan. *)
TreePlanIn(profile, entities, fields, top) ==
    IF \E e \in DOMAIN entities : FieldsNumbered(fields, e) = <<>> THEN Missing
    ELSE TreePlanFor(profile, entities, fields, top)

TopDrafted(p, profile, top, entities) ==
    Drafting(p, profile, NodeRefs(BelowPath(profile.groups, top)),
        Draft(profile,
              IF \E path \in ToSet(entities) : Len(GroupAt(profile.groups, path).nodes) > 1 THEN 95 ELSE 80,
              100, TreeBlockers(profile, entities, top),
              TreePlanIn(profile, entities, TreeFields(profile.groups, entities), top)))

TreesDrafted(p, profile) ==
    LET paths == RecordPaths(profile.groups)
    IN IF profile.samples.nodes = <<>> THEN p
       ELSE IF paths = <<>> \/ \E n \in ToSet(profile.samples.nodes) : n.kind = "element"
       THEN [p EXCEPT !.unhandled = TRUE]
       ELSE FoldLeft(LAMBDA q, top : TopDrafted(q, profile, top, EntityPaths(paths, top)), p, TopPaths(paths))

-----------------------------
(* Logs: a line and those indented below it are a record; records of the     *)
(* same shapes are one draft.                                                *)

IsContinuation(l) == IsBlankText(l.text) \/ l.text[1] = " "

LineRecords(lines) ==
    FoldLeft(LAMBDA acc, l :
        IF IsContinuation(l) /\ acc.records # <<>> /\ Last(Last(acc.records)).end + 1 = l.start
        THEN [acc EXCEPT !.records[Len(acc.records)] = Append(@, l)]
        ELSE [records |-> Append(acc.records, <<l>>), orphan |-> acc.orphan \/ IsContinuation(l)],
        [records |-> <<>>, orphan |-> FALSE], lines)

Clusters(records, keys) ==
    [n \in DOMAIN Unrepeated(keys) |-> Members(records, keys, Unrepeated(keys)[n])]

ShapesOf(record) == [n \in DOMAIN record |-> Shape(record[n].text)]

IsRecognized(l) == ToSet(Shape(l.text)) \cap {"timestamp", "level", "integer", "decimal", "key_value"} # {}

RecordRefs(cluster) == [n \in DOMAIN cluster |-> [m \in DOMAIN cluster[n] |-> cluster[n][m].ref]]
ClusterRefs(cluster) == FlattenSeq(RecordRefs(cluster))
LongestOf(cluster) == Max({Len(cluster[n]) : n \in DOMAIN cluster})

LogPlanFor(profile, cluster, refs) ==
    BaseFor("log",
        <<Unresolved(<<0>>, SubSeq(refs, 1, Min({4, Len(refs)})), [kind |-> "record"])>>,
        <<EntityFor(<<1>>, 0, [kind |-> "explicit", records |-> RecordRefs(cluster)])>>,
        EvidenceFor(profile, refs))
    @@ [scope |-> refs, most |-> LongestOf(cluster)]

LogBlockers(cluster, orphan) ==
    (IF orphan THEN {"orphan_continuation"} ELSE {}) \cup (IF LongestOf(cluster) > 64 THEN {"record_limit"} ELSE {})

ClusterDrafted(p, profile, cluster, orphan) ==
    IF ~IsRecognized(cluster[1][1]) THEN [p EXCEPT !.unhandled = TRUE]
    ELSE Reported(p, Drafting(p, profile, ClusterRefs(cluster),
            Draft(profile, IF Len(cluster) > 1 THEN 90 ELSE 70, 100, LogBlockers(cluster, orphan),
                  LogPlanFor(profile, cluster, ClusterRefs(cluster)))))

ClustersDrafted(p, profile, records, orphan) ==
    FoldLeft(LAMBDA q, cluster : ClusterDrafted(q, profile, cluster, orphan), p,
             Clusters(records, [n \in DOMAIN records |-> ShapesOf(records[n])]))

LogsIn(p, profile, acc) == ClustersDrafted(p, profile, acc.records, acc.orphan)
LogsDrafted(p, profile) == LogsIn(p, profile, LineRecords(PlainLines(profile.samples)))

-----------------------------
(* Documents: blocks, or the sections that headings begin, of the same kinds *)
(* are one draft.                                                            *)

(* _duplicated_line_blocks: a block that says just what its lines say. *)
IsDuplicate(s, b) ==
    \E x \in ToSet(s.lines) :
        /\ x.block /\ x.ref = b.ref
        /\ LET lines == SelectSeq(PlainLines(s), LAMBDA l : l.start \in x.start..x.end)
           IN /\ Len(lines) = x.end - x.start + 1
              /\ \A n \in DOMAIN lines : lines[n].ending # Missing
              /\ FlattenSeq([n \in DOMAIN lines |-> lines[n].text \o lines[n].ending]) = x.text

PlannedBlocks(s) == SelectSeq(s.blocks, LAMBDA b : b.kind # "metadata" /\ ~IsDuplicate(s, b))

BlockGroups(blocks) ==
    IF \E b \in ToSet(blocks) : b.kind = "heading" THEN SectionsOf(blocks)
    ELSE [n \in DOMAIN blocks |-> <<blocks[n]>>]

DocumentPlanFor(profile, cluster, refs) ==
    BaseFor("document",
        [i \in DOMAIN cluster[1] |->
            Unresolved(<<i>>, [n \in 1..Min({4, Len(cluster)}) |-> cluster[n][i].ref],
                       [kind |-> "target", target |-> "block_text", column |-> Missing, block |-> i - 1, key |-> Missing])],
        <<EntityFor([i \in DOMAIN cluster[1] |-> i], 0, [kind |-> "explicit", records |-> RecordRefs(cluster)])>>,
        EvidenceFor(profile, refs))
    @@ [scope |-> refs]

DocumentDrafted(p, profile, cluster) ==
    Drafting(p, profile, ClusterRefs(cluster),
        Draft(profile, IF Len(cluster) > 1 THEN 90 ELSE 70, 100,
              IF LongestOf(cluster) > 64 THEN {"record_limit"} ELSE {},
              DocumentPlanFor(profile, cluster, ClusterRefs(cluster))))

SectionsDrafted(p, profile, groups) ==
    FoldLeft(LAMBDA q, cluster : DocumentDrafted(q, profile, cluster), p,
             Clusters(groups, [n \in DOMAIN groups |-> KindsOf(groups[n])]))

DocumentsDrafted(p, profile) == SectionsDrafted(p, profile, BlockGroups(PlannedBlocks(profile.samples)))

-----------------------------
(* The result: one draft that is sure becomes the plan. *)

DraftedOf(profile) ==
    DocumentsDrafted(LogsDrafted(TreesDrafted(TablesDrafted(NewPlanner, profile), profile), profile), profile)

Result(outcome, issues, plan) == [outcome |-> outcome, issues |-> issues, plan |-> plan]
NeedsSemantic(issue) == Result("needs_semantic_analysis", {issue}, Missing)

PlanSize(plan) == Cardinality(PlanRefs(plan)) + Len(plan.fields)

(* What the contract refuses to construct raises an error of its own. *)
Chosen(p, draft) ==
    CASE p.overflow -> NeedsSemantic("STRUCTURE_CANDIDATE_LIMIT")
      [] ~p.overflow /\ p.unhandled -> NeedsSemantic("STRUCTURE_UNHANDLED_SCOPE")
      [] ~p.overflow /\ ~p.unhandled /\ draft.plan = Missing -> NeedsSemantic("STRUCTURE_RULES_INSUFFICIENT")
      [] OTHER -> IF draft.confidence < 85 THEN NeedsSemantic("STRUCTURE_CONFIDENCE_LOW")
                  ELSE IF PlanSize(draft.plan) > SampleLimits.plan THEN Result("limit", {}, Missing)
                  ELSE Result("plan_created", {}, draft.plan)

Decided(p) ==
    IF \E n \in DOMAIN p.drafts : p.drafts[n].plan # Missing /\ ~PlanFits(p.drafts[n].plan)
    THEN Result("untyped_error", {}, Missing)
    ELSE IF p.drafts = <<>> THEN NeedsSemantic("STRUCTURE_RULES_INSUFFICIENT")
    ELSE IF Len(p.drafts) > 1
    THEN Result("needs_review",
                {"STRUCTURE_MULTIPLE_CANDIDATES"}
                  \cup (IF p.unhandled THEN {"STRUCTURE_UNHANDLED_SCOPE"} ELSE {})
                  \cup (IF p.overflow THEN {"STRUCTURE_CANDIDATE_LIMIT"} ELSE {}), Missing)
    ELSE Chosen(p, p.drafts[1])

-----------------------------
(* The plan and the source, as they are handed to the validator. *)

BatchFor(b, i, kind) ==
    [index |-> i, lineage |-> 1, print |-> i, claims |-> i, nodes |-> b.nodes,
     tables |-> [n \in DOMAIN b.tables |-> [id |-> b.tables[n].id, rows |-> b.tables[n].rows]],
     objects |-> IF kind = "line"
                 THEN [n \in DOMAIN b.lines |-> [id |-> b.lines[n].id, text |-> b.lines[n].text, lines |-> <<>>]]
                 ELSE [n \in DOMAIN b.blocks |-> [id |-> b.blocks[n].id, text |-> b.blocks[n].text, lines |-> <<>>]]]

JobFor(plan, kind) ==
    [plan |-> plan, objects |-> kind,
     batches |-> [n \in DOMAIN physical.batches |-> BatchFor(physical.batches[n], n - 1, kind)]]

NoPlan == [plan |-> Missing, objects |-> "line", batches |-> <<>>]

PlanningInit ==
    /\ physical \in Sources /\ samples = NewSamples /\ analysis = Missing
    /\ job = NoPlan /\ doing = "sample" /\ at = 0 /\ runtime = Missing /\ out = NewOutput /\ verdict = Missing

(* A legacy source has no index before its end. *)
SampleBatch ==
    /\ doing = "sample" /\ at < Len(physical.batches)
    /\ samples' = Consume(samples, physical.batches[at + 1], at, IF physical.legacy THEN {} ELSE physical.hidden)
    /\ at' = at + 1
    /\ UNCHANGED <<physical, analysis, job, doing, runtime, out, verdict>>

(* The source, or the time, ends the analysis. *)
SamplingFails ==
    /\ doing = "sample" /\ doing' = "unsampled"
    /\ UNCHANGED <<planningVars, job, at, runtime, out, verdict>>

Analyze ==
    /\ doing = "sample" /\ at = Len(physical.batches)
    /\ samples' = Sampled(Bind(samples, physical.hidden))
    /\ \E profile \in {ProfileOf(samples')} : analysis' = Decided(DraftedOf(profile))
    /\ IF analysis'.plan = Missing
       THEN doing' = "analysed" /\ UNCHANGED <<job, runtime, at>>
       ELSE /\ doing' = "prepare" /\ at' = 0 /\ runtime' = NewRuntime(analysis'.plan)
            /\ job' = JobFor(analysis'.plan, IF analysis'.plan.kind = "log" THEN "line" ELSE "block")
    /\ UNCHANGED <<physical, out, verdict>>

PlanningNext == SampleBatch \/ SamplingFails \/ Analyze

PlanningSpec ==
    PlanningInit /\ [][PlanningNext \/ (PlanRunNext /\ UNCHANGED planningVars)]_<<planningVars, planVars>>

-----------------------------
(* What the source holds. *)

IsCreated == analysis # Missing /\ analysis.plan # Missing

AllOf(Of(_)) == UNION {Of(i) : i \in DOMAIN physical.batches}

RowsIn(i) == UNION {ToSet(t.rows) : t \in ToSet(physical.batches[i].tables)}
HeadersOf(plan) == {row.cells : row \in {row \in AllOf(RowsIn) : row.at = plan.header}}

IsBody(plan, row) ==
    plan.kind = "tabular" =>
        /\ row.at > plan.header /\ row.cells \notin HeadersOf(plan)
        /\ plan.footer = Missing \/ row.at < plan.footer

CellsBelow(plan) ==
    AllOf(LAMBDA i : UNION {{CellRef(i - 1, row, c) : c \in DOMAIN row.cells} :
                               row \in {row \in RowsIn(i) : IsBody(plan, row)}})

ValuedNodes == AllOf(LAMBDA i : {<<"node", i - 1, n.id>> : n \in {n \in ToSet(physical.batches[i].nodes) : n.value # Missing}})
PlainRefs == AllOf(LAMBDA i : {<<"line", i - 1, l.id>> : l \in ToSet(physical.batches[i].lines)})
BlocksToPlan == {b.ref : b \in ToSet(PlannedBlocks(samples))}

(* The blocks of those groups of the same kinds of which one was observed. *)
ObservedBlocks ==
    LET groups == BlockGroups(PlannedBlocks(samples))
        clusters == Clusters(groups, [n \in DOMAIN groups |-> KindsOf(groups[n])])
        profile == ProfileOf(samples)
    IN UNION {ToSet(ClusterRefs(c)) : c \in {c \in ToSet(clusters) : Touching(profile, ClusterRefs(c)) # <<>>}}

OriginsIn(records) ==
    FlattenSeq([n \in DOMAIN records |->
        FlattenSeq([e \in DOMAIN records[n] |->
            FlattenSeq([v \in DOMAIN records[n][e].values |-> records[n][e].values[v].origins])])])

SizeOfSource ==
    FoldLeft(LAMBDA sum, b :
                sum + Len(FlattenSeq([n \in DOMAIN b.tables |-> b.tables[n].rows])) + Len(b.lines) + Len(b.blocks)
                  + Len(SelectSeq(b.nodes, LAMBDA n : n.segment \in {Missing, 0})),
             0, physical.batches)

RepeatsAtOnce ==
    \E t \in ToSet(samples.tables) : \E i \in 2..Len(t.rows) : t.rows[i].cells = t.rows[i - 1].cells

(* A block that is left out of the plan stands between two that are not. *)
LeavesOut == Len(PlannedBlocks(samples)) < Len(samples.blocks)

HasNoText == \E b \in AllOf(LAMBDA i : ToSet(physical.batches[i].blocks)) : b.text = Missing

Bounded == LateFailures \cup {"physical_replay_required", "records_limit", "record_budget", "unsupported"}

(* A plan is made without a model only of a source that was sampled whole,   *)
(* and it says everything there is to say: every cell below the header that  *)
(* is not the header again or the total, every value of every node, every    *)
(* line and every block in a group that was observed is the origin of        *)
(* exactly one value of the records it selects (Planner, analyze).  Such a   *)
(* plan is one the contract takes, and the validator refuses it for its      *)
(* bounds only, for what was left out between two of its blocks, or for a    *)
(* block without text.                                                       *)
DerivedIsTotal ==
    /\ IsCreated => samples.reasons = {} /\ samples.seen = SizeOfSource /\ samples.retained = SizeOfSource
    /\ analysis # Missing => (analysis.outcome = "untyped_error" => RepeatsAtOnce)
    /\ IsCreated /\ doing = "rejected" =>
         verdict \in Bounded \cup (IF LeavesOut THEN {"noncontiguous_record"} ELSE {})
                         \cup (IF HasNoText THEN {"block_text_missing_or_line_limit"} ELSE {})
    /\ IsCreated /\ IsWhole =>
         /\ IsUnique(OriginsIn(runtime.records))
         /\ ToSet(OriginsIn(runtime.records)) =
              CellsBelow(analysis.plan) \cup ValuedNodes \cup PlainRefs \cup ObservedBlocks

(* Groups of other kinds are kept as candidates (docs/adr/0009): a plan is   *)
(* made only if no block of the source is in another group.                  *)
BlocksAreKept ==
    IsCreated /\ analysis.plan.kind = "document" => BlocksToPlan \subseteq ToSet(analysis.plan.scope)
=============================================================================
