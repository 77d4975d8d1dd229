------------------------------ MODULE Proposal ------------------------------
(***************************************************************************)
(* A plan proposed by a model (structure/llm_analysis.py).  A first replay *)
(* of the source confirms what will be sent (structure/semantic_samples.py)*)
(* and notes what the source holds; the model sees aliases and may only    *)
(* answer with them; structure/plan_compilation.py makes a plan of the     *)
(* answer, a second replay validates it, and what it would leave out of    *)
(* the source keeps it from being accepted.                                *)
(*                                                                         *)
(* A line has its text, a node its name and raw value, a cell its raw      *)
(* value, a block its words (a sequence of texts) and the lines [from, to].*)
(* An alias is the position of a reference in the catalog.                 *)
(***************************************************************************)
EXTENDS ParsePlan, Replay
LOCAL INSTANCE SequencesExt
LOCAL INSTANCE FiniteSetsExt

CONSTANTS
    Cases,              \* [shown, request, said]: a replay, a request, the answers
    ProposalPolicy,     \* [samples, refs, candidates, kinds, fields, entities, locales,
                        \*  threshold, payload, output, plan, occurrences]
    ProposalScans,      \* what a scanner may say
    ProposalCaps        \* what a provider may declare

VARIABLES
    matter,             \* the case, and how the result is assessed
    reader,             \* StreamCheck, and the number of batches read
    gathered,           \* SemanticSampleCatalog
    phase,              \* "new", "read", "ask", "compile", "validate" or "end"
    drafted,            \* the compiled plan
    proposed            \* the result

proposalVars == <<matter, reader, gathered, phase, drafted, proposed>>

Request == matter.case.request

-----------------------------
(* The facts of a batch: every reference with what stands there. *)

RefOfObject(b, kind, id) == <<kind, b.index, id>>
RefOfKey(r) == <<r.key[1], r.batch, r.key[2]>>
Indexed(b) == {RefOfKey(r) : r \in ToSet(b.refs)}
Fact(ref, raw, path) == [ref |-> ref, raw |-> raw, path |-> path]

(* A fact, and the value that is there with an identity of its own. *)
FactsAt(b, kind, id, raw, path, values) ==
    {Fact(RefOfObject(b, kind, id), raw, path)}
      \cup {Fact(RefOfObject(b, "value", v), raw, path) : v \in ToSet(values) \ {Missing}}

Occurrence(b, n) ==
    Cardinality({m \in ToSet(b.trees) : m.parent = n.parent /\ m.name = n.name /\ m.order < n.order})

NodeWith(b, id) == CHOOSE n \in ToSet(b.trees) : n.id = id

StepOf(b, n) ==
    IF NodeWith(b, n.parent).kind = "array" THEN [op |-> "item", name |-> "", occurrence |-> 0]
    ELSE [op |-> "key", name |-> n.name, occurrence |-> Occurrence(b, n)]

PathIn(b) ==
    LET path[id \in {n.id : n \in ToSet(b.trees)}] ==
            LET n == NodeWith(b, id) IN
            IF n.parent = Missing THEN <<>> ELSE Append(path[n.parent], StepOf(b, n))
    IN path

TableFacts(b) ==
    UNION {{Fact(RefOfObject(b, "table", t.id), Missing, <<>>)}
             \cup UNION {FactsAt(b, "cell", c.id, c.raw, <<>>, <<c.value>>) : c \in ToSet(t.cells)} :
           t \in ToSet(b.tables)}

NodeFacts(b) ==
    UNION {FactsAt(b, "node", n.id, n.raw, PathIn(b)[n.id], <<n.value>>) : n \in ToSet(b.trees)}

TextFacts(b) ==
    UNION {FactsAt(b, "line", l.id, <<l.text>>, <<>>, l.values) : l \in ToSet(AllLines(b))}
      \cup UNION {FactsAt(b, "block", k.id, k.words, <<>>, k.values) : k \in ToSet(b.blocks)}

PhysicalValues(b) == TableFacts(b) \cup NodeFacts(b) \cup TextFacts(b)

-----------------------------
(* What is wanted of the source: samples, what the best candidates stand    *)
(* on, and of the profile's evidence as much as fits.                       *)

Ranked(candidates) ==
    LET better(a, b) ==
            \/ candidates[a].confidence > candidates[b].confidence
            \/ candidates[a].confidence = candidates[b].confidence /\ a < b
        place(n) == Cardinality({m \in DOMAIN candidates : better(m, n)}) + 1
        all == [k \in DOMAIN candidates |-> candidates[CHOOSE n \in DOMAIN candidates : place(n) = k]]
    IN SubSeq(all, 1, Min({Len(all), ProposalPolicy.candidates}))

SampleRefs(request) == {s.ref : s \in request.samples}

Needed(request) ==
    SampleRefs(request) \cup UNION {ToSet(c.evidence) : c \in ToSet(Ranked(request.candidates))}

Wanted(request) ==
    FoldLeft(LAMBDA refs, ref : IF Cardinality(refs) < ProposalPolicy.refs THEN refs \cup {ref} ELSE refs,
             Needed(request), request.evidence)

(* Blocks that only repeat the lines of their batch. *)
WrapsLines(b, k) ==
    /\ k.from # Missing /\ k.words # Missing
    /\ Len(k.words) = k.to - k.from + 1
    /\ \A i \in DOMAIN k.words :
         \E l \in ToSet(b.lines) : l.number = k.from + i - 1 /\ l.text = k.words[i]

BlocksRepresentLines(b) ==
    /\ \A k \in ToSet(b.blocks) : WrapsLines(b, k)
    /\ FoldLeft(LAMBDA sum, k : sum + k.to - k.from + 1, 0, b.blocks)
         <= Cardinality({l.number : l \in ToSet(b.lines)})

NothingGathered ==
    [kept |-> {}, scope |-> {}, families |-> {}, unwrapped |-> FALSE, roots |-> {}, bounds |-> {},
     unindexed |-> {}]

FamiliesIn(b) ==
    {f \in {"table", "node", "line", "block"} :
        CASE f = "table" -> b.tables # <<>> [] f = "node" -> b.trees # <<>>
          [] f = "line" -> b.lines # <<>>   [] OTHER -> b.blocks # <<>>}

RootsIn(b) == {RefOfObject(b, "node", n.id) : n \in {m \in ToSet(b.trees) : m.parent = Missing}}

(* The rows of a table, or of a segment of it. *)
RowsOf(t) ==
    LET rows == {c.row : c \in ToSet(t.cells)} IN
    IF t.segment # Missing THEN <<t.row_start, t.row_end>>
    ELSE IF rows = {} THEN <<0, 0>> ELSE <<Min(rows), Max(rows)>>

Widened(bounds, t) ==
    LET before == {x \in bounds : x.id = t.id} IN
    (bounds \ before)
      \cup {[id |-> t.id, first |-> Min({RowsOf(t)[1]} \cup {x.first : x \in before}),
             last |-> Max({RowsOf(t)[2]} \cup {x.last : x \in before})]}

(* Slip: a line or block without a reference is forgotten. *)
UnindexedIn_Never(refs, known) == {}
UnindexedIn(refs, known) == {r[1] : r \in {x \in refs : x[1] \in {"line", "block"} /\ x \notin known}}

Gather(g, b, known, wanted) ==
    LET facts == PhysicalValues(b) IN
    [kept      |-> g.kept \cup {f \in facts : f.ref \in wanted},
     scope     |-> g.scope \cup Indexed(b),
     families  |-> g.families \cup FamiliesIn(b),
     unwrapped |-> g.unwrapped \/ ~BlocksRepresentLines(b),
     roots     |-> g.roots \cup RootsIn(b),
     bounds    |-> FoldLeft(Widened, g.bounds, b.tables),
     unindexed |-> g.unindexed \cup UnindexedIn({f.ref : f \in facts}, known)]

SampleFits(sample, f) == sample.ref = f.ref => sample.raw = f.raw

(* A path with too many equal names before it cannot be told to the model. *)
TooFar(f) == \E i \in DOMAIN f.path : f.path[i].occurrence > ProposalPolicy.occurrences

GatherError(g, request) ==
    IF Cardinality(g.roots) > ReplayLimits.structures \/ Cardinality(g.bounds) > ReplayLimits.structures
       \/ \E f \in g.kept : TooFar(f) THEN "context_limit"
    ELSE IF \E f \in g.kept : \E s \in request.samples : ~SampleFits(s, f) THEN "request_invalid"
    ELSE "ok"

(* The catalog is in the order of the index; the payload grows with it. *)
Entries ==
    LET refs == [i \in DOMAIN Request.manifest.index |-> RefOfKey(Request.manifest.index[i])] IN
    SelectSeq(refs, LAMBDA r : r \in {f.ref : f \in gathered.kept})

PathAt(ref) == (CHOOSE f \in gathered.kept : f.ref = ref).path
SampleBytes == Len(Entries) + Cardinality(Request.samples) + Len(Ranked(Request.candidates))
IsActivePayload == \E s \in Request.samples : s.raw = <<"active">>

-----------------------------
(* An answer, compiled.  A suggestion is [decision, candidates, plan], a    *)
(* proposal [kind, root, rows, repeated, scope, fields, entities, active].  *)

IsAlias(a) == a \in DOMAIN Entries
Resolved(aliases) == [i \in DOMAIN aliases |-> Entries[aliases[i]]]
AllAliases(aliases) == \A a \in ToSet(aliases) : IsAlias(a)

(* A selector names just what its kind needs. *)
Active(s) == {k \in {"index", "offset", "source", "delimiter", "target", "key"} : s[k] # Missing}

NeededBy(s) ==
    CASE s.kind = "column" -> {"index"}
      [] s.kind = "tree" -> {"source"}
      [] s.kind = "piece" -> {"index", "offset", "delimiter"}
      [] s.kind = "record" -> {}
      [] OTHER -> {"offset", "target"} \cup (IF s.target = "value" THEN {"key"} ELSE {})

SelectorIsPlain(s) == Active(s) = NeededBy(s) /\ (s.path # <<>> => s.kind = "tree")

SelectorOf(s) ==
    CASE s.kind = "column" -> [kind |-> "column", column |-> s.index]
      [] s.kind = "tree" -> [kind |-> "path", path |-> <<>>, steps |-> s.path, source |-> s.source]
      [] s.kind = "piece" -> [kind |-> "token", line |-> s.offset, token |-> s.index]
      [] s.kind = "record" -> [kind |-> "record"]
      [] OTHER -> [kind |-> "target", target |-> s.target, column |-> Missing, block |-> s.offset,
                   key |-> s.key]

FieldOf(f) ==
    [name |-> f.name, type |-> f.type, refs |-> Resolved(f.refs), sel |-> SelectorOf(f.sel), rules |-> FALSE]

FieldReason(f) ==
    IF f.locale # Missing /\ f.locale \notin ProposalPolicy.locales THEN "schema"
    ELSE IF ~AllAliases(f.refs) THEN "unknown_ref"
    ELSE IF ~SelectorIsPlain(f.sel) \/ ~FieldFits(FieldOf(f)) THEN "schema"
    ELSE "ok"

GroupOf(proposal, e) ==
    CASE proposal.kind = "tabular" -> [kind |-> "rows", rows |-> 1]
      [] proposal.kind = "tree" ->
           [kind |-> "nodes", steps |-> e.path, path |-> <<>>, descendants |-> FALSE]
      [] OTHER -> [kind |-> "explicit", records |-> [n \in DOMAIN e.records |-> Resolved(e.records[n])]]

EntityOf(proposal, e) ==
    [type |-> e.type, fields |-> e.fields, identity |-> <<>>, parent |-> e.parent,
     group |-> GroupOf(proposal, e)]

EntityReason(proposal, e) ==
    IF \/ proposal.kind = "tabular" /\ (e.path # <<>> \/ e.records # <<>>)
       \/ proposal.kind = "tree" /\ e.records # <<>>
       \/ proposal.kind \in {"log", "document"} /\ e.path # <<>>
    THEN "schema"
    ELSE IF \E r \in ToSet(e.records) : ~AllAliases(r) THEN "unknown_ref"
    ELSE IF ~EntityFits(EntityOf(proposal, e)) THEN "schema"
    ELSE "ok"

(* What the model says of its own confidence counts for nothing. *)
Named(suggestion) == {Ranked(Request.candidates)[c] : c \in suggestion.candidates}
OfKind(kind) == {c \in ToSet(Ranked(Request.candidates)) : c.kind = kind}
ProposalConfidence(suggestion) ==
    LET kind == suggestion.plan.kind
        chosen == IF suggestion.candidates = {} THEN OfKind(kind) ELSE Named(suggestion)
    IN IF chosen = {} THEN 0 ELSE Min({c.confidence : c \in chosen})

FirstSeen(refs) == FoldLeft(LAMBDA seen, r : IF r \in ToSet(seen) THEN seen ELSE Append(seen, r), <<>>, refs)

CommonOf(suggestion) ==
    LET p == suggestion.plan
        fields == [i \in DOMAIN p.fields |-> FieldOf(p.fields[i])]
    IN [kind |-> p.kind, version |-> 1, rules |-> FALSE, fields |-> fields,
        entities |-> [i \in DOMAIN p.entities |-> EntityOf(p, p.entities[i])],
        evidence |-> FirstSeen(FlattenSeq([i \in DOMAIN fields |-> fields[i].refs])),
        confidence |-> ProposalConfidence(suggestion)]

With(common, own) == [k \in DOMAIN common \cup DOMAIN own |-> IF k \in DOMAIN own THEN own[k] ELSE common[k]]

LongestRecord(p) == Max({1} \cup UNION {{Len(r) : r \in ToSet(e.records)} : e \in ToSet(p.entities)})

PlanOf(suggestion) ==
    LET p == suggestion.plan common == CommonOf(suggestion) IN
    CASE p.kind = "tabular" ->
           With(common, [table |-> Entries[p.root], header |-> p.rows.header, start |-> p.rows.start,
                         end |-> p.rows.end, footer |-> p.rows.footer, repeated |-> p.repeated])
      [] p.kind = "tree" ->
           With(common, [root |-> Entries[p.root], path |-> <<>>,
                         steps |-> (CHOOSE e \in ToSet(p.entities) : e.parent = 0).path])
      [] p.kind = "log" -> With(common, [scope |-> Resolved(p.scope), most |-> LongestRecord(p)])
      [] OTHER -> With(common, [scope |-> Resolved(p.scope)])

(* Records and fields of a tree lie on paths the catalog knows. *)
PathsReason(p) ==
    LET paths == {PathAt(r) : r \in {x \in ToSet(Entries) : x[1] \in {"node", "value"}}}
        record(e) == PathAt(Entries[p.root]) \o e.path
    IN IF \A e \in ToSet(p.entities) :
            /\ \E path \in paths : IsPrefix(record(e), path)
            /\ \A f \in ToSet(e.fields) : f \in DOMAIN p.fields => record(e) \o p.fields[f].sel.path \in paths
       THEN "ok" ELSE "unknown_ref"

(* What has to be there, and what must not, for each kind of plan. *)
KindReason(p) ==
    IF p.kind # "tabular" /\ (p.repeated # <<>> \/ \E k \in DOMAIN p.rows : p.rows[k] # Missing) THEN "schema"
    ELSE IF p.kind \in {"tabular", "tree"}
    THEN IF p.root = Missing \/ p.scope # <<>> THEN "schema"
         ELSE IF ~IsAlias(p.root) THEN "unknown_ref"
         ELSE IF p.kind = "tabular" THEN IF p.rows.header = Missing \/ p.rows.start = Missing THEN "schema" ELSE "ok"
         ELSE IF Cardinality({i \in DOMAIN p.entities : p.entities[i].parent = 0}) # 1 THEN "schema"
         ELSE PathsReason(p)
    ELSE IF p.root # Missing THEN "schema"
    ELSE IF ~AllAliases(p.scope) THEN "unknown_ref"
    ELSE "ok"

PlanBytes(plan) == Len(plan.fields) + Len(plan.entities)

(* compile_plan: "ok", or why the answer is no plan. *)
CompileReason(suggestion) ==
    LET p == suggestion.plan IN
    IF p.kind \notin ProposalPolicy.kinds \/ Len(p.fields) > ProposalPolicy.fields
       \/ Len(p.entities) > ProposalPolicy.entities THEN "capability"
    ELSE IF p.active THEN "unsafe"
    ELSE LET parts == FirstReason([i \in DOMAIN p.fields |-> FieldReason(p.fields[i])]
                                  \o [i \in DOMAIN p.entities |-> EntityReason(p, p.entities[i])])
         IN IF parts # "ok" THEN parts
            ELSE IF \E c \in Named(suggestion) : c.kind # p.kind THEN "schema"
            ELSE IF KindReason(p) # "ok" THEN KindReason(p)
            ELSE IF ~PlanFits(PlanOf(suggestion)) THEN "schema"
            ELSE IF PlanBytes(PlanOf(suggestion)) > ProposalPolicy.plan THEN "context_limit"
            ELSE "ok"

-----------------------------
(* Whether the plan leaves anything out of the source. *)

ScopeOfKind(kind) == {r \in gathered.scope : r[1] = kind}
NoneOf(kinds) == gathered.families \cap kinds = {}

LastRowOf(id) == (CHOOSE x \in gathered.bounds : x.id = id).last

CompleteTable(plan) ==
    /\ Cardinality(gathered.bounds) = 1
    /\ plan.footer # Missing \/ plan.end = LastRowOf(plan.table[3])
    /\ NoneOf({"block", "line", "node"})
    /\ \A r \in ScopeOfKind("table") : r[3] = plan.table[3]

CompleteScope(plan) ==
    CASE plan.kind = "log" ->
           /\ "line" \notin gathered.unindexed /\ ToSet(plan.scope) = ScopeOfKind("line")
           /\ ~gathered.unwrapped /\ NoneOf({"table", "node"})
      [] plan.kind = "document" ->
           /\ "block" \notin gathered.unindexed /\ ToSet(plan.scope) = ScopeOfKind("block")
           /\ NoneOf({"table", "node"})
      [] plan.kind = "tabular" -> CompleteTable(plan)
      [] OTHER -> NoneOf({"table", "block", "line"}) /\ gathered.roots = {plan.root}

-----------------------------
(* One analysis. *)

Outcome(outcome, reason, plan, candidates) ==
    [outcome |-> outcome, reason |-> reason, plan |-> plan, candidates |-> candidates]
NoOutcome == Outcome("none", "", Missing, <<>>)

(* What a person is asked to look at when nothing was found before. *)
MadeUp(ref) ==
    [kind |-> CASE ref[1] \in {"table", "cell"} -> "tabular" [] ref[1] = "node" -> "tree"
                [] ref[1] = "line" -> "log" [] OTHER -> "document",
     confidence |-> 0, evidence |-> <<ref>>, blocked |-> FALSE]

Review(reason) ==
    IF Ranked(Request.candidates) # <<>> THEN Outcome("review", reason, Missing, Ranked(Request.candidates))
    ELSE IF Request.evidence = <<>> THEN Outcome("rejected", reason, Missing, <<>>)
    ELSE Outcome("review", reason, Missing, <<MadeUp(Request.evidence[1])>>)

EndWith(outcome) == phase' = "end" /\ proposed' = outcome
Fail(reason) == EndWith(Outcome("failed", reason, Missing, <<>>))
GoOn(next) == phase' = next /\ UNCHANGED proposed

ProposalInit ==
    /\ matter \in [case : Cases, assessment : {"candidate", "hybrid"}]
    /\ reader = [check |-> NewReplay, read |-> 0] /\ gathered = NothingGathered
    /\ phase = "new" /\ drafted = Missing /\ proposed = NoOutcome

(* _run: what is refused before the source is read. *)
Start ==
    /\ phase = "new"
    /\ IF ~Request.fits THEN Fail("request_invalid")
       ELSE IF Request.mode = "deterministic" \/ ~Request.replay
       THEN EndWith(Outcome("rejected", "unsupported", Missing, <<>>))
       ELSE IF ~Request.current THEN Fail("request_invalid")
       ELSE IF Cardinality(Request.samples) > ProposalPolicy.samples
               \/ Cardinality(Needed(Request)) > ProposalPolicy.refs
       THEN Fail("context_limit")
       ELSE GoOn("read")
    /\ UNCHANGED <<matter, reader, gathered, drafted>>

SummaryKnown(b) == b.index < Len(Request.manifest.sums) /\ SummaryOf(b) = Request.manifest.sums[b.index + 1]

ReadOn(check, b) ==
    \E g \in {Gather(gathered, b, {RefOfKey(r) : r \in ToSet(check.index)}, Wanted(Request))} :
        IF GatherError(g, Request) # "ok"
        THEN Fail(GatherError(g, Request)) /\ UNCHANGED <<reader, gathered>>
        ELSE /\ reader' = [check |-> check, read |-> reader.read + 1] /\ gathered' = g
             /\ UNCHANGED <<phase, proposed>>

ReadSample ==
    /\ phase = "read" /\ reader.read < Len(matter.case.shown)
    /\ \E b \in {matter.case.shown[reader.read + 1]} : \E check \in {Accept(reader.check, b)} :
         IF check.error # "ok" \/ ~SummaryKnown(b)
         THEN /\ Fail(IF check.error # "ok" THEN "source" ELSE "request_invalid")
              /\ UNCHANGED <<reader, gathered>>
         ELSE ReadOn(check, b)
    /\ UNCHANGED <<matter, drafted>>

(* All that is wanted was seen, in just the source of the request. *)
ConfirmSamples ==
    /\ phase = "read" /\ reader.read = Len(matter.case.shown)
    /\ IF reader.check.manifest # Request.manifest \/ {f.ref : f \in gathered.kept} # Wanted(Request)
       THEN Fail("unknown_ref")
       ELSE IF SampleBytes > ProposalPolicy.payload THEN Fail("context_limit")
       ELSE GoOn("ask")
    /\ UNCHANGED <<matter, reader, gathered, drafted>>

(* _request and _check_provider. *)
AskReason(scan, caps) ==
    IF IsActivePayload THEN "unsafe"
    ELSE IF scan # "allow" THEN "denied"
    ELSE IF ~caps.known \/ (caps.restricted /\ ~caps.local) THEN "denied"
    ELSE IF ~caps.structured THEN "capability"
    ELSE IF SampleBytes > caps.input THEN "context_limit"
    ELSE "ok"

SendSample(scan, caps) ==
    /\ phase = "ask"
    /\ IF scan = "review" /\ ~IsActivePayload THEN EndWith(Review("injection"))
       ELSE IF AskReason(scan, caps) # "ok" THEN Fail(AskReason(scan, caps))
       ELSE GoOn("compile")
    /\ UNCHANGED <<matter, reader, gathered, drafted>>

(* What a provider raised, and _response. *)
ReplyReason(reply) ==
    IF reply.error # "" THEN reply.error
    ELSE IF ~reply.bound \/ reply.bytes > ProposalPolicy.output THEN "schema"
    ELSE IF reply.active THEN "unsafe"
    ELSE IF ~reply.parsed THEN "schema"
    ELSE IF ~(reply.said.candidates \subseteq DOMAIN Ranked(Request.candidates)) THEN "unknown_ref"
    ELSE "ok"

CompileAnswer(reply) ==
    /\ phase = "compile"
    /\ IF ReplyReason(reply) # "ok" THEN Fail(ReplyReason(reply)) /\ UNCHANGED drafted
       ELSE IF reply.said.decision # "plan" THEN EndWith(Review(reply.said.decision)) /\ UNCHANGED drafted
       ELSE \E reason \in {CompileReason(reply.said)} :
              IF reason # "ok" THEN Fail(reason) /\ UNCHANGED drafted
              ELSE GoOn("validate") /\ drafted' = PlanOf(reply.said)
    /\ UNCHANGED <<matter, reader, gathered>>

Related(plan) == {i \in DOMAIN Request.candidates : Request.candidates[i].kind = plan.kind}

Assessed(plan) ==
    IF ~CompleteScope(plan) THEN Review("incomplete")
    ELSE IF matter.assessment = "hybrid" THEN Outcome("created", "", plan, <<>>)
    ELSE IF Cardinality(Related(plan)) > 1 \/ \E i \in Related(plan) : Request.candidates[i].blocked
    THEN Review("ambiguous")
    ELSE IF plan.confidence < ProposalPolicy.threshold THEN Review("low")
    ELSE Outcome("created", "", plan, <<>>)

(* The validator reads the source once more; what it accepts was also       *)
(* found there.                                                             *)
ValidateDraft(accepted) ==
    /\ phase = "validate" /\ (accepted => StaticFits(drafted))
    /\ IF accepted THEN EndWith(Assessed(drafted)) ELSE Fail("schema")
    /\ UNCHANGED <<matter, reader, gathered, drafted>>

(* The deadline, a cancellation and an error of the source end it anywhere. *)
Interrupt ==
    /\ phase \in {"read", "ask", "compile", "validate"}
    /\ \E reason \in {"timeout", "cancelled"} \cup (IF phase = "read" THEN {"source"} ELSE {}) : Fail(reason)
    /\ UNCHANGED <<matter, reader, gathered, drafted>>

ProposalNext ==
    \/ Start
    \/ ReadSample
    \/ ConfirmSamples
    \/ \E scan \in ProposalScans, caps \in ProposalCaps : SendSample(scan, caps)
    \/ \E reply \in matter.case.said : CompileAnswer(reply)
    \/ \E accepted \in BOOLEAN : ValidateDraft(accepted)
    \/ Interrupt

ProposalSpec == ProposalInit /\ [][ProposalNext]_proposalVars

-----------------------------
(* What is promised, told from the batches that were shown. *)

Replayed == ToSet(matter.case.shown)
RefsOfKind(kind) == {f.ref : f \in {x \in UNION {PhysicalValues(b) : b \in Replayed} : x.ref[1] = kind}}
RowsShown == UNION {UNION {{c.row : c \in ToSet(t.cells)} : t \in ToSet(b.tables)} : b \in Replayed}

(* Every text of the source is a line of the plan, or repeats one. *)
LosesNoLine(plan) ==
    /\ RefsOfKind("line") = ToSet(plan.scope)
    /\ \A b \in Replayed : \A k \in ToSet(b.blocks) :
         k.words # Missing /\ ToSet(k.words) \subseteq {l.text : l \in ToSet(b.lines)}

LosesNothing(plan) ==
    CASE plan.kind = "log" ->
           LosesNoLine(plan) /\ RefsOfKind("table") \cup RefsOfKind("node") = {}
      [] plan.kind = "document" ->
           RefsOfKind("block") = ToSet(plan.scope) /\ RefsOfKind("table") \cup RefsOfKind("node") = {}
      [] plan.kind = "tabular" ->
           /\ RefsOfKind("line") \cup RefsOfKind("block") \cup RefsOfKind("node") = {}
           /\ \A r \in RefsOfKind("table") : r[3] = plan.table[3]
           /\ \A row \in RowsShown : row <= plan.end \/ plan.footer # Missing
      [] OTHER ->
           /\ RefsOfKind("line") \cup RefsOfKind("block") \cup RefsOfKind("table") = {}
           /\ UNION {RootsIn(b) : b \in Replayed} = {plan.root}

IsBacked(plan) ==
    /\ PlanFits(plan) /\ StaticFits(plan) /\ plan.kind \in ProposalPolicy.kinds
    /\ PlanRefs(plan) \subseteq {f.ref : f \in gathered.kept}
    /\ matter.assessment = "candidate" =>
         /\ plan.confidence >= ProposalPolicy.threshold
         /\ \E i \in DOMAIN Request.candidates :
              /\ Request.candidates[i].kind = plan.kind /\ ~Request.candidates[i].blocked
              /\ plan.confidence = Request.candidates[i].confidence
              /\ \A j \in DOMAIN Request.candidates \ {i} : Request.candidates[j].kind # plan.kind

(* A model is asked only about an extraction that was replayed to its end   *)
(* and in which every sample was found; a plan that is accepted stands on   *)
(* what the model was shown, on the one hypothesis of its kind, and leaves  *)
(* nothing of the source out (complete_scope).                              *)
ProposalIsWhole ==
    /\ phase \in {"compile", "validate"} =>
         /\ IsExtraction(Request.manifest, matter.case.shown)
         /\ \A s \in Request.samples : \E b \in Replayed :
              Fact(s.ref, s.raw, <<>>) \in {[f EXCEPT !.path = <<>>] : f \in PhysicalValues(b)}
    /\ proposed.outcome = "created" => LosesNothing(proposed.plan) /\ IsBacked(proposed.plan)
    /\ proposed.outcome = "review" => proposed.candidates # <<>> /\ proposed.plan = Missing
=============================================================================
