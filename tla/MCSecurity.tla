----------------------------- MODULE MCSecurity -----------------------------
(***************************************************************************)
(* What guards a run - the session with its callers, the placeholder       *)
(* store, the provider - and what is asked of a model - the entities of a  *)
(* document, a plan, and the session that asks: each behaviour is one      *)
(* part's, the others stay where they are.                                 *)
(***************************************************************************)
EXTENDS Guarded, Vault, Provider, Document, Semantic, Proposal
LOCAL INSTANCE SequencesExt
LOCAL INSTANCE TLC

-----------------------------
Caps(env, in, purposes) ==
    [environment |-> env, tool_calling |-> FALSE, purposes |-> purposes,
     input |-> in, output |-> 1, window |-> 3]

MCDeployments == {"near", "far", "own"}
MCNear == Caps("local", 1, {"plan", "map"})
MCFar == Caps("cloud", 2, {"plan"})
MCOwn == [Caps("local", 1, {"plan"}) EXCEPT !.output = 2, !.window = 2]
MCMoved == [MCNear EXCEPT !.environment = "cloud", !.output = 2]

Route(d, caps, allowed) == [deployment |-> d, capabilities |-> caps, allowed |-> allowed]
Policy(mode, routes) ==
    [mode |-> mode, routes |-> routes, max_calls |-> 3, max_tokens |-> 5, max_time |-> 3]

NearRoute == Route("near", MCNear, {"public", "confidential", "restricted"})
FarRoute == Route("far", MCFar, {"public", "confidential"})

MCPolicies ==
    {Policy("privacy_first", <<FarRoute, NearRoute>>),
     Policy("fallback", <<NearRoute, FarRoute>>),
     Policy("local_only", <<FarRoute, NearRoute>>),
     Policy("fixed", <<FarRoute>>), Policy("no_llm", <<>>)}

Setup(tasks, users, pol, clock, redeploys, requests) ==
    [tasks |-> tasks, users |-> users, policy |-> pol, clock_steps |-> clock,
     redeploys |-> redeploys, requests |-> requests]

ASSUME \A p \in MCPolicies : PolicyFits(p)
ASSUME \A c \in {MCNear, MCFar, MCOwn, MCMoved} : CapabilitiesFit(c)

Fallback == Policy("fallback", <<NearRoute, FarRoute>>)

Req(class, purpose, here, ok) ==
    [classification |-> class, purpose |-> purpose, local_only |-> here, approved |-> ok]

Confidential == Req("confidential", "plan", FALSE, TRUE)
Restricted == Req("restricted", "map", FALSE, TRUE)
Suspicious == Req("public", "plan", TRUE, TRUE)
Foreign == Req("public", "plan", FALSE, FALSE)

(* Every policy with one caller and a deployment that moves; two callers of *)
(* one router; a router and a run provider; the other users together.       *)
MCSetups ==
    {Setup({"r1"}, {}, p, FALSE, TRUE, {Confidential, Restricted}) : p \in MCPolicies}
    \cup {Setup({"r1"}, {}, Policy("fallback", <<FarRoute, NearRoute>>), FALSE, FALSE,
                {Suspicious, Foreign}),
          Setup({"r1", "r2"}, {}, Fallback, FALSE, FALSE, {Confidential}),
          Setup({"r1", "p1"}, {}, Fallback, FALSE, FALSE, {Confidential}),
          Setup({"p1"}, {"db"}, Fallback, TRUE, TRUE, {Suspicious}),
          Setup({"r1"}, {"lease"}, Fallback, FALSE, FALSE, {Confidential}),
          Setup({}, {"db", "snap"}, Fallback, TRUE, FALSE, {})}

Says(code, bound, in, out) == [code |-> code, bound |-> bound, input |-> in, output |-> out]

MCAnswers ==
    {Says("ok", TRUE, 1, 1), Says("ok", FALSE, 1, 1), Says("ok", TRUE, 1, 2)}
    \cup {Says(c, TRUE, 0, 0) : c \in {"LLM_UNAVAILABLE", "LLM_SCHEMA_VIOLATION"}}

MCLimit == [r \in Resource |->
    CASE r = "llm_calls" -> 3 [] r = "llm_tokens" -> 6 [] r = "db_queries" -> 2
      [] r = "file_bytes" -> 3 [] r = "stream_bytes" -> 4 [] r = "llm_time_ms" -> 3
      [] r = "parser_time_ms" -> 2 [] r = "processing_time_ms" -> 3 [] OTHER -> 2]

-----------------------------
(***************************************************************************)
(* Small documents, and answers that fit them or do not.                   *)
(***************************************************************************)

MCDocumentPolicy == [piece |-> 3, chunk |-> 8, fragments |-> 2, overlap |-> 1, refs |-> 2, chunks |-> 2,
                     entities |-> 3, issues |-> 2, input |-> 8, output |-> 4]

-----------------------------
(* Documents: ab|ua, ab in blocks, in lines, in nodes. *)
BlockRef(n) == <<"block", 0, n>>
LineRef(n) == <<"line", 0, n>>
NodeRef(n) == <<"node", 0, n>>
Text(ref, text) == [ref |-> ref, text |-> text]
BlockOf(n, text) == [ref |-> BlockRef(n), text |-> text, lines |-> <<>>]

NoBatch == [blocks |-> <<>>, lines |-> <<>>, nodes |-> <<>>, tables |-> 0, same |-> TRUE]
InBlocks(texts) == [NoBatch EXCEPT !.blocks = [n \in DOMAIN texts |-> BlockOf(n, texts[n])]]

Everything == {BlockRef(n) : n \in 1..4} \cup {LineRef(n) : n \in 1..4} \cup {NodeRef(n) : n \in 1..4}
DocOf(batches) == [batches |-> batches, indexed |-> Everything, same |-> TRUE]

Wider == <<"a", "b", "u", "a">>
Short == <<"a", "b">>

MCDocuments ==
    {DocOf(<<InBlocks(<<Short>>)>>), DocOf(<<InBlocks(<<Wider>>)>>),
     DocOf(<<InBlocks(<<Wider, Short>>)>>), DocOf(<<InBlocks(<<<<"u", "a", "b">>>>)>>),
     DocOf(<<InBlocks(<<Short, <<" ">>, Wider>>)>>),
     DocOf(<<[InBlocks(<<Short>>) EXCEPT !.tables = 1]>>),
     DocOf(<<InBlocks(<<Short, <<"a", "!">>>>)>>),
     DocOf(<<[NoBatch EXCEPT !.blocks = <<[BlockOf(1, Missing) EXCEPT
                 !.lines = <<Text(LineRef(1), Short), Text(LineRef(2), <<"a">>)>>], BlockOf(2, Missing)>>]>>),
     DocOf(<<[NoBatch EXCEPT !.lines = <<Text(LineRef(1), Short), Text(LineRef(2), <<"b">>)>>],
             [NoBatch EXCEPT !.lines = <<Text(LineRef(3), Short)>>]>>),
     [DocOf(<<[NoBatch EXCEPT !.nodes = <<Text(NodeRef(1), Short), Text(NodeRef(2), Missing),
                                          Text(NodeRef(3), <<"b">>)>>]>>)
        EXCEPT !.indexed = @ \ {NodeRef(3)}],
     DocOf(<<InBlocks(<<Wider, Short>>), [InBlocks(<<Short>>) EXCEPT !.same = FALSE]>>),
     [DocOf(<<InBlocks(<<Short>>)>>) EXCEPT !.same = FALSE]}

-----------------------------
(* Answers. *)
Q(ref, start, quote) == [ref |-> ref, start |-> start, end |-> start + Len(quote), quote |-> quote]
QF(name, type, spans) == [name |-> name, type |-> type, spans |-> spans]
QE(id, anchor, parent, fields) ==
    [id |-> id, type |-> "t", anchor |-> anchor, parent |-> parent, fields |-> fields]

A == Q(0, 0, <<"a">>)
B == Q(0, 1, <<"b">>)
AOf(parent) == QE(1, A, parent, <<QF(1, "text", <<A>>)>>)
BOf(parent) == QE(2, B, parent, <<QF(1, "text", <<B>>)>>)
UOf(type) == QE(1, Q(0, 0, <<"u">>), Missing, <<QF(1, type, <<Q(0, 0, <<"u">>)>>)>>)
Next1(char, parent) == QE(3, Q(1, 0, <<char>>), parent, <<QF(1, "text", <<Q(1, 0, <<char>>)>>)>>)

Saying(entities, unresolved) ==
    [error |-> "", bound |-> TRUE, bytes |-> 1, active |-> FALSE, parsed |-> TRUE, this |-> TRUE,
     entities |-> entities, unresolved |-> unresolved]
Plain == Saying(<<AOf(Missing)>>, <<>>)

MCChunkReplies ==
    {Plain, Saying(<<>>, <<0>>), Saying(<<AOf(Missing), Next1("u", 1)>>, <<>>),
     Saying(<<AOf(Missing), Next1("a", 1)>>, <<>>), Saying(<<Next1("a", Missing)>>, <<>>),
     Saying(<<AOf(Missing), Next1("b", 1)>>, <<>>), Saying(<<UOf("text"), Next1("a", Missing)>>, <<>>),
     Saying(<<AOf(Missing), Next1("u", Missing)>>, <<>>), Saying(<<UOf("int"), Next1("a", 1)>>, <<>>),
     Saying(<<QE(1, A, Missing, <<QF(2, "text", <<A, B>>)>>)>>, <<>>),
     Saying(<<QE(1, A, Missing, <<QF(1, "int", <<A>>)>>)>>, <<>>),
     Saying(<<AOf(Missing), [Next1("u", Missing) EXCEPT !.fields[1].type = "int"]>>, <<>>),
     Saying(<<AOf(2), BOf(1)>>, <<>>), Saying(<<AOf(1)>>, <<>>), Saying(<<AOf(Missing), BOf(1), Next1("a", 2)>>, <<>>),
     Saying(<<UOf("text"), Next1("b", Missing)>>, <<>>),
     Saying(<<AOf(Missing), [AOf(Missing) EXCEPT !.id = 5, !.type = "s"], [AOf(Missing) EXCEPT !.id = 6, !.type = "s"]>>, <<>>),
     Saying(<<AOf(7)>>, <<>>), Saying(<<AOf(Missing), [BOf(Missing) EXCEPT !.id = 1]>>, <<>>),
     Saying(<<QE(1, Q(4, 0, <<"a">>), Missing, <<QF(1, "text", <<A>>)>>)>>, <<>>),
     Saying(<<QE(1, Q(0, 1, <<"a">>), Missing, <<QF(1, "text", <<A>>)>>)>>, <<>>),
     Saying(<<QE(1, A, Missing, <<QF(1, "text", <<A, A>>)>>)>>, <<>>),
     Saying(<<AOf(Missing)>>, <<1>>), Saying(<<AOf(Missing)>>, <<9>>),
     [Plain EXCEPT !.error = "unavailable"], [Plain EXCEPT !.error = "schema"], [Plain EXCEPT !.bound = FALSE],
     [Plain EXCEPT !.bytes = 5], [Plain EXCEPT !.active = TRUE], [Plain EXCEPT !.parsed = FALSE],
     [Plain EXCEPT !.this = FALSE]}

MCModelCaps ==
    LET good == [known |-> TRUE, local |-> FALSE, restricted |-> FALSE, structured |-> TRUE, input |-> 8] IN
    {good, [good EXCEPT !.known = FALSE], [good EXCEPT !.restricted = TRUE],
     [good EXCEPT !.structured = FALSE], [good EXCEPT !.input = 3]}

-----------------------------
(***************************************************************************)
(* Sessions over one small source, with plans that hold and plans that do  *)
(* not.                                                                    *)
(***************************************************************************)

MCSessionPolicy == [issues |-> 2, threshold |-> 85, samples |-> 2, sample_bytes |-> 4]

APlan(kind, shape) ==
    [kind |-> kind, shape |-> shape, valid |-> TRUE, confidence |-> 90, spans |-> FALSE,
     holes |-> 0, penalty |-> 0, batches |-> <<1, 1>>]
Rows == APlan("tabular", "rows")
Spans == [APlan("document", "spans") EXCEPT !.spans = TRUE]

MCSavedPlans ==
    {Rows, [Rows EXCEPT !.shape = "other"], [Rows EXCEPT !.valid = FALSE],
     Spans, [Spans EXCEPT !.holes = 1], [Spans EXCEPT !.penalty = 20]}

ASetting(mode, base) ==
    [mode |-> mode, request |-> FALSE, sizes |-> <<1, 2, 1, 1>>, document |-> FALSE, base |-> base,
     candidates |-> 1, provider |-> TRUE, kinds |-> {"tabular", "document"}, refs |-> 2]

MCSettings ==
    {ASetting("deterministic", Rows), ASetting("deterministic", NoPlan), ASetting("assisted", Rows),
     ASetting("assisted", NoPlan), ASetting("first", [Rows EXCEPT !.batches = <<1, 0>>]),
     [ASetting("first", NoPlan) EXCEPT !.candidates = 2], [ASetting("assisted", NoPlan) EXCEPT !.provider = FALSE],
     [ASetting("assisted", NoPlan) EXCEPT !.sizes = <<>>], [ASetting("assisted", NoPlan) EXCEPT !.sizes = <<3>>],
     [ASetting("assisted", Rows) EXCEPT !.document = TRUE],
     [ASetting("assisted", NoPlan) EXCEPT !.document = TRUE],
     [ASetting("assisted", Rows) EXCEPT !.document = TRUE, !.kinds = {"tabular"}]}
    \cup {[ASetting("assisted", NoPlan) EXCEPT !.request = TRUE, !.sizes = <<>>]}
    \cup {[ASetting(mode, Rows) EXCEPT !.request = TRUE, !.candidates = c] : mode \in {"deterministic", "first"}, c \in 0..1}

Fails(code) == [calls |-> 1, code |-> code, plan |-> NoPlan]
Gives(plan) == [calls |-> 1, code |-> "", plan |-> plan]
MCProposals ==
    {Fails(code) : code \in {"unsafe", "denied", "schema", "unsupported"}}
    \cup {[Fails("budget") EXCEPT !.calls = 0], Gives(Rows), Gives([Rows EXCEPT !.shape = "other"]),
          Gives([Rows EXCEPT !.valid = FALSE]), Gives([Rows EXCEPT !.confidence = 50]),
          Gives([Rows EXCEPT !.kind = "log"])}

(* What EntitiesAreGrounded says of an extraction holds of these. *)
Extracts(plan, issues, unresolved) ==
    [calls |-> 2, code |-> "", plan |-> plan, issues |-> issues, unresolved |-> unresolved,
     blocks |-> unresolved, agreement |-> 85]
MCExtractions ==
    {Extracts(Spans, <<>>, 0), Extracts(Spans, <<"unresolved">>, 1), Extracts(NoPlan, <<"unresolved">>, 2),
     Extracts(Spans, <<"conflict", "unsafe">>, 1),
     [Extracts(Spans, <<"unresolved">>, 0) EXCEPT !.blocks = 1],
     [Extracts(NoPlan, <<>>, 0) EXCEPT !.code = "request_invalid", !.calls = 1]}

-----------------------------
(***************************************************************************)
(* Small sources of every kind, whole and broken, with what a model may    *)
(* say of them.                                                            *)
(***************************************************************************)

MCPlanLimits == [records |-> 4, columns |-> 3, lines |-> 3]
MCReplayLimits == [batches |-> 3, items |-> 9, bytes |-> 9, depth |-> 2, objects |-> 9, refs |-> 9, structures |-> 2]
MCProposalPolicy ==
    [samples |-> 2, refs |-> 6, candidates |-> 2, kinds |-> {"tabular", "tree", "log", "document"},
     fields |-> 2, entities |-> 2, locales |-> {"en"}, threshold |-> 85, payload |-> 8, output |-> 4,
     plan |-> 3, occurrences |-> 0]

-----------------------------
(* Batches, and the manifest that fits them. *)
Physical(kind, batch, id) == [extraction |-> "x", batch |-> batch, key |-> <<kind, id>>]
Bare(index) ==
    [index |-> index, version |-> "1.1", extraction |-> "x", source |-> "s", parser |-> "p",
     print |-> index, hash |-> index, records |-> 1, refs |-> <<>>, last |-> FALSE, manifest |-> Missing,
     extras |-> FALSE, lines |-> <<>>, blocks |-> <<>>, tables |-> <<>>, trees |-> <<>>,
     size |-> [items |-> 1, bytes |-> 1, depth |-> 1]]
ManifestOf(batches) ==
    [sums |-> [i \in DOMAIN batches |-> SummaryOf(batches[i])], version |-> "1.1", source |-> "s",
     extraction |-> "x", parser |-> "p", producer |-> "p", records |-> Len(batches),
     index |-> FlattenSeq([i \in DOMAIN batches |-> batches[i].refs]), hash |-> 9, print |-> 9]
Whole(batches) ==
    WithManifest([i \in DOMAIN batches |-> [batches[i] EXCEPT !.last = i = Len(batches)]], ManifestOf(batches))

Span(n) == [line_start |-> n, line_end |-> n, column_start |-> Missing, column_end |-> Missing]
LineOf(id, text) == [id |-> id, at |-> Span(id), number |-> id, values |-> <<>>, text |-> text]
InLines(index, lines, refs) ==
    [Bare(index) EXCEPT !.lines = lines, !.refs = [i \in DOMAIN refs |-> Physical("line", index, refs[i])]]
Paragraph(id, words, from) ==
    [id |-> id, text |-> TRUE, values |-> <<>>, lines |-> <<>>, words |-> words, from |-> from,
     to |-> IF from = Missing THEN Missing ELSE from + Len(words) - 1]
InParagraphs(index, blocks, refs) ==
    [Bare(index) EXCEPT !.blocks = blocks, !.refs = [i \in DOMAIN refs |-> Physical("block", index, refs[i])]]

CellAt(id, row) == [id |-> id, row |-> row, column |-> 1, value |-> id, raw |-> <<"t">>]
SegmentOf(index, segment, from, to, last) ==
    [Bare(index) EXCEPT
        !.tables = <<[id |-> 1, cells |-> <<CellAt(index, from)>>, segment |-> segment, row_start |-> from,
                      row_end |-> to, is_last |-> last]>>,
        !.refs = <<Physical("table", index, 1), Physical("cell", index, index)>>]

NodeOf(id, parent, kind, name, order) ==
    [id |-> id, parent |-> parent, kind |-> kind, name |-> name, order |-> order,
     value |-> IF kind = "scalar" THEN id ELSE Missing, raw |-> IF kind = "scalar" THEN <<"t">> ELSE Missing,
     tree |-> Missing, segment |-> Missing, child_start |-> Missing, child_count |-> Missing, is_last |-> Missing]
InNodes(index, nodes) ==
    [Bare(index) EXCEPT !.trees = nodes,
                        !.refs = [i \in DOMAIN nodes |-> Physical("node", index, nodes[i].id)]]
RootPart(index, segment, start, last) ==
    InNodes(index, <<[NodeOf(1, Missing, "array", "", 0) EXCEPT
                         !.tree = 1, !.segment = segment, !.child_start = start, !.child_count = 1, !.is_last = last],
                     NodeOf(2, 1, "scalar", "a", start)>>)

-----------------------------
(* What a model says. *)
Fine(said) == [error |-> "", bound |-> TRUE, bytes |-> 1, active |-> FALSE, parsed |-> TRUE, said |-> said]
Proposes(plan) == [decision |-> "plan", candidates |-> {1}, plan |-> plan]

Picks(kind) == [kind |-> kind, index |-> Missing, offset |-> Missing, path |-> <<>>, source |-> Missing,
                delimiter |-> Missing, target |-> Missing, key |-> Missing]
FieldFrom(name, refs, sel) == [name |-> name, type |-> "string", locale |-> Missing, refs |-> refs, sel |-> sel]
EntityWith(path, records) == [type |-> "t", fields |-> <<1>>, parent |-> 0, path |-> path, records |-> records]
NoRows == [header |-> Missing, start |-> Missing, end |-> Missing, footer |-> Missing]
Draft(kind, root, scope, field, entity) ==
    [kind |-> kind, root |-> root, rows |-> NoRows, repeated |-> <<>>, scope |-> scope, fields |-> <<field>>,
     entities |-> <<entity>>, active |-> FALSE]

Each1(aliases) == [i \in DOMAIN aliases |-> <<aliases[i]>>]
LogDraft(scope) ==
    Draft("log", Missing, scope, FieldFrom(1, <<1>>, Picks("record")), EntityWith(<<>>, Each1(scope)))
Targets(target) == [Picks("document") EXCEPT !.offset = 0, !.target = target]
TextDraft(scope) ==
    Draft("document", Missing, scope, FieldFrom(1, <<1>>, Targets("block_text")), EntityWith(<<>>, Each1(scope)))
TableDraft(end, footer) ==
    [Draft("tabular", 1, <<>>, FieldFrom(1, <<1>>, [Picks("column") EXCEPT !.index = 1]), EntityWith(<<>>, <<>>))
        EXCEPT !.rows = [header |-> 0, start |-> 1, end |-> end, footer |-> footer]]
Key(name, occurrence) == [op |-> "key", name |-> name, occurrence |-> occurrence]
TreeDraft(path, step) ==
    Draft("tree", 1, <<>>, FieldFrom(1, <<1>>, [Picks("tree") EXCEPT !.path = step, !.source = "node_value"]),
          EntityWith(path, <<>>))

(* A good answer, and the ways it may be wrong. *)
Wrong(p) ==
    {Proposes([p EXCEPT !.scope = Append(@, 9)]), Proposes([p EXCEPT !.root = IF @ = Missing THEN 1 ELSE Missing]),
     Proposes([p EXCEPT !.root = 9]), Proposes([p EXCEPT !.fields[1].refs = <<9>>]),
     Proposes([p EXCEPT !.fields[1].locale = "xx"]), Proposes([p EXCEPT !.fields[1].sel.key = 1]),
     Proposes([p EXCEPT !.fields = <<@[1], @[1], @[1]>>]), Proposes([p EXCEPT !.fields = Append(@, @[1])]),
     Proposes([p EXCEPT !.entities[1].path = Append(@, Key("b", 0))]),
     Proposes([p EXCEPT !.entities[1].records = Append(@, <<9>>)]), Proposes([p EXCEPT !.entities[1].parent = 1]),
     Proposes([p EXCEPT !.repeated = <<0>>]), Proposes([p EXCEPT !.active = TRUE]), Proposes([p EXCEPT !.kind = "document"]),
     [Proposes(p) EXCEPT !.candidates = {}], [Proposes(p) EXCEPT !.candidates = {3}],
     [Proposes(p) EXCEPT !.decision = "ambiguous"], [Proposes(p) EXCEPT !.decision = "unsupported"]}

Broken == LET good == Fine(Proposes(LogDraft(<<1>>))) IN
    {[good EXCEPT !.error = "unavailable"], [good EXCEPT !.bound = FALSE], [good EXCEPT !.bytes = 5],
     [good EXCEPT !.active = TRUE], [good EXCEPT !.parsed = FALSE]}

AllAnswers(p) == {Fine(s) : s \in Wrong(p) \cup {Proposes(p)}} \cup Broken
Only(drafts) == {Fine(Proposes(p)) : p \in drafts}

-----------------------------
(* Requests. *)
CandidateOf(kind, confidence, ref) == [kind |-> kind, confidence |-> confidence, evidence |-> <<ref>>, blocked |-> FALSE]
Asks(batches, kind, samples) ==
    LET refs == ManifestOf(batches).index IN
    [mode |-> "llm_first", replay |-> TRUE, current |-> TRUE, fits |-> TRUE, manifest |-> ManifestOf(batches),
     samples |-> samples, evidence |-> [i \in DOMAIN refs |-> RefOfKey(refs[i])],
     candidates |-> <<CandidateOf(kind, 90, RefOfKey(refs[1]))>>]
Take(ref, raw) == {[ref |-> ref, raw |-> raw]}
CaseOf(batches, request, said) == [shown |-> Whole(batches), request |-> request, said |-> said]
Simple(batches, kind, samples, said) == CaseOf(batches, Asks(batches, kind, samples), said)

TwoLines == <<InLines(0, <<LineOf(1, "t"), LineOf(2, "u")>>, <<1, 2>>)>>
Halves == <<InLines(0, <<LineOf(1, "t")>>, <<1>>), InLines(1, <<LineOf(2, "u")>>, <<2>>)>>
Unnamed == <<InLines(0, <<LineOf(1, "t"), LineOf(2, "u")>>, <<1>>)>>
FirstLine == Take(<<"line", 0, 1>>, <<"t">>)
LogAnswers == Only({LogDraft(<<1, 2>>), LogDraft(<<1>>)})

Wrapped(words, from) == <<[TwoLines[1] EXCEPT !.blocks = <<Paragraph(1, words, from)>>]>>

LogCases ==
    {Simple(TwoLines, "log", FirstLine, AllAnswers(LogDraft(<<1, 2>>))),
     Simple(Unnamed, "log", FirstLine, Only({LogDraft(<<1>>)})),
     Simple(Wrapped(<<"t", "u">>, 1), "log", FirstLine, LogAnswers),
     Simple(Wrapped(<<"v">>, Missing), "log", FirstLine, LogAnswers),
     Simple(Wrapped(<<"t", "v">>, 1), "log", FirstLine, LogAnswers)}
      \cup {Simple(batches, "log", FirstLine, LogAnswers) : batches \in
              {Halves, <<Halves[1], [Halves[2] EXCEPT !.tables = SegmentOf(1, 0, 0, 1, TRUE).tables]>>}}

Texts == <<InParagraphs(0, <<Paragraph(1, <<"t">>, Missing), Paragraph(2, <<"u">>, Missing)>>, <<1, 2>>)>>
TextCases ==
    {Simple(Texts, "document", Take(<<"block", 0, 1>>, <<"t">>), AllAnswers(TextDraft(<<1, 2>>)) \cup Only({TextDraft(<<2>>)})),
     Simple(<<[Texts[1] EXCEPT !.refs = <<@[1]>>]>>, "document", Take(<<"block", 0, 1>>, <<"t">>), Only({TextDraft(<<1>>)}))}

Rows2 == <<SegmentOf(0, 0, 0, 1, FALSE), SegmentOf(1, 1, 2, 3, TRUE)>>
TableAnswers == Only({TableDraft(3, Missing), TableDraft(1, Missing), TableDraft(1, 3), TableDraft(3, 3)})
TableCases ==
    {Simple(batches, "tabular", Take(<<"cell", 0, 0>>, <<"t">>), TableAnswers \cup AllAnswers(TableDraft(3, Missing))) : batches \in {Rows2}}
      \cup {Simple(batches, "tabular", Take(<<"cell", 0, 0>>, <<"t">>), TableAnswers) : batches \in
              {<<SegmentOf(0, 0, 0, 3, TRUE)>>,
               <<Rows2[1], [Rows2[2] EXCEPT !.tables[1].id = 2, !.tables[1].segment = 0,
                                            !.refs[1] = Physical("table", 1, 2)]>>,
               <<Rows2[1], [Rows2[2] EXCEPT !.lines = <<LineOf(1, "t")>>]>>,
               <<Rows2[1], [Rows2[2] EXCEPT !.tables[1].row_end = 2, !.tables[1].is_last = FALSE]>>,
               <<Rows2[1], SegmentOf(1, 1, 3, 3, TRUE)>>, <<SegmentOf(0, 1, 0, 1, TRUE)>>}}

Object(names) ==
    <<InNodes(0, <<NodeOf(1, Missing, "object", "", 0)>>
                   \o [i \in DOMAIN names |-> NodeOf(i + 1, 1, "scalar", names[i], i)])>>
NodeSample == Take(<<"node", 0, 2>>, <<"t">>)
TreeCases ==
    {Simple(Object(<<"a">>), "tree", NodeSample,
            AllAnswers(TreeDraft(<<>>, <<Key("a", 0)>>)) \cup Only({TreeDraft(<<Key("a", 0)>>, <<>>), TreeDraft(<<>>, <<Key("c", 0)>>)})),
     Simple(Object(<<"a", "a">>), "tree", NodeSample, Only({TreeDraft(<<>>, <<Key("a", 0)>>)})),
     Simple(<<InNodes(0, <<NodeOf(1, Missing, "object", "", 0), NodeOf(2, 1, "object", "a", 0),
                           NodeOf(3, 2, "object", "a", 0), NodeOf(4, 3, "scalar", "a", 0)>>)>>, "tree",
            Take(<<"node", 0, 4>>, <<"t">>), Only({TreeDraft(<<>>, <<Key("a", 0)>>)}))}
      \cup {Simple(batches, "tree", NodeSample, Only({TreeDraft(<<[op |-> "item", name |-> "", occurrence |-> 0]>>, <<>>)})) :
              batches \in {<<RootPart(0, 0, 0, TRUE)>>, <<RootPart(0, 0, 0, FALSE), RootPart(1, 1, 1, TRUE)>>,
                           <<RootPart(0, 0, 0, FALSE), RootPart(1, 1, 2, TRUE)>>}}

(* What else may be asked of two lines. *)
Others(r) ==
    {[r EXCEPT !.fits = FALSE], [r EXCEPT !.mode = "deterministic"], [r EXCEPT !.replay = FALSE],
     [r EXCEPT !.current = FALSE], [r EXCEPT !.samples = Take(<<"line", 0, 1>>, <<"v">>)],
     [r EXCEPT !.samples = Take(<<"line", 0, 2>>, <<"u">>)],
     [r EXCEPT !.samples = {[ref |-> <<"line", 0, n>>, raw |-> <<"t">>] : n \in 1..3}],
     [r EXCEPT !.samples = Take(<<"line", 1, 2>>, <<"u">>)], [r EXCEPT !.candidates = <<>>],
     [r EXCEPT !.candidates = <<>>, !.evidence = <<>>, !.samples = Take(<<"line", 0, 1>>, <<"t">>)],
     [r EXCEPT !.candidates[1].confidence = 50], [r EXCEPT !.candidates[1].blocked = TRUE],
     [r EXCEPT !.candidates = Append(@, CandidateOf("log", 70, <<"line", 0, 2>>))],
     [r EXCEPT !.candidates = <<CandidateOf("tabular", 70, <<"line", 0, 1>>)>> \o @]}
OtherCases ==
    {CaseOf(TwoLines, request, LogAnswers \cup {Fine([Proposes(LogDraft(<<1, 2>>)) EXCEPT !.decision = "ambiguous"])}) :
        request \in Others(Asks(TwoLines, "log", FirstLine))}

(* Replays that are not the source of the request. *)
ReplayCases ==
    {[Simple(TwoLines, "log", FirstLine, LogAnswers) EXCEPT !.shown = shown] : shown \in
        {Whole(Unnamed), Whole(Halves), <<Halves[1]>>, <<>>, Whole(TwoLines) \o Whole(TwoLines),
         <<[Whole(TwoLines)[1] EXCEPT !.hash = 5]>>, <<[Whole(TwoLines)[1] EXCEPT !.size.items = 10]>>,
         <<[Whole(TwoLines)[1] EXCEPT !.size.depth = 65]>>, <<[Whole(TwoLines)[1] EXCEPT !.manifest.hash = 5]>>}}
      \cup {Simple(<<InLines(0, <<LineOf(1, "active")>>, <<1>>)>>, "log", Take(<<"line", 0, 1>>, <<"active">>), LogAnswers)}

MCCases == LogCases \cup TextCases \cup TableCases \cup TreeCases \cup OtherCases \cup ReplayCases

MCProposalScans == {"allow", "review", "bad"}
MCProposalCaps ==
    LET good == [known |-> TRUE, local |-> FALSE, restricted |-> FALSE, structured |-> TRUE, input |-> 9] IN
    {good, [good EXCEPT !.known = FALSE], [good EXCEPT !.structured = FALSE], [good EXCEPT !.input = 1]}

-----------------------------
CONSTANTS MaskJobs

VARIABLE part

MCReplies ==
    LET good == [status |-> 200, error |-> "", bounded |-> TRUE, envelope |-> TRUE,
                 finish |-> "stop", usage |-> TRUE, schema |-> TRUE]
    IN  {good, [good EXCEPT !.status = 429], [good EXCEPT !.schema = FALSE]}

MCSpans == {<<s, e>> : s \in 0..3, e \in 1..4}
MCFound == {f \in SUBSET {p \in MCSpans : p[1] < p[2]} : Cardinality(f) \in 1..3}
MCMaskJobs == {[text |-> <<"a", "b", "a", "b">>, found |-> f] : f \in MCFound}
MCJobs == {[text |-> <<"a", "b", "a">>, found |-> {<<0, 1>>, <<2, 3>>}],
           [text |-> <<"a", "b", "b">>, found |-> {<<0, 2>>, <<1, 3>>}]}

securityVars ==
    <<part, guardedVars, vaultVars, providerVars, documentVars, semanticVars, proposalVars>>

FirstGuarded == CHOOSE s \in Setups : s.tasks = {}

(* The parts share nothing, so their state spaces add. *)
MCSecurityInit ==
    /\ part \in {"session", "vault", "mask", "provider", "document", "parse", "proposal"}
    /\ GuardedInit /\ VaultInit /\ ProviderInit
    /\ part # "session" => setup = FirstGuarded
    /\ part # "vault" => cipher = CHOOSE k \in Keys : TRUE
    /\ IF part = "document" THEN DocumentInit
       ELSE /\ document = Missing /\ chunks = Missing /\ found = Missing /\ log = <<>>
            /\ extracting = "unread" /\ extracted = Missing
    /\ IF part = "parse" THEN SemanticInit
       ELSE /\ setting = Missing /\ session = NewSession /\ op = Idle
            /\ output = [left |-> <<>>, given |-> <<>>]
            /\ spent = [calls |-> 0, asked |-> 0, unsafe |-> FALSE] /\ answer = "none"
    /\ IF part = "proposal" THEN ProposalInit
       ELSE /\ matter = Missing /\ reader = Missing /\ gathered = Missing
            /\ phase = "new" /\ drafted = Missing /\ proposed = NoOutcome

MaskOnce == issued = {} /\ \E job \in MaskJobs, run \in VaultRuns, p \in Writers :
                              PutMap(job, run, p, 1)

MCSecurityNext ==
    /\ part' = part
    /\ \/ /\ UNCHANGED <<documentVars, semanticVars, proposalVars>>
          /\ \/ part = "session" /\ GuardedNext /\ UNCHANGED <<vaultVars, providerVars>>
             \/ part = "vault" /\ VaultNext /\ UNCHANGED <<guardedVars, providerVars>>
             \/ part = "mask" /\ MaskOnce /\ UNCHANGED <<guardedVars, providerVars>>
             \/ part = "provider" /\ ProviderNext /\ UNCHANGED <<guardedVars, vaultVars>>
       \/ /\ UNCHANGED <<guardedVars, vaultVars, providerVars>>
          /\ \/ part = "document" /\ DocumentNext /\ UNCHANGED <<semanticVars, proposalVars>>
             \/ part = "parse" /\ SemanticNext /\ UNCHANGED <<documentVars, proposalVars>>
             \/ part = "proposal" /\ ProposalNext /\ UNCHANGED <<documentVars, semanticVars>>

MCSecuritySpec == MCSecurityInit /\ [][MCSecurityNext]_securityVars
=============================================================================
