----------------------------- MODULE MCPlanning -----------------------------
(***************************************************************************)
(* Small sources of every family, whole and cut in two.                    *)
(***************************************************************************)
EXTENDS Planning, PlanRun
LOCAL INSTANCE SequencesExt
LOCAL INSTANCE TLC

-----------------------------
(***************************************************************************)
(* Plans of every kind over small sources, cut into batches in every way.  *)
(***************************************************************************)

MCPlanLimits == [records |-> 4, columns |-> 3, lines |-> 3]
MCRunLimits ==
    [items |-> 9, batches |-> 2, bytes |-> 5, per_batch |-> 2, envelope |-> 1,
     sources |-> 3, heavy |-> 36, objects |-> 36, units |-> 14]

(* c[i] is the batch of the i-th part: at most three batches. *)
Cuts(n) == {c \in [1..n -> 0..2] : c[1] = 0 /\ \A i \in 2..n : c[i] - c[i - 1] \in {0, 1}}
PartsIn(c, i) == {n \in DOMAIN c : c[n] = i}
Held(parts, c, i) == [n \in 1..Cardinality(PartsIn(c, i)) |->
                        parts[n + Cardinality({m \in DOMAIN c : c[m] < i})]]

EmptyBatch(i) == [index |-> i, lineage |-> 1, print |-> i, claims |-> i,
                  tables |-> <<>>, objects |-> <<>>, nodes |-> <<>>]
BatchesOf(c, With(_)) == [k \in 1..(c[Len(c)] + 1) |-> With(k - 1)]

Fld(name, type, refs, sel) == [name |-> name, type |-> type, refs |-> refs, sel |-> sel, rules |-> FALSE]
Ent(fields, parent, group) ==
    [type |-> "t", fields |-> fields, identity |-> <<>>, parent |-> parent, group |-> group]
Common(kind, version, fields, entities, evidence) ==
    [kind |-> kind, version |-> version, fields |-> fields, entities |-> entities,
     evidence |-> evidence, rules |-> FALSE]
PlanWith(common, own) == [k \in DOMAIN common \cup DOMAIN own |-> IF k \in DOMAIN own THEN own[k] ELSE common[k]]

-----------------------------
(* A table of a header and four rows: whole; without a cell; with another   *)
(* header in its middle; with bytes.                                        *)
Cells(a, b) == (1 :> a) @@ (2 :> b)
Heading == Cells(<<"h">>, <<"k">>)
Body(x) == <<Heading, Cells(<<"a">>, <<"dec">>), x, Heading, Cells(<<"c">>, <<"dec">>)>>
MCRowSets == {[n \in 1..5 |-> [at |-> n - 1, cells |-> Body(x)[n]]] :
                x \in {Cells(<<"b">>, <<"dec">>), 1 :> <<"b">>, Cells(<<"b">>, <<"bytes">>)}}

TableBatch(rows, c, i) == [EmptyBatch(i) EXCEPT !.tables = <<[id |-> 1, rows |-> Held(rows, c, i)]>>]

TablePlan(c, from, to, footer, repeated, type) ==
    PlanWith(Common("tabular", 0,
                    <<Fld("n", "text", << <<"table", 0, 1>> >>, [kind |-> "column", column |-> 1]),
                      Fld("m", type, << <<"cell", c[2], 12>> >>, [kind |-> "column", column |-> 2])>>,
                    <<Ent(<<1, 2>>, 0, [kind |-> "rows", rows |-> 1])>>, << <<"table", 0, 1>> >>),
             [table |-> <<"table", 0, 1>>, header |-> 0, start |-> from, end |-> to, footer |-> footer,
              repeated |-> repeated])

TableJobs ==
    {[plan |-> TablePlan(c, from, to, footer, repeated, type), objects |-> "line",
      batches |-> BatchesOf(c, LAMBDA i : TableBatch(rows, c, i))] :
        rows \in MCRowSets, c \in Cuts(5), from \in {0, 1}, to \in {Missing, 2, 4},
        footer \in {Missing, 3}, repeated \in {<<>>, <<3>>}, type \in {"text", "money"}}

-----------------------------
(* Four lines or blocks. *)
ObjectBatch(objects, c, i) == [EmptyBatch(i) EXCEPT !.objects = Held(objects, c, i)]
Objects(texts) ==
    [n \in DOMAIN texts |-> [id |-> n, text |-> texts[n], lines |-> IF texts[n] = Missing THEN <<<<"p">>, <<"q">>>> ELSE <<>>]]
ScopeOf(kind, c, ids) == [n \in DOMAIN ids |-> <<kind, c[ids[n]], ids[n]>>]

ObjectJob(kind, c, texts, plan) ==
    [plan |-> plan, objects |-> kind, batches |-> BatchesOf(c, LAMBDA i : ObjectBatch(Objects(texts), c, i))]

TokenOn(line, token) == [kind |-> "token", line |-> line, token |-> token]
LineGroup(strategy, lines) ==
    [kind |-> "lines", strategy |-> strategy, start |-> "every_line", lines |-> lines]
LineGroups == {LineGroup("one_line", Missing), LineGroup("fixed_lines", 2), LineGroup("blank_line", Missing)}

LogPlan(c, ids, fields, entities) ==
    PlanWith(Common("log", 1, fields, entities, <<ScopeOf("line", c, ids)[1]>>),
             [scope |-> ScopeOf("line", c, ids), most |-> 3])

LineField(c, ids, name, sel) == Fld(name, "text", <<ScopeOf("line", c, ids)[1]>>, sel)

LogJobs ==
    {ObjectJob("line", c, texts,
               LogPlan(c, ids, <<LineField(c, ids, "n", sel), LineField(c, ids, "m", [kind |-> "record"])>>,
                       <<Ent(<<1, 2>>, 0, g)>>)) :
        c \in Cuts(4), ids \in {<<1, 2, 3, 4>>, <<1, 2>>, <<2, 1>>, <<1, 3, 4>>},
        texts \in {<<<<"a">>, <<"b", "c">>, <<>>, <<"d">>>>, <<<<"a">>, <<"b">>, <<"c">>, [n \in 1..5 |-> "d"]>>},
        sel \in {TokenOn(0, 0), TokenOn(1, 0), TokenOn(1, 1)}, g \in LineGroups}

Explicit(c, kind, records) == [kind |-> "explicit", records |-> [n \in DOMAIN records |-> ScopeOf(kind, c, records[n])]]

ExplicitJobs ==
    {ObjectJob("line", c, <<<<"a">>, <<"b">>, <<"c">>, <<"d">>>>,
               LogPlan(c, <<1, 2, 3, 4>>,
                       <<LineField(c, <<1>>, "n", TokenOn(0, 0)),
                         LineField(c, <<x[2][1][1]>>, "m", TokenOn(line, 0))>>,
                       <<Ent(<<1>>, 0, Explicit(c, "line", x[1])), Ent(<<2>>, 0, Explicit(c, "line", x[2]))>>)) :
        c \in Cuts(4), line \in {0, 1},
        x \in {<<<<<<1, 2>>>>, <<<<3, 4>>>>>>, <<<<<<1>>, <<4>>>>, <<<<2, 3>>>>>>, <<<<<<1, 3>>>>, <<<<2, 4>>>>>>,
               <<<<<<1, 2>>>>, <<<<2, 3>>, <<4>>>>>>, <<<<<<1>>>>, <<<<3, 2>>, <<4>>>>>>}}

Target(target, block, key) ==
    [kind |-> "target", target |-> target, column |-> Missing, block |-> block, key |-> key]

BlockJobs ==
    {ObjectJob("block", c, texts,
               PlanWith(Common("document", 0,
                               <<Fld("n", "text", <<ScopeOf("block", c, <<1>>)[1]>>, sel)>>,
                               <<Ent(<<1>>, 0, [kind |-> "blocks", strategy |-> "contiguous_blocks", most |-> 2])>>,
                               ScopeOf("block", c, <<1>>)),
                        [scope |-> ScopeOf("block", c, <<1, 2, 3, 4>>)])) :
        c \in Cuts(4),
        texts \in {<<<<"k", ":", "v">>, <<"x">>, <<"k", ":", "w">>, Missing>>,
                   <<<<"k", ":", "v">>, <<"x">>, <<"l", ":">>, <<"y">>>>},
        sel \in {Target("block_text", 1, Missing), Target("key", 0, Missing), Target("value", 0, <<"k">>),
                 Target("block_text", 2, Missing)}}

-----------------------------
(* A document of three blocks, quoted for two records; entity 2 may stand   *)
(* before its parent.                                                       *)
Span(c, n, from, to, quote) == [ref |-> <<"block", c[n], n>>, start |-> from, end |-> to, quote |-> quote]
Quotes3(c, quote) == <<Span(c, 1, 0, 1, <<"a">>), Span(c, 2, 0, 2, <<"b", "c">>), Span(c, 3, 1, 2, quote)>>

SpanJobsOf(typings) ==
    {ObjectJob("block", c, <<<<"a">>, <<"b", "c">>, <<"d", "e">>>>,
        PlanWith(Common("document", 2,
            [n \in 1..3 |-> Fld(IF n = 3 THEN "n" ELSE "m", types[n], <<Quotes3(c, quote)[n].ref>>,
                                [kind |-> "spans", spans |-> <<Quotes3(c, quote)[n]>>])],
            [n \in 1..3 |-> Ent(<<n>>, parents[n], [kind |-> "spans", record |-> records[n], anchor |-> Quotes3(c, quote)[1]])],
            ScopeOf("block", c, <<1>>)),
            [scope |-> ScopeOf("block", c, <<1, 2, 3>>)])) :
        c \in Cuts(3), quote \in {<<"e">>, <<"d">>}, records \in {<<1, 1, 2>>, <<1, 1, 1>>},
        parents \in {<<0, 0, 0>>, <<2, 0, 0>>, <<2, 3, 0>>, <<2, 1, 0>>},
        types \in typings}

(* The first two fields have one name: of one type, or of two. *)
SpanJobs == SpanJobsOf({<<"text", "text", "text">>, <<"text", "text", "date">>})
DisputedJobs == SpanJobsOf({<<"text", "date", "text">>})

-----------------------------
(* Trees: an array of objects, and an object that has a key twice.  The     *)
(* root is repeated in every batch.                                         *)
Node(id, parent, name, kind, value) ==
    [id |-> id, parent |-> parent, name |-> name, kind |-> kind, value |-> value, in |-> 0,
     segment |-> Missing, last |-> Missing]

Subtrees(kind) ==
    IF kind = "array"
    THEN <<<<Node(2, 1, "i", "object", Missing), Node(3, 2, "x", "scalar", <<"p">>)>>,
           <<Node(4, 1, "i", "object", Missing), Node(5, 4, "x", "scalar", <<"q">>),
             Node(6, 4, "y", "array", Missing), Node(7, 6, "i", "scalar", <<"s">>)>>,
           <<Node(8, 1, "i", "object", Missing), Node(9, 8, "x", "scalar", <<"r">>), Node(10, 8, "y", "array", Missing)>>>>
    ELSE <<<<Node(2, 1, "x", "scalar", <<"p">>)>>,
           <<Node(4, 1, "y", "array", Missing), Node(5, 4, "i", "scalar", <<"q">>)>>,
           <<Node(8, 1, "x", "scalar", <<"r">>)>>>>

RootOn(kind, c, i) ==
    [Node(1, 0, "r", kind, Missing) EXCEPT !.segment = i, !.last = (i = c[Len(c)])]

TreeBatch(kind, c, i) ==
    [EmptyBatch(i) EXCEPT !.nodes = <<RootOn(kind, c, i)>> \o FlattenSeq(Held(Subtrees(kind), c, i))]

Item == [op |-> "item", name |-> "", occurrence |-> 0]
Key(name, n) == [op |-> "key", name |-> name, occurrence |-> n]
Nodes(path, steps) == [kind |-> "nodes", path |-> path, steps |-> steps, descendants |-> FALSE]
Path(path, steps, from) == [kind |-> "path", path |-> path, steps |-> steps, source |-> from]

TreePlan(path, steps, fields, entities) ==
    PlanWith(Common("tree", 1, fields, entities, << <<"node", 0, 1>> >>),
             [root |-> <<"node", 0, 1>>, path |-> path, steps |-> steps])

NodeField1(sel) == Fld("n", "text", << <<"node", 0, 1>> >>, sel)

(* One entity for the nodes at some path; then one with another below it. *)
TreePlans ==
    {TreePlan(p[1], p[2], <<NodeField1(sel)>>, <<Ent(<<1>>, 0, Nodes(p[1], p[2]))>>) :
        p \in {<<<<>>, <<Item>>>>, <<<<>>, <<Key("x", 0)>>>>, <<<<>>, <<Key("x", 1)>>>>, <<<<"x">>, <<>>>>,
               <<<<>>, <<Key("y", 0), Item>>>>, <<<<>>, <<>>>>, <<<<>>, <<Item, Key("y", 0), Item>>>>},
        sel \in {Path(<<>>, <<>>, "value"), Path(<<>>, <<>>, "name"), Path(<<"x">>, <<>>, "value"),
                 Path(<<>>, <<Key("x", 0)>>, "value"), Path(<<>>, <<Key("x", 1)>>, "value")}}
    \cup {TreePlan(<<>>, <<>>, <<NodeField1(Path(<<>>, <<>>, "name")), Fld("m", "text", << <<"node", 0, 1>> >>, Path(<<>>, <<>>, from))>>,
                   <<Ent(<<1>>, 0, Nodes(<<>>, <<>>)), Ent(<<2>>, 1, Nodes(<<>>, below))>>) :
            below \in {<<Item>>, <<Key("y", 0), Item>>, <<Key("x", 1)>>}, from \in {"name", "value"}}
    \cup {TreePlan(<<>>, <<Item>>, <<NodeField1(Path(<<>>, <<Key("x", 0)>>, "value")),
                                     Fld("m", "text", << <<"node", 0, 1>> >>, Path(<<>>, <<>>, "value"))>>,
                   <<Ent(<<1>>, 0, Nodes(<<>>, <<Item>>)), Ent(<<2>>, 1, Nodes(<<>>, <<Item, Key("y", 0), Item>>))>>)}

TreeJobs ==
    {[plan |-> plan, objects |-> "line", batches |-> BatchesOf(c, LAMBDA i : TreeBatch(kind, c, i))] :
        plan \in TreePlans, c \in Cuts(3), kind \in {"array", "object"}}

MCJobs == TableJobs \cup LogJobs \cup ExplicitJobs \cup BlockJobs \cup SpanJobs \cup TreeJobs

-----------------------------
MCSampleLimits == [items |-> 10, bytes |-> 32, tail |-> 1, chars |-> 4, observations |-> 16,
                   candidates |-> 6, patterns |-> 3, plan |-> 14]

PartOf(tables, nodes, lines, blocks) == [tables |-> tables, nodes |-> nodes, lines |-> lines, blocks |-> blocks]
OnlyTables(tables) == PartOf(tables, <<>>, <<>>, <<>>)
WholeIn(batches) == [batches |-> batches, hidden |-> {}, legacy |-> FALSE]
InTwo(n) == {c \in Cuts(n) : c[n] <= 1}

-----------------------------
(* A table: a header, rows that fit or do not, the header again, a total. *)
Row2(a, b) == (0 :> a) @@ (1 :> b)
Titles == Row2(<<"h">>, <<"k">>)
MCRows == {Row2(<<"a">>, <<"1">>), Row2(<<"b">>, <<"2">>), Row2(<<"a">>, <<"b">>), 0 :> <<"a">>, Titles,
           Row2(<<"total">>, <<"3">>), Row2(<<" ">>, <<" ">>)}

RowsAt(cells) == [n \in DOMAIN cells |-> [at |-> n - 1, cells |-> cells[n]]]
TableWith(id, rows) == [id |-> id, sheet |-> "s", rows |-> rows]

TableCut(cells, c) ==
    WholeIn(BatchesOf(c, LAMBDA i : OnlyTables(<<TableWith(1, Held(RowsAt(cells), c, i))>>)))

TableSources ==
    {TableCut(<<Titles, x, y, z>>, <<0, 0, 1, 1>>) : x, y, z \in MCRows}
    \cup {TableCut(<<Row2(<<"a">>, <<"1">>), Titles, x, y>>, <<0, 0, 0, 0>>) : x, y \in MCRows}
    \cup {TableCut([n \in 1..k |-> IF n = 1 THEN Titles ELSE x], [n \in 1..k |-> IF n < 6 THEN 0 ELSE 1]) :
             k \in 8..12, x \in {Row2(<<"a">>, <<"1">>), 0 :> <<"1">>}}

-----------------------------
(* A tree: what stands below its root. *)
Leaf(id, parent, name) == Node(id, parent, name, "scalar", <<"p">>)
Inner(id, parent, name, kind) == Node(id, parent, name, kind, Missing)
Members2 ==
    {<<Leaf(2, 1, "x")>>, <<Inner(2, 1, "x", "object"), Leaf(3, 2, "y")>>,
     <<Inner(2, 1, "x", "array"), Leaf(3, 2, "i"), Leaf(4, 2, "i")>>,
     <<Inner(2, 1, "x", "array"), Inner(3, 2, "i", "object"), Leaf(4, 3, "y")>>,
     <<Inner(2, 1, "x", "object"), Inner(3, 2, "y", "array"), Leaf(4, 3, "i")>>,
     <<Inner(2, 1, "x", "array")>>}

Moved(nodes, by) ==
    [n \in DOMAIN nodes |->
        [nodes[n] EXCEPT !.id = @ + by, !.parent = IF @ = 1 THEN 1 ELSE @ + by,
                         !.name = IF nodes[n].parent = 1 /\ by > 3 THEN "z" ELSE @]]

RootNode(kind, i, last) == [Inner(1, 0, "r", kind) EXCEPT !.segment = i, !.last = last]

TreeCut(kind, parts, c) ==
    WholeIn(BatchesOf(c, LAMBDA i :
        PartOf(<<>>, <<RootNode(kind, i, i = c[Len(c)])>> \o FlattenSeq(Held(parts, c, i)), <<>>, <<>>)))

TreeSources ==
    {TreeCut(kind, <<x, Moved(y, 3)>>, c) : kind \in {"object", "array"}, x, y \in Members2, c \in InTwo(2)}
    \cup {TreeCut(kind, <<x, Moved(y, 5)>>, <<0, 1>>) : kind \in {"object"}, x, y \in Members2}
    \cup {WholeIn(<<PartOf(<<>>, <<Leaf(1, 0, "r")>>, <<>>, <<>>)>>),
          WholeIn(<<PartOf(<<>>, <<Inner(1, 0, "r", "element"), Leaf(2, 1, "x")>>, <<>>, <<>>)>>),
          WholeIn(<<PartOf(<<>>, <<Inner(1, 0, "r", "object"), Leaf(2, 1, "x"), Inner(3, 0, "r", "object")>>, <<>>, <<>>)>>),
          WholeIn(<<PartOf(<<>>, <<Inner(1, 0, "r", "object"), Leaf(2, 9, "x")>>, <<>>, <<>>)>>)}

-----------------------------
(* Lines and blocks. *)
MCLineTexts == {<<"ts", "a">>, <<"INFO", "b">>, <<" ", "x">>, <<>>, <<"a">>}
LinesOf(texts) == [n \in DOMAIN texts |-> [id |-> n, text |-> texts[n], ending |-> <<"nl">>]]

LineSources ==
    {WholeIn(BatchesOf(c, LAMBDA i : PartOf(<<>>, <<>>, Held(LinesOf(<<w, x, y, z>>), c, i), <<>>))) :
        w \in {<<"ts", "a">>, <<" ", "x">>}, x, y, z \in MCLineTexts, c \in {<<0, 0, 1, 1>>}}
    \cup {WholeIn(<<PartOf(<<>>, <<>>, LinesOf(<<<<"ts", "a">>, x, <<"ts", y>>, z>>), <<>>)>>) :
             x, z \in {<<" ", "x">>, <<" ", "1">>, <<>>, <<"ts", "a">>, <<"k=v">>}, y \in {"a", "b"}}
    \cup {WholeIn(<<PartOf(<<>>, <<>>, LinesOf([n \in 1..k |-> <<IF n = 2 THEN "INFO" ELSE "1", ToString(n)>>]), <<>>)>>) :
             k \in 2..5}

BlockOf(n, kind, text) ==
    [id |-> n, kind |-> kind, text |-> text, from |-> Missing, to |-> Missing, sheet |-> Missing, merged |-> FALSE]
BlockText(kind) == CASE kind = "heading" -> <<"t">> [] kind = "paragraph" -> <<"a">>
                     [] kind = "list_item" -> <<"k", ":", "v">> [] kind = "metadata" -> <<"m">>
BlocksIn(kinds) == [n \in DOMAIN kinds |-> BlockOf(n, kinds[n], BlockText(kinds[n]))]

BlockCut(blocks, c) == WholeIn(BatchesOf(c, LAMBDA i : PartOf(<<>>, <<>>, <<>>, Held(blocks, c, i))))

BlockSources ==
    {BlockCut(BlocksIn(kinds), c) :
        kinds \in [1..4 -> {"heading", "paragraph", "list_item", "metadata"}], c \in {<<0, 0, 1, 1>>}}
    \cup {BlockCut(<<BlockOf(1, "heading", <<"t">>), BlockOf(2, "paragraph", Missing)>>, <<0, 0>>),
          BlockCut(<<BlockOf(1, "heading", <<"a", "b", "c", "d", "e">>), BlockOf(2, "paragraph", <<"a">>)>>, <<0, 0>>)}
    \cup {BlockCut([n \in 1..7 |-> BlockOf(n, kinds[n], <<"k", ":", "v">>)], [n \in 1..7 |-> 0]) :
             kinds \in {<<"paragraph", "list_item", "code", "quote", "caption", "table", "figure">>}}
    \cup {BlockCut(<<BlockOf(1, "heading", <<"t">>), BlockOf(2, kind, text), BlockOf(3, "paragraph", text),
                     BlockOf(4, "heading", <<"t">>), BlockOf(5, kind, <<"a">>), BlockOf(6, "paragraph", <<"a">>)>>,
                   <<0, 0, 0, 0, cut, cut>>) :
             kind \in {"metadata", "paragraph"}, text \in {<<"a">>, Missing}, cut \in {0, 1}}

-----------------------------
(* Several families at once, and what the index leaves out. *)
LinesAndBlock(text, from, to) ==
    WholeIn(<<PartOf(<<>>, <<>>, LinesOf(<<<<"ts", "a">>, <<"ts", "b">>>>),
                   <<[BlockOf(9, "paragraph", text) EXCEPT !.from = from, !.to = to]>>)>>)

MixedSources ==
    {LinesAndBlock(x[1], x[2], x[3]) :
        x \in {<<<<"ts", "a", "nl">>, 1, 1>>, <<<<"ts", "a">>, 1, 1>>, <<<<"ts", "a", "nl">>, 1, 2>>, <<<<"z">>, 3, 3>>}}
    \cup {WholeIn(<<PartOf(<<TableWith(1, RowsAt(<<Titles, Row2(<<"a">>, <<"1">>)>>)),
                           TableWith(2, RowsAt(<<Titles, x>>))>>, <<>>, <<>>, blocks)>>) :
             x \in {Row2(<<"b">>, <<"2">>), Titles},
             blocks \in {<<>>, <<[BlockOf(9, "metadata", <<"m">>) EXCEPT !.sheet = "s", !.merged = TRUE]>>}}
    \cup {WholeIn(<<OnlyTables([n \in 1..7 |-> TableWith(n, RowsAt(<<Titles, Row2(<<"a">>, <<"1">>)>>))])>>)}
    \cup {[batches |-> <<OnlyTables(<<TableWith(1, RowsAt(<<Titles, Row2(<<"a">>, <<"1">>), Row2(<<"b">>, <<"2">>)>>))>>)>>,
           hidden |-> hidden, legacy |-> legacy] :
             hidden \in {{}, {<<"table", 0, 1>>}}, legacy \in BOOLEAN}

NoSource == WholeIn(<<>>)

MCSources == TableSources \cup TreeSources \cup LineSources \cup BlockSources \cup MixedSources

(* Plans that were made elsewhere: nothing is sampled. *)
FollowSpec ==
    /\ PlanRunInit /\ physical = NoSource /\ samples = NewSamples /\ analysis = Missing
    /\ [][PlanRunNext /\ UNCHANGED planningVars]_<<planningVars, planVars>>
=============================================================================
